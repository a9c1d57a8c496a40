----------------------------- MODULE ConfFiles -----------------------------
(***************************************************************************)
(* The files of the configuration: how menuconfig and silentoldconfig      *)
(* (package/config/confdata.c, conf.c) replace .config, auto.conf, its     *)
(* headers and the empty file of each symbol that changed, when `make'     *)
(* runs silentoldconfig (Makefile), and the one consumer of the empty      *)
(* files, the stamp of the final gcc (toolchain/gcc/gcc-uclibc-4.x.mk).    *)
(*                                                                         *)
(* A file is the function of the values it lists; NoFile lists none.  One  *)
(* program runs at a time and may die between any two system calls that    *)
(* others can see; temporary files are named apart or written again, so    *)
(* what dies with them is not modelled.                                    *)
(***************************************************************************)
EXTENDS Integers, Sequences

CONSTANTS
  Sym,      \* symbols of which gcc has the empty files as prerequisites
            \* (the wildcards of gcc-uclibc-4.x.mk, 80 to 92)
  New,      \* those that a newer Buildroot has and an older one has not
  MaxEdits, \* bound on the configurations the user saves
  MaxStops  \* bound on crashes

Val == {"n", "y"}

\* Any Buildroot has some of these symbols.
ASSUME ConfAssumption ==
  /\ New \subseteq Sym /\ New # Sym
  /\ MaxEdits \in Nat /\ MaxStops \in Nat

VARIABLES
  known,   \* the symbols of this Buildroot
  conf,    \* .config
  old,     \* .config.old
  auto,    \* auto.conf
  fresh,   \* auto.conf is newer than .config
  header,  \* autoconf.h
  tristate,
  empty,   \* empty[s]: the file of s, "none", "old" or "new"(er than the stamp)
  gcc,     \* what the final gcc was configured with
  pc,      \* what the running program does next
  then,    \* and after it has replaced .config
  vals,    \* values the program has in memory
  todo,    \* symbols whose file silentoldconfig has yet to consider
  used,    \* values the running make included,
  seen,    \* and the files its wildcards found when it read the makefiles
  saved,   \* the configuration that was saved last
  quiet,   \* runs that ended well since .config changed, up to two
  edits, stops

disk  == <<conf, old, auto, fresh, header, tristate, empty, gcc>>
mem   == <<pc, then, vals, todo, used, seen>>
ghost == <<known, saved, quiet, edits, stops>>
vars  == <<disk, mem, ghost>>

NoFile == [s \in {} |-> "n"]

\* A symbol that is not listed is off.
Full(c) == [s \in Sym |-> IF s \in DOMAIN c THEN c[s] ELSE "n"]

Init ==
  /\ known = Sym \ New
  /\ conf = NoFile /\ old = NoFile /\ auto = NoFile
  /\ fresh = FALSE
  /\ header = NoFile /\ tristate = NoFile
  /\ empty = [s \in Sym |-> "none"]
  /\ gcc = NoFile
  /\ pc = "idle" /\ then = "idle" /\ vals = NoFile /\ todo = {}
  /\ used = Full(NoFile) /\ seen = {}
  /\ saved = NoFile /\ quiet = 0 /\ edits = 0 /\ stops = 0

-----------------------------------------------------------------------------
(* conf_write *)

\* The user leaves menuconfig and saves; .tmpconfig.<pid> is written.
Save(v) ==
  /\ pc = "idle" /\ edits < MaxEdits
  /\ edits' = edits + 1
  /\ vals' = v /\ pc' = "rename .old" /\ then' = "idle"
  /\ UNCHANGED <<disk, todo, used, seen, known, saved, quiet, stops>>

\* Mutant: .config makes room for the new file without a backup.
RemoveOld ==
  /\ pc = "rename .old"
  /\ pc' = "rename .config"
  /\ conf' = NoFile
  /\ UNCHANGED <<old, auto, fresh, header, tristate, empty, gcc, then, vals, todo, used, seen, ghost>>

\* rename .config to .config.old; that it may not exist is not looked at.
RenameOld ==
  /\ pc = "rename .old"
  /\ pc' = "rename .config"
  /\ old' = IF conf = NoFile THEN old ELSE conf
  /\ conf' = NoFile
  /\ UNCHANGED <<auto, fresh, header, tristate, empty, gcc, then, vals, todo, used, seen, ghost>>

RenameConfig ==
  /\ pc = "rename .config"
  /\ conf' = vals /\ fresh' = FALSE
  /\ pc' = then /\ saved' = vals /\ quiet' = 0
  /\ UNCHANGED <<old, auto, header, tristate, empty, gcc, then, vals, todo, used, seen, known, edits, stops>>

-----------------------------------------------------------------------------
(* make: the makefiles, then `prepare' *)

\* The makefiles are read: .config is included and the wildcards are expanded.
Start ==
  /\ pc = "idle" /\ conf # NoFile
  /\ used' = Full(conf)
  /\ seen' = {s \in Sym : empty[s] # "none"}
  /\ pc' = IF auto # NoFile /\ fresh THEN "gcc" ELSE "read"
  /\ UNCHANGED <<disk, then, vals, todo, ghost>>

\* Mutant: what .config does not list is left out.
ReadListed(v) ==
  /\ pc = "read"
  /\ vals' = conf
  /\ todo' = known /\ pc' = "split" /\ then' = "split"
  /\ UNCHANGED <<disk, used, seen, ghost>>

\* conf_read, check_conf: symbols that .config does not list take a default or
\* what the user answers; .config is written again when there are any.
Read(v) ==
  /\ pc = "read"
  /\ \A s \in DOMAIN conf : v[s] = conf[s]
  /\ vals' = v
  /\ todo' = known
  /\ pc' = IF DOMAIN conf = known THEN "split" ELSE "rename .old"
  /\ then' = "split"
  /\ UNCHANGED <<disk, used, seen, ghost>>

-----------------------------------------------------------------------------
(* conf_write_autoconf *)

\* Mutant: auto.conf first.
RenamesAutoFirst == <<"rename auto", "rename header", "rename tristate", "gcc">>

\* The order in which the temporary files take their names.
Renames == <<"rename header", "rename tristate", "rename auto", "gcc">>

\* Mutant: only a symbol with an old value is compared.
ChangedKnown(s) == s \in DOMAIN auto /\ auto[s] # "n" /\ auto[s] # vals[s]

\* auto.conf does not list what is off: no old value is the same as "n".
Changed(s) == Full(auto)[s] # vals[s]

\* conf_split_config
Split(s) ==
  /\ pc = "split" /\ s \in todo
  /\ empty' = IF Changed(s) THEN [empty EXCEPT ![s] = "new"] ELSE empty
  /\ todo' = todo \ {s}
  /\ pc' = IF todo' = {} THEN Renames[1] ELSE pc
  /\ UNCHANGED <<conf, old, auto, fresh, header, tristate, gcc, then, vals, used, seen, ghost>>

Rename(i) ==
  /\ pc = Renames[i]
  /\ header' = IF pc = "rename header" THEN vals ELSE header
  /\ tristate' = IF pc = "rename tristate" THEN vals ELSE tristate
  /\ auto' = IF pc = "rename auto" THEN vals ELSE auto
  /\ fresh' = (fresh \/ pc = "rename auto")
  /\ pc' = Renames[i + 1]
  /\ UNCHANGED <<conf, old, empty, gcc, then, vals, todo, used, seen, ghost>>

-----------------------------------------------------------------------------
(* The final gcc *)

Stale == gcc = NoFile \/ \E s \in seen : empty[s] = "new"

RunEnds ==
  /\ pc = "gcc" /\ ~Stale
  /\ pc' = "idle"
  /\ quiet' = IF quiet < 2 THEN quiet + 1 ELSE 2
  /\ UNCHANGED <<disk, then, vals, todo, used, seen, known, saved, edits, stops>>

\* A recipe that fails leaves the old stamp.
GccConfigured ==
  /\ pc = "gcc" /\ Stale
  /\ gcc' = used
  /\ empty' = [s \in Sym |-> IF empty[s] = "none" THEN "none" ELSE "old"]
  /\ UNCHANGED <<conf, old, auto, fresh, header, tristate, mem, ghost>>

-----------------------------------------------------------------------------
\* The user installs a newer Buildroot over the old one.
Upgrade ==
  /\ pc = "idle"
  /\ known # Sym
  /\ known' = Sym
  /\ UNCHANGED <<disk, mem, saved, quiet, edits, stops>>

Crash ==
  /\ pc # "idle" /\ stops < MaxStops
  /\ stops' = stops + 1
  /\ pc' = "idle"
  /\ UNCHANGED <<disk, then, vals, todo, used, seen, known, saved, quiet, edits>>

Next ==
  \/ \E v \in [known -> Val] : Save(v) \/ Read(v)
  \/ RenameOld \/ RenameConfig \/ Start
  \/ \E s \in Sym : Split(s)
  \/ \E i \in 1..Len(Renames) - 1 : Rename(i)
  \/ RunEnds \/ GccConfigured \/ Upgrade \/ Crash

Spec == Init /\ [][Next]_vars

-----------------------------------------------------------------------------
File == {NoFile} \cup [Sym \ New -> Val] \cup [Sym -> Val]

TypeOK ==
  /\ known \in {Sym \ New, Sym}
  /\ conf \in File /\ old \in File /\ auto \in File /\ header \in File
  /\ tristate \in File /\ saved \in File /\ vals \in File
  /\ gcc \in {NoFile} \cup [Sym -> Val] /\ used \in [Sym -> Val]
  /\ fresh \in BOOLEAN
  /\ empty \in [Sym -> {"none", "old", "new"}]
  /\ pc \in {"idle", "read", "split", "rename .old", "rename .config",
             "rename header", "rename tristate", "rename auto", "gcc"}
  /\ then \in {"idle", "split"}
  /\ todo \subseteq known /\ seen \subseteq Sym
  /\ pc = "split" => DOMAIN vals = known
  /\ quiet \in 0..2 /\ edits \in 0..MaxEdits /\ stops \in 0..MaxStops

\* An auto.conf that make takes to be up to date was made from the .config there
\* is, and the other generated files were made with it (confdata.c:927 "This
\* must be the last step", it "marks the successful completion of the previous
\* steps"), wherever earlier runs died.
AutoMarks ==
  auto # NoFile /\ fresh /\ conf # NoFile =>
    auto = conf /\ header = conf /\ tristate = conf

\* The configuration saved last is never lost: it is under its own name, or
\* under the name of the backup when a run died while replacing it.
ConfigKept == saved \in {conf, old}

\* When make ends well for the second time after a change of .config, gcc was
\* configured with the values that were saved: the first run may have created a
\* file that its wildcards did not see.
SecondRunCurrent ==
  quiet = 2 => \A s \in Sym \ New : gcc[s] = saved[s]
=============================================================================

-------------------------- MODULE ConfFilesProofs --------------------------
(***************************************************************************)
(* Theorems about ConfFiles for any symbols and any number of edits and    *)
(* crashes.  The three properties lean on each other: that gcc is built    *)
(* anew in time (SecondRunCurrent) needs auto.conf to be what was saved    *)
(* when a run ends (AutoMarks), and each symbol that differs from it to be *)
(* marked by its file before auto.conf is replaced (Marked).               *)
(***************************************************************************)
EXTENDS ConfFiles, TLAPS

Kept == Sym \ New  \* the symbols that every Buildroot has

Replacing == pc \in {"rename .old", "rename .config"}
Renaming  == pc \in {"rename header", "rename tristate", "rename auto"}
Regenerating == pc = "read" \/ pc = "split" \/ Renaming

\* Only replacing .config leaves it missing.
SavedHere == IF conf = NoFile THEN saved \in {NoFile, old} ELSE saved = conf

\* auto.conf is only made anew when it is older than .config.
Phase ==
  /\ fresh => auto # NoFile
  /\ Regenerating => conf # NoFile /\ ~fresh
  /\ pc = "gcc" => conf # NoFile /\ fresh

\* What the running program has in memory, and has already written.
Memory ==
  /\ Replacing => vals \in [known -> Val]
  /\ pc = "split" \/ Renaming => vals = conf /\ DOMAIN conf = known
  /\ pc \in {"rename tristate", "rename auto"} => header = conf
  /\ pc = "rename auto" => tristate = conf

\* The values make included are those it regenerates the files from.
Included ==
  \A s \in Kept :
    /\ Regenerating \/ pc = "gcc" => used[s] = conf[s]
    /\ Replacing /\ then = "split" => used[s] = vals[s]

Noted(s) == empty[s] = "new" \/ Full(auto)[s] = vals[s]

\* A symbol that differs from auto.conf has its file touched first.
Marked ==
  /\ Replacing /\ then = "split" => todo = known
  /\ pc = "split" => \A s \in known \ todo : Noted(s)
  /\ Renaming => \A s \in known : Noted(s)

\* gcc differs from auto.conf only where the file of a symbol tells.
Told ==
  gcc # NoFile => \A s \in Kept : empty[s] = "new" \/ gcc[s] = Full(auto)[s]

\* A run ended well since .config was written.
Settled ==
  quiet > 0 =>
    /\ gcc # NoFile /\ auto # NoFile /\ auto = saved
    /\ conf # NoFile => fresh
    /\ ~Regenerating
    /\ Replacing => then = "idle"
    /\ pc = "gcc" => \A s \in Sym : empty[s] = "new" => s \in seen

IInv ==
  /\ TypeOK /\ AutoMarks /\ SavedHere /\ Phase /\ Memory
  /\ Included /\ Marked /\ Told /\ Settled /\ SecondRunCurrent

-----------------------------------------------------------------------------
(* Files and names *)

\* A file that is there lists the symbols every Buildroot has.
LEMMA FileFacts ==
  ASSUME TypeOK
  PROVE  /\ Kept # {} /\ Kept \subseteq known /\ known \subseteq Sym
         /\ [known -> Val] \subseteq File /\ NoFile \notin [known -> Val]
         /\ \A f \in File : f # NoFile =>
              /\ Kept \subseteq DOMAIN f
              /\ \A s \in Kept : f[s] \in Val /\ Full(f)[s] = f[s]
         /\ \A f \in File : Full(f) \in [Sym -> Val]
  <1>1. Kept # {} /\ Kept \subseteq known /\ known \subseteq Sym
    BY ConfAssumption DEF TypeOK, Kept
  <1>2. [known -> Val] \subseteq File
    BY DEF TypeOK, File
  <1>3. NoFile \notin [known -> Val]
    BY <1>1 DEF NoFile
  <1>4. ASSUME NEW f \in File
        PROVE  /\ f # NoFile => /\ Kept \subseteq DOMAIN f
                                /\ \A s \in Kept : f[s] \in Val /\ Full(f)[s] = f[s]
               /\ Full(f) \in [Sym -> Val]
    <2>1. CASE f = NoFile
      BY <2>1 DEF NoFile, Full, Val
    <2>2. CASE f \in [Kept -> Val] \/ f \in [Sym -> Val]
      BY <2>2 DEF Kept, Full, Val
    <2> QED BY <2>1, <2>2 DEF File, Kept
  <1> QED BY <1>1, <1>2, <1>3, <1>4

LEMMA Names ==
  /\ Renames[1] = "rename header" /\ Renames[2] = "rename tristate"
  /\ Renames[3] = "rename auto" /\ Renames[4] = "gcc"
  BY DEF Renames

\* The names are taken one after the other.
LEMMA RenameNames ==
  ASSUME NEW i \in 1..Len(Renames) - 1, Rename(i)
  PROVE  \/ pc = "rename header" /\ pc' = "rename tristate"
         \/ pc = "rename tristate" /\ pc' = "rename auto"
         \/ pc = "rename auto" /\ pc' = "gcc"
  <1>1. i \in {1, 2, 3}
    BY DEF Renames
  <1>2. pc = Renames[i] /\ pc' = Renames[i + 1]
    BY DEF Rename
  <1>3. CASE i = 1
    BY <1>2, <1>3, 1 + 1 = 2, Names
  <1>4. CASE i = 2
    BY <1>2, <1>4, 2 + 1 = 3, Names
  <1>5. CASE i = 3
    BY <1>2, <1>5, 3 + 1 = 4, Names
  <1> QED BY <1>1, <1>3, <1>4, <1>5
-----------------------------------------------------------------------------
(* The steps *)

\* The user saves.
LEMMA SaveStep ==
  ASSUME IInv, NEW v \in [known -> Val], Save(v)
  PROVE  IInv'
  <1>1. TypeOK'
    <2>1. edits' \in 0..MaxEdits
      <3>1. edits \in 0..MaxEdits /\ MaxEdits \in Nat
        BY ConfAssumption DEF IInv, TypeOK
      <3>2. edits < MaxEdits /\ edits' = edits + 1
        BY DEF Save
      <3> QED BY <3>1, <3>2
    <2>2. vals' \in File
      BY FileFacts DEF Save, IInv
    <2> QED BY <2>1, <2>2 DEF Save, disk, IInv, TypeOK
  <1>2. SavedHere' /\ Phase' /\ Memory'
    BY DEF Save, disk, IInv, SavedHere, Phase, Memory, Regenerating, Renaming
  <1>3. AutoMarks'
    BY DEF Save, disk, IInv, AutoMarks
  <1>4. Included' /\ Marked' /\ Told'
    BY DEF Save, disk, IInv, Included, Marked, Told, Regenerating, Renaming
  <1>5. Settled' /\ SecondRunCurrent'
    BY DEF Save, disk, IInv, Settled, SecondRunCurrent, Regenerating, Renaming
  <1> QED BY <1>1, <1>2, <1>3, <1>4, <1>5 DEF IInv

\* .config becomes .config.old.
LEMMA RenameOldStep ==
  ASSUME IInv, RenameOld
  PROVE  IInv'
  <1>1. TypeOK'
    <2>1. NoFile \in File
      BY DEF File
    <2> QED BY <2>1 DEF RenameOld, ghost, IInv, TypeOK
  <1>2. SavedHere' /\ Phase' /\ Memory'
    BY DEF RenameOld, ghost, IInv, SavedHere, Phase, Memory, Regenerating, Renaming,
         Replacing
  <1>3. AutoMarks'
    BY DEF RenameOld, AutoMarks
  <1>4. Included' /\ Marked' /\ Told'
    BY DEF RenameOld, ghost, IInv, Included, Marked, Told, Regenerating, Renaming,
         Replacing
  <1>5. Settled' /\ SecondRunCurrent'
    BY DEF RenameOld, ghost, IInv, Settled, SecondRunCurrent, Regenerating,
         Renaming, Replacing
  <1> QED BY <1>1, <1>2, <1>3, <1>4, <1>5 DEF IInv

\* The new .config takes its name.
LEMMA RenameConfigStep ==
  ASSUME IInv, RenameConfig
  PROVE  IInv'
  <1>1. TypeOK'
    <2>1. DOMAIN vals = known
      BY DEF RenameConfig, IInv, Memory, Replacing
    <2>2. conf' \in File /\ saved' \in File /\ pc' \in {"idle", "split"}
      BY DEF RenameConfig, IInv, TypeOK
    <2>3. fresh' \in BOOLEAN
      BY Zenon DEF RenameConfig
    <2>4. quiet' \in 0..2
      <3>1. quiet' = 0
        BY Zenon DEF RenameConfig
      <3> QED BY <3>1
    <2> QED BY <2>1, <2>2, <2>3, <2>4 DEF RenameConfig, IInv, TypeOK
  <1>2. SavedHere' /\ Phase' /\ Memory'
    BY FileFacts DEF RenameConfig, IInv, TypeOK, SavedHere, Phase, Memory, Replacing
  <1>3. AutoMarks'
    BY DEF RenameConfig, AutoMarks
  <1>4. Included' /\ Marked' /\ Told'
    BY DEF RenameConfig, IInv, TypeOK, Included, Marked, Told, Regenerating,
         Renaming, Replacing
  <1>5. Settled' /\ SecondRunCurrent'
    <2>1. quiet' = 0
      BY DEF RenameConfig
    <2> QED BY <2>1 DEF Settled, SecondRunCurrent
  <1> QED BY <1>1, <1>2, <1>3, <1>4, <1>5 DEF IInv

\* make reads the makefiles.
LEMMA StartStep ==
  ASSUME IInv, Start
  PROVE  IInv'
  <1>1. TypeOK'
    BY FileFacts DEF Start, disk, ghost, IInv, TypeOK
  <1>2. SavedHere' /\ Phase' /\ Memory'
    BY DEF Start, disk, ghost, IInv, SavedHere, Phase, Memory, Regenerating,
         Renaming, Replacing
  <1>3. AutoMarks'
    BY DEF Start, disk, IInv, AutoMarks
  <1>4. Included' /\ Marked' /\ Told'
    BY FileFacts DEF Start, disk, IInv, TypeOK, Included, Marked, Told, Renaming,
         Replacing
  <1>5. Settled' /\ SecondRunCurrent'
    BY DEF Start, disk, ghost, IInv, Settled, SecondRunCurrent, Regenerating,
         Renaming, Replacing
  <1> QED BY <1>1, <1>2, <1>3, <1>4, <1>5 DEF IInv

\* silentoldconfig reads .config.
LEMMA ReadStep ==
  ASSUME IInv, NEW v \in [known -> Val], Read(v)
  PROVE  IInv'
  <1>1. TypeOK'
    BY FileFacts DEF Read, disk, ghost, IInv, TypeOK
  <1>2. SavedHere' /\ Phase' /\ Memory'
    <2>1. DOMAIN conf = known => v = conf
      BY DEF Read, IInv, TypeOK, File, NoFile
    <2> QED BY <2>1, FileFacts DEF Read, disk, ghost, IInv, SavedHere, Phase, Memory,
              Regenerating, Renaming, Replacing
  <1>3. AutoMarks'
    BY DEF Read, disk, IInv, AutoMarks
  <1>4. Included' /\ Marked' /\ Told'
    BY FileFacts DEF Read, disk, ghost, IInv, TypeOK, Included, Marked, Told,
         Phase, Full, Regenerating, Renaming, Replacing
  <1>5. Settled' /\ SecondRunCurrent'
    BY DEF Read, disk, ghost, IInv, Settled, SecondRunCurrent, Regenerating
  <1> QED BY <1>1, <1>2, <1>3, <1>4, <1>5 DEF IInv

\* A symbol is compared with auto.conf.
LEMMA SplitStep ==
  ASSUME IInv, NEW s \in Sym, Split(s)
  PROVE  IInv'
  <1>1. TypeOK'
    BY Names DEF Split, ghost, IInv, TypeOK
  <1>2. SavedHere' /\ Phase' /\ Memory'
    BY Names DEF Split, ghost, IInv, SavedHere, Phase, Memory, Regenerating, Renaming, Replacing
  <1>3. AutoMarks'
    BY DEF Split, IInv, AutoMarks
  <1>4. Included' /\ Marked' /\ Told'
    <2>1. Full(auto)[s] # vals[s] => empty' = [empty EXCEPT ![s] = "new"]
      BY DEF Split, Changed
    <2>2. Full(auto)[s] = vals[s] => empty' = empty
      BY DEF Split, Changed
    <2>3. \A q \in Sym : empty[q] = "new" => empty'[q] = "new"
      BY <2>1, <2>2 DEF IInv, TypeOK
    <2>4. empty'[s] = "new" \/ Full(auto)[s] = vals[s]
      BY <2>1 DEF IInv, TypeOK
    <2>5. \A q \in known \ todo' : Noted(q)'
      <3>1. \A q \in known \ todo : Noted(q)'
        BY <2>3, FileFacts DEF Split, ghost, IInv, Marked, Noted, Full
      <3>2. Noted(s)'
        BY <2>4 DEF Split, Noted, Full
      <3> QED BY <3>1, <3>2 DEF Split
    <2>6. Marked'
      BY <2>5, Names DEF Split, ghost, Marked, Renaming, Replacing
    <2>7. Told'
      BY <2>3, FileFacts DEF Split, IInv, Told, Full
    <2>8. Included'
      BY Names DEF Split, IInv, Included, Regenerating, Renaming, Replacing
    <2> QED BY <2>6, <2>7, <2>8
  <1>5. Settled' /\ SecondRunCurrent'
    BY Names DEF Split, ghost, IInv, Settled, SecondRunCurrent, Regenerating,
         Renaming
  <1> QED BY <1>1, <1>2, <1>3, <1>4, <1>5 DEF IInv

\* A generated file takes its name.
LEMMA RenameStep ==
  ASSUME IInv, NEW i \in 1..Len(Renames) - 1, Rename(i)
  PROVE  IInv'
  <1>1. TypeOK'
    BY RenameNames DEF Rename, ghost, IInv, TypeOK
  <1>2. SavedHere' /\ Phase' /\ Memory'
    BY RenameNames DEF Rename, ghost, IInv, SavedHere, Phase, Memory,
         Regenerating, Renaming, Replacing
  <1>3. AutoMarks'
    BY RenameNames DEF Rename, IInv, AutoMarks, Phase, Memory, Regenerating,
         Renaming
  <1>4. Included' /\ Marked' /\ Told'
    BY FileFacts, RenameNames
       DEF Rename, ghost, IInv, TypeOK, Included, Marked, Told, Memory, Phase,
         Noted, Regenerating, Renaming, Replacing
  <1>5. Settled' /\ SecondRunCurrent'
    BY RenameNames DEF Rename, ghost, IInv, Settled, SecondRunCurrent,
         Regenerating, Renaming
  <1> QED BY <1>1, <1>2, <1>3, <1>4, <1>5 DEF IInv

\* make ends well.
LEMMA RunEndsStep ==
  ASSUME IInv, RunEnds
  PROVE  IInv'
  <1>1. TypeOK'
    BY DEF RunEnds, disk, IInv, TypeOK
  <1>2. SavedHere' /\ Phase' /\ Memory'
    BY DEF RunEnds, disk, IInv, SavedHere, Phase, Memory, Regenerating, Renaming,
         Replacing
  <1>3. AutoMarks'
    BY DEF RunEnds, disk, IInv, AutoMarks
  <1>4. Included' /\ Marked' /\ Told'
    BY DEF RunEnds, disk, IInv, Included, Marked, Told, Renaming, Replacing
  <1>5. Settled' /\ SecondRunCurrent'
    <2>1. gcc # NoFile /\ conf = saved /\ fresh /\ auto = conf /\ auto # NoFile
      BY DEF RunEnds, Stale, IInv, Phase, SavedHere, AutoMarks
    <2>2. Settled'
      BY <2>1 DEF RunEnds, disk, Settled, Regenerating, Renaming, Replacing
    <2>3. ASSUME quiet' = 2, NEW s \in Kept
          PROVE  gcc[s] = saved[s]
      <3>1. quiet > 0
        BY <2>3 DEF RunEnds, IInv, TypeOK
      <3>2. empty[s] # "new"
        BY <3>1 DEF RunEnds, Stale, IInv, Settled, Kept
      <3> QED BY <2>1, <3>2, FileFacts DEF IInv, TypeOK, Told
    <2> QED BY <2>2, <2>3 DEF RunEnds, disk, SecondRunCurrent, Kept
  <1> QED BY <1>1, <1>2, <1>3, <1>4, <1>5 DEF IInv

\* gcc is configured and built.
LEMMA GccStep ==
  ASSUME IInv, GccConfigured
  PROVE  IInv'
  <1>1. TypeOK'
    BY DEF GccConfigured, mem, ghost, IInv, TypeOK
  <1>2. SavedHere' /\ Phase' /\ Memory'
    BY DEF GccConfigured, mem, ghost, IInv, SavedHere, Phase, Memory, Regenerating,
         Renaming, Replacing
  <1>3. AutoMarks'
    BY DEF GccConfigured, IInv, AutoMarks
  <1>4. Included' /\ Marked' /\ Told'
    BY FileFacts DEF GccConfigured, mem, IInv, TypeOK, Phase, AutoMarks, Included,
         Marked, Told, Renaming, Replacing
  <1>5. Settled' /\ SecondRunCurrent'
    <2>1. Settled'
      BY DEF GccConfigured, mem, ghost, IInv, TypeOK, Settled, NoFile, Regenerating,
           Renaming, Replacing
    <2>2. \A s \in Kept : quiet = 2 => gcc'[s] = saved[s]
      BY FileFacts DEF GccConfigured, IInv, TypeOK, SavedHere, Phase, Included
    <2> QED BY <2>1, <2>2 DEF GccConfigured, ghost, SecondRunCurrent, Kept
  <1> QED BY <1>1, <1>2, <1>3, <1>4, <1>5 DEF IInv

\* A newer Buildroot is only installed between two runs.
LEMMA UpgradeStep ==
  ASSUME IInv, Upgrade
  PROVE  IInv'
  <1>1. TypeOK'
    BY ConfAssumption DEF Upgrade, disk, mem, IInv, TypeOK
  <1>2. SavedHere' /\ AutoMarks' /\ Told' /\ SecondRunCurrent'
    BY DEF Upgrade, disk, IInv, SavedHere, AutoMarks, Told, SecondRunCurrent
  <1>3. Phase' /\ Memory' /\ Included' /\ Marked' /\ Settled'
    BY DEF Upgrade, disk, mem, IInv, Phase, Memory, Included, Marked, Settled,
         Regenerating, Renaming, Replacing
  <1> QED BY <1>1, <1>2, <1>3 DEF IInv

\* A crash leaves the files.
LEMMA CrashStep ==
  ASSUME IInv, Crash
  PROVE  IInv'
  <1>1. stops' \in 0..MaxStops
    <2>1. stops \in 0..MaxStops /\ MaxStops \in Nat
      BY ConfAssumption DEF IInv, TypeOK
    <2>2. stops < MaxStops /\ stops' = stops + 1
      BY DEF Crash
    <2> QED BY <2>1, <2>2
  <1>2. TypeOK'
    BY <1>1 DEF Crash, disk, IInv, TypeOK
  <1>3. SavedHere' /\ AutoMarks' /\ Told' /\ SecondRunCurrent'
    BY DEF Crash, disk, IInv, SavedHere, AutoMarks, Told, SecondRunCurrent
  <1>4. Phase' /\ Memory' /\ Included' /\ Marked' /\ Settled'
    BY DEF Crash, disk, IInv, Phase, Memory, Included, Marked, Settled,
         Regenerating, Renaming, Replacing
  <1> QED BY <1>2, <1>3, <1>4 DEF IInv
-----------------------------------------------------------------------------
(* The theorems *)

LEMMA InitInv == Init => IInv
  <1> SUFFICES ASSUME Init PROVE IInv
    OBVIOUS
  <1>1. Full(NoFile) \in [Sym -> Val]
    BY DEF Full, NoFile, Val
  <1>2. TypeOK
    <2>1. /\ known \in {Sym \ New, Sym} /\ NoFile \in File
          /\ empty \in [Sym -> {"none", "old", "new"}] /\ used \in [Sym -> Val]
      BY <1>1 DEF Init, File
    <2>2. fresh \in BOOLEAN
      BY Zenon DEF Init
    <2>3. quiet = 0 /\ edits = 0 /\ stops = 0
      BY Zenon DEF Init
    <2>4. quiet \in 0..2 /\ edits \in 0..MaxEdits /\ stops \in 0..MaxStops
      BY <2>3, ConfAssumption
    <2> QED BY <2>1, <2>2, <2>4 DEF Init, TypeOK
  <1>3. AutoMarks /\ SavedHere /\ Phase /\ Memory /\ Included
    BY DEF Init, AutoMarks, SavedHere, Phase, Memory, Included, Regenerating,
         Renaming, Replacing
  <1>4. Marked /\ Told /\ Settled /\ SecondRunCurrent
    BY DEF Init, Marked, Told, Settled, SecondRunCurrent, Renaming
  <1> QED BY <1>2, <1>3, <1>4 DEF IInv

LEMMA StepInv == IInv /\ [Next]_vars => IInv'
  <1> SUFFICES ASSUME IInv, [Next]_vars PROVE IInv'
    OBVIOUS
  <1>1. ASSUME NEW v \in [known -> Val], Save(v) \/ Read(v) PROVE IInv'
    BY <1>1, SaveStep, ReadStep
  <1>2. CASE RenameOld \/ RenameConfig \/ Start
    BY <1>2, RenameOldStep, RenameConfigStep, StartStep
  <1>3. CASE \E s \in Sym : Split(s)
    BY <1>3, SplitStep
  <1>4. CASE \E i \in 1..Len(Renames) - 1 : Rename(i)
    BY <1>4, RenameStep
  <1>5. CASE RunEnds \/ GccConfigured \/ Upgrade \/ Crash
    BY <1>5, RunEndsStep, GccStep, UpgradeStep, CrashStep
  <1>6. CASE UNCHANGED vars
    <2>1. TypeOK' /\ AutoMarks' /\ SavedHere' /\ SecondRunCurrent'
      <3>1. TypeOK'
        BY <1>6 DEF vars, disk, mem, ghost, IInv, TypeOK
      <3>2. AutoMarks' /\ SavedHere' /\ SecondRunCurrent'
        BY <1>6 DEF vars, disk, mem, ghost, IInv, AutoMarks, SavedHere, SecondRunCurrent
      <3> QED BY <3>1, <3>2
    <2>2. Phase' /\ Memory' /\ Included'
      BY <1>6 DEF vars, disk, mem, ghost, IInv, Phase, Memory, Included,
           Regenerating, Renaming, Replacing
    <2>3. Marked' /\ Told' /\ Settled'
      BY <1>6 DEF vars, disk, mem, ghost, IInv, Marked, Told, Settled, Noted, Full,
           Regenerating, Renaming, Replacing
    <2> QED BY <2>1, <2>2, <2>3 DEF IInv
  <1> QED BY <1>1, <1>2, <1>3, <1>4, <1>5, <1>6 DEF Next

THEOREM Invariant == Spec => []IInv
  BY InitInv, StepInv, PTL DEF Spec

\* Every reachable state is well typed.
THEOREM FilesTyped == Spec => []TypeOK
  <1>1. IInv => TypeOK
    BY DEF IInv
  <1> QED BY <1>1, Invariant, PTL

\* An auto.conf that counts as up to date is complete: conf_write_autoconf gives
\* it its name last.
THEOREM AutoConfMarks == Spec => []AutoMarks
  <1>1. IInv => AutoMarks
    BY DEF IInv
  <1> QED BY <1>1, Invariant, PTL

\* conf_write never loses the configuration saved last.
THEOREM ConfigurationKept == Spec => []ConfigKept
  <1>1. IInv => ConfigKept
    BY DEF IInv, SavedHere, ConfigKept
  <1> QED BY <1>1, Invariant, PTL

\* The second run that ends well after a change of .config leaves a gcc that was
\* configured with it, for any symbols, edits and crashes.
THEOREM CompilerCurrent == Spec => []SecondRunCurrent
  <1>1. IInv => SecondRunCurrent
    BY DEF IInv
  <1> QED BY <1>1, Invariant, PTL
=============================================================================

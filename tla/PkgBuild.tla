------------------------------ MODULE PkgBuild ------------------------------
(***************************************************************************)
(* The generic package infrastructure, package/Makefile.package.in: what   *)
(* `make <pkg>-<goal>' does to the stamp files of a package, to its build  *)
(* directory and to the trees packages are installed in.                   *)
(*                                                                         *)
(* A stamp file has no prerequisite: its recipe runs when the file is      *)
(* missing, and the order of the recipes comes only from the order of the  *)
(* prerequisites of the phony targets <pkg>-install, <pkg>-build, ... which *)
(* a serial make (.NOTPARALLEL) takes from left to right.  Here at[p] is   *)
(* the step of p the running make considers; it follows the phony targets. *)
(* A recipe takes several steps, so that a failing command or an interrupt *)
(* (Interrupt) leaves its work half done and its stamp unwritten.          *)
(*                                                                         *)
(* Options of a package are a revision number, bumped when the user edits  *)
(* them; a configured tree, built objects and installed files carry the    *)
(* revision they were made from, 0 standing for absent or incomplete.      *)
(***************************************************************************)
EXTENDS Integers, FiniteSets

CONSTANTS
  Pkg,            \* package names, host- ones included
  HostPkg,        \* those of type host
  InstallStaging, \* those with _INSTALL_STAGING = YES
  InstallTarget,  \* those with _INSTALL_TARGET = YES
  Deps,           \* _DEPENDENCIES, as a set: any order of the list
  NPatch,         \* number of patches of each package
  Verbs,          \* the goals the user asks for
  CrashIn,        \* the steps whose recipe may fail or be interrupted
  HandRemoved,    \* the stamp files the user may remove by hand
  MaxRev,         \* bound on the edits of a package's options
  MaxStops        \* bound on failures and interrupts

Dest == {"staging_installed", "target_installed", "host_installed"}
Stamp == {"downloaded", "extracted", "patched", "configured", "built"} \cup Dest
Step == Stamp \cup {"depends", "uninstalled", "cleaned", "dircleaned"}
Goals == {"source", "extract", "patch", "configure", "build", "install",
          "uninstall", "clean", "dirclean"}

ASSUME PkgAssumption ==
  /\ HostPkg \subseteq Pkg
  /\ Deps \in [Pkg -> SUBSET Pkg]
  /\ NPatch \in [Pkg -> Nat]
ASSUME UserAssumption == Verbs \subseteq Goals /\ HandRemoved \subseteq Stamp
ASSUME BoundAssumption == MaxRev \in Nat \ {0} /\ MaxStops \in Nat

VARIABLES
  stamps,  \* stamps[p]: the stamp files in the build directory of p
  tree,    \* tree[p]: its sources; -1 absent, else the patches applied
  rej,     \* rej[p]: a reject file of patch(1) lies in the tree
  conf,    \* conf[p]: revision the tree is configured for
  obj,     \* obj[p]: revision the objects in the tree are built from
  inst,    \* inst[p][d]: revision of the files of p in the tree d
  want,    \* want[p]: revision of the options of p
  verb,    \* the goal of the running make, or "idle"
  roots,   \* the packages the goal was asked for
  at,      \* at[p]: the step of p the running make considers
  job,     \* commands of the current recipe that were run; -1 between recipes
  stops    \* failures and interrupts so far

files == <<stamps, tree, rej, conf, obj, inst>>
run   == <<verb, roots, at, job>>
vars  == <<stamps, tree, rej, conf, obj, inst, want, verb, roots, at, job, stops>>

-----------------------------------------------------------------------------
(* The prerequisites of the phony targets *)

\* Where <pkg>-install installs p.
Dests(p) ==
  IF p \in HostPkg THEN {"host_installed"}
  ELSE {d \in Dest : \/ d = "staging_installed" /\ p \in InstallStaging
                     \/ d = "target_installed" /\ p \in InstallTarget}

Goal(p) == IF p \in roots THEN verb ELSE "install"

First(p) ==
  CASE Goal(p) = "dirclean" -> "dircleaned"
    [] Goal(p) = "install" /\ Dests(p) = {} -> "made"
    [] OTHER -> "downloaded"

\* The last step of each goal that stops inside the chain of <pkg>-build.
LastStep == [source |-> "downloaded", extract |-> "extracted", patch |-> "patched",
             configure |-> "configured", build |-> "built"]

\* Mutant: the phony name of an installation for that of its stamp.
FirstDestPhony(p) == IF p \in HostPkg THEN "host_installed" ELSE "install-staging"

\* <pkg>-install goes to staging before it goes to the target.
FirstDest(p) ==
  IF p \in HostPkg THEN "host_installed"
  ELSE IF "staging_installed" \in Dests(p) THEN "staging_installed"
  ELSE IF "target_installed" \in Dests(p) THEN "target_installed" ELSE "made"

\* Mutant: <pkg>-extract forgets its first prerequisite, <pkg>-depends.
AfterNoDepends(p, s) ==
  CASE s = "downloaded" -> "extracted"
    [] s = "extracted"  -> "patched"
    [] s = "patched"    -> "configured"
    [] s = "configured" -> IF Goal(p) \in {"uninstall", "clean"}
                           THEN "uninstalled" ELSE "built"
    [] s = "built"      -> FirstDest(p)
    [] s = "staging_installed" /\ "target_installed" \in Dests(p)
                        -> "target_installed"
    [] s = "uninstalled" /\ Goal(p) = "clean" -> "cleaned"
    [] OTHER -> "made"

\* The step that follows s in the prerequisites, taken from left to right.
After(p, s) ==
  IF Goal(p) \in DOMAIN LastStep /\ LastStep[Goal(p)] = s THEN "made"
  ELSE CASE s = "downloaded" -> "depends"
         [] s = "depends"    -> "extracted"
         [] s = "extracted"  -> "patched"
         [] s = "patched"    -> "configured"
         [] s = "configured" -> IF Goal(p) \in {"uninstall", "clean"}
                                THEN "uninstalled" ELSE "built"
         [] s = "built"      -> FirstDest(p)
         [] s = "staging_installed" /\ "target_installed" \in Dests(p)
                             -> "target_installed"
         [] s = "uninstalled" /\ Goal(p) = "clean" -> "cleaned"
         [] OTHER -> "made"

Active(p)  == at[p] \notin {"unvisited", "made"}
Working(p) == Active(p) /\ at[p] # "depends"
Made(p)    == at[p] = "made" /\ Goal(p) = "install"

\* make considers nothing else than the prerequisites of <p>-depends: the
\* rest of the stack consists of packages that wait for p.
Depending(p) ==
  /\ at[p] = "depends"
  /\ \A q \in Pkg : ~Working(q)
  /\ \A d \in Deps[p] : ~Active(d)

\* make leaves the step of p for the next one.
Advance(p) ==
  /\ at' = [at EXCEPT ![p] = After(p, @)]
  /\ job' = -1
  /\ UNCHANGED <<verb, roots>>

\* make ends, successfully or not: nothing of the run is remembered.
EndRun ==
  /\ verb' = "idle"
  /\ roots' = {}
  /\ at' = [p \in Pkg |-> "unvisited"]
  /\ job' = -1

-----------------------------------------------------------------------------
(* The traversal *)

Init ==
  /\ stamps = [p \in Pkg |-> {}]
  /\ tree = [p \in Pkg |-> -1]
  /\ rej = [p \in Pkg |-> FALSE]
  /\ conf = [p \in Pkg |-> 0]
  /\ obj = [p \in Pkg |-> 0]
  /\ inst = [p \in Pkg |-> [d \in Dest |-> 0]]
  /\ want = [p \in Pkg |-> 1]
  /\ verb = "idle"
  /\ roots = {}
  /\ at = [p \in Pkg |-> "unvisited"]
  /\ job = -1
  /\ stops = 0

\* `make', `make source' take the packages of TARGETS, the others one package.
StartMake(g, S) ==
  /\ verb = "idle"
  /\ S # {}
  /\ g \in {"install", "source"} \/ \E p \in S : S = {p}
  /\ verb' = g
  /\ roots' = S
  /\ UNCHANGED <<files, want, at, job, stops>>

\* The next package of the command line, or of TARGETS.
Take(p) ==
  /\ p \in roots
  /\ at[p] = "unvisited"
  /\ \A q \in Pkg : ~Active(q)
  /\ at' = [at EXCEPT ![p] = First(p)]
  /\ UNCHANGED <<files, want, verb, roots, job, stops>>

\* <p>-depends: make <d>, that is <d>-install, unless this run already did.
Visit(p, d) ==
  /\ Depending(p)
  /\ d \in Deps[p]
  /\ at[d] = "unvisited"
  /\ at' = [at EXCEPT ![d] = First(d)]
  /\ UNCHANGED <<files, want, verb, roots, job, stops>>

DepsDone(p) ==
  /\ Depending(p)
  /\ \A d \in Deps[p] : Made(d)
  /\ Advance(p)
  /\ UNCHANGED <<files, want, stops>>

\* The stamp file exists: its recipe is not run.
Skip(p) ==
  /\ Working(p)
  /\ job = -1
  /\ at[p] \in stamps[p]
  /\ Advance(p)
  /\ UNCHANGED <<files, want, stops>>

RunEnds ==
  /\ verb # "idle"
  /\ \A p \in roots : at[p] = "made"
  /\ EndRun
  /\ UNCHANGED <<files, want, stops>>

-----------------------------------------------------------------------------
(* The recipes of the stamp files *)

Touch(p) == stamps' = [stamps EXCEPT ![p] = @ \cup {at[p]}]

\* Mutant: the stamp is touched by the first command instead of the last.
BeginTouches(p) ==
  /\ Working(p) /\ job = -1 /\ at[p] \notin stamps[p]
  /\ Touch(p)
  /\ job' = 0
  /\ inst' = IF at[p] \in Dest THEN [inst EXCEPT ![p][at[p]] = 0] ELSE inst
  /\ UNCHANGED <<tree, rej, conf, obj, want, verb, roots, at, stops>>

\* Mutant: a package whose options changed is configured again, and only that.
BeginStale(p) ==
  /\ Working(p) /\ job = -1
  /\ at[p] \notin stamps[p] \/ (at[p] = "configured" /\ conf[p] # want[p])
  /\ job' = 0
  /\ inst' = IF at[p] \in Dest THEN [inst EXCEPT ![p][at[p]] = 0] ELSE inst
  /\ UNCHANGED <<stamps, tree, rej, conf, obj, want, verb, roots, at, stops>>

\* The first command: what the recipe makes is incomplete until it ends.
Begin(p) ==
  LET Lost(s, old, none) == IF at[p] = s THEN [old EXCEPT ![p] = none] ELSE old IN
  /\ Working(p)
  /\ job = -1
  /\ at[p] \notin stamps[p]
  /\ job' = 0
  /\ tree' = Lost("extracted", tree, -1)
  /\ conf' = Lost("configured", conf, 0)
  /\ obj' = Lost("built", obj, 0)
  /\ inst' = IF at[p] \in Dest THEN [inst EXCEPT ![p][at[p]] = 0] ELSE inst
  /\ UNCHANGED <<stamps, rej, want, verb, roots, at, stops>>

\* The recipe of p at step s has begun.
Doing(p, s) == Working(p) /\ job >= 0 /\ at[p] = s

Downloaded(p) ==
  /\ Doing(p, "downloaded")
  /\ Touch(p) /\ Advance(p)
  /\ UNCHANGED <<tree, rej, conf, obj, inst, want, stops>>

Extracted(p) ==
  /\ Doing(p, "extracted")
  /\ tree' = [tree EXCEPT ![p] = 0]
  /\ Touch(p) /\ Advance(p)
  /\ UNCHANGED <<rej, conf, obj, inst, want, stops>>

\* Mutant: a patch is applied to whatever is there.
ApplyAnyway(p) ==
  /\ Doing(p, "patched") /\ job < NPatch[p]
  /\ tree' = [tree EXCEPT ![p] = @ + 1]
  /\ job' = job + 1
  /\ UNCHANGED <<stamps, rej, conf, obj, inst, want, verb, roots, at, stops>>

\* toolchain/patch-kernel.sh applies the next patch to a tree that has the
\* patches before it and no other,
ApplyPatch(p) ==
  /\ Doing(p, "patched")
  /\ job < NPatch[p]
  /\ tree[p] = job
  /\ tree' = [tree EXCEPT ![p] = @ + 1]
  /\ job' = job + 1
  /\ UNCHANGED <<stamps, rej, conf, obj, inst, want, verb, roots, at, stops>>

\* else patch(1) leaves rejects, and the script and make fail.
RejectPatch(p) ==
  /\ Doing(p, "patched")
  /\ job < NPatch[p]
  /\ tree[p] # job
  /\ rej' = [rej EXCEPT ![p] = @ \/ tree[p] # -1]
  /\ EndRun
  /\ UNCHANGED <<stamps, tree, conf, obj, inst, want, stops>>

\* The script looks for rejects only after the last patch.
NoRejects(p) == ~rej[p]

Patched(p) ==
  /\ Doing(p, "patched")
  /\ job = NPatch[p]
  /\ NoRejects(p)
  /\ Touch(p) /\ Advance(p)
  /\ UNCHANGED <<tree, rej, conf, obj, inst, want, stops>>

Configured(p) ==
  /\ Doing(p, "configured")
  /\ tree[p] # -1
  /\ conf' = [conf EXCEPT ![p] = want[p]]
  /\ Touch(p) /\ Advance(p)
  /\ UNCHANGED <<tree, rej, obj, inst, want, stops>>

Built(p) ==
  /\ Doing(p, "built")
  /\ conf[p] # 0
  /\ obj' = [obj EXCEPT ![p] = conf[p]]
  /\ Touch(p) /\ Advance(p)
  /\ UNCHANGED <<tree, rej, conf, inst, want, stops>>

Installed(p, d) ==
  /\ Doing(p, d)
  /\ obj[p] # 0
  /\ inst' = [inst EXCEPT ![p][d] = obj[p]]
  /\ Touch(p) /\ Advance(p)
  /\ UNCHANGED <<tree, rej, conf, obj, want, stops>>

\* A recipe whose commands do not find what an earlier step should have left.
GiveUp(p) ==
  /\ \/ Doing(p, "patched") /\ job = NPatch[p] /\ ~NoRejects(p)
     \/ Doing(p, "configured") /\ tree[p] = -1
     \/ Doing(p, "built") /\ conf[p] = 0
     \/ \E d \in Dest : Doing(p, d) /\ obj[p] = 0
  /\ EndRun
  /\ UNCHANGED <<files, want, stops>>

-----------------------------------------------------------------------------
(* The recipes that undo: their targets are never touched, so they always run *)

\* The commands that empty a directory; the next one removes its stamp.
Empties(j) == IF j = 0 THEN "staging_installed" ELSE "target_installed"

UninstallCmds(p) ==
  /\ Doing(p, "uninstalled")
  /\ job \in {0, 2}
  /\ inst' = [inst EXCEPT ![p][Empties(job)] = 0]
  /\ job' = job + 1
  /\ UNCHANGED <<stamps, tree, rej, conf, obj, want, verb, roots, at, stops>>

\* Mutant: the stamps of uninstalled files are left.
UninstallOnly(p) ==
  /\ Doing(p, "uninstalled") /\ job \in {1, 3}
  /\ IF job = 3 THEN Advance(p) ELSE job' = 2 /\ UNCHANGED <<verb, roots, at>>
  /\ UNCHANGED <<files, want, stops>>

UninstallStamp(p) ==
  /\ Doing(p, "uninstalled")
  /\ job \in {1, 3}
  /\ stamps' = [stamps EXCEPT ![p] = @ \ {Empties(job - 1)}]
  /\ IF job = 3 THEN Advance(p) ELSE job' = 2 /\ UNCHANGED <<verb, roots, at>>
  /\ UNCHANGED <<tree, rej, conf, obj, inst, want, stops>>

CleanCmds(p) ==
  /\ Doing(p, "cleaned")
  /\ job = 0
  /\ obj' = [obj EXCEPT ![p] = 0]
  /\ job' = 1
  /\ UNCHANGED <<stamps, tree, rej, conf, inst, want, verb, roots, at, stops>>

\* Mutant: the stamp of cleaned objects is left.
CleanOnly(p) ==
  /\ Doing(p, "cleaned") /\ job = 1
  /\ Advance(p)
  /\ UNCHANGED <<files, want, stops>>

CleanStamp(p) ==
  /\ Doing(p, "cleaned")
  /\ job = 1
  /\ stamps' = [stamps EXCEPT ![p] = @ \ {"built"}]
  /\ Advance(p)
  /\ UNCHANGED <<tree, rej, conf, obj, inst, want, stops>>

\* rm -Rf removes sources, objects and stamps in the order it meets them.
DircleanSome(p, left) ==
  /\ Doing(p, "dircleaned")
  /\ job = 0
  /\ left \subseteq stamps[p]
  /\ stamps' = [stamps EXCEPT ![p] = left]
  /\ tree' = [tree EXCEPT ![p] = -1]
  /\ conf' = [conf EXCEPT ![p] = 0]
  /\ obj' = [obj EXCEPT ![p] = 0]
  /\ job' = 1
  /\ UNCHANGED <<rej, inst, want, verb, roots, at, stops>>

DircleanAll(p) ==
  /\ Doing(p, "dircleaned")
  /\ job = 1
  /\ stamps' = [stamps EXCEPT ![p] = {}]
  /\ rej' = [rej EXCEPT ![p] = FALSE]
  /\ Advance(p)
  /\ UNCHANGED <<tree, conf, obj, inst, want, stops>>

-----------------------------------------------------------------------------
(* Failures, and what the user does between two runs *)

\* A command of a recipe fails, or the user interrupts make.
Interrupt ==
  /\ verb # "idle"
  /\ stops < MaxStops
  /\ job = -1 \/ \A p \in Pkg : Working(p) => at[p] \in CrashIn
  /\ stops' = stops + 1
  /\ EndRun
  /\ UNCHANGED <<files, want>>

ChangeOptions(p) ==
  /\ verb = "idle"
  /\ want[p] < MaxRev
  /\ want' = [want EXCEPT ![p] = @ + 1]
  /\ UNCHANGED <<files, run, stops>>

RemoveStamp(p, s) ==
  /\ verb = "idle"
  /\ s \in HandRemoved \cap stamps[p]
  /\ stamps' = [stamps EXCEPT ![p] = @ \ {s}]
  /\ UNCHANGED <<tree, rej, conf, obj, inst, want, run, stops>>

-----------------------------------------------------------------------------
Recipe(p) ==
  \/ Begin(p) \/ Downloaded(p) \/ Extracted(p)
  \/ ApplyPatch(p) \/ RejectPatch(p) \/ Patched(p)
  \/ Configured(p) \/ Built(p)
  \/ \E d \in Dest : Installed(p, d)
  \/ UninstallCmds(p) \/ UninstallStamp(p)
  \/ CleanCmds(p) \/ CleanStamp(p)
  \/ \E left \in SUBSET stamps[p] : DircleanSome(p, left)
  \/ DircleanAll(p)
  \/ GiveUp(p)

Traverse(p) == Take(p) \/ (\E d \in Pkg : Visit(p, d)) \/ DepsDone(p) \/ Skip(p)

Make == (\E p \in Pkg : Traverse(p) \/ Recipe(p)) \/ RunEnds

User ==
  \/ \E g \in Verbs, S \in SUBSET Pkg : StartMake(g, S)
  \/ \E p \in Pkg : ChangeOptions(p) \/ \E s \in Stamp : RemoveStamp(p, s)

Next == Make \/ User \/ Interrupt

Spec == Init /\ [][Next]_vars

\* make goes on until it ends, and the user keeps asking for everything.
FairSpec == Spec /\ WF_vars(Make) /\ SF_vars(StartMake("install", Pkg \ HostPkg))

-----------------------------------------------------------------------------
TypeOK ==
  /\ stamps \in [Pkg -> SUBSET Stamp]
  /\ tree \in [Pkg -> Int]
  /\ rej \in [Pkg -> BOOLEAN]
  /\ conf \in [Pkg -> Nat]
  /\ obj \in [Pkg -> Nat]
  /\ inst \in [Pkg -> [Dest -> Nat]]
  /\ want \in [Pkg -> Nat \ {0}]
  /\ verb \in Goals \cup {"idle"}
  /\ roots \subseteq Pkg
  /\ at \in [Pkg -> Step \cup {"unvisited", "made"}]
  /\ job \in Int
  /\ stops \in Nat

\* All files of p are where <pkg>-install puts them.
InPlace(p) == \A d \in Dests(p) : inst[p][d] # 0

\* make is at a recipe of p that comes after <p>-depends: <pkg>-extract has it
\* as its first prerequisite.
Settled(p) == Working(p) /\ at[p] \notin {"downloaded", "dircleaned"}

\* Every package of _DEPENDENCIES is built and installed, completely, as long
\* as recipes of the package that has them run.
DepsInstalled == \A p \in Pkg : Settled(p) => \A d \in Deps[p] : InPlace(d)

\* What BuildContract promises, of this infrastructure.
Contract == INSTANCE BuildContract
              WITH ready <- {p \in Pkg : InPlace(p)}, busy <- {p \in Pkg : Settled(p)}

\* The recipes, their order and their interruptions implement the contract: a
\* dependency is not even disturbed while the package that needs it is built.
KeepsContract == Contract!Spec

\* Whatever was interrupted before, what is configured is a tree that every
\* patch of the package was applied to exactly once, without rejects.
PatchedOnce ==
  \A p \in Pkg : Doing(p, "configured") => tree[p] = NPatch[p] /\ ~rej[p]

\* Between two runs a stamp file tells that what its recipe makes is there,
\* and was made from what the recipe before it made.
StampsTell ==
  verb = "idle" => \A p \in Pkg :
    /\ "extracted" \in stamps[p] => tree[p] >= 0
    /\ "patched" \in stamps[p] => tree[p] = NPatch[p] /\ ~rej[p]
    /\ "configured" \in stamps[p] => conf[p] # 0
    /\ "built" \in stamps[p] => obj[p] = conf[p] /\ obj[p] # 0
    /\ \A d \in stamps[p] \cap Dests(p) :
         inst[p][d] # 0 /\ (p \notin HostPkg => inst[p][d] = obj[p])

\* What a run leaves in the build directory of a package it made is compiled
\* with the configuration the package's tree has.
BuiltAsConfigured ==
  \A p \in Pkg : Made(p) /\ Dests(p) # {} => obj[p] = conf[p]

\* However make is interrupted, a user who keeps calling it gets every
\* package into place in the end.
Converges == []<>(\A p \in Pkg \ HostPkg : InPlace(p))

=============================================================================

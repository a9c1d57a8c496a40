--------------------------- MODULE PkgStampProofs ---------------------------
(***************************************************************************)
(* Theorems about PkgBuild: what its stamp files tell of the tree, the     *)
(* objects and the installed files of a package.                           *)
(*                                                                         *)
(* They need that neither an interrupt cuts a recipe that undoes off nor   *)
(* the user removes a stamp by hand: make then finds a stamp whose work is *)
(* gone, and goes on from there.                                           *)
(***************************************************************************)
EXTENDS PkgBuildProofs

Undisturbed ==
  /\ CrashIn \cap {"uninstalled", "cleaned", "dircleaned"} = {}
  /\ HandRemoved = {}

\* A stamp tells that its work is there, made from that of the stamp before it,
\* which is there too; except while a recipe that undoes is between removing
\* the work and removing the stamp.
Told(p) ==
  \/ at[p] = "dircleaned" /\ job = 1
  \/ /\ "extracted" \in stamps[p] => tree[p] >= 0
     /\ "patched" \in stamps[p]
          => "extracted" \in stamps[p] /\ tree[p] = NPatch[p] /\ ~rej[p]
     /\ "configured" \in stamps[p] => "patched" \in stamps[p] /\ conf[p] # 0
     /\ "built" \in stamps[p] =>
          /\ "configured" \in stamps[p]
          /\ obj[p] = conf[p] \/ (at[p] = "cleaned" /\ job = 1)
     /\ p \notin HostPkg => \A d \in stamps[p] \cap Dests(p) :
          "built" \in stamps[p] /\ (inst[p][d] = obj[p] \/ Removing(p, d))

\* Where make is, the steps before have their stamps; where it undoes, the
\* steps that were undone have none.
Path(p) ==
  /\ tree[p] <= NPatch[p]
  /\ at[p] = "patched" => "extracted" \in stamps[p] /\ (job > 0 => tree[p] = job)
  /\ at[p] = "configured" => "patched" \in stamps[p]
  /\ at[p] = "built" => "configured" \in stamps[p]
  /\ at[p] \in Dest => "built" \in stamps[p]
  /\ Made(p) /\ Dests(p) # {} => "built" \in stamps[p]
  /\ at[p] = "uninstalled" /\ job >= 2 => "staging_installed" \notin stamps[p]
  /\ at[p] = "cleaned" => stamps[p] \cap {"staging_installed", "target_installed"} = {}
  /\ job >= 0 /\ at[p] \in Stamp \ {"downloaded"} => at[p] \notin stamps[p]

Tells == \A p \in Pkg : Told(p) /\ Path(p)
-----------------------------------------------------------------------------
\* The files of q are left alone.
Same(q) ==
  /\ stamps'[q] = stamps[q] /\ tree'[q] = tree[q] /\ rej'[q] = rej[q]
  /\ conf'[q] = conf[q] /\ obj'[q] = obj[q] /\ inst'[q] = inst[q]

\* A package make is not at tells what it told before.
LEMMA RestTells ==
  ASSUME NEW q \in Pkg, Same(q), ~Working(q), at'[q] = at[q], Told(q), Path(q),
         Made(q)' => Made(q)
  PROVE  Told(q)' /\ Path(q)'
  <1>1. at[q] \in {"unvisited", "made", "depends"}
    BY DEF Working, Active
  <1>2. Told(q)'
    BY <1>1 DEF Told, Same, Removing, Dests
  <1>3. Path(q)'
    BY <1>1 DEF Path, Same, Dests, Dest, Stamp
  <1> QED BY <1>2, <1>3

\* It is enough to look at the package make works on.
LEMMA WorkTells ==
  ASSUME IInv, Tells, NEW p \in Pkg, Working(p), verb' = verb, roots' = roots,
         \A q \in Pkg \ {p} : Same(q) /\ at'[q] = at[q],
         Told(p)', Path(p)'
  PROVE  Tells'
  <1> SUFFICES ASSUME NEW q \in Pkg \ {p} PROVE Told(q)' /\ Path(q)'
    BY DEF Tells
  <1>1. ~Working(q)
    BY DEF IInv, Serial
  <1>2. Made(q)' => Made(q)
    BY DEF Made, Goal
  <1> QED BY <1>1, <1>2, RestTells DEF Tells

\* The steps make goes on to, and what they come after.
LEMMA Before ==
  ASSUME NEW p \in Pkg, NEW s \in Step
  PROVE  /\ After(p, s) = "patched" => s = "extracted"
         /\ After(p, s) = "configured" => s = "patched"
         /\ After(p, s) = "built" => s = "configured"
         /\ After(p, s) \in Dest => s \in {"built", "staging_installed"}
         /\ After(p, s) = "cleaned" => s = "uninstalled"
         /\ After(p, s) \notin {"dircleaned", "downloaded"}
  BY DEF After, FirstDest, Dest

\* With its stamp a step gives the next one what it relies on.
LEMMA Passes ==
  ASSUME IInv, NEW p \in Pkg, Working(p), at[p] \in Stamp, Advance(p), Path(p),
         stamps'[p] = stamps[p] \cup {at[p]}, tree'[p] <= NPatch[p]
  PROVE  Path(p)' /\ at'[p] = After(p, at[p]) /\ job' = -1
  <1>1. /\ at[p] \in Step /\ at' = [at EXCEPT ![p] = After(p, at[p])] /\ job' = -1
        /\ verb' = verb /\ roots' = roots
    BY AdvanceType DEF IInv
  <1>2. at'[p] = After(p, at[p])
    BY <1>1 DEF IInv, TypeOK
  <1>3. at[p] \in Dest => at[p] \in Dests(p) /\ "built" \in stamps[p]
    BY DEF IInv, OnCourse, Path
  <1>4. Made(p)' /\ Dests(p) # {} => "built" \in stamps'[p]
    <2> SUFFICES ASSUME After(p, at[p]) = "made", Goal(p) = "install", Dests(p) # {}
                 PROVE  at[p] \in Dest
      BY <1>1, <1>2, <1>3 DEF Made, Goal
    <2>1. Dests(p) \subseteq Dest
      BY DEF Dests, Dest
    <2>2. at[p] \in Dests(p)
      BY <1>3, InstallEnds
    <2> QED BY <2>1, <2>2
  <1>5. at'[p] \in Dest => "built" \in stamps'[p]
    BY <1>1, <1>2, <1>3, Before DEF Dest
  <1>6. at'[p] # "cleaned"
    BY <1>1, <1>2, Before DEF Stamp, Dest
  <1>7. Path(p)'
    BY <1>1, <1>2, <1>4, <1>5, <1>6, Before DEF Path, Dests
  <1> QED BY <1>1, <1>2, <1>7

\* Recipes that make something, and their stamps.
LEMMA StampTells ==
  ASSUME IInv, Tells, NEW p \in Pkg,
         \/ Skip(p) /\ at[p] \in Stamp
         \/ Downloaded(p) \/ Extracted(p) \/ Patched(p) \/ Configured(p) \/ Built(p)
         \/ \E d \in Dest : Installed(p, d)
  PROVE  Tells'
  <1>1. Working(p) /\ Advance(p) /\ at[p] \in Stamp /\ Told(p) /\ Path(p) /\ TypeOK
    <2>1. Told(p) /\ Path(p) /\ TypeOK
      BY DEF IInv, Tells
    <2> QED BY <2>1 DEF Skip, Downloaded, Extracted, Patched, Configured, Built, Installed,
                        Doing, Stamp
  <1>2. stamps'[p] = stamps[p] \cup {at[p]} /\ \A q \in Pkg \ {p} : Same(q)
    BY <1>1 DEF Skip, Downloaded, Extracted, Patched, Configured, Built, Installed, Touch,
           TypeOK, Same, files
  <1>3. /\ at[p] \notin {"dircleaned", "cleaned", "uninstalled"}
        /\ \A d \in Dest : ~Removing(p, d)
    BY <1>1 DEF Stamp, Dest, Removing
  <1>4. tree'[p] <= NPatch[p]
    BY <1>1, PkgAssumption DEF Skip, Downloaded, Extracted, Patched, Configured, Built,
           Installed, TypeOK, Path, files
  <1>5. Path(p)' /\ at'[p] = After(p, at[p]) /\ job' = -1
    BY <1>1, <1>2, <1>4, Passes
  <1>6. job >= 0 /\ at[p] # "downloaded" => at[p] \notin stamps[p]
    BY <1>1 DEF Path
  <1>7. Told(p)'
    <2>1. CASE Skip(p)
      BY <2>1, <1>1, <1>2, <1>3, <1>5 DEF Skip, Told, files, Dests, Dest
    <2>2. CASE Downloaded(p)
      BY <2>2, <1>1, <1>2, <1>3, <1>5 DEF Downloaded, Doing, Told, Dests, Dest
    <2>3. CASE Extracted(p)
      BY <2>3, <1>1, <1>2, <1>3, <1>5, <1>6 DEF Extracted, Doing, Told, TypeOK, Dests, Dest
    <2>4. CASE Patched(p)
      <3>1. tree[p] = NPatch[p]
        BY <2>4, <1>1, <1>3, PkgAssumption DEF Patched, Doing, Told, Path, TypeOK
      <3> QED BY <2>4, <3>1, <1>1, <1>2, <1>3, <1>5, <1>6
              DEF Patched, NoRejects, Doing, Told, Path, Dests, Dest
    <2>5. CASE Configured(p)
      BY <2>5, <1>1, <1>2, <1>3, <1>5, <1>6
      DEF Configured, Doing, Told, Path, TypeOK, Dests, Dest, Stamp
    <2>6. CASE Built(p)
      BY <2>6, <1>1, <1>2, <1>3, <1>5, <1>6
      DEF Built, Doing, Told, Path, TypeOK, Dests, Dest, Stamp
    <2>7. ASSUME NEW d \in Dest, Installed(p, d) PROVE Told(p)'
      BY <2>7, <1>1, <1>2, <1>3, <1>5, <1>6
      DEF Installed, Doing, Told, Path, TypeOK, Dests, Dest
    <2> QED BY <2>1, <2>2, <2>3, <2>4, <2>5, <2>6, <2>7
  <1>8. /\ verb' = verb /\ roots' = roots
        /\ \A q \in Pkg \ {p} : at'[q] = at[q]
    BY <1>1, AdvanceType DEF TypeOK
  <1> QED BY <1>1, <1>2, <1>5, <1>7, <1>8, WorkTells

\* Commands after which make is still at the same step.
LEMMA CommandTells ==
  ASSUME IInv, Tells, NEW p \in Pkg,
         \/ Begin(p) \/ ApplyPatch(p) \/ UninstallCmds(p) \/ CleanCmds(p)
         \/ \E left \in SUBSET stamps[p] : DircleanSome(p, left)
         \/ UninstallStamp(p) /\ job = 1
  PROVE  Tells'
  <1>1. Working(p) /\ verb' = verb /\ roots' = roots /\ at' = at
    BY DEF Begin, ApplyPatch, UninstallCmds, CleanCmds, DircleanSome, UninstallStamp, Doing
  <1>2. Told(p) /\ Path(p) /\ TypeOK
    BY DEF IInv, Tells
  <1>3. \A q \in Pkg \ {p} : Same(q) /\ at'[q] = at[q]
    BY <1>1, <1>2 DEF Begin, ApplyPatch, UninstallCmds, CleanCmds, DircleanSome,
                      UninstallStamp, TypeOK, Same
  <1>4. ~Made(p)'
    BY <1>1 DEF Working, Active, Made
  <1>5. Told(p)' /\ Path(p)'
    <2>1. CASE Begin(p)
      <3>1. Told(p)'
        BY <2>1, <1>1, <1>2 DEF Begin, Told, TypeOK, Removing, Dests, Dest
      <3>2. tree'[p] <= NPatch[p]
        BY <2>1, <1>2, PkgAssumption DEF Begin, Path, TypeOK
      <3> QED BY <2>1, <3>1, <3>2, <1>1, <1>2, <1>4 DEF Begin, Path, TypeOK, Dest
    <2>2. CASE ApplyPatch(p)
      BY <2>2, <1>1, <1>2, <1>4, PkgAssumption
      DEF ApplyPatch, Doing, Told, Path, TypeOK, Removing, Dests, Dest
    <2>3. CASE UninstallCmds(p)
      BY <2>3, <1>1, <1>2, <1>4
      DEF UninstallCmds, Doing, Empties, Told, Path, TypeOK, Removing, Dests, Dest, Stamp
    <2>4. CASE CleanCmds(p)
      BY <2>4, <1>1, <1>2, <1>4
      DEF CleanCmds, Doing, Told, Path, TypeOK, Removing, Dests, Dest, Stamp
    <2>5. ASSUME NEW left \in SUBSET stamps[p], DircleanSome(p, left)
          PROVE  Told(p)' /\ Path(p)'
      BY <2>5, <1>1, <1>2, <1>4, PkgAssumption
      DEF DircleanSome, Doing, Told, Path, TypeOK, Dest, Stamp
    <2>6. CASE UninstallStamp(p) /\ job = 1
      BY <2>6, <1>1, <1>2, <1>4
      DEF UninstallStamp, Doing, Empties, Told, Path, TypeOK, Removing, Dests, Dest, Stamp
    <2> QED BY <2>1, <2>2, <2>3, <2>4, <2>5, <2>6
  <1> QED BY <1>1, <1>3, <1>5, WorkTells

\* The recipes that undo, when they end.
LEMMA UndoTells ==
  ASSUME IInv, Tells, NEW p \in Pkg,
         (UninstallStamp(p) /\ job = 3) \/ CleanStamp(p) \/ DircleanAll(p)
  PROVE  Tells'
  <1>1. Working(p) /\ Advance(p)
    BY DEF UninstallStamp, CleanStamp, DircleanAll, Doing
  <1>2. Told(p) /\ Path(p) /\ TypeOK
    BY DEF IInv, Tells
  <1>3. /\ at' = [at EXCEPT ![p] = After(p, at[p])] /\ job' = -1
        /\ verb' = verb /\ roots' = roots
    BY <1>1, <1>2, AdvanceType
  <1>4. \A q \in Pkg \ {p} : Same(q) /\ at'[q] = at[q]
    BY <1>2, <1>3 DEF UninstallStamp, CleanStamp, DircleanAll, TypeOK, Same
  <1>5. at[p] \in {"uninstalled", "cleaned", "dircleaned"}
    BY DEF UninstallStamp, CleanStamp, DircleanAll, Doing
  <1>6. /\ at'[p] \in {"made", "cleaned"}
        /\ at'[p] = "cleaned" => at[p] = "uninstalled"
    BY <1>2, <1>3, <1>5 DEF After, TypeOK
  <1>7. ~Made(p)'
    BY <1>3, <1>5 DEF IInv, OnCourse, Made, Goal
  <1>8. Told(p)' /\ Path(p)'
    <2>1. CASE UninstallStamp(p) /\ job = 3
      BY <2>1, <1>2, <1>3, <1>6, <1>7
      DEF UninstallStamp, Doing, Empties, Told, Path, TypeOK, Removing, Dests, Dest, Stamp
    <2>2. CASE CleanStamp(p)
      BY <2>2, <1>2, <1>3, <1>6, <1>7
      DEF CleanStamp, Doing, Told, Path, TypeOK, Removing, Dests, Dest, Stamp
    <2>3. CASE DircleanAll(p)
      BY <2>3, <1>2, <1>3, <1>6, <1>7
      DEF DircleanAll, Doing, Told, Path, TypeOK, Dest, Stamp
    <2> QED BY <2>1, <2>2, <2>3
  <1> QED BY <1>1, <1>3, <1>4, <1>8, WorkTells

\* make enters a package, or has made its dependencies.
LEMMA EnterTells ==
  ASSUME IInv, Tells, NEW p \in Pkg,
         Take(p) \/ DepsDone(p) \/ \E d \in Pkg : Visit(p, d)
  PROVE  Tells'
  <1>1. TypeOK /\ \A q \in Pkg : Told(q) /\ Path(q) /\ ~Working(q)
    BY DEF IInv, Tells, Take, DepsDone, Visit, Depending, Working
  <1>2. PICK q \in Pkg :
          /\ ~Made(q) /\ verb' = verb /\ roots' = roots
          /\ \/ at' = [at EXCEPT ![q] = First(q)] /\ job' = job
             \/ at' = [at EXCEPT ![q] = After(q, "depends")] /\ job' = -1
    <2>1. CASE Take(p)
      BY <2>1 DEF Take, Made
    <2>2. CASE \E d \in Pkg : Visit(p, d)
      BY <2>2 DEF Visit, Made
    <2>3. CASE DepsDone(p)
      BY <2>3, <1>1, AdvanceType DEF DepsDone, Depending, Made
    <2> QED BY <2>1, <2>2, <2>3
  <1>3. \A r \in Pkg : Same(r) /\ Goal(r)' = Goal(r)
    BY <1>2 DEF Take, DepsDone, Visit, files, Same, Goal
  <1>4. /\ First(q) \in {"downloaded", "dircleaned", "made"}
        /\ First(q) = "made" /\ Goal(q) = "install" => Dests(q) = {}
        /\ After(q, "depends") = "extracted"
    BY DEF First, After, LastStep
  <1>5. ASSUME NEW r \in Pkg, r # q PROVE Told(r)' /\ Path(r)'
    <2>1. at'[r] = at[r] /\ (Made(r)' => Made(r))
      BY <1>1, <1>2, <1>3, <1>5 DEF TypeOK, Made
    <2> QED BY <1>1, <1>3, <2>1, RestTells
  <1>6. Told(q)' /\ Path(q)'
    <2>1. at[q] \in {"unvisited", "made", "depends"}
      BY <1>1 DEF Working, Active
    <2>2. at'[q] \in {"downloaded", "dircleaned", "made", "extracted"}
      BY <1>1, <1>2, <1>4 DEF TypeOK
    <2>3. at'[q] = "extracted" => job' = -1
      BY <1>1, <1>2, <1>4 DEF TypeOK
    <2>4. Made(q)' => Dests(q) = {}
      BY <1>1, <1>2, <1>3, <1>4 DEF TypeOK, Made
    <2>5. Told(q)'
      BY <1>1, <1>3, <2>1, <2>2 DEF Told, Same, Removing, Dests
    <2>6. Path(q)'
      BY <1>1, <1>3, <2>2, <2>3, <2>4 DEF Path, Same, Dests, Dest, Stamp
    <2> QED BY <2>5, <2>6
  <1> QED BY <1>5, <1>6 DEF Tells

\* A run ends where no recipe undoes.
LEMMA EndTells ==
  ASSUME Undisturbed, IInv, Tells,
         RunEnds \/ Interrupt \/ \E p \in Pkg : RejectPatch(p) \/ GiveUp(p)
  PROVE  Tells'
  <1> SUFFICES ASSUME NEW q \in Pkg PROVE Told(q)' /\ Path(q)'
    BY DEF Tells
  <1>1. Told(q) /\ Path(q) /\ TypeOK
    BY DEF IInv, Tells
  <1>2. /\ at'[q] = "unvisited" /\ job' = -1
        /\ stamps' = stamps /\ tree' = tree /\ conf' = conf /\ obj' = obj /\ inst' = inst
    BY DEF RunEnds, Interrupt, RejectPatch, GiveUp, EndRun, files
  <1>3. job >= 0 => at[q] \notin {"uninstalled", "cleaned", "dircleaned"}
    <2> SUFFICES ASSUME job >= 0, at[q] \in {"uninstalled", "cleaned", "dircleaned"}
                 PROVE  FALSE
      OBVIOUS
    <2>1. Working(q) /\ q \in roots
      BY DEF Working, Active, IInv, OnCourse, Goal
    <2>2. ~RunEnds
      BY <2>1 DEF RunEnds
    <2>3. ~Interrupt
      BY <2>1 DEF Interrupt, Undisturbed
    <2>4. ASSUME NEW p \in Pkg, RejectPatch(p) \/ GiveUp(p) PROVE FALSE
      <3>1. Working(p) /\ at[p] \notin {"uninstalled", "cleaned", "dircleaned"}
        BY <2>4 DEF RejectPatch, GiveUp, Doing, Dest
      <3> QED BY <2>1, <3>1 DEF IInv, Serial
    <2> QED BY <2>2, <2>3, <2>4
  <1>4. rej'[q] # rej[q] => "patched" \notin stamps[q]
    <2> SUFFICES ASSUME NEW p \in Pkg, RejectPatch(p), rej'[q] # rej[q]
                 PROVE  "patched" \notin stamps[q]
      BY DEF RunEnds, Interrupt, GiveUp, files
    <2>1. p = q
      BY <1>1 DEF RejectPatch, TypeOK
    <2> QED BY <2>1, <1>1 DEF RejectPatch, Doing, Path, Stamp
  <1>5. Told(q)'
    BY <1>1, <1>2, <1>3, <1>4 DEF Told, Removing, Dests
  <1>6. Path(q)'
    BY <1>1, <1>2 DEF Path, Made, Dest, Stamp
  <1> QED BY <1>5, <1>6

\* What the user does between two runs.
LEMMA UserTells ==
  ASSUME Undisturbed, IInv, Tells, User
  PROVE  Tells'
  <1>1. verb = "idle" /\ at' = at /\ \A q \in Pkg : Same(q)
    BY DEF User, StartMake, ChangeOptions, RemoveStamp, Undisturbed, files, run, Same
  <1>2. \A q \in Pkg : ~Working(q) /\ ~Made(q)'
    BY <1>1 DEF IInv, IdleRests, Working, Active, Made
  <1> QED BY <1>1, <1>2, RestTells DEF Tells

LEMMA TellsStep ==
  ASSUME Undisturbed, IInv, Tells, [Next]_vars
  PROVE  Tells'
  <1>1. CASE UNCHANGED vars
    BY <1>1 DEF vars, Tells, Told, Path, Removing, Made, Goal, Dests
  <1>2. ASSUME NEW p \in Pkg, Traverse(p) PROVE Tells'
    <2>1. Skip(p) => at[p] \in Stamp
      BY DEF Skip, IInv, TypeOK
    <2> QED BY <1>2, <2>1, StampTells, EnterTells DEF Traverse
  <1>3. ASSUME NEW p \in Pkg, Recipe(p) PROVE Tells'
    <2>1. UninstallStamp(p) => job \in {1, 3}
      BY DEF UninstallStamp
    <2> QED BY <1>3, <2>1, StampTells, CommandTells, UndoTells, EndTells DEF Recipe
  <1> QED BY <1>1, <1>2, <1>3, EndTells, UserTells DEF Next, Make

LEMMA TellsInit == Init => Tells
  BY PkgAssumption DEF Init, Tells, Told, Path, Made, Dest, Stamp

-----------------------------------------------------------------------------
LEMMA AlwaysTells ==
  ASSUME Undisturbed
  PROVE  Spec => [](IInv /\ Tells)
  <1>1. "uninstalled" \notin CrashIn
    BY DEF Undisturbed
  <1> QED BY <1>1, InvInit, InvStep, TellsInit, TellsStep, PTL DEF Spec

\* A package is configured only after each of its patches was applied once, no
\* matter which recipes that make something failed or were interrupted before
\* (patch-kernel.sh and the stamps of Makefile.package.in).
THEOREM PatchesOnce ==
  ASSUME Undisturbed
  PROVE  Spec => []PatchedOnce
  <1>1. IInv /\ Tells => PatchedOnce
    BY DEF Tells, Told, Path, PatchedOnce, Doing
  <1> QED BY <1>1, AlwaysTells, PTL

\* Between two runs every stamp tells that its work is there and made from that
\* of the stamp before it (the recipes of Makefile.package.in).
THEOREM StampsTold ==
  ASSUME Undisturbed
  PROVE  Spec => []StampsTell
  <1>1. IInv /\ Tells => StampsTell
    <2> SUFFICES ASSUME IInv, Tells, verb = "idle", NEW p \in Pkg
                 PROVE  /\ "extracted" \in stamps[p] => tree[p] >= 0
                        /\ "patched" \in stamps[p] => tree[p] = NPatch[p] /\ ~rej[p]
                        /\ "configured" \in stamps[p] => conf[p] # 0
                        /\ "built" \in stamps[p] => obj[p] = conf[p] /\ obj[p] # 0
                        /\ \A d \in stamps[p] \cap Dests(p) : inst[p][d] # 0
                             /\ (p \notin HostPkg => inst[p][d] = obj[p])
      BY DEF StampsTell
    <2>1. at[p] = "unvisited" /\ Told(p) /\ Honest(p)
      BY DEF IInv, IdleRests, Tells
    <2> QED BY <2>1 DEF Told, Honest, Removing
  <1> QED BY <1>1, AlwaysTells, PTL

\* What a run makes and leaves in place is compiled as its tree is configured
\* (<pkg>-install).
THEOREM MadeAsConfigured ==
  ASSUME Undisturbed
  PROVE  Spec => []BuiltAsConfigured
  <1>1. IInv /\ Tells => BuiltAsConfigured
    BY DEF Tells, Told, Path, Made, BuiltAsConfigured
  <1> QED BY <1>1, AlwaysTells, PTL
=============================================================================

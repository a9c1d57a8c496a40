--------------------------- MODULE PkgBuildProofs ---------------------------
(***************************************************************************)
(* Theorems about PkgBuild for any set of packages and any dependencies.   *)
(*                                                                         *)
(* That the dependencies of a package are in place while it is built does  *)
(* not follow from the steps of a package alone: make skips a step because *)
(* its stamp exists, so the stamps have to be honest (Honest), make must   *)
(* be at one package at a time (Serial), and what it counts as made must   *)
(* stay in place until the run ends (MadeInPlace).                         *)
(***************************************************************************)
EXTENDS PkgBuild, TLAPS

Serial == \A p, q \in Pkg : Working(p) /\ Working(q) => p = q

IdleRests == verb = "idle" => roots = {} /\ \A p \in Pkg : at[p] = "unvisited"

\* The files of d are being removed, their stamp is next.
Removing(p, d) ==
  /\ at[p] = "uninstalled"
  /\ <<job, d>> \in {<<1, "staging_installed">>, <<3, "target_installed">>}

Honest(p) == \A d \in stamps[p] \cap Dests(p) : inst[p][d] # 0 \/ Removing(p, d)

OnCourse(p) ==
  /\ at[p] \in Dest => at[p] \in Dests(p)
  /\ at[p] = "target_installed" /\ "staging_installed" \in Dests(p)
       => "staging_installed" \in stamps[p]
  /\ at[p] \in {"uninstalled", "cleaned", "dircleaned"} => Goal(p) # "install"

MadeInPlace(p) == Made(p) => InPlace(p)

Ordered(p) == Settled(p) => \A d \in Deps[p] : Made(d)

IInv ==
  /\ TypeOK /\ Serial /\ IdleRests
  /\ \A p \in Pkg : Honest(p) /\ OnCourse(p) /\ MadeInPlace(p) /\ Ordered(p)

-----------------------------------------------------------------------------
(* Types *)

\* The next step is a step.
LEMMA AfterType ==
  ASSUME NEW p \in Pkg, NEW s \in Step
  PROVE  After(p, s) \in Step \cup {"made"}
  BY DEF After, FirstDest, Step, Stamp, Dest

LEMMA GoalType ==
  ASSUME TypeOK, NEW p \in Pkg
  PROVE  /\ Goal(p) \in Goals \cup {"idle"}
         /\ First(p) \in Step \cup {"made"}
  BY DEF TypeOK, Goal, Goals, First, Step, Stamp

LEMMA AdvanceType ==
  ASSUME TypeOK, NEW p \in Pkg, Working(p) \/ Depending(p), Advance(p)
  PROVE  /\ at' \in [Pkg -> Step \cup {"unvisited", "made"}]
         /\ at[p] \in Step
         /\ at' = [at EXCEPT ![p] = After(p, at[p])]
         /\ job' = -1 /\ verb' = verb /\ roots' = roots
  <1>1. at[p] \in Step
    BY DEF TypeOK, Working, Active, Depending, Step
  <1>2. After(p, at[p]) \in Step \cup {"made"}
    BY <1>1, AfterType
  <1> QED BY <1>1, <1>2 DEF TypeOK, Advance

\* The stamp of the step make is at.
LEMMA TouchType ==
  ASSUME TypeOK, NEW p \in Pkg, Touch(p), at[p] \in Stamp
  PROVE  /\ stamps' \in [Pkg -> SUBSET Stamp]
         /\ stamps'[p] = stamps[p] \cup {at[p]}
         /\ \A q \in Pkg \ {p} : stamps'[q] = stamps[q]
  BY DEF TypeOK, Touch

LEMMA EndRunType ==
  ASSUME EndRun
  PROVE  /\ verb' \in Goals \cup {"idle"}
         /\ roots' \subseteq Pkg
         /\ at' \in [Pkg -> Step \cup {"unvisited", "made"}]
         /\ job' \in Int
  BY DEF EndRun

LEMMA TypeStep == TypeOK /\ [Next]_vars => TypeOK'
  <1> SUFFICES ASSUME TypeOK, [Next]_vars PROVE TypeOK'
    OBVIOUS
  <1>1. CASE UNCHANGED vars
    BY <1>1 DEF TypeOK, vars
  <1>2. ASSUME NEW p \in Pkg, Traverse(p) PROVE TypeOK'
    <2>1. CASE Take(p)
      BY <2>1, GoalType DEF Take, TypeOK, files
    <2>2. CASE \E d \in Pkg : Visit(p, d)
      BY <2>2, GoalType DEF Visit, TypeOK, files
    <2>3. CASE DepsDone(p)
      BY <2>3, AdvanceType DEF DepsDone, TypeOK, files
    <2>4. CASE Skip(p)
      BY <2>4, AdvanceType DEF Skip, TypeOK, files
    <2> QED BY <1>2, <2>1, <2>2, <2>3, <2>4 DEF Traverse
  <1>3. ASSUME NEW p \in Pkg, Recipe(p) PROVE TypeOK'
    <2>1. CASE Begin(p)
      BY <2>1 DEF Begin, TypeOK
    <2>2. CASE Downloaded(p)
      BY <2>2, AdvanceType, TouchType DEF Downloaded, Doing, TypeOK, Stamp
    <2>3. CASE Extracted(p)
      BY <2>3, AdvanceType, TouchType DEF Extracted, Doing, TypeOK, Stamp
    <2>4. CASE ApplyPatch(p)
      BY <2>4 DEF ApplyPatch, TypeOK
    <2>5. CASE RejectPatch(p)
      BY <2>5, EndRunType DEF RejectPatch, TypeOK
    <2>6. CASE Patched(p)
      BY <2>6, AdvanceType, TouchType DEF Patched, Doing, TypeOK, Stamp
    <2>7. CASE Configured(p)
      BY <2>7, AdvanceType, TouchType DEF Configured, Doing, TypeOK, Stamp
    <2>8. CASE Built(p)
      BY <2>8, AdvanceType, TouchType DEF Built, Doing, TypeOK, Stamp
    <2>9. ASSUME NEW d \in Dest, Installed(p, d) PROVE TypeOK'
      BY <2>9, AdvanceType, TouchType DEF Installed, Doing, TypeOK, Stamp
    <2>10. CASE UninstallCmds(p)
      BY <2>10 DEF UninstallCmds, TypeOK, Empties, Dest
    <2>11. CASE UninstallStamp(p)
      <3>1. /\ verb' \in Goals \cup {"idle"} /\ roots' \subseteq Pkg
            /\ at' \in [Pkg -> Step \cup {"unvisited", "made"}] /\ job' \in Int
        BY <2>11, AdvanceType DEF UninstallStamp, Doing, TypeOK
      <3> QED BY <2>11, <3>1 DEF UninstallStamp, TypeOK
    <2>12. CASE CleanCmds(p)
      BY <2>12 DEF CleanCmds, TypeOK
    <2>13. CASE CleanStamp(p)
      BY <2>13, AdvanceType DEF CleanStamp, Doing, TypeOK
    <2>14. ASSUME NEW left \in SUBSET stamps[p], DircleanSome(p, left) PROVE TypeOK'
      BY <2>14 DEF DircleanSome, TypeOK
    <2>15. CASE DircleanAll(p)
      BY <2>15, AdvanceType DEF DircleanAll, Doing, TypeOK
    <2>16. CASE GiveUp(p)
      BY <2>16, EndRunType DEF GiveUp, TypeOK, files
    <2> QED BY <1>3, <2>1, <2>2, <2>3, <2>4, <2>5, <2>6, <2>7, <2>8, <2>9, <2>10,
               <2>11, <2>12, <2>13, <2>14, <2>15, <2>16 DEF Recipe
  <1>4. CASE RunEnds
    BY <1>4, EndRunType DEF RunEnds, TypeOK, files
  <1>5. CASE Interrupt
    BY <1>5, EndRunType DEF Interrupt, TypeOK, files, BoundAssumption
  <1>6. CASE User
    <2>1. ASSUME NEW g \in Verbs, NEW S \in SUBSET Pkg, StartMake(g, S) PROVE TypeOK'
      BY <2>1, UserAssumption DEF StartMake, TypeOK, files
    <2>2. ASSUME NEW p \in Pkg, ChangeOptions(p) PROVE TypeOK'
      BY <2>2 DEF ChangeOptions, TypeOK, files, run
    <2>3. ASSUME NEW p \in Pkg, NEW s \in Stamp, RemoveStamp(p, s) PROVE TypeOK'
      BY <2>3 DEF RemoveStamp, TypeOK, run
    <2> QED BY <1>6, <2>1, <2>2, <2>3 DEF User
  <1> QED BY <1>1, <1>2, <1>3, <1>4, <1>5, <1>6 DEF Next, Make

\* The variables keep their types.
THEOREM TypeCorrect == Spec => []TypeOK
  <1>1. Init => TypeOK
    BY DEF Init, TypeOK, Dest
  <1> QED BY <1>1, TypeStep, PTL DEF Spec

-----------------------------------------------------------------------------
(* The path of a package *)

\* The path stays in the trees p is installed in, staging before target.
LEMMA AfterOnCourse ==
  ASSUME NEW p \in Pkg, NEW s \in Step
  PROVE  /\ After(p, s) \in Dest => After(p, s) \in Dests(p)
         /\ After(p, s) = "target_installed" /\ "staging_installed" \in Dests(p)
              => s = "staging_installed"
         /\ After(p, s) \in {"uninstalled", "cleaned", "dircleaned"} => Goal(p) # "install"
  <1>1. After(p, s) \in Dest => After(p, s) \in Dests(p)
    BY DEF After, FirstDest, Dests, Dest
  <1>2. After(p, s) = "target_installed" => s \in {"built", "staging_installed"}
    BY DEF After, FirstDest
  <1>3. "staging_installed" \in Dests(p) => After(p, "built") # "target_installed"
    BY DEF After, FirstDest, Dests
  <1>4. /\ After(p, s) = "uninstalled" => Goal(p) \in {"uninstall", "clean"}
        /\ After(p, s) = "cleaned" => Goal(p) = "clean"
        /\ After(p, s) # "dircleaned"
    BY DEF After, FirstDest
  <1> QED BY <1>1, <1>2, <1>3, <1>4

\* <pkg>-install ends after the last of these trees.
LEMMA InstallEnds ==
  ASSUME NEW p \in Pkg, NEW s \in Stamp, Goal(p) = "install",
         After(p, s) = "made", s \in Dest => s \in Dests(p)
  PROVE  /\ Dests(p) = {} \/ s \in Dests(p)
         /\ \A d \in Dests(p) : d = s \/ (s = "target_installed" /\ d = "staging_installed")
  <1>1. "install" \notin DOMAIN LastStep
    BY DEF LastStep
  <1>2. s \notin {"downloaded", "extracted", "patched", "configured"}
    BY <1>1 DEF After
  <1>3. CASE s = "built"
    BY <1>1, <1>3 DEF After, FirstDest, Dests, Dest
  <1>4. CASE s \in Dest
    BY <1>1, <1>4 DEF After, Dests, Dest
  <1> QED BY <1>2, <1>3, <1>4 DEF Stamp

\* Only recipes make Settled true, and depends, which settles, is not one.
LEMMA AfterSettled ==
  ASSUME NEW p \in Pkg, NEW s \in Step, s \in {"downloaded", "dircleaned"}
  PROVE  After(p, s) \in {"depends", "made"}
  BY DEF After

\* A step of the package make works on disturbs no other package.
LEMMA OthersKept ==
  ASSUME IInv, TypeOK', NEW p \in Pkg, Working(p),
         verb' = verb, roots' = roots,
         \A q \in Pkg \ {p} :
           at'[q] = at[q] /\ stamps'[q] = stamps[q] /\ inst'[q] = inst[q],
         at'[p] \in {at[p], After(p, at[p])},
         Honest(p)', OnCourse(p)', MadeInPlace(p)'
  PROVE  IInv'
  <1>1. \A q \in Pkg : Goal(q)' = Goal(q)
    BY DEF Goal
  <1>2. \A q \in Pkg \ {p} : ~Working(q) /\ ~Working(q)'
    BY DEF IInv, Serial, Working, Active
  <1>3. Serial'
    BY <1>2 DEF Serial
  <1>4. IdleRests'
    BY DEF IInv, IdleRests, Working, Active
  <1>5. ASSUME NEW q \in Pkg \ {p}
        PROVE  Honest(q)' /\ OnCourse(q)' /\ MadeInPlace(q)' /\ Ordered(q)'
    <2>1. at[q] # "uninstalled"
      BY <1>2 DEF Working, Active
    <2>2. Honest(q)'
      BY <1>5, <2>1 DEF IInv, Honest, Removing, Dests
    <2>3. OnCourse(q)' /\ MadeInPlace(q)'
      BY <1>1, <1>5 DEF IInv, OnCourse, MadeInPlace, Made, InPlace, Dests
    <2>4. Ordered(q)'
      BY <1>2, <1>5 DEF Ordered, Settled
    <2> QED BY <2>2, <2>3, <2>4
  <1>6. Ordered(p)'
    <2> SUFFICES ASSUME Settled(p)', NEW d \in Deps[p] PROVE Made(d)'
      BY DEF Ordered
    <2>1. at[p] \in Step
      BY DEF IInv, TypeOK, Working, Active
    <2>2. Settled(p)
      BY <2>1, AfterSettled DEF Settled, Working, Active
    <2>3. Made(d) /\ d \in Pkg
      BY <2>2, PkgAssumption DEF IInv, Ordered
    <2>4. d # p
      BY <2>3 DEF Made, Working, Active
    <2> QED BY <1>1, <2>3, <2>4 DEF Made
  <1> QED BY <1>3, <1>4, <1>5, <1>6 DEF IInv

\* A step is passed when its stamp is there, be it old or just touched.
LEMMA StepPassed ==
  ASSUME IInv, TypeOK', NEW p \in Pkg, Working(p), at[p] \in Stamp, Advance(p),
         stamps'[p] = stamps[p] \cup {at[p]},
         \A d \in Dest : inst'[p][d] # inst[p][d] => inst'[p][d] # 0,
         at[p] \in Dest /\ at[p] \notin stamps[p] => inst'[p][at[p]] # 0,
         \A q \in Pkg \ {p} : stamps'[q] = stamps[q] /\ inst'[q] = inst[q]
  PROVE  IInv'
  <1>1. at[p] \in Step /\ at' = [at EXCEPT ![p] = After(p, at[p])] /\ job' = -1
        /\ verb' = verb /\ roots' = roots
    BY AdvanceType DEF IInv
  <1>2. at'[p] = After(p, at[p]) /\ \A q \in Pkg \ {p} : at'[q] = at[q]
    BY <1>1 DEF IInv, TypeOK
  <1>3. Goal(p)' = Goal(p)
    BY <1>1 DEF Goal
  <1>4. \A d \in stamps'[p] \cap Dests(p) : inst'[p][d] # 0
    <2> SUFFICES ASSUME NEW d \in stamps'[p] \cap Dests(p) PROVE inst'[p][d] # 0
      OBVIOUS
    <2>1. at[p] # "uninstalled" /\ d \in Dest
      BY DEF Stamp, Dest, Dests
    <2>2. d \in stamps[p] => inst[p][d] # 0
      BY <2>1 DEF IInv, Honest, Removing
    <2> QED BY <2>1, <2>2
  <1>5. Honest(p)'
    BY <1>4 DEF Honest, Dests
  <1>6. OnCourse(p)'
    BY <1>1, <1>2, <1>3, AfterOnCourse DEF OnCourse, Dests
  <1>7. MadeInPlace(p)'
    <2> SUFFICES ASSUME After(p, at[p]) = "made", Goal(p) = "install",
                        NEW d \in Dests(p)
                 PROVE  inst'[p][d] # 0
      BY <1>2, <1>3 DEF MadeInPlace, Made, InPlace, Dests
    <2>1. OnCourse(p)
      BY DEF IInv
    <2>2. d = at[p] \/ (at[p] = "target_installed" /\ d = "staging_installed")
      BY <2>1, InstallEnds DEF OnCourse
    <2>3. d \in stamps'[p]
      BY <2>1, <2>2 DEF OnCourse
    <2> QED BY <1>4, <2>3
  <1> QED BY <1>1, <1>2, <1>5, <1>6, <1>7, OthersKept

\* make begins with a package: nothing is in the works.
LEMMA Entered ==
  ASSUME IInv, TypeOK', NEW p \in Pkg, at[p] = "unvisited", verb # "idle",
         \A q \in Pkg : ~Working(q),
         at' = [at EXCEPT ![p] = First(p)],
         verb' = verb, roots' = roots, job' = job, stamps' = stamps, inst' = inst
  PROVE  IInv'
  <1>1. at'[p] = First(p) /\ \A q \in Pkg \ {p} : at'[q] = at[q]
    BY DEF IInv, TypeOK
  <1>2. \A q \in Pkg : Goal(q)' = Goal(q)
    BY DEF Goal
  <1>3. /\ First(p) \in {"downloaded", "dircleaned", "made"}
        /\ First(p) = "dircleaned" => Goal(p) # "install"
        /\ First(p) = "made" /\ Goal(p) = "install" => Dests(p) = {}
    BY DEF First
  <1>4. \A q \in Pkg : at[q] # "uninstalled"
    BY DEF Working, Active
  <1>5. Serial' /\ IdleRests'
    BY <1>1 DEF Serial, IdleRests, Working, Active
  <1>6. ASSUME NEW q \in Pkg
        PROVE  Honest(q)' /\ OnCourse(q)' /\ MadeInPlace(q)' /\ Ordered(q)'
    <2>1. Honest(q)'
      BY <1>4 DEF IInv, Honest, Removing, Dests
    <2>2. OnCourse(q)'
      BY <1>1, <1>2, <1>3 DEF IInv, OnCourse, Dests, Dest
    <2>3. MadeInPlace(q)'
      BY <1>1, <1>2, <1>3 DEF IInv, MadeInPlace, Made, InPlace, Dests
    <2>4. Ordered(q)'
      BY <1>1, <1>3 DEF Ordered, Settled, Working, Active
    <2> QED BY <2>1, <2>2, <2>3, <2>4
  <1> QED BY <1>5, <1>6 DEF IInv

\* The dependencies have all been made by this run.
LEMMA Settles ==
  ASSUME IInv, TypeOK', NEW p \in Pkg, DepsDone(p)
  PROVE  IInv'
  <1>1. at[p] = "depends" /\ \A q \in Pkg : ~Working(q)
    BY DEF DepsDone, Depending
  <1>2. After(p, "depends") = "extracted"
    BY DEF After, LastStep
  <1>3. at' = [at EXCEPT ![p] = After(p, at[p])] /\ verb' = verb /\ roots' = roots
    BY AdvanceType DEF IInv, DepsDone
  <1>4. at'[p] = "extracted" /\ \A q \in Pkg \ {p} : at'[q] = at[q]
    BY <1>1, <1>2, <1>3 DEF IInv, TypeOK
  <1>5. stamps' = stamps /\ inst' = inst
    BY DEF DepsDone, files
  <1>6. \A q \in Pkg : Goal(q)' = Goal(q)
    BY <1>3 DEF Goal
  <1>7. \A q \in Pkg : at[q] # "uninstalled"
    BY <1>1 DEF Working, Active
  <1>8. Serial'
    BY <1>1, <1>4 DEF Serial, Working, Active
  <1>9. IdleRests'
    BY <1>1, <1>3 DEF IInv, IdleRests
  <1>10. ASSUME NEW q \in Pkg
         PROVE  Honest(q)' /\ OnCourse(q)' /\ MadeInPlace(q)' /\ Ordered(q)'
    <2>1. Honest(q)'
      BY <1>5, <1>7 DEF IInv, Honest, Removing, Dests
    <2>2. OnCourse(q)'
      BY <1>4, <1>5, <1>6 DEF IInv, OnCourse, Dests, Dest
    <2>3. MadeInPlace(q)'
      BY <1>4, <1>5, <1>6 DEF IInv, MadeInPlace, Made, InPlace, Dests
    <2>4. ASSUME Settled(q)', NEW d \in Deps[q] PROVE Made(d)'
      <3>1. q = p
        BY <2>4, <1>1, <1>4 DEF Settled, Working, Active
      <3>2. Made(d) /\ d \in Pkg
        BY <3>1, PkgAssumption DEF DepsDone
      <3>3. d # p
        BY <1>1, <3>2 DEF Made
      <3> QED BY <1>4, <1>6, <3>2, <3>3 DEF Made
    <2> QED BY <2>1, <2>2, <2>3, <2>4 DEF Ordered
  <1> QED BY <1>8, <1>9, <1>10 DEF IInv

\* A run may end wherever the stamps are honest.
LEMMA RunEnded ==
  ASSUME IInv, TypeOK', EndRun, stamps' = stamps, inst' = inst,
         \A p \in Pkg : \A d \in Dest : ~Removing(p, d)
  PROVE  IInv'
  <1>1. \A p \in Pkg : at'[p] = "unvisited"
    BY DEF EndRun
  <1>2. Serial' /\ IdleRests'
    BY <1>1 DEF EndRun, Serial, IdleRests, Working, Active
  <1>3. ASSUME NEW p \in Pkg
        PROVE  Honest(p)' /\ OnCourse(p)' /\ MadeInPlace(p)' /\ Ordered(p)'
    <2>1. Honest(p)'
      BY DEF IInv, Honest, Dests, Dest
    <2>2. OnCourse(p)' /\ MadeInPlace(p)' /\ Ordered(p)'
      BY <1>1 DEF OnCourse, MadeInPlace, Made, Ordered, Settled, Working, Active, Dest
    <2> QED BY <2>1, <2>2
  <1> QED BY <1>2, <1>3 DEF IInv

-----------------------------------------------------------------------------
(* The invariant *)

\* The recipes that build: each touches its stamp last.
LEMMA BuildStep ==
  ASSUME IInv, TypeOK', NEW p \in Pkg,
         \/ Skip(p) \/ Downloaded(p) \/ Extracted(p) \/ Patched(p)
         \/ Configured(p) \/ Built(p) \/ \E d \in Dest : Installed(p, d)
  PROVE  IInv'
  <1>1. CASE Skip(p)
    BY <1>1, StepPassed DEF Skip, IInv, TypeOK, files
  <1>2. CASE Downloaded(p) \/ Extracted(p) \/ Patched(p) \/ Configured(p) \/ Built(p)
    <2>1. at[p] \in Stamp \ Dest /\ Working(p) /\ Advance(p) /\ Touch(p) /\ inst' = inst
      BY <1>2 DEF Downloaded, Extracted, Patched, Configured, Built, Doing, Stamp, Dest
    <2> QED BY <2>1, TouchType, StepPassed DEF IInv
  <1>3. ASSUME NEW d \in Dest, Installed(p, d) PROVE IInv'
    <2>1. /\ at[p] = d /\ d \in Stamp /\ Working(p) /\ Advance(p) /\ Touch(p)
          /\ inst' = [inst EXCEPT ![p][d] = obj[p]] /\ obj[p] # 0
      BY <1>3 DEF Installed, Doing, Stamp
    <2>2. /\ \A q \in Pkg \ {p} : inst'[q] = inst[q]
          /\ inst'[p][d] # 0
          /\ \A e \in Dest : inst'[p][e] # inst[p][e] => inst'[p][e] # 0
      BY <2>1 DEF IInv, TypeOK
    <2> QED BY <2>1, <2>2, TouchType, StepPassed DEF IInv
  <1> QED BY <1>1, <1>2, <1>3

\* The commands after which make is still at the same step.
LEMMA StayStep ==
  ASSUME IInv, TypeOK', NEW p \in Pkg,
         \/ Begin(p) \/ ApplyPatch(p) \/ UninstallCmds(p) \/ CleanCmds(p)
         \/ \E left \in SUBSET stamps[p] : DircleanSome(p, left)
         \/ UninstallStamp(p) /\ job = 1
  PROVE  IInv'
  <1>1. Working(p) /\ verb' = verb /\ roots' = roots /\ at' = at
    BY DEF Begin, ApplyPatch, UninstallCmds, CleanCmds, DircleanSome, UninstallStamp, Doing
  <1>2. \A q \in Pkg \ {p} : stamps'[q] = stamps[q] /\ inst'[q] = inst[q]
    BY DEF Begin, ApplyPatch, UninstallCmds, CleanCmds, DircleanSome, UninstallStamp,
           IInv, TypeOK
  <1>3. at'[p] \notin {"made", "unvisited"}
    BY <1>1 DEF Working, Active
  <1>4. MadeInPlace(p)'
    BY <1>3 DEF MadeInPlace, Made
  <1>5. Goal(p)' = Goal(p)
    BY <1>1 DEF Goal
  <1>6. Honest(p) /\ OnCourse(p)
    BY DEF IInv
  <1>7. Honest(p)' /\ OnCourse(p)'
    <2>1. CASE Begin(p)
      BY <2>1, <1>1, <1>5, <1>6 DEF Begin, IInv, TypeOK, Honest, OnCourse, Removing, Dests, Dest
    <2>2. CASE ApplyPatch(p) \/ CleanCmds(p)
      BY <2>2, <1>1, <1>5, <1>6
         DEF ApplyPatch, CleanCmds, Doing, Honest, OnCourse, Removing, Dests
    <2>3. CASE UninstallCmds(p)
      BY <2>3, <1>1, <1>5, <1>6
         DEF UninstallCmds, Doing, Empties, IInv, TypeOK, Honest, OnCourse, Removing, Dests, Dest
    <2>4. ASSUME NEW left \in SUBSET stamps[p], DircleanSome(p, left)
          PROVE  Honest(p)' /\ OnCourse(p)'
      BY <2>4, <1>1, <1>5, <1>6
         DEF DircleanSome, Doing, IInv, TypeOK, Honest, OnCourse, Removing, Dests, Dest
    <2>5. CASE UninstallStamp(p) /\ job = 1
      BY <2>5, <1>1, <1>5, <1>6
         DEF UninstallStamp, Doing, Empties, IInv, TypeOK, Honest, OnCourse, Removing, Dests, Dest
    <2> QED BY <2>1, <2>2, <2>3, <2>4, <2>5
  <1> QED BY <1>1, <1>2, <1>4, <1>7, OthersKept

\* The recipes that undo, when they end.
LEMMA UndoStep ==
  ASSUME IInv, TypeOK', NEW p \in Pkg,
         \/ UninstallStamp(p) /\ job = 3
         \/ CleanStamp(p)
         \/ DircleanAll(p)
  PROVE  IInv'
  <1>1. /\ Working(p) /\ Advance(p) /\ inst' = inst
        /\ at[p] \in {"uninstalled", "cleaned", "dircleaned"}
    BY DEF UninstallStamp, CleanStamp, DircleanAll, Doing
  <1>2. /\ \A q \in Pkg \ {p} : stamps'[q] = stamps[q]
        /\ \A d \in stamps'[p] : d \in stamps[p] /\ ~Removing(p, d)
    BY DEF UninstallStamp, CleanStamp, DircleanAll, Doing, Empties, IInv, TypeOK, Removing
  <1>3. /\ verb' = verb /\ roots' = roots
        /\ at' = [at EXCEPT ![p] = After(p, at[p])]
    BY <1>1, AdvanceType DEF IInv
  <1>4. at'[p] = After(p, at[p]) /\ \A q \in Pkg \ {p} : at'[q] = at[q]
    BY <1>3 DEF IInv, TypeOK
  <1>5. Goal(p)' = Goal(p) /\ Goal(p) # "install"
    BY <1>1, <1>3 DEF Goal, IInv, OnCourse
  <1>6. After(p, at[p]) \in {"made", "cleaned"}
    BY <1>1 DEF After
  <1>7. Honest(p)' /\ OnCourse(p)' /\ MadeInPlace(p)'
    <2>1. Honest(p)'
      BY <1>1, <1>2 DEF IInv, Honest, Dests
    <2>2. OnCourse(p)' /\ MadeInPlace(p)'
      BY <1>4, <1>5, <1>6 DEF OnCourse, MadeInPlace, Made, Dest
    <2> QED BY <2>1, <2>2
  <1> QED BY <1>1, <1>2, <1>3, <1>4, <1>7, OthersKept

\* Failures, interrupts and the end of a run: none while .stamp_uninstalled has
\* emptied a directory and not yet removed its stamp.
LEMMA EndStep ==
  ASSUME "uninstalled" \notin CrashIn, IInv, TypeOK',
         \/ RunEnds \/ Interrupt
         \/ \E p \in Pkg : RejectPatch(p) \/ GiveUp(p)
  PROVE  IInv'
  <1>1. EndRun /\ stamps' = stamps /\ inst' = inst
    BY DEF RunEnds, Interrupt, RejectPatch, GiveUp, files
  <1>2. ASSUME NEW q \in Pkg, NEW d \in Dest, Removing(q, d) PROVE FALSE
    <2>1. at[q] = "uninstalled" /\ job \in {1, 3} /\ Working(q)
      BY <1>2 DEF Removing, Working, Active
    <2>2. q \in roots
      BY <2>1 DEF IInv, OnCourse, Goal
    <2>3. CASE RunEnds
      BY <2>1, <2>2, <2>3 DEF RunEnds
    <2>4. CASE Interrupt
      BY <2>1, <2>4 DEF Interrupt
    <2>5. ASSUME NEW p \in Pkg, RejectPatch(p) \/ GiveUp(p) PROVE FALSE
      <3>1. Working(p) /\ at[p] # "uninstalled"
        BY <2>5 DEF RejectPatch, GiveUp, Doing, Dest
      <3> QED BY <2>1, <3>1 DEF IInv, Serial
    <2> QED BY <2>3, <2>4, <2>5
  <1> QED BY <1>1, <1>2, RunEnded

\* Between two runs no package is considered.
LEMMA UserStep ==
  ASSUME IInv, TypeOK', User
  PROVE  IInv'
  <1>1. \A p \in Pkg : at[p] = "unvisited" /\ at'[p] = "unvisited"
    BY DEF User, StartMake, ChangeOptions, RemoveStamp, run, IInv, IdleRests
  <1>2. /\ \A p \in Pkg : stamps'[p] \subseteq stamps[p]
        /\ inst' = inst
        /\ verb' = "idle" => roots' = {}
    BY UserAssumption DEF User, StartMake, ChangeOptions, RemoveStamp, run, files,
                          IInv, TypeOK, IdleRests, Goals
  <1>3. Serial' /\ IdleRests'
    BY <1>1, <1>2 DEF Serial, IdleRests, Working, Active
  <1>4. ASSUME NEW p \in Pkg
        PROVE  Honest(p)' /\ OnCourse(p)' /\ MadeInPlace(p)' /\ Ordered(p)'
    <2>1. Honest(p)'
      BY <1>1, <1>2 DEF IInv, Honest, Removing, Dests
    <2>2. OnCourse(p)' /\ MadeInPlace(p)' /\ Ordered(p)'
      BY <1>1 DEF OnCourse, MadeInPlace, Made, Ordered, Settled, Working, Active, Dest
    <2> QED BY <2>1, <2>2
  <1> QED BY <1>3, <1>4 DEF IInv

LEMMA InvStep ==
  ASSUME "uninstalled" \notin CrashIn, IInv, [Next]_vars
  PROVE  IInv'
  <1>1. TypeOK'
    BY TypeStep DEF IInv
  <1>2. CASE UNCHANGED vars
    BY <1>1, <1>2 DEF vars, IInv, Serial, IdleRests, Honest, Removing, OnCourse, MadeInPlace,
       Made, InPlace, Ordered, Settled, Working, Active, Goal, Dests
  <1>3. ASSUME NEW p \in Pkg, Traverse(p) PROVE IInv'
    <2>1. CASE Take(p)
      <3>1. verb # "idle" /\ \A q \in Pkg : ~Working(q)
        BY <2>1 DEF Take, Working, IInv, IdleRests
      <3> QED BY <1>1, <2>1, <3>1, Entered DEF Take, files
    <2>2. ASSUME NEW d \in Pkg, Visit(p, d) PROVE IInv'
      <3>1. verb # "idle" /\ \A q \in Pkg : ~Working(q)
        BY <2>2 DEF Visit, Depending, IInv, IdleRests
      <3> QED BY <1>1, <2>2, <3>1, Entered DEF Visit, files
    <2> QED BY <1>1, <1>3, <2>1, <2>2, Settles, BuildStep DEF Traverse
  <1>4. ASSUME NEW p \in Pkg, Recipe(p) PROVE IInv'
    <2>1. UninstallStamp(p) => job \in {1, 3}
      BY DEF UninstallStamp
    <2> QED BY <1>1, <1>4, <2>1, BuildStep, StayStep, UndoStep, EndStep DEF Recipe
  <1> QED BY <1>1, <1>2, <1>3, <1>4, EndStep, UserStep DEF Next, Make

LEMMA InvInit == Init => IInv
  <1> SUFFICES ASSUME Init PROVE IInv
    OBVIOUS
  <1>1. TypeOK
    BY DEF Init, TypeOK, Dest
  <1> QED BY <1>1 DEF Init, IInv, Serial, IdleRests, Honest, OnCourse, MadeInPlace, Made,
                      Ordered, Settled, Working, Active, Dest

\* If make is never cut off between the uninstall commands of a package and the
\* removal of its stamps, then whatever else is interrupted, cleaned, edited or
\* removed by hand: no recipe of a package runs before its dependencies are in
\* place (Makefile.package.in, <pkg>-depends).
THEOREM DependenciesInstalled ==
  ASSUME "uninstalled" \notin CrashIn
  PROVE  Spec => []DepsInstalled
  <1>1. IInv => DepsInstalled
    BY PkgAssumption DEF IInv, Ordered, MadeInPlace, DepsInstalled
  <1> QED BY <1>1, InvInit, InvStep, PTL DEF Spec

-----------------------------------------------------------------------------
(* The contract *)

Ready == {p \in Pkg : InPlace(p)}
Busy  == {p \in Pkg : Settled(p)}

\* What make works on is the only package that comes or goes.
LEMMA ContractChange ==
  ASSUME IInv, IInv', NEW p \in Pkg, Working(p), verb' = verb, roots' = roots,
         \A q \in Pkg \ {p} : inst'[q] = inst[q] /\ at'[q] = at[q],
         Settled(p)' => Settled(p),
         inst'[p] = inst[p] \/ Settled(p)
  PROVE  Contract!Change(p) \/ UNCHANGED <<Ready, Busy>>
  <1>1. \A q \in Pkg \ {p} : /\ InPlace(q)' = InPlace(q)
                             /\ ~Settled(q) /\ ~Settled(q)'
    BY DEF InPlace, Settled, IInv, Serial, Working, Active, Dests
  <1>2. Busy \subseteq {p} /\ Busy' \in {Busy, Busy \ {p}}
    BY <1>1 DEF Busy
  <1>3. Ready' \in {Ready, Ready \cup {p}, Ready \ {p}}
    BY <1>1 DEF Ready
  <1>4. CASE Settled(p)
    <2>1. p \in Busy
      BY <1>4 DEF Busy
    <2>2. p \notin Deps[p]
      BY <1>4 DEF IInv, Ordered, Made, Working, Active
    <2>3. p \notin UNION {Deps[q] : q \in Busy}
      BY <1>2, <2>2
    <2>4. Ready' \in {Ready \cup {p}, Ready \ {p}}
      BY <1>3
    <2> QED BY <1>2, <2>1, <2>3, <2>4 DEF Contract!Change, Contract!Needed, Ready, Busy
  <1>5. CASE ~Settled(p)
    <2>1. InPlace(p)' = InPlace(p)
      BY <1>5 DEF InPlace, Dests
    <2> QED BY <1>1, <1>5, <2>1 DEF Ready, Busy
  <1> QED BY <1>4, <1>5

LEMMA ContractStep ==
  ASSUME IInv, IInv', [Next]_vars
  PROVE  Contract!Next \/ UNCHANGED <<Ready, Busy>>
  <1>1. CASE UNCHANGED vars
    BY <1>1 DEF vars, Ready, Busy, InPlace, Settled, Working, Active, Dests
  <1>2. ASSUME EndRun, inst' = inst PROVE Contract!Leave
    BY <1>2 DEF EndRun, Contract!Leave, InPlace, Settled, Working, Active, Dests
  <1>3. ASSUME NEW p \in Pkg, Traverse(p) \/ Recipe(p), Working(p), ~EndRun
        PROVE  Contract!Change(p) \/ UNCHANGED <<Ready, Busy>>
    <2>1. at[p] \in Step
      BY <1>3 DEF IInv, TypeOK, Working, Active
    <2>2. /\ verb' = verb /\ roots' = roots
          /\ at' = at \/ at' = [at EXCEPT ![p] = After(p, at[p])]
          /\ inst' = inst \/ (Settled(p) /\ \A q \in Pkg \ {p} : inst'[q] = inst[q])
      <3>1. ~Take(p) /\ ~DepsDone(p) /\ (\A d \in Pkg : ~Visit(p, d))
            /\ ~RejectPatch(p) /\ ~GiveUp(p)
        BY <1>3 DEF Take, DepsDone, Visit, Depending, Working, RejectPatch, GiveUp, Active
      <3>2. \A d \in Dest : at[p] = d => Settled(p)
        BY <1>3 DEF Settled, Dest
      <3>3. CASE \/ Skip(p) \/ Downloaded(p) \/ Extracted(p) \/ Patched(p) \/ Configured(p)
                 \/ Built(p) \/ CleanStamp(p) \/ DircleanAll(p)
        BY <3>3, <1>3, AdvanceType DEF Skip, Downloaded, Extracted, Patched, Configured,
           Built, CleanStamp, DircleanAll, files, IInv
      <3>4. CASE UninstallStamp(p)
        BY <3>4, <1>3, AdvanceType DEF UninstallStamp, IInv
      <3>5. CASE \/ ApplyPatch(p) \/ CleanCmds(p)
                 \/ \E left \in SUBSET stamps[p] : DircleanSome(p, left)
        BY <3>5 DEF ApplyPatch, CleanCmds, DircleanSome
      <3>6. CASE Begin(p)
        BY <3>6, <3>2 DEF Begin, IInv, TypeOK
      <3>7. ASSUME NEW d \in Dest, Installed(p, d)
            PROVE  /\ verb' = verb /\ roots' = roots
                   /\ at' = [at EXCEPT ![p] = After(p, at[p])]
                   /\ Settled(p) /\ \A q \in Pkg \ {p} : inst'[q] = inst[q]
        BY <3>7, <3>2, <1>3, AdvanceType DEF Installed, Doing, IInv, TypeOK
      <3>8. CASE UninstallCmds(p)
        BY <3>8, <1>3 DEF UninstallCmds, Doing, IInv, TypeOK, Settled
      <3> QED BY <1>3, <3>1, <3>3, <3>4, <3>5, <3>6, <3>7, <3>8 DEF Traverse, Recipe
    <2>3. Settled(p)' => Settled(p)
      BY <2>1, <2>2, AfterSettled, <1>3 DEF Settled, Working, Active, IInv, TypeOK
    <2>4. \A q \in Pkg \ {p} : inst'[q] = inst[q] /\ at'[q] = at[q]
      BY <2>2 DEF IInv, TypeOK
    <2> QED BY <1>3, <2>2, <2>3, <2>4, ContractChange
  <1>4. ASSUME NEW p \in Pkg, DepsDone(p) PROVE Contract!Enter(p)
    <2>1. /\ at' = [at EXCEPT ![p] = After(p, at[p])] /\ inst' = inst
          /\ at[p] = "depends" /\ \A q \in Pkg : ~Working(q)
      BY <1>4, AdvanceType DEF DepsDone, Depending, files, IInv
    <2>2. After(p, "depends") = "extracted"
      BY DEF After, LastStep
    <2>3. Busy = {} /\ Busy' = {p}
      BY <2>1, <2>2 DEF Busy, Settled, Working, Active, IInv, TypeOK
    <2>4. Deps[p] \subseteq Ready
      BY <1>4, PkgAssumption DEF DepsDone, IInv, MadeInPlace, Ready
    <2>5. Ready' = Ready
      BY <2>1 DEF Ready, InPlace, Dests
    <2> QED BY <2>3, <2>4, <2>5 DEF Contract!Enter, Ready, Busy
  <1>5. ASSUME NEW p \in Pkg, Take(p) \/ \E d \in Pkg : Visit(p, d)
        PROVE  UNCHANGED <<Ready, Busy>>
    <2>1. inst' = inst /\ \A q \in Pkg : ~Working(q)
      BY <1>5 DEF Take, Visit, Depending, Working, files
    <2>2. PICK q \in Pkg : at' = [at EXCEPT ![q] = First(q)]
      BY <1>5 DEF Take, Visit
    <2>3. First(q) \in {"downloaded", "dircleaned", "made"}
      BY DEF First
    <2>4. \A r \in Pkg : ~Settled(r) /\ ~Settled(r)'
      BY <2>1, <2>2, <2>3 DEF Settled, Working, Active, IInv, TypeOK
    <2> QED BY <2>1, <2>4 DEF Ready, Busy, InPlace, Dests
  <1>6. CASE User
    <2>1. inst' = inst /\ at' = at
      BY <1>6 DEF User, StartMake, ChangeOptions, RemoveStamp, files, run
    <2> QED BY <2>1 DEF Ready, Busy, InPlace, Dests, Settled, Working, Active
  <1>7. CASE RunEnds \/ Interrupt
    BY <1>2, <1>7 DEF RunEnds, Interrupt, files, Contract!Next
  <1>8. ASSUME NEW p \in Pkg, Traverse(p) \/ Recipe(p)
        PROVE  Contract!Next \/ UNCHANGED <<Ready, Busy>>
    <2>1. CASE Working(p) /\ ~EndRun
      BY <1>3, <1>8, <2>1 DEF Contract!Next
    <2>2. CASE ~Working(p)
      <3>1. Take(p) \/ DepsDone(p) \/ \E d \in Pkg : Visit(p, d)
        BY <1>8, <2>2 DEF Traverse, Recipe, Skip, Begin, Downloaded, Extracted, ApplyPatch,
           RejectPatch, Patched, Configured, Built, Installed, UninstallCmds, UninstallStamp,
           CleanCmds, CleanStamp, DircleanSome, DircleanAll, GiveUp, Doing
      <3> QED BY <3>1, <1>4, <1>5 DEF Contract!Next
    <2>3. CASE Working(p) /\ EndRun
      <3>1. verb # "idle"
        BY <2>3 DEF IInv, IdleRests, Working, Active
      <3>2. RejectPatch(p) \/ GiveUp(p)
        <4>1. verb' # verb
          BY <2>3, <3>1 DEF EndRun
        <4> QED BY <1>8, <4>1 DEF Traverse, Recipe, Take, Visit, DepsDone, Skip, Begin,
             Downloaded, Extracted, ApplyPatch, Patched, Configured, Built, Installed,
             UninstallCmds, UninstallStamp, CleanCmds, CleanStamp, DircleanSome, DircleanAll,
             Advance
      <3>3. inst' = inst
        BY <3>2 DEF RejectPatch, GiveUp, files
      <3> QED BY <2>3, <3>3, <1>2 DEF Contract!Next
    <2> QED BY <2>1, <2>2, <2>3
  <1> QED BY <1>1, <1>6, <1>7, <1>8 DEF Next, Make

\* Under the same assumption the infrastructure implements BuildContract: the
\* dependencies of a package are in place when its recipes begin and nothing
\* disturbs them until it is left.
THEOREM ContractKept ==
  ASSUME "uninstalled" \notin CrashIn
  PROVE  Spec => KeepsContract
  <1>1. Init => Contract!Init
    BY DEF Init, Contract!Init, Settled, Working, Active
  <1>2. IInv /\ IInv' /\ [Next]_vars
          => [Contract!Next]_<<{p \in Pkg : InPlace(p)}, {p \in Pkg : Settled(p)}>>
    BY ContractStep DEF Ready, Busy
  <1> QED BY <1>1, <1>2, InvInit, InvStep, PTL DEF Spec, KeepsContract, Contract!Spec

=============================================================================

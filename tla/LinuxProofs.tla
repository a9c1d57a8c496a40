---------------------------- MODULE LinuxProofs ----------------------------
(***************************************************************************)
(* Theorems about LinuxKernel for any patches, goals, failures and bounds. *)
(*                                                                         *)
(* That the image is current does not follow from the recipe that copies   *)
(* it: make skips recipes whose stamps look up to date, and the stamps of  *)
(* interrupted runs may.  The invariant says which stamps are out of date  *)
(* whenever the configuration or the patches are not those of the objects. *)
(***************************************************************************)
EXTENDS LinuxKernel, SequenceTheorems, TLAPS

\* The files that exist have been written, whatever was written since.
Orders == {o \in [Files -> SUBSET Files] : \A f \in Files : o[f] # {} => f \in o[f]}

\* With files written in the order o, make does not run the recipe of f for its
\* own sake.
Fresh(o, f) == o[f] # {} /\ \A g \in Prereqs(f) : o[g] # {} /\ (g = f \/ g \notin o[f])

\* The first n stamps exist and none is older than those it depends on.
UpToIn(o, n) ==
  /\ n >= 1 => Fresh(o, "downloaded")
  /\ n >= 2 => Fresh(o, "extracted")
  /\ n >= 3 => Fresh(o, "patched")
  /\ n >= 4 => Fresh(o, "configured")
  /\ n >= 5 => Fresh(o, "compiled")
  /\ n >= 6 => Fresh(o, "installed")
UpTo(n) == UpToIn(since, n)

Menu == goal = "linux26-menuconfig"
Good(i) == i.cfg = cfg /\ i.applied = applied

\* The first n targets of a run are behind it.
Past(n) == at > n /\ (Menu => n < 5)

\* A run makes targets from left to right, and forgets them when it ends.
Flow ==
  /\ IF goal = "idle" THEN at = 0 /\ redone = {} /\ job = -1 ELSE at >= 1
  /\ Menu /\ at >= 5 => job = -1
  /\ \A i \in 1..6 : at <= i => Chain[i] \notin redone
  /\ ".config" \notin redone
  /\ cfg <= edits
  /\ Present("configured") => Present(".config")

\* The recipe of target n runs, or has to because that of f ran.
Due(n, f) == at = n /\ (job >= 0 \/ f \in redone)

\* A recipe runs, or has to, only where its stamp is out of date.  But
\* .stamp_patched may be new before the patches are tried: then it is
\* .stamp_configured that is out of date.
OutOfDate ==
  /\ at = 1 /\ job >= 0 => ~UpTo(1)
  /\ Due(2, "downloaded") => ~UpTo(2)
  /\ Due(3, "extracted") \/ Due(4, "patched") => ~UpTo(4)
  /\ Due(5, "configured") => ~UpTo(5)
  /\ Due(6, "compiled") => ~UpTo(6)

\* What is behind a run is up to date; with a tarball .stamp_extracted is never
\* written, and every run makes everything again.
Progress ==
  IF Tarball
  THEN /\ ~Present("extracted")
       /\ \A i \in 2..5 : Past(i) => Chain[i] \in redone
  ELSE \A i \in 1..6 : Past(i) => UpTo(i)

\* Up to date objects and images have the configuration and the patches that
\* the tree has.  A second build that fails leaves no objects, but an image.
Built ==
  /\ UpTo(5) => Good(obj) \/ UpTo(6)
  /\ UpTo(6) => Good(img)
  /\ at = 6 /\ ~Menu => Good(obj) \/ UpTo(6)
  /\ at > 6 => Good(img)
  /\ at > 7 => list = target /\ "rootfs.initramfs" \in redone
  /\ at > 8 => Good(final) /\ final.root = target

\* Edits are lost only with the whole tree.
Kept ==
  /\ edits > 0 => UpTo(4)
  /\ UpTo(4) => cfg = edits

IInv == TypeOK /\ Flow /\ OutOfDate /\ Progress /\ Built /\ (~Tarball => Kept)

-----------------------------------------------------------------------------
(* The targets and their files *)

LEMMA Order ==
  /\ Chain[1] = "downloaded" /\ Chain[2] = "extracted" /\ Chain[3] = "patched"
  /\ Chain[4] = "configured" /\ Chain[5] = "compiled" /\ Chain[6] = "installed"
  /\ Len(Chain) = 6 /\ Chain \in Seq(Files)
  BY DEF Chain, Files

LEMMA PathOrder ==
  ASSUME NEW g \in Goals
  PROVE  /\ \A i \in 1..4 : Path(g)[i] = Chain[i]
         /\ DOMAIN Path(g) = 1..Len(Path(g))
         /\ g = "linux26-menuconfig" => Len(Path(g)) = 5 /\ Path(g)[5] = "menuconfig"
         /\ g # "linux26-menuconfig" => \A i \in 5..6 : Path(g)[i] = Chain[i]
         /\ g = "world" /\ Initramfs =>
              /\ Len(Path(g)) = 8
              /\ Path(g)[7] = "rootfs.initramfs" /\ Path(g)[8] = "initramfs_rebuilt"
         /\ g # "linux26-menuconfig" /\ ~(g = "world" /\ Initramfs) => Len(Path(g)) = 6
  <1>1. CASE g = "linux26-menuconfig"
    BY <1>1, Order DEF Path
  <1>2. CASE g = "world" /\ Initramfs
    <2> DEFINE tail == <<"rootfs.initramfs", "initramfs_rebuilt">>
    <2>1. Path(g) = Chain \o tail
      BY <1>2 DEF Path
    <2>2. tail \in Seq(Files) /\ Len(tail) = 2
      BY DEF Files
    <2>3. /\ tail[1] = "rootfs.initramfs" /\ tail[2] = "initramfs_rebuilt"
          /\ Len(Chain) + Len(tail) = 8
      BY <2>2, Order
    <2> HIDE DEF tail
    <2>4. /\ Len(Chain \o tail) = Len(Chain) + Len(tail)
          /\ \A i \in 1..Len(Chain) + Len(tail) : (Chain \o tail)[i] =
               IF i <= Len(Chain) THEN Chain[i] ELSE tail[i - Len(Chain)]
      BY <2>2, Order, ConcatProperties, Zenon
    <2>5. /\ Len(Path(g)) = 8
          /\ \A i \in 1..8 : Path(g)[i] = IF i <= 6 THEN Chain[i] ELSE tail[i - 6]
      BY <2>1, <2>3, <2>4, Order
    <2>6. Path(g)[7] = tail[7 - 6] /\ Path(g)[8] = tail[8 - 6]
      BY <2>5
    <2> QED BY <1>2, <2>3, <2>5, <2>6
  <1>3. CASE g # "linux26-menuconfig" /\ ~(g = "world" /\ Initramfs)
    BY <1>3, Order DEF Path
  <1> QED BY <1>1, <1>2, <1>3

\* Where make is from the target it is at.
LEMMA HereAt ==
  ASSUME TypeOK, Flow, Running
  PROVE  /\ goal \in Goals /\ at \in 1..8
         /\ Here = "downloaded" <=> at = 1
         /\ Here = "extracted" <=> at = 2
         /\ Here = "patched" <=> at = 3
         /\ Here = "configured" <=> at = 4
         /\ Here = "menuconfig" <=> at = 5 /\ Menu
         /\ Here = "compiled" <=> at = 5 /\ ~Menu
         /\ Here = "installed" <=> at = 6
         /\ Here = "rootfs.initramfs" <=> at = 7
         /\ Here = "initramfs_rebuilt" <=> at = 8
         /\ at > 5 => ~Menu
         /\ at > 6 => goal = "world" /\ Initramfs
  <1>1. goal \in Goals /\ at >= 1 /\ at <= Len(Path(goal)) /\ at \in Int
    BY DEF TypeOK, Flow, Running
  <1>2. /\ Len(Path(goal)) = IF Menu THEN 5 ELSE IF goal = "world" /\ Initramfs THEN 8 ELSE 6
        /\ \A i \in 1..4 : Path(goal)[i] = Chain[i]
        /\ Menu => Path(goal)[5] = "menuconfig"
        /\ ~Menu => Path(goal)[5] = Chain[5] /\ Path(goal)[6] = Chain[6]
        /\ Len(Path(goal)) = 8 => /\ Path(goal)[7] = "rootfs.initramfs"
                                  /\ Path(goal)[8] = "initramfs_rebuilt"
    BY <1>1, PathOrder DEF Menu
  <1>3. \/ at = 1 \/ at = 2 \/ at = 3 \/ at = 4 \/ at = 5 \/ at = 6 \/ at = 7 \/ at = 8
    BY <1>1, <1>2
  <1> QED BY <1>1, <1>2, <1>3, Order DEF Here, Menu

\* The ends of the paths.
LEMMA AtEnd ==
  ASSUME TypeOK, goal # "idle"
  PROVE  /\ Menu => at <= 6
         /\ at > 7 => goal = "world" /\ Initramfs
         /\ at > Len(Path(goal)) /\ ~Menu => at > 6
         /\ at > Len(Path(goal)) /\ goal = "world" /\ Initramfs => at > 8
         /\ \A i \in DOMAIN Path(goal) \ {7, 8} : ~Menu => i \in 1..6 /\ Path(goal)[i] = Chain[i]
         /\ Len(Path(goal)) \in {5, 6, 8}
  <1>1. goal \in Goals /\ at \in Int /\ at <= Len(Path(goal)) + 1
    BY DEF TypeOK
  <1>3. Len(Path(goal)) = IF Menu THEN 5 ELSE IF goal = "world" /\ Initramfs THEN 8 ELSE 6
    BY <1>1, PathOrder DEF Menu
  <1>4. DOMAIN Path(goal) = 1..Len(Path(goal))
    BY <1>1, PathOrder
  <1>5. \A i \in 1..6 : ~Menu => Path(goal)[i] = Chain[i]
    BY <1>1, PathOrder DEF Menu
  <1>6. \A i \in DOMAIN Path(goal) \ {7, 8} : ~Menu => i \in 1..6 /\ Path(goal)[i] = Chain[i]
    BY <1>3, <1>4, <1>5
  <1> QED BY <1>1, <1>3, <1>6 DEF Menu

-----------------------------------------------------------------------------
(* The order of the files *)

LEMMA PrereqsAre ==
  /\ Prereqs("downloaded") = {}
  /\ Prereqs("extracted") = {"downloaded"}
  /\ Prereqs("patched") = {"extracted"}
  /\ Prereqs("configured") = {"patched"}
  /\ Prereqs(".config") = {}
  /\ Prereqs("compiled") = {"configured", ".config"}
  /\ Prereqs("installed") = {"compiled"}
  /\ Prereqs("rootfs.initramfs") = {}
  /\ Prereqs("initramfs_rebuilt") = {"installed", "rootfs.initramfs"}
  BY DEF Prereqs

LEMMA PrereqsFiles ==
  \A f \in Files : Prereqs(f) \subseteq Files /\ f \notin Prereqs(f)
  BY PrereqsAre DEF Files

\* Writing f makes it up to date, what depends on it out of date, and leaves
\* the rest as it is.
LEMMA TouchFresh ==
  ASSUME NEW o \in Orders, NEW f \in Files
  PROVE  /\ Touched(o, f) \in Orders
         /\ \A g \in Files : Touched(o, f)[g] # {} <=> o[g] # {} \/ g = f
         /\ (\A g \in Prereqs(f) : o[g] # {}) => Fresh(Touched(o, f), f)
         /\ \A g \in Files \ {f} :
              /\ f \in Prereqs(g) => ~Fresh(Touched(o, f), g)
              /\ f \notin Prereqs(g) => (Fresh(Touched(o, f), g) <=> Fresh(o, g))
  <1> DEFINE t == Touched(o, f)
  <1>1. \A g \in Files : t[g] = IF g = f THEN {f} ELSE IF o[g] = {} THEN {} ELSE o[g] \cup {f}
    BY DEF Touched
  <1>2. t \in Orders
    <2>1. t \in [Files -> SUBSET Files]
      BY DEF Touched, Orders
    <2> QED BY <1>1, <2>1 DEF Orders
  <1>3. \A g \in Files : t[g] # {} <=> o[g] # {} \/ g = f
    BY <1>1
  <1> HIDE DEF t
  <1>4. (\A g \in Prereqs(f) : o[g] # {}) => Fresh(t, f)
    BY <1>1, <1>3, PrereqsFiles DEF Fresh
  <1>5. ASSUME NEW g \in Files \ {f}
        PROVE  /\ f \in Prereqs(g) => ~Fresh(t, g)
               /\ f \notin Prereqs(g) => (Fresh(t, g) <=> Fresh(o, g))
    BY <1>1, <1>3, PrereqsFiles DEF Fresh
  <1> QED BY <1>2, <1>3, <1>4, <1>5 DEF t

\* Removing files leaves those that do not depend on them as they are.
LEMMA RemoveFresh ==
  ASSUME NEW o \in Orders, NEW D \in SUBSET Files
  PROVE  /\ Removed(o, D) \in Orders
         /\ \A g \in Files : Removed(o, D)[g] # {} <=> o[g] # {} /\ g \notin D
         /\ \A g \in Files : Fresh(Removed(o, D), g) <=>
              Fresh(o, g) /\ g \notin D /\ Prereqs(g) \cap D = {}
  <1> DEFINE t == Removed(o, D)
  <1>1. \A g \in Files : t[g] = IF g \in D THEN {} ELSE o[g] \ D
    BY DEF Removed
  <1>2. t \in Orders
    <2>1. t \in [Files -> SUBSET Files]
      BY DEF Removed, Orders
    <2> QED BY <1>1, <2>1 DEF Orders
  <1>3. \A g \in Files : t[g] # {} <=> o[g] # {} /\ g \notin D
    BY <1>1 DEF Orders
  <1> HIDE DEF t
  <1>4. \A g \in Files : Fresh(t, g) <=> Fresh(o, g) /\ g \notin D /\ Prereqs(g) \cap D = {}
    BY <1>1, <1>3, PrereqsFiles DEF Fresh
  <1> QED BY <1>2, <1>3, <1>4 DEF t

\* The same for the stamps in their order.
LEMMA TouchUpTo ==
  ASSUME NEW o \in Orders
  PROVE  /\ UpToIn(Touched(o, "downloaded"), 1)
         /\ ~UpToIn(Touched(o, "downloaded"), 2)
         /\ UpToIn(Touched(o, "extracted"), 1) <=> UpToIn(o, 1)
         /\ UpToIn(o, 1) => UpToIn(Touched(o, "extracted"), 2)
         /\ ~UpToIn(Touched(o, "extracted"), 3)
         /\ \A n \in 1..2 : UpToIn(Touched(o, "patched"), n) <=> UpToIn(o, n)
         /\ UpToIn(o, 2) => UpToIn(Touched(o, "patched"), 3)
         /\ ~UpToIn(Touched(o, "patched"), 4)
         /\ \A n \in 1..3 : UpToIn(Touched(o, "configured"), n) <=> UpToIn(o, n)
         /\ UpToIn(o, 3) => UpToIn(Touched(o, "configured"), 4)
         /\ ~UpToIn(Touched(o, "configured"), 5)
         /\ \A n \in 1..4 : UpToIn(Touched(o, ".config"), n) <=> UpToIn(o, n)
         /\ ~UpToIn(Touched(o, ".config"), 5)
         /\ \A n \in 1..4 : UpToIn(Touched(o, "compiled"), n) <=> UpToIn(o, n)
         /\ UpToIn(o, 4) /\ o[".config"] # {} => UpToIn(Touched(o, "compiled"), 5)
         /\ ~UpToIn(Touched(o, "compiled"), 6)
         /\ \A n \in 1..5 : UpToIn(Touched(o, "installed"), n) <=> UpToIn(o, n)
         /\ UpToIn(o, 5) => UpToIn(Touched(o, "installed"), 6)
         /\ \A f \in {"rootfs.initramfs", "initramfs_rebuilt"}, n \in 1..6 :
              UpToIn(Touched(o, f), n) <=> UpToIn(o, n)
  <1> USE PrereqsAre DEF Files
  <1>0. \A f : Fresh(o, f) => o[f] # {}
    BY DEF Fresh
  <1>1. /\ UpToIn(Touched(o, "downloaded"), 1)
        /\ ~UpToIn(Touched(o, "downloaded"), 2)
    BY <1>0, TouchFresh DEF UpToIn
  <1>2. /\ UpToIn(Touched(o, "extracted"), 1) <=> UpToIn(o, 1)
        /\ UpToIn(o, 1) => UpToIn(Touched(o, "extracted"), 2)
        /\ ~UpToIn(Touched(o, "extracted"), 3)
    <2>1. o["downloaded"] # {} => Fresh(Touched(o, "extracted"), "extracted")
      BY TouchFresh
    <2>2. /\ Fresh(Touched(o, "extracted"), "downloaded") <=> Fresh(o, "downloaded")
          /\ ~Fresh(Touched(o, "extracted"), "patched")
      BY TouchFresh
    <2> QED BY <1>0, <2>1, <2>2 DEF UpToIn
  <1>3. /\ \A n \in 1..2 : UpToIn(Touched(o, "patched"), n) <=> UpToIn(o, n)
        /\ UpToIn(o, 2) => UpToIn(Touched(o, "patched"), 3)
        /\ ~UpToIn(Touched(o, "patched"), 4)
    <2>1. o["extracted"] # {} => Fresh(Touched(o, "patched"), "patched")
      BY TouchFresh
    <2>2. /\ Fresh(Touched(o, "patched"), "downloaded") <=> Fresh(o, "downloaded")
          /\ Fresh(Touched(o, "patched"), "extracted") <=> Fresh(o, "extracted")
          /\ ~Fresh(Touched(o, "patched"), "configured")
      BY TouchFresh
    <2> QED BY <1>0, <2>1, <2>2 DEF UpToIn
  <1>4. /\ \A n \in 1..3 : UpToIn(Touched(o, "configured"), n) <=> UpToIn(o, n)
        /\ UpToIn(o, 3) => UpToIn(Touched(o, "configured"), 4)
        /\ ~UpToIn(Touched(o, "configured"), 5)
    <2>1. o["patched"] # {} => Fresh(Touched(o, "configured"), "configured")
      BY TouchFresh
    <2>2. /\ Fresh(Touched(o, "configured"), "downloaded") <=> Fresh(o, "downloaded")
          /\ Fresh(Touched(o, "configured"), "extracted") <=> Fresh(o, "extracted")
          /\ Fresh(Touched(o, "configured"), "patched") <=> Fresh(o, "patched")
          /\ ~Fresh(Touched(o, "configured"), "compiled")
      BY TouchFresh
    <2> QED BY <1>0, <2>1, <2>2 DEF UpToIn
  <1>5. /\ \A n \in 1..4 : UpToIn(Touched(o, ".config"), n) <=> UpToIn(o, n)
        /\ ~UpToIn(Touched(o, ".config"), 5)
    BY <1>0, TouchFresh DEF UpToIn
  <1>6. /\ \A n \in 1..4 : UpToIn(Touched(o, "compiled"), n) <=> UpToIn(o, n)
        /\ UpToIn(o, 4) /\ o[".config"] # {} => UpToIn(Touched(o, "compiled"), 5)
        /\ ~UpToIn(Touched(o, "compiled"), 6)
    <2>1. o["configured"] # {} /\ o[".config"] # {} => Fresh(Touched(o, "compiled"), "compiled")
      BY TouchFresh
    <2>2. /\ Fresh(Touched(o, "compiled"), "downloaded") <=> Fresh(o, "downloaded")
          /\ Fresh(Touched(o, "compiled"), "extracted") <=> Fresh(o, "extracted")
          /\ Fresh(Touched(o, "compiled"), "patched") <=> Fresh(o, "patched")
          /\ Fresh(Touched(o, "compiled"), "configured") <=> Fresh(o, "configured")
          /\ ~Fresh(Touched(o, "compiled"), "installed")
      BY TouchFresh
    <2> QED BY <1>0, <2>1, <2>2 DEF UpToIn
  <1>7. /\ \A n \in 1..5 : UpToIn(Touched(o, "installed"), n) <=> UpToIn(o, n)
        /\ UpToIn(o, 5) => UpToIn(Touched(o, "installed"), 6)
    <2>1. o["compiled"] # {} => Fresh(Touched(o, "installed"), "installed")
      BY TouchFresh
    <2>2. /\ Fresh(Touched(o, "installed"), "downloaded") <=> Fresh(o, "downloaded")
          /\ Fresh(Touched(o, "installed"), "extracted") <=> Fresh(o, "extracted")
          /\ Fresh(Touched(o, "installed"), "patched") <=> Fresh(o, "patched")
          /\ Fresh(Touched(o, "installed"), "configured") <=> Fresh(o, "configured")
          /\ Fresh(Touched(o, "installed"), "compiled") <=> Fresh(o, "compiled")
      BY TouchFresh
    <2> QED BY <1>0, <2>1, <2>2 DEF UpToIn
  <1>8. \A f \in {"rootfs.initramfs", "initramfs_rebuilt"}, n \in 1..6 :
          UpToIn(Touched(o, f), n) <=> UpToIn(o, n)
    BY <1>0, TouchFresh DEF UpToIn
  <1> QED BY <1>1, <1>2, <1>3, <1>4, <1>5, <1>6, <1>7, <1>8

-----------------------------------------------------------------------------
(* Types *)

LEMMA OrderOK == TypeOK => since \in Orders
  BY DEF TypeOK, Orders, Present

LEMMA IdlePath == "idle" \notin Goals /\ Len(Path("idle")) = 6
  BY LinuxAssumption, Order DEF Path

LEMMA KernelType ==
  ASSUME TypeOK
  PROVE  Kernel \in Image
  <1>1. /\ cfg \in -1..MaxEdits /\ applied \in SUBSET (1..NPatch)
        /\ list \in 0..target /\ target \in 1..MaxTarget
    BY DEF TypeOK
  <1>2. list \in -1..MaxTarget /\ -1 \in -1..MaxTarget
    BY <1>1, LinuxAssumption
  <1> QED BY <1>1, <1>2 DEF Kernel, Image

\* The recipe of f ends: what it does to the run.
LEMMA DoneType ==
  ASSUME TypeOK, Flow, NEW f \in Files, Doing(f), Done(f)
  PROVE  /\ goal' = goal /\ at' = at + 1 /\ at' \in 0..Len(Path(goal)) + 1
         /\ redone' = redone \cup {f} /\ redone' \subseteq Files
         /\ job' = -1 /\ failed' = FALSE /\ edits' = edits /\ target' = target
         /\ stops' = stops
  <1>1. at \in 1..Len(Path(goal)) /\ Len(Path(goal)) \in Nat
    BY HereAt, AtEnd DEF Doing, Running, TypeOK
  <1> QED BY <1>1 DEF Done, user, TypeOK

\* The parts of TypeOK but the files.
TreeOK ==
  /\ applied \subseteq 1..NPatch /\ rej \in BOOLEAN /\ cfg \in -1..MaxEdits
  /\ list \in 0..target
  /\ obj \in Image /\ img \in Image /\ final \in Image
RunOK ==
  /\ goal \in Goals \cup {"idle"} /\ at \in 0..Len(Path(goal)) + 1
  /\ redone \subseteq Files /\ job \in -1..NPatch /\ failed \in BOOLEAN
UserOK == edits \in 0..MaxEdits /\ target \in 1..MaxTarget /\ stops \in 0..MaxStops

LEMMA Parts == TypeOK <=> since \in Orders /\ TreeOK /\ RunOK /\ UserOK
  BY DEF TypeOK, Orders, Present, TreeOK, RunOK, UserOK

LEMMA PartsNext == TypeOK' <=> since' \in Orders /\ TreeOK' /\ RunOK' /\ UserOK'
  BY DEF TypeOK, Orders, Present, TreeOK, RunOK, UserOK

LEMMA Bounds ==
  /\ NPatch \in Nat /\ MaxEdits \in Nat /\ MaxTarget \in Nat /\ MaxStops \in Nat
  /\ MaxTarget > 0
  BY LinuxAssumption

LEMMA NoneType == None \in Image
  BY LinuxAssumption DEF None, Image

LEMMA OrderStep ==
  ASSUME since \in Orders, [Next]_vars
  PROVE  since' \in Orders
  <1>1. ASSUME NEW f \in Files, NEW g \in Files, NEW h \in Files
        PROVE  /\ Touched(since, f) \in Orders
               /\ Touched(Touched(since, f), g) \in Orders
               /\ Touched(Touched(Touched(since, f), g), h) \in Orders
    BY TouchFresh
  <1>2. \A D \in SUBSET Files : Removed(since, D) \in Orders
    BY RemoveFresh
  <1>3. Deleted \subseteq Files
    BY DEF Deleted, Files
  <1>4. CASE Extracted \/ Configured
    BY <1>1, <1>4 DEF Extracted, ExtractStamps, Configured, Files
  <1>5. CASE Interrupt \/ RemoveTree
    BY <1>2, <1>3, <1>5 DEF Interrupt, RemoveTree
  <1>6. CASE Downloaded \/ Patched \/ Compiled \/ Installed \/ Listed \/ Rebuilt \/ Edit
    BY <1>1, <1>6 DEF Downloaded, Patched, Compiled, Installed, Listed, Rebuilt, Edit, Files
  <1>7. CASE \/ \E g \in Goals : Start(g)
             \/ UpToDate \/ Begin \/ PatchOne \/ PatchFails \/ RunEnds \/ Fail \/ ChangeTarget
             \/ UNCHANGED vars
    BY <1>7 DEF Start, UpToDate, Begin, PatchOne, PatchFails, RunEnds, Fail, ChangeTarget,
                vars, tree
  <1> QED BY <1>4, <1>5, <1>6, <1>7 DEF Next

LEMMA TypeStep ==
  ASSUME TypeOK, Flow, [Next]_vars
  PROVE  TypeOK'
  <1>1. since' \in Orders /\ TreeOK /\ RunOK /\ UserOK
    BY OrderStep, Parts
  <1> SUFFICES TreeOK' /\ RunOK' /\ UserOK'
    BY <1>1, PartsNext
  <1>2. CASE UNCHANGED vars
    BY <1>1, <1>2 DEF vars, tree, run, user, TreeOK, RunOK, UserOK
  <1>3. EndRun => RunOK'
    <2> SUFFICES ASSUME EndRun PROVE RunOK'
      OBVIOUS
    <2>1. goal' = "idle" /\ at' = 0 /\ redone' = {} /\ job' = -1 /\ failed' = FALSE
      BY DEF EndRun
    <2>2. Len(Path(goal'))  = 6
      BY <2>1, IdlePath
    <2>3. at' \in 0..Len(Path(goal')) + 1 /\ job' \in -1..NPatch
      BY <2>1, <2>2, Bounds
    <2> QED BY <2>1, <2>3 DEF RunOK
  <1>4. CASE PatchFails \/ RunEnds
    BY <1>1, <1>3, <1>4 DEF PatchFails, RunEnds, tree, user, TreeOK, UserOK
  <1>5. CASE Interrupt \/ Fail
    <2>1. TreeOK'
      BY <1>1, <1>5 DEF Interrupt, Fail, tree, TreeOK
    <2>2. UserOK'
      BY <1>1, <1>5, Bounds DEF Interrupt, Fail, UserOK
    <2>3. RunOK'
      BY <1>3, <1>5 DEF Interrupt, Fail
    <2> QED BY <2>1, <2>2, <2>3
  <1>6. CASE (\E g \in Goals : Start(g)) \/ UpToDate
    <2>1. TreeOK' /\ UserOK'
      BY <1>1, <1>6 DEF Start, UpToDate, tree, user, TreeOK, UserOK
    <2>2. RunOK'
      <3>1. ASSUME NEW g \in Goals, Start(g) PROVE RunOK'
        BY <1>1, <3>1, PathOrder DEF Start, RunOK
      <3>2. ASSUME UpToDate PROVE RunOK'
        BY <1>1, <3>2, AtEnd, IdlePath DEF UpToDate, Running, RunOK
      <3> QED BY <1>6, <3>1, <3>2
    <2> QED BY <2>1, <2>2
  <1>7. CASE Begin
    BY <1>1, <1>7, NoneType, Bounds DEF Begin, user, TreeOK, RunOK, UserOK
  <1>8. CASE PatchOne
    <2>1. applied' \subseteq 1..NPatch /\ rej' \in BOOLEAN
      <3>1. applied \subseteq 1..NPatch /\ rej \in BOOLEAN /\ job \in -1..NPatch
        BY <1>1 DEF TreeOK, RunOK
      <3>2. job + 1 \in 1..NPatch /\ applied' \in {applied, applied \cup {job + 1}}
        BY <1>8, <3>1, Bounds DEF PatchOne, Doing
      <3>3. rej' \in {rej, TRUE}
        BY <1>8 DEF PatchOne
      <3> QED BY <3>1, <3>2, <3>3
    <2>3. TreeOK' /\ UserOK'
      BY <1>1, <1>8, <2>1 DEF PatchOne, user, TreeOK, UserOK
    <2>2. RunOK'
      BY <1>1, <1>8, Bounds DEF PatchOne, TreeOK, RunOK
    <2> QED BY <2>2, <2>3
  <1>9. CASE Downloaded \/ Extracted \/ Patched \/ Configured \/ Compiled \/ Installed \/ Listed
             \/ Rebuilt
    <2>1. PICK f \in Files : Doing(f) /\ Done(f)
      BY <1>9 DEF Downloaded, Extracted, Patched, Configured, Compiled, Installed, Listed,
                  Rebuilt, Files
    <2>2. /\ goal' = goal /\ at' \in 0..Len(Path(goal)) + 1 /\ redone' \subseteq Files
          /\ job' = -1 /\ failed' = FALSE
          /\ edits' = edits /\ target' = target /\ stops' = stops
      BY <2>1, DoneType
    <2>3. RunOK' /\ UserOK'
      <3>1. -1 \in -1..NPatch /\ goal \in Goals \cup {"idle"}
        BY <1>1, Bounds DEF RunOK
      <3> QED BY <1>1, <2>2, <3>1 DEF RunOK, UserOK
    <2>4. CASE Listed \/ Configured \/ Extracted
      <3>1. /\ applied' = applied \/ applied' = {}
            /\ cfg' = cfg \/ cfg' = 0
            /\ list' = list \/ list' = target
        BY <2>4 DEF Listed, Configured, Extracted
      <3>6. rej' = rej /\ obj' = obj /\ img' = img /\ final' = final
        BY <2>4 DEF Listed, Configured, Extracted
      <3>2. 0 \in -1..MaxEdits /\ target \in 0..target
        BY <1>1, Bounds DEF UserOK
      <3>3. target' = target /\ TreeOK
        BY <1>1, <2>2
      <3>4. applied' \subseteq 1..NPatch /\ cfg' \in -1..MaxEdits
        BY <3>1, <3>2, <3>3 DEF TreeOK
      <3>5. list' \in 0..target'
        BY <3>1, <3>2, <3>3 DEF TreeOK
      <3> QED BY <2>3, <3>3, <3>4, <3>5, <3>6 DEF TreeOK
    <2>5. CASE Downloaded \/ Patched \/ Compiled \/ Installed \/ Rebuilt
      <3>1. /\ obj' = obj \/ obj' = Kernel
            /\ img' = img \/ img' = obj
            /\ final' = final \/ final' = Kernel
        BY <2>5 DEF Downloaded, Patched, Compiled, Installed, Rebuilt
      <3>4. applied' = applied /\ rej' = rej /\ cfg' = cfg /\ list' = list
        BY <2>5 DEF Downloaded, Patched, Compiled, Installed, Rebuilt
      <3>2. target' = target /\ Kernel \in Image /\ TreeOK
        BY <1>1, <2>2, KernelType
      <3>3. obj' \in Image /\ img' \in Image /\ final' \in Image
        BY <3>1, <3>2 DEF TreeOK
      <3> QED BY <2>3, <3>2, <3>3, <3>4 DEF TreeOK
    <2> QED BY <1>9, <2>3, <2>4, <2>5
  <1>10. CASE Edit
    <2>1. Len(Path(goal)) = 5 /\ at = 5
      BY <1>10, HereAt, PathOrder DEF Edit, Menu
    <2>2. cfg' \in -1..MaxEdits /\ edits' \in 0..MaxEdits
      BY <1>1, <1>10, Bounds DEF Edit, Flow, TreeOK, UserOK
    <2> QED BY <1>1, <1>10, <2>1, <2>2 DEF Edit, TreeOK, RunOK, UserOK
  <1>11. CASE ChangeTarget \/ RemoveTree
    <2>1. RunOK'
      BY <1>1, <1>11 DEF ChangeTarget, RemoveTree, run, RunOK
    <2>2. ChangeTarget => UserOK'
      BY <1>1, Bounds DEF ChangeTarget, UserOK
    <2>3. RemoveTree => UserOK'
      BY <1>1, Bounds DEF RemoveTree, UserOK
    <2>4. ChangeTarget => TreeOK'
      BY <1>1, Bounds DEF ChangeTarget, tree, TreeOK, UserOK
    <2>5. RemoveTree => TreeOK'
      <3>1. -1 \in -1..MaxEdits
        BY Bounds
      <3> QED BY <1>1, <3>1, NoneType DEF RemoveTree, TreeOK
    <2> QED BY <1>11, <2>1, <2>2, <2>3, <2>4, <2>5
  <1> QED BY <1>2, <1>4, <1>5, <1>6, <1>7, <1>8, <1>9, <1>10, <1>11 DEF Next

-----------------------------------------------------------------------------
(* Steps *)

Rest == Flow /\ OutOfDate /\ Progress /\ Built /\ (~Tarball => Kept)

LEMMA Downward ==
  ASSUME NEW o, NEW m \in 0..6, NEW n \in 0..6, m <= n, UpToIn(o, n)
  PROVE  UpToIn(o, m)
  BY DEF UpToIn

\* With a tarball nothing but the download is ever up to date.
LEMMA NeverUp ==
  ASSUME NEW o, o["extracted"] = {}, NEW n \in 2..6
  PROVE  ~UpToIn(o, n)
  BY DEF UpToIn, Fresh

\* Edits are lost with the tree only.
LEMMA NoEdits ==
  ASSUME IInv, ~Tarball, ~UpTo(4)
  PROVE  edits = 0
  BY DEF IInv, Kept, TypeOK

\* The recipe of target k of the chain ends.
LEMMA Makes ==
  ASSUME IInv, NEW k \in 1..6, Doing(Chain[k]), Done(Chain[k]),
         ~Tarball => UpTo(k)',
         Tarball => ~Present("extracted")',
         k < 6 => ~UpTo(IF k = 2 THEN 4 ELSE k + 1)',
         Present("configured")' => Present(".config")',
         cfg' = IF k = 4 THEN 0 ELSE cfg,
         k = 5 => Good(obj)',
         k = 6 => Good(img)'
  PROVE  Rest'
  <1>1. TypeOK /\ Flow /\ OutOfDate /\ Progress /\ Built /\ (~Tarball => Kept)
    BY DEF IInv
  <1>2. at = k /\ job >= 0 /\ goal \in Goals /\ goal # "idle" /\ (Menu => k < 5)
    <2>1. Running /\ Here = Chain[k] /\ job >= 0
      BY DEF Doing
    <2> QED BY <1>1, <2>1, HereAt, Order, IdlePath DEF Menu
  <1>3. /\ goal' = goal /\ at' = k + 1 /\ redone' = redone \cup {Chain[k]} /\ job' = -1
        /\ edits' = edits /\ (Menu' <=> Menu)
    BY <1>2 DEF Done, user, Menu
  <1>4. edits \in Nat /\ cfg <= edits /\ cfg \in Int
    BY <1>1, Bounds DEF TypeOK, Flow
  <1>5. \A n \in 0..6 : UpTo(n)' <=> UpToIn(since', n)
    BY DEF UpTo
  <1>6. /\ ~Tarball => \A n \in 1..k : UpTo(n)'
        /\ Tarball => \A n \in 2..6 : ~UpTo(n)'
        /\ k < 6 => \A n \in (IF k = 2 THEN 4 ELSE k + 1)..6 : ~UpTo(n)'
    <2>1. ~Tarball => \A n \in 1..k : UpTo(n)'
      BY <1>5, Downward
    <2>2. Tarball => \A n \in 2..6 : ~UpTo(n)'
      <3>1. Tarball => since'["extracted"] = {}
        BY DEF Present
      <3> QED BY <1>5, <3>1, NeverUp
    <2>3. k < 6 => \A n \in (IF k = 2 THEN 4 ELSE k + 1)..6 : ~UpTo(n)'
      <3> SUFFICES ASSUME k < 6, NEW n \in (IF k = 2 THEN 4 ELSE k + 1)..6, UpTo(n)'
                   PROVE  FALSE
        OBVIOUS
      <3> DEFINE m == IF k = 2 THEN 4 ELSE k + 1
      <3>1. m \in 0..6 /\ n \in 0..6 /\ m <= n
        OBVIOUS
      <3>2. UpToIn(since', m)
        BY <1>5, <3>1, Downward
      <3> QED BY <1>5, <3>1, <3>2
    <2> QED BY <2>1, <2>2, <2>3
  <1>7. Flow'
    <2>1. ASSUME NEW i \in 1..6, k + 1 <= i PROVE Chain[i] \notin redone'
      <3>1. Chain[i] # Chain[k]
        BY <2>1, Order
      <3> QED BY <1>1, <1>2, <1>3, <2>1, <3>1 DEF Flow
    <2>2. ".config" \notin redone'
      BY <1>1, <1>3, Order DEF Flow
    <2> QED BY <1>2, <1>3, <1>4, <2>1, <2>2 DEF Flow
  <1>8. OutOfDate'
    BY <1>3, <1>6 DEF OutOfDate, Due
  <1>9. Progress'
    <2>1. CASE Tarball
      <3>1. \A i \in 2..5 : Past(i)' => Chain[i] \in redone'
        BY <1>1, <1>2, <1>3, <2>1 DEF Progress, Past
      <3> QED BY <2>1, <3>1 DEF Progress
    <2>2. CASE ~Tarball
      BY <1>3, <1>6, <2>2 DEF Progress, Past
    <2> QED BY <2>1, <2>2
  <1>10. Built'
    BY <1>2, <1>3, <1>6 DEF Built
  <1>11. ~Tarball => Kept'
    <2> SUFFICES ASSUME ~Tarball PROVE Kept'
      OBVIOUS
    <2>1. CASE k < 4
      <3>1. ~UpTo(4)'
        BY <1>6, <2>1
      <3>2. ~UpTo(4)
        <4>1. k = 1 => ~UpTo(1)
          BY <1>1, <1>2 DEF OutOfDate
        <4>2. k = 2 => ~UpTo(2)
          BY <1>1, <1>2 DEF OutOfDate, Due
        <4>3. k = 3 => ~UpTo(4)
          BY <1>1, <1>2 DEF OutOfDate, Due
        <4> QED BY <2>1, <4>1, <4>2, <4>3, Downward DEF UpTo
      <3> QED BY <1>3, <3>1, <3>2, NoEdits DEF Kept
    <2>2. CASE k = 4
      <3>1. ~UpTo(4)
        BY <1>1, <1>2, <2>2 DEF OutOfDate, Due
      <3> QED BY <1>3, <2>2, <3>1, NoEdits DEF Kept
    <2>3. CASE k > 4
      <3>1. UpTo(4)' /\ cfg' = cfg
        BY <1>6, <2>3
      <3>2. UpTo(4)
        BY <1>1, <1>2, <2>3 DEF Progress, Past
      <3> QED BY <1>1, <1>3, <3>1, <3>2 DEF Kept
    <2> QED BY <2>1, <2>2, <2>3
  <1> QED BY <1>7, <1>8, <1>9, <1>10, <1>11 DEF Rest

\* What Makes asks of a recipe that writes files, for what the files were.
LEMMA Before ==
  ASSUME IInv, NEW k \in 1..6, Doing(Chain[k])
  PROVE  /\ at = k /\ job >= 0 /\ since \in Orders
         /\ ~Tarball /\ k > 1 => UpToIn(since, k - 1)
         /\ Tarball => since["extracted"] = {}
         /\ since["configured"] # {} => since[".config"] # {}
         /\ k = 6 => Good(obj) /\ ~Menu
         /\ k = 5 => ~Menu
  <1>1. TypeOK /\ Flow /\ OutOfDate /\ Progress /\ Built
    BY DEF IInv
  <1>2. at = k /\ job >= 0 /\ (Menu => k < 5) /\ since \in Orders
    <2>1. Running /\ Here = Chain[k] /\ job >= 0
      BY DEF Doing
    <2> QED BY <1>1, <2>1, HereAt, Order, OrderOK DEF Menu
  <1>3. ~Tarball /\ k > 1 => UpToIn(since, k - 1)
    <2>1. ~Tarball /\ k > 1 => Past(k - 1)
      BY <1>2 DEF Past
    <2>2. ~Tarball /\ k > 1 => UpTo(k - 1)
      BY <1>1, <2>1 DEF Progress
    <2> QED BY <2>2 DEF UpTo
  <1>4. /\ Tarball => since["extracted"] = {}
        /\ since["configured"] # {} => since[".config"] # {}
    BY <1>1 DEF Progress, Flow, Present
  <1>5. k = 6 => Good(obj)
    BY <1>1, <1>2 DEF OutOfDate, Due, Built
  <1> QED BY <1>2, <1>3, <1>4, <1>5

LEMMA ChainKeeps ==
  ASSUME IInv, Downloaded \/ Extracted \/ Patched \/ Configured \/ Compiled \/ Installed
  PROVE  Rest'
  <1> USE Order
  <1>1. CASE Downloaded
    <2>1. Doing(Chain[1]) /\ Done(Chain[1]) /\ since' = Touched(since, "downloaded") /\ cfg' = cfg
      BY <1>1 DEF Downloaded
    <2>2. /\ since \in Orders /\ (Tarball => since["extracted"] = {})
          /\ since["configured"] # {} => since[".config"] # {}
      BY <2>1, Before
    <2>3. UpTo(1)' /\ ~UpTo(2)'
      BY <2>1, <2>2, TouchUpTo DEF UpTo
    <2>4. /\ Tarball => ~Present("extracted")'
          /\ Present("configured")' => Present(".config")'
      BY <2>1, <2>2, TouchFresh DEF Present, Files
    <2> QED BY <2>1, <2>3, <2>4, Makes
  <1>2. CASE Extracted
    <2>1. Doing(Chain[2]) /\ Done(Chain[2]) /\ since' = ExtractStamps /\ cfg' = cfg
      BY <1>2 DEF Extracted
    <2>2. /\ since \in Orders /\ (Tarball => since["extracted"] = {})
          /\ ~Tarball => UpToIn(since, 1)
          /\ since["configured"] # {} => since[".config"] # {}
      BY <2>1, Before
    <2> DEFINE o == Touched(since, "extracted")
    <2>3. /\ o \in Orders /\ (~Tarball => UpToIn(o, 2))
          /\ o["configured"] # {} => o[".config"] # {}
      BY <2>2, TouchUpTo, TouchFresh DEF Files
    <2> HIDE DEF o
    <2>4. CASE ~Tarball
      <3>1. since' = Touched(o, "patched")
        BY <2>1, <2>4 DEF ExtractStamps, o
      <3>2. UpTo(2)' /\ ~UpTo(4)'
        BY <2>3, <2>4, <3>1, TouchUpTo DEF UpTo
      <3>3. Present("configured")' => Present(".config")'
        BY <2>3, <3>1, TouchFresh DEF Present, Files
      <3> QED BY <2>1, <2>4, <3>2, <3>3, Makes
    <2>5. CASE Tarball
      <3>1. since' = since
        BY <2>1, <2>5 DEF ExtractStamps
      <3>2. ~UpTo(4)'
        BY <2>2, <2>5, <3>1, NeverUp DEF UpTo
      <3>3. ~Present("extracted")' /\ (Present("configured")' => Present(".config")')
        BY <2>2, <2>5, <3>1 DEF Present
      <3> QED BY <2>1, <2>5, <3>2, <3>3, Makes
    <2> QED BY <2>4, <2>5
  <1>3. CASE Patched
    <2>1. Doing(Chain[3]) /\ Done(Chain[3]) /\ since' = Touched(since, "patched") /\ cfg' = cfg
      BY <1>3 DEF Patched
    <2>2. /\ since \in Orders /\ (Tarball => since["extracted"] = {})
          /\ ~Tarball => UpToIn(since, 2)
          /\ since["configured"] # {} => since[".config"] # {}
      BY <2>1, Before
    <2>3. (~Tarball => UpTo(3)') /\ ~UpTo(4)'
      BY <2>1, <2>2, TouchUpTo DEF UpTo
    <2>4. /\ Tarball => ~Present("extracted")'
          /\ Present("configured")' => Present(".config")'
      BY <2>1, <2>2, TouchFresh DEF Present, Files
    <2> QED BY <2>1, <2>3, <2>4, Makes
  <1>4. CASE Configured
    <2>1. Doing(Chain[4]) /\ Done(Chain[4]) /\ cfg' = 0
      BY <1>4 DEF Configured
    <2>2. /\ since \in Orders /\ (Tarball => since["extracted"] = {})
          /\ ~Tarball => UpToIn(since, 3)
      BY <2>1, Before
    <2>3. PICK o \in Orders : /\ Tarball => o["extracted"] = {}
                              /\ ~Tarball => UpToIn(o, 3)
                              /\ since' = Touched(Touched(o, ".config"), "configured")
      <3>1. CASE Initramfs
        <4> DEFINE o == Touched(since, "rootfs.initramfs")
        <4>1. /\ o \in Orders /\ (Tarball => o["extracted"] = {})
              /\ ~Tarball => UpToIn(o, 3)
          <5>1. o \in Orders /\ (Tarball => o["extracted"] = {})
            BY <2>2, TouchFresh DEF Files
          <5>2. UpToIn(o, 3) <=> UpToIn(since, 3)
            BY <2>2, TouchUpTo
          <5> QED BY <2>2, <5>1, <5>2
        <4>2. since' = Touched(Touched(o, ".config"), "configured")
          BY <1>4, <3>1 DEF Configured
        <4> QED BY <4>1, <4>2
      <3>2. CASE ~Initramfs
        <4>1. since' = Touched(Touched(since, ".config"), "configured")
          BY <1>4, <3>2 DEF Configured
        <4> QED BY <2>2, <4>1
      <3> QED BY <3>1, <3>2
    <2> DEFINE p == Touched(o, ".config")
    <2>4. /\ p \in Orders /\ p[".config"] # {} /\ (Tarball => p["extracted"] = {})
          /\ ~Tarball => UpToIn(p, 3)
      <3>1. p \in Orders /\ p[".config"] # {} /\ (Tarball => p["extracted"] = {})
        BY <2>3, TouchFresh DEF Files
      <3>2. UpToIn(p, 3) <=> UpToIn(o, 3)
        BY <2>3, TouchUpTo
      <3> QED BY <2>3, <3>1, <3>2
    <2> HIDE DEF p
    <2>5. (~Tarball => UpTo(4)') /\ ~UpTo(5)'
      BY <2>3, <2>4, TouchUpTo DEF UpTo, p
    <2>6. (Tarball => ~Present("extracted")') /\ Present(".config")'
      BY <2>3, <2>4, TouchFresh DEF Present, Files, p
    <2> QED BY <2>1, <2>5, <2>6, Makes
  <1>5. CASE Compiled
    <2>1. Doing(Chain[5]) /\ Done(Chain[5]) /\ since' = Touched(since, "compiled") /\ cfg' = cfg
      BY <1>5 DEF Compiled
    <2>2. /\ since \in Orders /\ (Tarball => since["extracted"] = {})
          /\ ~Tarball => UpToIn(since, 4)
          /\ since["configured"] # {} => since[".config"] # {}
      BY <2>1, Before
    <2>3. (~Tarball => UpTo(5)') /\ ~UpTo(6)'
      <3>1. ~Tarball => since["configured"] # {}
        BY <2>2 DEF UpToIn, Fresh
      <3> QED BY <2>1, <2>2, <3>1, TouchUpTo DEF UpTo
    <2>4. /\ Tarball => ~Present("extracted")'
          /\ Present("configured")' => Present(".config")'
      BY <2>1, <2>2, TouchFresh DEF Present, Files
    <2>5. Good(obj)'
      BY <1>5 DEF Compiled, Kernel, Good
    <2> QED BY <2>1, <2>3, <2>4, <2>5, Makes
  <1>6. CASE Installed
    <2>1. Doing(Chain[6]) /\ Done(Chain[6]) /\ since' = Touched(since, "installed") /\ cfg' = cfg
      BY <1>6 DEF Installed
    <2>2. /\ since \in Orders /\ (Tarball => since["extracted"] = {})
          /\ ~Tarball => UpToIn(since, 5)
          /\ since["configured"] # {} => since[".config"] # {}
          /\ Good(obj)
      BY <2>1, Before
    <2>3. ~Tarball => UpTo(6)'
      BY <2>1, <2>2, TouchUpTo DEF UpTo
    <2>4. /\ Tarball => ~Present("extracted")'
          /\ Present("configured")' => Present(".config")'
      BY <2>1, <2>2, TouchFresh DEF Present, Files
    <2>5. Good(img)'
      BY <1>6, <2>2 DEF Installed, Good
    <2> QED BY <2>1, <2>3, <2>4, <2>5, Makes
  <1> QED BY <1>1, <1>2, <1>3, <1>4, <1>5, <1>6

\* A run that ends leaves the stamps it found, or fewer.
LEMMA Ended ==
  ASSUME IInv, EndRun, goal # "idle",
         UNCHANGED <<applied, cfg, obj, img, edits>>,
         \A n \in 1..6 : UpTo(n)' => UpTo(n),
         UpTo(5)' /\ UpTo(6) => UpTo(6)',
         ~Tarball /\ edits > 0 => UpTo(4)',
         Tarball => ~Present("extracted")',
         Present("configured")' => Present(".config")'
  PROVE  Rest'
  <1>1. TypeOK /\ Flow /\ OutOfDate /\ Progress /\ Built /\ (~Tarball => Kept)
    BY DEF IInv
  <1>2. goal' = "idle" /\ at' = 0 /\ redone' = {} /\ job' = -1 /\ Menu' = FALSE
    BY DEF EndRun, Menu
  <1>3. Flow'
    BY <1>1, <1>2 DEF Flow
  <1>4. OutOfDate'
    BY <1>2 DEF OutOfDate, Due
  <1>5. Progress'
    BY <1>2 DEF Progress, Past
  <1>6. Built'
    BY <1>1, <1>2 DEF Built, Good
  <1>7. ~Tarball => Kept'
    BY <1>1 DEF Kept
  <1> QED BY <1>3, <1>4, <1>5, <1>6, <1>7 DEF Rest

LEMMA EndKeeps ==
  ASSUME IInv, RunEnds \/ PatchFails \/ Fail \/ Interrupt
  PROVE  Rest'
  <1>1. TypeOK /\ Flow /\ OutOfDate /\ Progress /\ (~Tarball => Kept) /\ since \in Orders
    BY OrderOK DEF IInv
  <1>2. EndRun /\ goal # "idle" /\ UNCHANGED <<applied, cfg, obj, img, edits>>
    BY DEF RunEnds, PatchFails, Fail, Interrupt, Doing, Running, tree, user
  <1>3. CASE since' = since
    <2>1. \A n \in 1..6 : UpTo(n)' <=> UpTo(n)
      BY <1>3 DEF UpTo
    <2>2. /\ Tarball => ~Present("extracted")'
          /\ Present("configured")' => Present(".config")'
      BY <1>1, <1>3 DEF Present, Progress, Flow
    <2>3. ~Tarball /\ edits > 0 => UpTo(4)'
      BY <1>1, <2>1 DEF Kept
    <2> QED BY <1>2, <2>1, <2>2, <2>3, Ended
  <1>4. CASE Interrupt
    <2> DEFINE D == Deleted
    <2>1. /\ since' = Removed(since, D) /\ Running
          /\ \/ D = {}
             \/ D = {"rootfs.initramfs"}
             \/ D = {"patched"} /\ job >= 0 /\ Here = "patched"
      <3>1. since' = Removed(since, D) /\ Running
        BY <1>4 DEF Interrupt
      <3>2. \/ D = {"patched"} /\ job >= 0 /\ Here = "patched"
            \/ D = {"rootfs.initramfs"}
            \/ D = {}
        BY Zenon DEF Deleted
      <3> QED BY <3>1, <3>2
    <2> HIDE DEF D
    <2>2. D \in SUBSET Files
      BY <2>1 DEF Files
    <2>3. \A g \in Files : Fresh(since', g) <=>
             Fresh(since, g) /\ g \notin D /\ Prereqs(g) \cap D = {}
      BY <1>1, <2>1, <2>2, RemoveFresh
    <2>4. \A g \in Files : since'[g] # {} <=> since[g] # {} /\ g \notin D
      BY <1>1, <2>1, <2>2, RemoveFresh
    <2>5. /\ Tarball => ~Present("extracted")'
          /\ Present("configured")' => Present(".config")'
      BY <1>1, <2>1, <2>4 DEF Present, Progress, Flow, Files
    <2>6. CASE D = {} \/ D = {"rootfs.initramfs"}
      <3>1. \A f \in {"downloaded", "extracted", "patched", "configured", "compiled", "installed"} :
               Fresh(since', f) <=> Fresh(since, f)
        BY <2>3, <2>6, PrereqsAre DEF Files
      <3>2. \A n \in 1..6 : UpTo(n)' <=> UpTo(n)
        BY <3>1 DEF UpTo, UpToIn
      <3>3. ~Tarball /\ edits > 0 => UpTo(4)'
        BY <1>1, <3>2 DEF Kept
      <3> QED BY <1>2, <2>5, <3>2, <3>3, Ended
    <2>7. CASE D = {"patched"} /\ job >= 0 /\ Here = "patched"
      <3>1. ~UpTo(3)'
        BY <2>3, <2>7 DEF UpTo, UpToIn, Files
      <3>2. \A n \in 1..6 : UpTo(n)' => UpTo(n)
        BY <2>3 DEF UpTo, UpToIn, Files
      <3>3. ~UpTo(5)'
        BY <3>1, Downward DEF UpTo
      <3>4. at = 3
        BY <1>1, <2>1, <2>7, HereAt
      <3>5. ~Tarball /\ edits > 0 => UpTo(4)'
        <4>1. ~UpTo(4)
          BY <1>1, <2>7, <3>4 DEF OutOfDate, Due
        <4> QED BY <4>1, NoEdits
      <3> QED BY <1>2, <2>5, <3>2, <3>3, <3>5, Ended
    <2> QED BY <2>1, <2>6, <2>7
  <1> QED BY <1>3, <1>4 DEF RunEnds, PatchFails, Fail, tree

\* What make skips is up to date.
LEMMA Skipped ==
  ASSUME NEW f, ~MustMake(f)
  PROVE  Fresh(since, f) /\ Prereqs(f) \cap redone = {} /\ f # "rootfs.initramfs"
  BY DEF MustMake, Fresh, Present, Newer

\* What it makes is not, or made of what was made in this run.
LEMMA NotSkipped ==
  ASSUME NEW f, MustMake(f), f # "rootfs.initramfs", Prereqs(f) \cap redone = {}
  PROVE  ~Fresh(since, f)
  BY DEF MustMake, Fresh, Present, Newer

LEMMA UserKeeps ==
  ASSUME IInv, (\E g \in Goals : Start(g)) \/ ChangeTarget \/ RemoveTree
  PROVE  Rest'
  <1>1. TypeOK /\ Flow /\ OutOfDate /\ Progress /\ Built /\ (~Tarball => Kept) /\ since \in Orders
    BY OrderOK DEF IInv
  <1>2. goal = "idle" /\ at = 0 /\ redone = {} /\ job = -1
    BY <1>1 DEF Start, ChangeTarget, RemoveTree, Flow
  <1>3. CASE (\E g \in Goals : Start(g)) \/ ChangeTarget
    <2>1. /\ since' = since /\ cfg' = cfg /\ edits' = edits /\ applied' = applied
          /\ obj' = obj /\ img' = img /\ redone' = {} /\ job' = -1
      BY <1>2, <1>3 DEF Start, ChangeTarget, tree, run, user
    <2>2. \/ goal' = "idle" /\ at' = 0
          \/ goal' # "idle" /\ at' = 1
      BY <1>2, <1>3, IdlePath DEF Start, ChangeTarget, run
    <2>3. \A n \in 1..6 : UpTo(n)' <=> UpTo(n)
      BY <2>1 DEF UpTo
    <2>4. Flow'
      BY <1>1, <2>1, <2>2 DEF Flow, Menu, Present
    <2>5. OutOfDate'
      BY <2>1, <2>2 DEF OutOfDate, Due
    <2>6. Progress'
      BY <1>1, <2>1, <2>2 DEF Progress, Past, Present
    <2>7. Built'
      BY <1>1, <2>1, <2>2, <2>3 DEF Built, Good
    <2>8. ~Tarball => Kept'
      BY <1>1, <2>1, <2>3 DEF Kept
    <2> QED BY <2>4, <2>5, <2>6, <2>7, <2>8 DEF Rest
  <1>4. CASE RemoveTree
    <2>1. /\ since' = Removed(since, Files \ {"rootfs.initramfs"}) /\ edits' = 0 /\ cfg' = -1
          /\ goal' = "idle" /\ at' = 0 /\ redone' = {} /\ job' = -1
      BY <1>2, <1>4 DEF RemoveTree, run
    <2>2. /\ since'["downloaded"] = {} /\ since'["configured"] = {}
          /\ since'["extracted"] = {}
      BY <1>1, <2>1, RemoveFresh DEF Files
    <2>3. \A n \in 1..6 : ~UpTo(n)'
      BY <2>2 DEF UpTo, UpToIn, Fresh
    <2>4. Flow'
      BY <2>1, <2>2 DEF Flow, Menu, Present
    <2>5. OutOfDate'
      BY <2>1 DEF OutOfDate, Due
    <2>6. Progress'
      BY <2>1, <2>2 DEF Progress, Past, Present
    <2>7. Built'
      BY <2>1, <2>3 DEF Built
    <2>8. Kept'
      BY <2>1, <2>3 DEF Kept
    <2> QED BY <2>4, <2>5, <2>6, <2>7, <2>8 DEF Rest
  <1> QED BY <1>3, <1>4

\* While the patches are tried, and when the user edits.
LEMMA WorkKeeps ==
  ASSUME IInv, PatchOne \/ Edit
  PROVE  Rest'
  <1>1. TypeOK /\ Flow /\ OutOfDate /\ Progress /\ Built /\ (~Tarball => Kept) /\ since \in Orders
    BY OrderOK DEF IInv
  <1>2. CASE PatchOne
    <2>1. at = 3 /\ job >= 0 /\ goal # "idle"
      BY <1>1, <1>2, HereAt DEF PatchOne, Doing, Running
    <2>2. /\ since' = since /\ cfg' = cfg /\ edits' = edits /\ goal' = goal /\ at' = 3
          /\ redone' = redone /\ job' = job + 1 /\ job \in Int
      BY <1>1, <1>2, <2>1, Bounds DEF PatchOne, user, TypeOK
    <2>3. (Menu' <=> Menu) /\ \A n \in 1..6 : UpTo(n)' <=> UpTo(n)
      BY <2>2 DEF UpTo, Menu
    <2>4. ~UpTo(4)
      BY <1>1, <2>1 DEF OutOfDate, Due
    <2>5. ~UpTo(5)' /\ ~UpTo(6)' /\ ~UpTo(4)'
      BY <2>3, <2>4, Downward DEF UpTo
    <2>6. Flow'
      BY <1>1, <2>1, <2>2, <2>3 DEF Flow, Present
    <2>7. OutOfDate'
      BY <2>2, <2>5 DEF OutOfDate, Due
    <2>8. Progress'
      BY <1>1, <2>1, <2>2, <2>3 DEF Progress, Past, Present
    <2>9. Built'
      BY <2>2, <2>5 DEF Built
    <2>10. ~Tarball => Kept'
      BY <1>1, <2>2, <2>3 DEF Kept
    <2> QED BY <2>6, <2>7, <2>8, <2>9, <2>10 DEF Rest
  <1>3. CASE Edit
    <2>1. at = 5 /\ Menu /\ job = -1 /\ goal # "idle"
      BY <1>1, <1>3, HereAt DEF Edit, Running, Flow
    <2>2. /\ since' = Touched(since, ".config") /\ cfg' = cfg + 1 /\ edits' = edits + 1
          /\ goal' = goal /\ at' = 6 /\ redone' = redone /\ job' = -1
          /\ cfg \in Int /\ edits \in Int
      BY <1>1, <1>3, <2>1, Bounds DEF Edit, TypeOK
    <2>3. /\ \A n \in 1..4 : UpTo(n)' <=> UpTo(n)
          /\ ~UpTo(5)'
      BY <1>1, <2>2, TouchUpTo DEF UpTo
    <2>4. ~UpTo(6)'
      BY <2>3, Downward DEF UpTo
    <2>5. Menu' /\ Present(".config")' /\ (Tarball => ~Present("extracted")')
      <3>1. Menu' /\ Present(".config")'
        BY <1>1, <2>1, <2>2, TouchFresh DEF Menu, Present, Files
      <3>2. Tarball => since["extracted"] = {}
        BY <1>1 DEF Progress, Present
      <3> QED BY <1>1, <2>2, <3>1, <3>2, TouchFresh DEF Present, Files
    <2>6. Flow'
      BY <1>1, <2>1, <2>2, <2>5 DEF Flow
    <2>7. OutOfDate'
      <3>1. Chain[5] \notin redone
        BY <1>1, <2>1 DEF Flow
      <3> QED BY <2>2, <3>1, Order DEF OutOfDate, Due
    <2>8. Progress'
      BY <1>1, <2>1, <2>2, <2>3, <2>5 DEF Progress, Past
    <2>9. Built'
      BY <2>2, <2>3, <2>4, <2>5 DEF Built
    <2>10. ~Tarball => Kept'
      <3>1. ~Tarball => UpTo(4)
        BY <1>1, <2>1 DEF Progress, Past
      <3> QED BY <1>1, <2>2, <2>3, <3>1 DEF Kept
    <2> QED BY <2>6, <2>7, <2>8, <2>9, <2>10 DEF Rest
  <1> QED BY <1>2, <1>3

\* The list and the second image.
LEMMA RootKeeps ==
  ASSUME IInv, Listed \/ Rebuilt
  PROVE  Rest'
  <1>1. TypeOK /\ Flow /\ OutOfDate /\ Progress /\ Built /\ (~Tarball => Kept) /\ since \in Orders
    BY OrderOK DEF IInv
  <1>2. PICK f \in {"rootfs.initramfs", "initramfs_rebuilt"} :
          /\ Doing(f) /\ Done(f) /\ since' = Touched(since, f)
          /\ Listed => f = "rootfs.initramfs"
          /\ Rebuilt => f = "initramfs_rebuilt"
    BY DEF Listed, Rebuilt, Doing
  <1>3. /\ at = IF f = "rootfs.initramfs" THEN 7 ELSE 8
        /\ goal \in Goals /\ goal # "idle" /\ ~Menu /\ Initramfs
    BY <1>1, <1>2, HereAt DEF Doing, Running
  <1>4. /\ goal' = goal /\ at' = at + 1 /\ redone' = redone \cup {f} /\ job' = -1
        /\ edits' = edits /\ target' = target /\ cfg' = cfg /\ applied' = applied /\ img' = img
    BY <1>2 DEF Done, user, Listed, Rebuilt
  <1>5. \A n \in 1..6 : UpTo(n)' <=> UpTo(n)
    BY <1>1, <1>2, TouchUpTo DEF UpTo
  <1>6. \A g \in Files \ {f} : Present(g)' <=> Present(g)
    BY <1>1, <1>2, TouchFresh DEF Present, Files
  <1>7. Flow'
    BY <1>1, <1>3, <1>4, <1>6 DEF Flow, Menu, Files
  <1>8. OutOfDate'
    BY <1>3, <1>4 DEF OutOfDate, Due
  <1>9. Progress'
    <2>1. CASE Tarball
      <3>1. ~Present("extracted")'
        BY <1>1, <1>6, <2>1 DEF Progress, Files
      <3>2. \A i \in 2..5 : Chain[i] \in redone'
        BY <1>1, <1>3, <1>4, <2>1 DEF Progress, Past
      <3> QED BY <2>1, <3>1, <3>2 DEF Progress
    <2>2. CASE ~Tarball
      BY <1>1, <1>3, <1>4, <1>5, <2>2 DEF Progress, Past, Menu
    <2> QED BY <2>1, <2>2
  <1>10. Built'
    <2>1. Good(img) /\ Good(img)'
      BY <1>1, <1>3, <1>4 DEF Built, Good
    <2>2. CASE Listed
      <3>1. list' = target /\ obj' = obj /\ f = "rootfs.initramfs" /\ at' = 8
        BY <1>2, <1>3, <1>4, <2>2 DEF Listed
      <3> QED BY <1>1, <1>4, <1>5, <2>1, <3>1 DEF Built, Good
    <2>3. CASE Rebuilt
      <3>1. list' = list /\ obj' = Kernel /\ final' = Kernel /\ f = "initramfs_rebuilt" /\ at' = 9
        BY <1>2, <1>3, <1>4, <2>3 DEF Rebuilt
      <3>2. list = target /\ "rootfs.initramfs" \in redone
        BY <1>1, <1>2, <1>3, <2>3, <3>1 DEF Built
      <3>3. Good(obj)' /\ Good(final)' /\ final'.root = target
        BY <1>3, <1>4, <3>1, <3>2 DEF Good, Kernel
      <3> QED BY <1>4, <2>1, <3>1, <3>2, <3>3 DEF Built
    <2> QED BY <2>2, <2>3
  <1>11. ~Tarball => Kept'
    BY <1>1, <1>4, <1>5 DEF Kept
  <1> QED BY <1>7, <1>8, <1>9, <1>10, <1>11 DEF Rest

\* make skips the target it is at.
LEMMA SkipKeeps ==
  ASSUME IInv, UpToDate
  PROVE  Rest'
  <1>1. TypeOK /\ Flow /\ OutOfDate /\ Progress /\ Built /\ (~Tarball => Kept)
    BY DEF IInv
  <1>2. /\ Running /\ job = -1 /\ ~MustMake(Here) /\ Here # "menuconfig"
        /\ goal # "idle" /\ at \in 1..8 /\ at' = at + 1
        /\ since' = since /\ cfg' = cfg /\ applied' = applied /\ obj' = obj /\ img' = img
        /\ list' = list /\ final' = final /\ edits' = edits /\ target' = target
        /\ goal' = goal /\ redone' = redone /\ job' = job
    BY <1>1, HereAt DEF UpToDate, Running, tree, user
  <1>3. /\ Fresh(since, Here) /\ Prereqs(Here) \cap redone = {}
        /\ Here # "rootfs.initramfs"
    BY <1>2, Skipped
  <1>4. at \in 1..8 \ {7} /\ (Menu => at < 5) /\ (at <= 6 => Here = Chain[at])
    BY <1>1, <1>2, <1>3, HereAt, Order DEF Menu
  <1>5. (Menu' <=> Menu) /\ \A n \in 0..6 : UpTo(n)' <=> UpTo(n)
    BY <1>2 DEF UpTo, Menu
  <1>6. at <= 6 => Chain[at] \notin redone
    BY <1>1, <1>2 DEF Flow
  <1>7. Flow'
    BY <1>1, <1>2, <1>5 DEF Flow, Present
  <1>8. OutOfDate'
    BY <1>2, <1>6, Order DEF OutOfDate, Due
  <1>9. CASE Tarball
    <2>1. since["extracted"] = {} /\ \A i \in 2..5 : Past(i) => Chain[i] \in redone
      BY <1>1, <1>9 DEF Progress, Present
    <2>2. at = 1
      <3>1. at # 2
        BY <1>3, <1>4, <2>1, Order DEF Fresh
      <3>2. ASSUME at \in 3..6 PROVE FALSE
        <4>1. Chain[at - 1] \in redone
          BY <1>4, <2>1, <3>2 DEF Past
        <4>2. Chain[at - 1] \in Prereqs(Chain[at])
          BY <3>2, Order, PrereqsAre
        <4> QED BY <1>3, <1>4, <3>2, <4>1, <4>2
      <3>3. at # 8
        BY <1>1, <1>2, <1>3, HereAt, PrereqsAre DEF Built
      <3> QED BY <1>4, <3>1, <3>2, <3>3
    <2>3. \A n \in 2..6 : ~UpTo(n)'
      BY <1>2, <2>1, NeverUp DEF UpTo
    <2>4. Progress'
      BY <1>2, <1>9, <2>1, <2>2 DEF Progress, Past, Present
    <2>5. Built'
      BY <1>2, <2>2, <2>3 DEF Built
    <2> QED BY <1>7, <1>8, <1>9, <2>4, <2>5 DEF Rest
  <1>10. CASE ~Tarball
    <2>1. \A i \in 1..6 : Past(i) => UpTo(i)
      BY <1>1, <1>10 DEF Progress
    <2>2. at <= 6 => UpTo(at)
      <3>1. at \in 2..6 => UpTo(at - 1)
        BY <1>4, <2>1 DEF Past
      <3> QED BY <1>3, <1>4, <3>1, Order DEF UpTo, UpToIn
    <2>3. Progress'
      BY <1>2, <1>4, <1>5, <1>10, <2>1, <2>2 DEF Progress, Past
    <2>4. at # 8
      BY <1>1, <1>2, <1>3, HereAt, PrereqsAre DEF Built
    <2>5. Built'
      BY <1>1, <1>2, <1>4, <1>5, <2>2, <2>4 DEF Built, Good
    <2>6. Kept'
      BY <1>1, <1>2, <1>5, <1>10 DEF Kept
    <2> QED BY <1>7, <1>8, <2>3, <2>5, <2>6 DEF Rest
  <1> QED BY <1>9, <1>10

\* make begins the recipe of the target it is at: that was out of date.
LEMMA BeginKeeps ==
  ASSUME IInv, Begin
  PROVE  Rest'
  <1>1. TypeOK /\ Flow /\ OutOfDate /\ Progress /\ Built /\ (~Tarball => Kept)
    BY DEF IInv
  <1>2. /\ Running /\ job = -1 /\ MustMake(Here) /\ Here # "menuconfig"
        /\ goal # "idle" /\ at \in 1..8 /\ at' = at
        /\ since' = since /\ applied' = applied
        /\ final' = final /\ edits' = edits /\ target' = target
        /\ goal' = goal /\ redone' = redone /\ job' = 0
    BY <1>1, HereAt DEF Begin, Running, user
  <1>3. /\ at = 5 => ~Menu
        /\ Menu => at < 5
        /\ at <= 6 => Here = Chain[at]
        /\ at = 7 <=> Here = "rootfs.initramfs"
        /\ at = 8 <=> Here = "initramfs_rebuilt"
    BY <1>1, <1>2, HereAt, Order DEF Menu
  <1>4. /\ cfg' = IF at = 4 THEN -1 ELSE cfg
        /\ obj' = IF at \in {5, 8} THEN None ELSE obj
        /\ img' = IF at = 6 THEN None ELSE img
        /\ list' = IF at = 7 THEN 0 ELSE list
    BY <1>1, <1>2, HereAt DEF Begin
  <1>5. (Menu' <=> Menu) /\ \A n \in 0..6 : UpTo(n)' <=> UpTo(n)
    BY <1>2 DEF UpTo, Menu
  <1>6. ~Fresh(since, Here) \/ Prereqs(Here) \cap redone # {} \/ at = 7
    BY <1>2, <1>3, NotSkipped
  <1>7. /\ at = 1 => ~UpTo(1)
        /\ at = 2 => ~UpTo(2)
        /\ at \in {3, 4} => ~UpTo(4)
        /\ at = 5 => ~UpTo(5)
        /\ at = 6 => ~UpTo(6)
    <2>1. at = 1 => ~UpTo(1)
      BY <1>3, <1>6, PrereqsAre, Order DEF UpTo, UpToIn
    <2>2. at = 2 => ~UpTo(2)
      BY <1>1, <1>3, <1>6, PrereqsAre, Order DEF UpTo, UpToIn, OutOfDate, Due
    <2>3. at = 3 => ~UpTo(4)
      BY <1>1, <1>3, <1>6, PrereqsAre, Order DEF UpTo, UpToIn, OutOfDate, Due
    <2>4. at = 4 => ~UpTo(4)
      BY <1>1, <1>3, <1>6, PrereqsAre, Order DEF UpTo, UpToIn, OutOfDate, Due
    <2>5. at = 5 => ~UpTo(5)
      BY <1>1, <1>3, <1>6, PrereqsAre, Order DEF UpTo, UpToIn, OutOfDate, Due, Flow
    <2>6. at = 6 => ~UpTo(6)
      BY <1>1, <1>3, <1>6, PrereqsAre, Order DEF UpTo, UpToIn, OutOfDate, Due
    <2> QED BY <2>1, <2>2, <2>3, <2>4, <2>5, <2>6
  <1>8. Flow'
    <2>1. cfg' <= edits'
      BY <1>1, <1>2, <1>4, Bounds DEF TypeOK, Flow
    <2> QED BY <1>1, <1>2, <1>3, <1>5, <2>1 DEF Flow, Present
  <1>9. OutOfDate'
    BY <1>2, <1>5, <1>7, <1>3, <1>1 DEF OutOfDate, Due
  <1>10. Progress'
    BY <1>1, <1>2, <1>5 DEF Progress, Past, Present
  <1>11. Built'
    <2>1. at \in {4, 5} => ~UpTo(5) /\ ~UpTo(6)
      BY <1>7, Downward DEF UpTo
    <2>2. at = 8 => UpTo(6) \/ ~UpTo(5)
      <3>1. ~Tarball /\ at = 8 => UpTo(6)
        BY <1>1, <1>3 DEF Progress, Past
      <3>2. Tarball => ~UpTo(5)
        BY <1>1, NeverUp DEF Progress, Present, UpTo
      <3> QED BY <3>1, <3>2
    <2>3. UpTo(6)' => Good(img)'
      BY <1>1, <1>2, <1>4, <1>5, <1>7, <2>1 DEF Built, Good
    <2>4. UpTo(5)' => Good(obj)' \/ UpTo(6)'
      BY <1>1, <1>2, <1>4, <1>5, <2>1, <2>2 DEF Built, Good
    <2>5. at' = 6 /\ ~Menu' => Good(obj)' \/ UpTo(6)'
      BY <1>1, <1>2, <1>4, <1>5 DEF Built, Good
    <2>6. at' > 6 => Good(img)'
      BY <1>1, <1>2, <1>4 DEF Built, Good
    <2>7. at' > 7 => list' = target' /\ "rootfs.initramfs" \in redone'
      BY <1>1, <1>2, <1>4 DEF Built
    <2> QED BY <1>2, <2>3, <2>4, <2>5, <2>6, <2>7 DEF Built
  <1>12. ~Tarball => Kept'
    <2>1. CASE at = 4
      BY <1>2, <1>5, <1>7, <2>1, NoEdits DEF Kept
    <2>2. CASE at # 4
      BY <1>1, <1>2, <1>4, <1>5, <2>2 DEF Kept
    <2> QED BY <2>1, <2>2
  <1> QED BY <1>8, <1>9, <1>10, <1>11, <1>12 DEF Rest

-----------------------------------------------------------------------------
(* Theorems *)

LEMMA InitInv == Init => IInv
  <1> SUFFICES ASSUME Init PROVE IInv
    OBVIOUS
  <1>1. \A f \in Files : since[f] = {}
    BY DEF Init
  <1>2. \A n \in 1..6 : ~UpTo(n)
    BY <1>1 DEF UpTo, UpToIn, Fresh, Files
  <1>3. TypeOK
    <2>1. since \in Orders
      BY <1>1 DEF Init, Orders
    <2>2. TreeOK
      <3>1. /\ applied = {} /\ rej = FALSE /\ cfg = -1 /\ list = 0 /\ target = 1
            /\ obj = None /\ img = None /\ final = None
        BY DEF Init
      <3>2. applied \subseteq 1..NPatch /\ cfg \in -1..MaxEdits /\ list \in 0..target
        BY <3>1, Bounds
      <3> QED BY <3>1, <3>2, NoneType DEF TreeOK
    <2>3. RunOK
      <3>1. goal = "idle" /\ at = 0 /\ redone = {} /\ job = -1 /\ failed = FALSE
        BY DEF Init
      <3>2. at \in 0..Len(Path(goal)) + 1
        BY <3>1, IdlePath
      <3>3. job \in -1..NPatch
        BY <3>1, Bounds
      <3> QED BY <3>1, <3>2, <3>3 DEF RunOK
    <2>4. UserOK
      <3>1. edits = 0 /\ target = 1 /\ stops = 0
        BY DEF Init
      <3> QED BY <3>1, Bounds DEF UserOK
    <2> QED BY <2>1, <2>2, <2>3, <2>4, Parts
  <1>4. Flow
    BY <1>1 DEF Init, Flow, Menu, Present, Files
  <1>5. OutOfDate
    BY DEF Init, OutOfDate, Due
  <1>6. Progress
    BY <1>1 DEF Init, Progress, Past, Present, Files
  <1>7. Built
    BY <1>2 DEF Init, Built
  <1>8. Kept
    BY <1>2 DEF Init, Kept
  <1> QED BY <1>3, <1>4, <1>5, <1>6, <1>7, <1>8 DEF IInv

LEMMA StutterKeeps ==
  ASSUME IInv, UNCHANGED vars
  PROVE  Rest'
  <1>1. \A n \in 0..6 : UpTo(n)' <=> UpTo(n)
    BY DEF UpTo, vars, tree
  <1> QED
    BY <1>1 DEF vars, tree, run, user, IInv, Rest, Flow, OutOfDate, Due, Progress, Past, Present,
                Built, Good, Kept, Menu

LEMMA InvStep == IInv /\ [Next]_vars => IInv'
  <1> SUFFICES ASSUME IInv, [Next]_vars PROVE IInv'
    OBVIOUS
  <1>1. TypeOK'
    BY TypeStep DEF IInv
  <1>2. Rest'
    BY UserKeeps, SkipKeeps, BeginKeeps, ChainKeeps, WorkKeeps, RootKeeps, EndKeeps,
       StutterKeeps DEF Next
  <1> QED BY <1>1, <1>2 DEF IInv, Rest

LEMMA Always == Spec => []IInv
  BY InitInv, InvStep, PTL DEF Spec

\* Files, configuration, images and the running make keep their types.
THEOREM LinuxTyped == Spec => []TypeOK
  <1>1. IInv => TypeOK
    BY DEF IInv
  <1> QED BY <1>1, Always, PTL

LEMMA AtSuccess ==
  ASSUME IInv, Succeeded
  PROVE  /\ goal \in Goals /\ goal # "idle" /\ ~Menu /\ at > 6
         /\ goal = "world" /\ Initramfs => at > 8
  <1>1. TypeOK /\ goal \in Goals /\ goal # "idle" /\ ~Menu
    BY IdlePath DEF IInv, Succeeded, TypeOK, Menu
  <1> QED BY <1>1, AtEnd DEF Succeeded

\* However a run that ends well began, the images it leaves have the
\* configuration and the patches of the tree: what make skipped because of its
\* stamps had them too.
THEOREM ImageRight == Spec => []ImageCurrent
  <1>1. IInv => ImageCurrent
    <2> SUFFICES ASSUME IInv, Succeeded
                 PROVE  /\ Good(img)
                        /\ goal = "world" /\ Initramfs => Good(final)
      BY DEF ImageCurrent, Good
    <2> QED BY AtSuccess DEF IInv, Built
  <1> QED BY <1>1, Always, PTL

\* The kernel embeds the root file system of the same run.
THEOREM RootRight == Spec => []RootCurrent
  <1>1. IInv => RootCurrent
    BY AtSuccess DEF IInv, Built, RootCurrent
  <1> QED BY <1>1, Always, PTL

\* Without a tarball in DL_DIR no edit of the configuration is lost but with the
\* build directory.
THEOREM EditsRight == ASSUME ~Tarball PROVE Spec => []EditsBuilt
  <1>1. IInv => EditsBuilt
    <2> SUFFICES ASSUME IInv, Succeeded PROVE img.cfg = edits
      BY DEF EditsBuilt
    <2>1. at > 6 /\ ~Menu
      BY AtSuccess
    <2>2. UpTo(6) /\ Good(img) /\ Kept
      BY <2>1 DEF IInv, Progress, Past, Built
    <2>3. UpTo(4)
      BY <2>2, Downward DEF UpTo
    <2> QED BY <2>2, <2>3 DEF Kept, Good
  <1> QED BY <1>1, Always, PTL

\* Nor is there then anything left to make after a run that ended well.
THEOREM NothingMore == ASSUME ~Tarball PROVE Spec => []NothingLeft
  <1>1. IInv => NothingLeft
    <2> SUFFICES ASSUME IInv, Succeeded, NEW i \in DOMAIN Path(goal) \ {7, 8}
                 PROVE  /\ Present(Path(goal)[i])
                        /\ \A g \in Prereqs(Path(goal)[i]) : Present(g) /\ ~Newer(g, Path(goal)[i])
      BY DEF NothingLeft
    <2>1. TypeOK /\ goal \in Goals /\ goal # "idle" /\ ~Menu /\ at > 6
      BY AtSuccess DEF IInv
    <2>2. i \in 1..6 /\ Path(goal)[i] = Chain[i]
      BY <2>1, AtEnd
    <2>3. UpTo(6)
      BY <2>1 DEF IInv, Progress, Past
    <2>4. Fresh(since, Chain[i])
      BY <2>2, <2>3, Order DEF UpTo, UpToIn
    <2> QED BY <2>2, <2>4 DEF Fresh, Present, Newer
  <1> QED BY <1>1, Always, PTL
=============================================================================

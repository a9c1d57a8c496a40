---------------------------- MODULE LinuxKernel ----------------------------
(***************************************************************************)
(* linux/linux.mk and the use fs/initramfs makes of it: the kernel is not a *)
(* package of the generic infrastructure, its stamps are real make targets *)
(* that depend on each other, and a recipe runs when its stamp is missing  *)
(* or older than a prerequisite, or when the recipe of a prerequisite ran  *)
(* in the same run.                                                        *)
(*                                                                         *)
(* Modification times are the order in which files were last written: of   *)
(* each file, the files written since.  Two never have the same time.  A   *)
(* configuration is the number of user edits it contains (0 the defconfig, *)
(* -1 half written), the contents of the target directory are a revision   *)
(* that every build of the root file system may find increased.            *)
(***************************************************************************)
EXTENDS Integers, Sequences

CONSTANTS
  NPatch,      \* patches of BR2_LINUX_KERNEL_PATCH
  BadPatches,  \* those that do not apply to this kernel
  Tarball,     \* DL_DIR has a tarball, so the git revision is not checked out
  Initramfs,   \* BR2_TARGET_ROOTFS_INITRAMFS
  Goals,       \* what the user asks for
  FailIn,      \* steps one of whose commands may fail
  MaxEdits, MaxTarget, MaxStops  \* bounds on edits, revisions and stops

ASSUME LinuxAssumption ==
  /\ NPatch \in Nat /\ BadPatches \subseteq 1..NPatch
  /\ Tarball \in BOOLEAN /\ Initramfs \in BOOLEAN
  /\ Goals \subseteq {"linux26", "linux26-menuconfig", "world"}
  /\ {MaxEdits, MaxTarget, MaxStops} \subseteq Nat /\ MaxTarget > 0

Files == {"downloaded", "extracted", "patched", "configured", ".config", "compiled",
          "installed", "rootfs.initramfs", "initramfs_rebuilt"}

Chain == <<"downloaded", "extracted", "patched", "configured", "compiled", "installed">>

\* The targets a goal takes, in order.
Path(g) ==
  CASE g = "linux26-menuconfig" -> SubSeq(Chain, 1, 4) \o <<"menuconfig">>
    [] g = "world" /\ Initramfs -> Chain \o <<"rootfs.initramfs", "initramfs_rebuilt">>
    [] OTHER                    -> Chain

\* Mutant: the configuration is not a prerequisite of .stamp_compiled.
PrereqsStampsOnly(f) ==
  CASE f = "extracted"  -> {"downloaded"}
    [] f = "patched"    -> {"extracted"}
    [] f = "configured" -> {"patched"}
    [] f = "compiled"   -> {"configured"}
    [] f = "installed"  -> {"compiled"}
    [] f = "initramfs_rebuilt" -> {"installed", "rootfs.initramfs"}
    [] OTHER            -> {}

\* Mutant: the second image does not depend on the root file system.
PrereqsNoRoot(f) == IF f = "initramfs_rebuilt" THEN {"installed"}
                    ELSE IF f = "compiled" THEN {"configured", ".config"}
                    ELSE PrereqsStampsOnly(f)

\* File prerequisites; those of rootfs.initramfs are phony.
Prereqs(f) ==
  CASE f = "extracted"  -> {"downloaded"}
    [] f = "patched"    -> {"extracted"}
    [] f = "configured" -> {"patched"}
    [] f = "compiled"   -> {"configured", ".config"}
    [] f = "installed"  -> {"compiled"}
    [] f = "initramfs_rebuilt" -> {"installed", "rootfs.initramfs"}
    [] OTHER            -> {}

VARIABLES
  since,   \* since[f]: the files written since f was, and f; {} when there is no f
  applied, \* the patches in the source tree
  rej,     \* a reject file lies in the source tree
  cfg,     \* .config of the kernel
  edits,   \* edits the user made to it since it was first written
  target,  \* revision of the target directory
  list,    \* revision rootfs.initramfs lists, 0 when it is the fake list
  obj,     \* what the objects were built from
  img,     \* what the image in images/ with the version in its name has
  final,   \* what the image that linux26-rebuild-with-initramfs copies has
  goal, at, \* the running make and the index of its target in Path(goal)
  redone,  \* the targets whose recipe this run has run
  job,     \* patches the running recipe has tried; -1 between recipes
  failed,  \* the last patch-kernel.sh of the recipe exited with an error
  stops    \* failures and interrupts so far

tree == <<since, applied, rej, cfg, list, obj, img, final>>
run  == <<goal, at, redone, job, failed>>
user == <<edits, target, stops>>
vars == <<tree, run, user>>

None == [cfg |-> -1, applied |-> {}, root |-> -1]

-----------------------------------------------------------------------------
Present(f) == since[f] # {}
Newer(f, g) == f # g /\ f \in since[g]

\* f is written now.
Touched(o, f) ==
  [g \in Files |-> IF g = f THEN {f} ELSE IF o[g] = {} THEN {} ELSE o[g] \cup {f}]

\* The files of D are removed.
Removed(o, D) == [g \in Files |-> IF g \in D THEN {} ELSE o[g] \ D]

Here == Path(goal)[at]
Running == goal # "idle" /\ at <= Len(Path(goal))

\* f is missing, phony, or older than a prerequisite or made from a new one.
MustMake(f) ==
  \/ ~Present(f)
  \/ Prereqs(f) \cap redone # {}
  \/ f = "rootfs.initramfs"
  \/ \E g \in Prereqs(f) : ~Present(g) \/ Newer(g, f)

Init ==
  /\ since = [f \in Files |-> {}] /\ applied = {} /\ rej = FALSE
  /\ cfg = -1 /\ list = 0
  /\ obj = None /\ img = None /\ final = None
  /\ goal = "idle" /\ at = 0 /\ redone = {} /\ job = -1 /\ failed = FALSE
  /\ edits = 0 /\ target = 1 /\ stops = 0

EndRun == goal' = "idle" /\ at' = 0 /\ redone' = {} /\ job' = -1 /\ failed' = FALSE

\* The recipe of target f ends well.
Done(f) ==
  /\ redone' = redone \cup {f}
  /\ at' = at + 1
  /\ job' = -1
  /\ failed' = FALSE
  /\ UNCHANGED <<goal, user>>

Doing(f) == Running /\ job >= 0 /\ Here = f

-----------------------------------------------------------------------------
Start(g) ==
  /\ goal = "idle"
  /\ goal' = g
  /\ at' = 1
  /\ UNCHANGED <<tree, user, redone, job, failed>>

UpToDate ==
  /\ Running /\ job = -1 /\ Here # "menuconfig"
  /\ ~MustMake(Here)
  /\ at' = at + 1
  /\ UNCHANGED <<tree, user, goal, redone, job, failed>>

\* What a recipe writes first is not usable before it ends.
Begin ==
  /\ Running /\ job = -1 /\ Here # "menuconfig"
  /\ MustMake(Here)
  /\ job' = 0
  /\ cfg' = IF Here = "configured" THEN -1 ELSE cfg
  /\ obj' = IF Here \in {"compiled", "initramfs_rebuilt"} THEN None ELSE obj
  /\ img' = IF Here = "installed" THEN None ELSE img
  /\ list' = IF Here = "rootfs.initramfs" THEN 0 ELSE list
  /\ UNCHANGED <<since, applied, rej, final, goal, at, redone, failed, user>>

Downloaded ==
  /\ Doing("downloaded")
  /\ since' = Touched(since, "downloaded")
  /\ Done("downloaded")
  /\ UNCHANGED <<applied, rej, cfg, list, obj, img, final>>

\* Mutants: no stamp is written, or one under another name.
ExtractStampsNone == since
ExtractStampsMisspelt == Touched(Touched(since, "extract"), "patched")

\* Stamps are only written when the cached revision is checked out, and then
\* that of the next step is written too.
ExtractStamps == IF Tarball THEN since ELSE Touched(Touched(since, "extracted"), "patched")

Extracted ==
  /\ Doing("extracted")
  /\ applied' = {}
  /\ since' = ExtractStamps
  /\ Done("extracted")
  /\ UNCHANGED <<rej, cfg, list, obj, img, final>>

\* The next patch-kernel.sh of the loop: it fails when the patch does not apply
\* or is already there, and when it finds rejects, be they of another patch.
PatchOne ==
  LET k == job + 1
      applies == k \notin BadPatches /\ k \notin applied IN
  /\ Doing("patched")
  /\ job < NPatch
  /\ applied' = IF applies THEN applied \cup {k} ELSE applied
  /\ rej' \in IF applies THEN {rej} ELSE {rej, TRUE}
  /\ failed' = (~applies \/ rej')
  /\ job' = k
  /\ UNCHANGED <<since, cfg, list, obj, img, final, goal, at, redone, user>>

\* The exit status of the loop is that of its last command.
Patched ==
  /\ Doing("patched")
  /\ job = NPatch /\ ~failed
  /\ since' = Touched(since, "patched")
  /\ Done("patched")
  /\ UNCHANGED <<applied, rej, cfg, list, obj, img, final>>

\* A command fails and so does make: files stay as the commands left them.
PatchFails ==
  /\ Doing("patched")
  /\ job = NPatch /\ failed
  /\ EndRun
  /\ UNCHANGED <<tree, user>>

\* The defconfig replaces .config; with an initramfs a list is made up or touched.
Configured ==
  /\ Doing("configured")
  /\ cfg' = 0
  /\ since' = LET fake == IF Initramfs THEN Touched(since, "rootfs.initramfs") ELSE since
              IN  Touched(Touched(fake, ".config"), "configured")
  /\ Done("configured")
  /\ UNCHANGED <<applied, rej, list, obj, img, final>>

Kernel == [cfg |-> cfg, applied |-> applied, root |-> IF Initramfs THEN list ELSE -1]

Compiled ==
  /\ Doing("compiled")
  /\ obj' = Kernel
  /\ since' = Touched(since, "compiled")
  /\ Done("compiled")
  /\ UNCHANGED <<applied, rej, cfg, list, img, final>>

\* Mutant: the stamp of the installation is not touched.
InstalledOnly ==
  /\ Doing("installed")
  /\ img' = obj
  /\ Done("installed")
  /\ UNCHANGED <<since, applied, rej, cfg, list, obj, final>>

Installed ==
  /\ Doing("installed")
  /\ img' = obj
  /\ since' = Touched(since, "installed")
  /\ Done("installed")
  /\ UNCHANGED <<applied, rej, cfg, list, obj, final>>

\* fs/initramfs/initramfs.mk: the list of what the target directory has by now.
Listed ==
  /\ Doing("rootfs.initramfs")
  /\ list' = target
  /\ since' = Touched(since, "rootfs.initramfs")
  /\ Done("rootfs.initramfs")
  /\ UNCHANGED <<applied, rej, cfg, obj, img, final>>

Rebuilt ==
  /\ Doing("initramfs_rebuilt")
  /\ obj' = Kernel
  /\ final' = obj'
  /\ since' = Touched(since, "initramfs_rebuilt")
  /\ Done("initramfs_rebuilt")
  /\ UNCHANGED <<applied, rej, cfg, list, img>>

\* The user saves a changed configuration.
Edit ==
  /\ Running /\ Here = "menuconfig"
  /\ edits < MaxEdits
  /\ cfg' = cfg + 1
  /\ edits' = edits + 1
  /\ since' = Touched(since, ".config")
  /\ at' = at + 1
  /\ UNCHANGED <<applied, rej, list, obj, img, final, goal, redone, job, failed, target, stops>>

RunEnds ==
  /\ goal # "idle"
  /\ Running => Here = "menuconfig"
  /\ EndRun
  /\ UNCHANGED <<tree, user>>

-----------------------------------------------------------------------------
\* make deletes the target of the recipe it is interrupted in when that changed
\* in this run: extraction wrote .stamp_patched, the shell opened the list.
Deleted ==
  IF job >= 0 /\ Here = "patched" /\ "extracted" \in redone /\ ~Tarball THEN {"patched"}
  ELSE IF job >= 0 /\ Here = "rootfs.initramfs" THEN {"rootfs.initramfs"} ELSE {}

Interrupt ==
  /\ Running /\ stops < MaxStops
  /\ since' = Removed(since, Deleted)
  /\ stops' = stops + 1
  /\ EndRun
  /\ UNCHANGED <<applied, rej, cfg, list, obj, img, final, edits, target>>

\* Another command of a recipe fails: nothing is deleted.
Fail ==
  /\ Running /\ job >= 0 /\ Here \in FailIn /\ stops < MaxStops
  /\ stops' = stops + 1
  /\ EndRun
  /\ UNCHANGED <<tree, edits, target>>

\* The user changes what the target directory will have,
ChangeTarget ==
  /\ goal = "idle" /\ target < MaxTarget
  /\ target' = target + 1
  /\ UNCHANGED <<tree, run, edits, stops>>

\* or removes the build directory of the kernel.
RemoveTree ==
  /\ goal = "idle"
  /\ since' = Removed(since, Files \ {"rootfs.initramfs"})
  /\ applied' = {} /\ rej' = FALSE /\ cfg' = -1 /\ edits' = 0 /\ obj' = None
  /\ UNCHANGED <<list, img, final, run, target, stops>>

Next ==
  \/ \E g \in Goals : Start(g)
  \/ UpToDate \/ Begin
  \/ Downloaded \/ Extracted \/ PatchOne \/ Patched \/ PatchFails \/ Configured
  \/ Compiled \/ Installed \/ Listed \/ Rebuilt \/ Edit \/ RunEnds
  \/ Interrupt \/ Fail \/ ChangeTarget \/ RemoveTree

Spec == Init /\ [][Next]_vars

-----------------------------------------------------------------------------
Image == [cfg : -1..MaxEdits, applied : SUBSET (1..NPatch), root : -1..MaxTarget]

TypeOK ==
  /\ since \in [Files -> SUBSET Files]
  /\ \A f \in Files : Present(f) => f \in since[f]
  /\ applied \subseteq 1..NPatch /\ rej \in BOOLEAN
  /\ cfg \in -1..MaxEdits /\ edits \in 0..MaxEdits
  /\ list \in 0..target /\ target \in 1..MaxTarget
  /\ {obj, img, final} \subseteq Image
  /\ goal \in Goals \cup {"idle"} /\ at \in 0..Len(Path(goal)) + 1
  /\ redone \subseteq Files /\ job \in -1..NPatch /\ failed \in BOOLEAN
  /\ stops \in 0..MaxStops

Succeeded == goal \in {"linux26", "world"} /\ at > Len(Path(goal))

\* A run that ends well leaves a kernel image built from the configuration and
\* the patches the tree has, whatever was edited, failed or interrupted before
\* (linux.mk: "We make sure the kernel gets rebuilt when the configuration has
\* changed").
ImageCurrent ==
  Succeeded => \A i \in {img} \cup IF goal = "world" /\ Initramfs THEN {final} ELSE {} :
                 i.cfg = cfg /\ i.applied = applied

\* The image copied by linux26-rebuild-with-initramfs embeds the root file
\* system of this very run, not the fake list nor that of an earlier run.
RootCurrent == Succeeded /\ goal = "world" /\ Initramfs => final.root = target

\* What the user saved with linux26-menuconfig is what the next run builds
\* (docs: "Once done, run make to (re)build everything").
EditsBuilt == Succeeded => img.cfg = edits

\* A kernel is installed with all its patches or not at all (patch-kernel.sh:
\* "patch source trees and have sane error handling").
PatchesInstalled == Succeeded => img.applied = 1..NPatch

\* After a run that ended well the same command finds nothing to do, but for
\* the list of the initramfs.
NothingLeft ==
  Succeeded => \A i \in DOMAIN Path(goal) \ {7, 8} :
    /\ Present(Path(goal)[i])
    /\ \A g \in Prereqs(Path(goal)[i]) : Present(g) /\ ~Newer(g, Path(goal)[i])

=============================================================================

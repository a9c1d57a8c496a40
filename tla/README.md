# TLA+ verification of the XIOS Buildroot

This directory holds TLA+ models of the program logic of this repository, a fork
of Buildroot 2011.02 for Amlogic set-top boxes: the infrastructure that builds
packages and the kernel, the configuration tool, and what the vendor of the box
added to the player: the buffer it reads through and the streaming of segment
lists. `tlc -config X.cfg M` checks a model on a small instance, `tlapm M.tla` the proofs
of a module `*Proofs`.

## 1. Inventory

Most of the repository is data: recipes, patches and configurations of some 700
packages, and of vendored code. The logic that gives the recipes a meaning is
small; of `package/amlogic` what counts is the code that is found nowhere else.
Paths below `AV` are in `package/amlogic/libamplayerm3/src/amffmpeg/libavformat`.

| Component | State it keeps | Operations | Hard part | What makes it correct |
|---|---|---|---|---|
| Generic package infrastructure, `package/Makefile.package.in` | stamp files, build directory, staging, target and host trees | recipes of eleven stamps; goals `<pkg>-source` ... `<pkg>-dirclean` | stamps have no prerequisites: order comes from the order of phony prerequisites in a serial make; failures and interrupts inside recipes; clean and uninstall in any order | dependencies complete while a package is built; patched exactly once; stamps tell the truth; repeated runs converge |
| Download, the `DOWNLOAD*` macros of the same file | `DL_DIR` (archives, clones, exports), `.stamp_downloaded` | three sites, five methods | leftovers of a broken attempt are taken for the result by the next; shared names; retries | what is stamped can be extracted; what was obtained is not given up; retries succeed in the end |
| Patching, `toolchain/patch-kernel.sh` | patches applied, reject files | apply in order, check for rejects | not undone on failure, not idempotent | all or nothing, seen by the caller |
| Linux kernel, `linux/linux.mk`, `fs/initramfs/initramfs.mk` | stamps as real targets, `.config`, images | download to install, menuconfig, rebuild with initramfs | modification times; a recipe that touches the stamp of the next; kernel built twice around the root file system | images are current for configuration, patches and root file system |
| Configuration files, `package/config/confdata.c`, `conf.c` | `.config`, `.config.old`, `auto.conf`, headers, one empty file per symbol | save, silentoldconfig, split | several files replaced one after the other; crash between renames; consumers that read at parse time | auto.conf is last; the configuration is never lost; consumers are rebuilt |
| Configuration symbols, `symbol.c`, `expr.c`, `menu.c` | values, visibility, reverse dependencies | calculation of values and choices | mutual recursion with caching, choices, `select` against dependencies | one value per choice, selected implies on, order does not matter |
| Top-level `Makefile` | `TARGETS`, target tree | world, source, clean lists, target-finalize | host dependencies one level deep; order against file system images | everything of a target is installed before it is finalized |
| Autotools and CMake infrastructures | none of their own | commands, libtool and autoreconf hooks | status of loops | a failed patch is seen |
| File system images, `fs/common.mk`, `fs/*` | fakeroot script, images | one image per type | order of device table and packing | image has the target and the device nodes |
| Loop buffer, `AV/aviolpbuf.c` | ring with read and write pointer, account of old bytes, position, position of the medium | read, fill, seek (in the buffer, by reading, of the medium, to the end, by time), buffer ahead | a full ring looks like an empty one; old bytes are kept and overwritten; the mutex is released while the medium is read; seeks and reads the medium refuses | it is a seekable stream; only the end looks like the end; every call returns |
| Segment lists, `AV/CacheHttp.c`, `AV/file_list2.c`, `AV/m3u.c` | list and current item, fifo, flags `EXIT`, `EXITED`, `RESET`, `reset_flag`, `finish_flag` | downloader thread; read, seek by time, close; reload of a live list | two threads, flags without a lock, waiting by polling; a list that moves while it is loaded | units in order, none after the wrong seek; the end is told, and only at the end; seek and close return |
| HLS demuxer, `AV/hls.c`, `AV/hlsproto.c` | playlists, variants, a loop buffer per variant | read, seek, reload | a seek clears one of two buffers; skipped segments | as for segment lists |
| Combined media files, bandwidth, `AV/cmfvpb.c`, `AV/bandwidth_measure.c` | slice, samples | read over slices, average | slices over one loop buffer | a stream of the slices |
| CMEM library, `package/amlogic/cmem/src/cmem.c` | descriptor, reference count, mappings | init, alloc, free, register, exit | partial failure of ioctl and mmap; unprotected count | balanced use closes the device; nothing leaks |
| XIOS boot scripts, `board/amlogic/xios/skeleton` | data partition, wireless state | first boot, recovery, wpa hooks | power loss, exit status tests | a usable data directory after any power loss |
| Recovery reboot, `package/thirdparty/recovery_reboot` | mounts | remount and reboot | bounded polling | no writable file system at reboot |
| Others: `makedevs`, `amremote_config`, toolchain recipes, scripts, front ends, vendored code, recipes | - | - | sequential, third-party or data | not modelled |

### How they interact

* `make` reads `.config` (written by the configuration tool), takes from it the
  enabled packages and runs `world`: `prepare` (regenerates `auto.conf` and the
  empty files), the toolchain, then `TARGETS` and finally the images.
* The infrastructure macro is evaluated once per package. Packages interact
  through `<pkg>-depends` (which asks `make` for `<dep>` in the same run) and
  through the staging, target and host trees they are installed in.
* The kernel is not such a package. With an initramfs it is built, then
  `fs/initramfs` lists the target directory, then it is built again.
* `patch-kernel.sh` and `DOWNLOAD` are called by both.
* Everything outlives the run: stamps, trees and `DL_DIR` are all the memory the
  system has, and the user may stop it at any command and type any goal next.

* On the box a demuxer reads through `avio`, which reads through the loop buffer,
  which reads a low level protocol: HTTP, a file, or the protocol of segment
  lists, whose reads come from the fifo the downloader fills. A seek by time goes
  the same way down (`url_lpexseek` calls `list_seek`, which stops the downloader by
  `CacheHttp_Reset`) and empties each buffer on the way back.

Make is serial (`.NOTPARALLEL` in `Makefile:30`), so the interleavings that
matter in the build are those of runs, failures, edits and goals, not of threads.
In the player they are those of the player's thread, the downloader, and the
server that moves a live list on.

## 2. Modules

| Module | Models | State | Actions |
|---|---|---|---|
| `PkgBuild` | `package/Makefile.package.in` 231-535 without the inside of `DOWNLOAD`; `patch-kernel.sh`; target lists of `Makefile` | stamp files, source tree and patches applied, reject files, and the option revision a configured tree, objects and installed files were made from; position of the running make in every package | `StartMake`; traversal of prerequisites (`Take`, `Visit`, `DepsDone`, `Skip`); each recipe as `Begin`, its commands, and the touch of its stamp; `Interrupt`; `ChangeOptions`, `RemoveStamp` |
| `BuildContract` | what the infrastructure promises a package | packages in place, packages being built | `Enter`, `Change`, `Leave` |
| `MCPkgBuild` | constants: an application, a library it uses and a host tool | | |
| `PkgBuildProofs`, `PkgStampProofs`, `LinuxProofs`, `DownloadProofs`, `ConfFilesProofs`, `LpBufProofs`, `ListTypeProofs`, `ListStreamProofs` | theorems about the module they are named for; `PkgStampProofs` is about `PkgBuild`, and both `List...Proofs` are about `ListStream` | | |
| `LinuxKernel` | `linux/linux.mk` 73-210, `fs/initramfs`, the part of `fs/common.mk` it uses | of each file, the files written since, which is the order of modification times; what configuration, patches and root file system the objects and images contain | one per recipe, `UpToDate`, `Edit` (menuconfig), `Interrupt`, `Fail`, `ChangeTarget`, `RemoveTree` |
| `Download`, `MCDownload` | `package/Makefile.package.in` 106-249 | archives (none, empty, part, stale, whole), clones, svn exports, stamps; attempt and command under way | test, fetch, and the ways each ends (got, refused, broken off; of svn also refused before there is a directory), per method; `RemoveBuild`, `EditSite` |
| `ConfFiles` | `confdata.c`, `conf.c` (silentoldconfig), `Makefile` 77-80 and 369-374, `gcc-uclibc-4.x.mk` 80-92 and 349 | contents of the files; memory of the running program; what make saw when it read the makefiles | `Save`, `Read`, the renames one by one, `Split` per symbol, the gcc recipe, `Upgrade`, `Crash` |
| `LpBuf`, `MCLpBuf` | `aviolpbuf.c` 196-520 and 609-633 | the ring byte by byte, pointers, account and position; the position of the medium; the call each thread is in with its locals | a call is `Read`, `Buffer` or one of the seeks, then `Copy`, `NeedFill` and the steps of a fill: `StartFill` (until the mutex is released), `CallRead`, `MediumGives`/`MediumEnds`, `Filled` |
| `SeekableStream` | what a player expects of a stream | position, bytes handed out | `Deliver`, `Seek` |
| `ListStream` | `CacheHttp.c` 145-427, `file_list2.c` 134-266, 335-353, 464-476, 673-763, 838-880, `m3u.c` 213-251 and 408-500 | list (with or without numbers), current item, fifo, flags, whether `cur_uio` points to what is freed; where downloader and player are; what the server shows | downloader: `Top` ... `Switched`, with `OpenAgain` and `FetchAgain` (nothing yet, try again), `Reload`, `TooEarly` and `ReloadFails`; player: `Read`, `Seek`, `Reset`, `Emptied`, `Placed`, `Close`, `Joined`; world: `Publish`, `Finish`, `Interrupt` |

Each module's head comment says how data are abstracted. Common to all: contents
are revisions (of options, of a configuration, of the target directory) or small
sets of states, since the properties only ask what was made from what. Definitions
whose comment says *Mutant* are not part of the model: each is a plausible
mistake in the code, which put in the place of the definition after it violates a
property (`mutants` of `PROJECT.json`).

## 3. What the runs check

| Run | Result | Shows |
|---|---|---|
| `PkgGoals` | holds | All nine goals on two packages, edited options, one failure or interrupt in any recipe that makes something: `DepsInstalled`, `PatchedOnce`, `StampsTell`, `BuiltAsConfigured` |
| `PkgAnyhow` | holds | Even with broken-off cleans and directory removals and stamps removed by hand the contract is kept: `KeepsContract` |
| `PkgConverges` | holds | Calling make again and again gets everything into place: `Converges` |
| `LinuxGit` | holds | Kernel from git with initramfs, edits, failures, interrupts: `ImageCurrent`, `RootCurrent`, `EditsBuilt`, `NothingLeft` |
| `LinuxPatchSkipped` | violated | The run after one that failed to patch builds the kernel without the patch |
| `DlSites` | holds | A package of each method (bzr behaves like wget), three sites: `StampedUnbroken`, `NotLost`, `AllDownloaded` |
| `DlPartial` | violated | A part left by a broken transfer passes for the source |
| `ConfFiles` | holds | Crashes between any two system calls: `AutoMarks`, `ConfigKept`, `SecondRunCurrent` |
| `LpBuf` | holds | Every way to read, buffer and seek, with a medium that ends, gives less, has nothing yet, refuses and fails: `RingRight`, `NoFalseEnd`, `SeekLands`; the buffer is a `SeekableStream` (`IsStream`); every call returns, unless the medium says for ever that it has nothing yet (`Returns`) |
| `LpSeekRefused` | violated | After a seek the medium refuses the buffer goes on with the old bytes and answers like a success (`aviolpbuf.c:458`: "seek failed clear all old datas") |
| `ListStream` | holds | Lists with an end and live ones, with and without numbers, with reloads that also fail, a full fifo, a server that may keep the downloader waiting, seeks, closing and interrupts at any step: `SeqsRise`, `InOrder`, `OnlyEndTold`; `SeekReturns` and `Closes` unless a segment is being opened for ever, `Flows` if the server answers at last |
| `ListSeekRaced` | violated | A seek between the downloader's choice of a segment and its `reset_flag = 0` is answered too early; the old segment's units come after it (`SeekHeard`) |

`PkgGoals`, `LinuxGit`, `DlSites`, `ConfFiles`, `LpBuf` and `ListStream` also check `TypeOK` of
their module.

Further disagreements were met while modelling. Their configurations are kept
here, to be run by hand, and end with a violation:

| Configuration (module) | Violates | Shows |
|---|---|---|
| `PkgReconfigured` (`MCPkgBuild`) | `BuiltAsConfigured` | After `.stamp_configured` is removed, a package is configured and not compiled again, against `docs/buildroot.html:473-475` |
| `PkgUninstallCrash` (`MCPkgBuild`) | `DepsInstalled` | An uninstall broken off between files and stamp leaves a dependency that counts as installed, against `docs/buildroot.html:1081-1083` |
| `LinuxEditsLost` (`LinuxKernel`) | `EditsBuilt` | With a tarball the edits of `linux26-menuconfig` do not survive until the build, against `docs/buildroot.html:430-436` |
| `DlGitOnly` (`MCDownload`) | `NotLost` | Without a backup site a git package is never downloaded, though its clone is there |
| `LpTwoThreads` (`MCLpBuf`) | `RingRight` | With a second thread that buffers, a read of the medium during which another moves away and back to the same position passes unseen: only the position is compared (`aviolpbuf.c:250`: "pos have changed,so I think we have a seek on read") |
| `ListTwice` (`ListStream`) | `NoTwice` | A reload of a live list adds items that are there already: the code asks for the same sequence number *and* the same file, where `file_list2.c:159-160` says "same seq or same file name", and numbers from the parser's own count |
| `ListShort` (`ListStream`) | `LiveStarts` | A live list of one or two short segments is opened without an item to begin with: `itemindex` counts from 1, the search from 0 with one added. The downloader waits for an item for ever, and the player for the end (`file_list2.c:468`: "for live streaming ,choose the middle item.") |

The kernel has one more: the loop over the
patches (`linux.mk:116-124`) has the status of its last call, so a failure of an
earlier patch is not seen. With `Tarball = TRUE` and `BadPatches = {1}` TLC finds
`PatchesInstalled` violated; no run is kept since `LinuxPatchSkipped` breaks the
same property.

### Limits of the properties

* `DepsInstalled` is false once an uninstall breaks off (configuration `PkgUninstallCrash`), so
  the holding runs and the theorems keep "uninstalled" out of `CrashIn`.
* `StampsTell` compares installed files with objects for target packages only:
  the uninstall of a host package removes no stamp, so after
  `host-<pkg>-clean` a tool is compiled again and not installed again.
* `Converges` allows failures anywhere but in patching: the rejects or the half
  patched tree that such a failure leaves need `<pkg>-dirclean`.
* `KeepsContract` speaks of dependencies in place, not of what a package is built
  from: a clean or a directory removal that breaks off may leave objects or stamps
  of which it says nothing. `StampsTell` does, and is false after such a break, so
  its run and its theorem leave them out.
* `EditsBuilt` and `PatchesInstalled` are checked where the code keeps them.
* `RootCurrent` is about the image with an initramfs. The image with the version in
  its name, which the installation copies (`linux.mk:179`), always has the fake list.
* `AllDownloaded` needs the svn package on a mirror: an export that breaks off
  leaves a directory that makes every later export fail.
* `SecondRunCurrent` speaks of the second run because the wildcards of the gcc
  stamp are expanded before the empty files are created, and leaves out symbols
  that a newer Buildroot adds: make included `.config` before they were in it.
  `Sym` are the symbols whose empty files gcc has as prerequisites. gcc is configured by
  others too (`BR2_GCC_ENABLE_TLS`, `gcc-uclibc-4.x.mk:136`, `BR2_PTHREADS_NONE`, 142): a change of
  those is seen by no run, and no property says that it is.
* `LpBuf` has one thread in the buffer. Whether the player, whose source is not in
  the repository, buffers ahead from a second one is not known; `LpTwoThreads`
  says what happens if it does.
* `RingRight` looks at the buffer between fills: while a fill is in flight, bytes
  behind the write pointer are being replaced. That no seek goes back to them is
  part of the inductive invariant (`HeldRight`, `InFlight`).
* `SeekLands` is about seeks the medium does not refuse, `SeekTold` about those it
  does. Both allow what `avio_seek` allows: any answer below 0 is an error. A medium
  that refuses is back at the end of the buffer; one that both seeks of
  `url_lpseek` leave somewhere else is not modelled (`list_seek` and `http_seek` do not
  move when they refuse). Nor is a medium that is not slow: every one of the
  repository that has this buffer sets `is_slowmedia`.
* `Returns` has a premise: a medium may say that it has nothing yet (`AVERROR(EAGAIN)`, as
  `CacheHttp_Read` does while the fifo is empty), and a read seek reads on at once
  (`aviolpbuf.c:439`), for as long as it says so.
* `InOrder`, `OnlyEndTold`, `SeekReturns` and `Flows` stop at a seek that has raced
  (`raced`): one that falls between two steps of the downloader of which the
  second relies on the first. After it nothing is promised, as `ListSeekRaced` shows;
  `CacheHttp_Reset` may then even miss each time `reset_flag` is set.
* Of a live list `InOrder` says that no unit comes twice or out of order. Units may
  be left out: the window moves on, segments that cannot be opened are passed
  over, and the first line of a moved window is dropped (`m3u.c:236-250`).
* `SeqsRise` has two cases. A list that never tells its media sequence, or of which
  `IGNORE_SEQUENCE_FLAG` says not to listen (`m3u.c:213`), has no numbers: every `seq` is -1,
  before and after a reload, and no item is ever found to be there already.
* `SeekReturns` and `Closes` assume `Opens`, that a segment is not being opened for ever.
  On a list with an end `OPEN_RETRY` (`CacheHttp.c:318-332`) tries again at once and looks at
  the user's interrupt only, neither at `EXIT` nor at `RESET`: on a dead server seeking
  and closing hang. `Flows` assumes `Gives`, that the server answers at last to an
  attempt to open or read.
* All three assume `Intact`: no reload has failed. One that fails frees its connection
  and `mgt->cur_uio` still points to it (`file_list2.c:348-353`); the next uses it (677). What
  comes then is undefined. `ReloadFails` lets the next reload work, fail or never
  come, which is what the safety properties are checked against; a program that
  dies there is not a behaviour they say anything of.
* `Flows` leaves out a live list of which `list_open` has found no item to begin with:
  `ListShort` shows that the player of such a list waits for ever.

### Bounds

| Bound | Value | Why it is enough |
|---|---|---|
| packages | 2 or 3 | a dependent, a dependency with staging, a host dependency of both; the theorems cover any number |
| `NPatch` | 0, 1, 2 | none, one, and one that is applied when another fails |
| `MaxRev`, `MaxEdits`, `MaxTarget` | 1 to 3 | an older and a newer revision; `ConfFiles` needs a third to change a symbol and change it back |
| `MaxStops` | 1, 2 | a failure and a failure of the recovery; `PkgGoals` takes one, since nine goals and edits recover in many ways |
| `MaxRefused`, `MaxBroken` | 2, 1 | every site but one refuses; one break, followed by any number of retries |
| `Sym` | 3 | two symbols of the old and one of the new version |
| `Size`, `Length`, `Block` | 4, 5, 2 | the medium is longer than the buffer, so bytes are overwritten and pointers wrap; fills are cut at the wrap and by the gap |
| `Gap`, `Keep` | 1, 2 | one byte keeps full and empty apart, one more is never sought back to |
| `Slack` | 0 | below the code's ratio, so that buffering also meets a full buffer |
| `MaxRead`, `MaxReadSeek`, `MaxSeek` | 2, 2, `Length` | reads over the wrap; seeks in, behind, just ahead of and far ahead of the buffer, and to the end |
| `Segs`, `Units`, `Window` | 3, 2, 2 | a live window that moves once; a segment in one or two pieces; `list_open` begins at the first item or the last, or finds none to begin with |
| `Numberings` | all three | a list that tells its media sequence each time, the first time only, or never |
| `FifoSize`, `Piece` | 2, 2 | a piece fits only into an empty fifo |
| `ListMax`, `ListKeep`, `MaxSeq` | 3, 2, 5 | a list that shrinks while it grows; reloads that show nothing new, whose only effect is a longer list with higher numbers, end when either has reached `MaxSeq` |

`ConfFiles` does not check deadlock: with its edits used up and `.config` lost in a
crash the system really waits for the user. Nothing else stops.

### Fairness

* `PkgBuild`: `WF_vars(Make)`, a running make goes on; `SF_vars(StartMake("install",
  ...))`, the user keeps calling `make`, although other goals may come in
  between. No fairness for failures, which are bounded, nor for other goals: an
  uninstall may be asked for ever, and the property is `[]<>`.
* `Download`: `WF_vars(Work)` for the running make, `SF_vars(Start(p))` for the user
  who asks again for each package. Refusals and breaks are bounded: servers
  answer at last.
* `LpBuf`: `WF_vars(Continue(t))`, a thread in a call goes on. Which calls are made is
  left open. A medium answers each read, if only that it has failed or has nothing
  yet, which the protocols ensure with their own timeouts; it may have nothing yet
  for ever.
* `ListStream`: weak fairness of the downloader, except while it waits for an answer of
  the server (`Asks`) and the user has not stopped it; of the player in `read`, `seek` and
  `close`, and of the server's progress (`Publish`, `Finish`). Both threads are
  scheduled by the system and only sleep for bounded times (`usleep`). Nothing is
  assumed of seeks, closing and interrupts.
* `LinuxKernel` and `ConfFiles` state safety only.

## 4. What is proved

`PkgBuildProofs` proves, for any packages, dependencies, patches, goals and
bounds that satisfy the assumptions of `PkgBuild`:

* `TypeCorrect`: `Spec => []TypeOK`.
* `DependenciesInstalled`: `Spec => []DepsInstalled`, assuming
  `"uninstalled" \notin CrashIn`.
* `ContractKept`: `Spec => KeepsContract`, under the same assumption: initial
  states map to initial states of `BuildContract` and every step to one of its
  steps or a stutter.

`DepsInstalled` is not inductive. That make skips the installation of a
dependency because a stamp exists is only right if stamps are honest, and an
honest stamp at the time of the visit is only useful if nothing removes the
files later in the run. The inductive invariant `IInv` adds

* `Serial`: make is at a recipe of at most one package;
* `IdleRests`: between runs no package is under way;
* `Honest(p)`: an installation stamp means files, except between the removal
  of files and of stamp in an uninstall that is under way, which is why such an
  uninstall may not break off;
* `OnCourse(p)`: make takes the steps of `p` in the order its goal asks for, and
  undoes only what it was asked to undo;
* `MadeInPlace(p)`: what a run counts as made stays in place until its end;
* `Ordered(p)`: while recipes after `<p>-depends` run, every dependency is made.

The proof has one lemma per group of actions and conjunct; `ContractKept` reuses
it and shows which abstract step each action is.

`PkgStampProofs` adds, for the same packages and goals, what stamps tell about
contents: `PatchesOnce` (`PatchedOnce`), `StampsTold` (`StampsTell`) and `MadeAsConfigured`
(`BuiltAsConfigured`). All assume `Undisturbed`: no recipe that undoes something is
cut off, and no stamp is removed by hand. Otherwise make finds a stamp whose work is
gone and goes on from it. `PkgGoals` checks the three properties with crashes in the
recipes that make something only; `PkgUninstallCrash` and `PkgReconfigured` show what
comes of an uninstall that is cut off and of a stamp that is removed. `Tells` strengthens `IInv` by

* `Told(p)`: a stamp says that its work is there, made from that of the stamp before
  it, which is there too: every patch is applied, the objects have the configuration of
  the tree, installed files are the objects. Between the two halves of a recipe that
  undoes, the work is gone and the stamp is not, and `Told` says which;
* `Path(p)`: where make is, the steps before have their stamps, so that the recipe it
  begins finds what it works on; and while patches are applied, their number is that
  of the tree.

`LinuxProofs` proves, for any number of patches, patches that do not apply, goals,
failing recipes and bounds, with and without a tarball:

* `LinuxTyped`: `Spec => []TypeOK`;
* `ImageRight`: `Spec => []ImageCurrent`;
* `RootRight`: `Spec => []RootCurrent`;

and, assuming `~Tarball`, which `LinuxEditsLost` shows to be necessary,

* `EditsRight`: `Spec => []EditsBuilt`;
* `NothingMore`: `Spec => []NothingLeft`.

That an image is current does not follow from the recipe that copies it: make skips
recipes whose stamps look up to date. Each recipe destroys something at its start, and
`make` may stop then. `IInv` says why the stamps tell:

* `Flow`: make takes its targets from left to right, and what is ahead of it has not
  been made in this run;
* `OutOfDate`: when a recipe runs, or has to because that of a prerequisite ran, its stamp
  is out of date, so a stop there is noticed. The exception is extraction, which
  writes `.stamp_patched` too: there it is `.stamp_configured` that is out of date;
* `Progress`: what is behind a run is up to date (`UpTo(n)`: the first `n` stamps exist and
  none is older than its prerequisites); with a tarball nothing ever is, and then
  everything behind the run was made in this run;
* `Built`: up to date objects and images have the configuration and patches of the tree. A
  failed second build for the initramfs leaves no objects although
  `.stamp_compiled` is up to date, but then the image is;
* `Kept`, without a tarball: edits are lost only with the tree.

The lemmas `TouchFresh`, `RemoveFresh` and `TouchUpTo` say what writing and removing a file does
to which stamps are up to date; `Makes` is the step of all six stamps, with what
a recipe has to show as its assumptions.

`DownloadProofs` proves, for any packages, methods, sites and bounds:

* `DownloadTyped`: `Spec => []TypeOK`;
* `StampsHonest`: `Spec => []StampedUnbroken`, assuming `OwnFile`, that no two packages
  have the same archive. Without it the property is false: the empty archive that
  is touched beside the clone of one package passes for the source of another;
* `NothingLost`: `Spec => NotLost`, assuming that the backup site is enabled, which is
  what the configuration `DlGitOnly` shows to be necessary.

Two invariants carry them. `Unbroken`: until a transfer breaks off there are no parts,
no clones without the revision, an empty archive lies only beside a clone, and a
stamped package has an archive. `Touched`: a clone has its archive touched, and an
attempt over the network is under way only where there is no archive. So once git
has got the source, the next attempt finds the archive and touches the stamp: that
git itself ends in `false` loses nothing.

`ConfFilesProofs` proves every property of the run `ConfFiles` for any symbols, edits
and crashes, assuming only that every Buildroot has at least one of the symbols:
`FilesTyped`, `AutoConfMarks`, `ConfigurationKept` and `CompilerCurrent`. None is inductive
alone; the invariant says what each phase of a program relies on:

* `SavedHere`: `.config` is missing only between the two renames or after a crash
  there, and then the backup is the configuration saved last (a save that
  follows must not rename anything over it);
* `Phase`, `Memory`: files are regenerated only while auto.conf is older than
  `.config`, so it cannot pass for complete before its rename; what was renamed
  before has the values in memory, which are those of `.config`;
* `Included`: the values make read agree with those it regenerates the files
  from, for symbols every Buildroot has;
* `Marked`: a symbol that differs from auto.conf has its file touched before any
  rename, and touched files stay touched over crashes until gcc is built;
* `Told`: where gcc differs from auto.conf a file tells so. With `Settled` (after a run
  that ended well auto.conf is what was saved, and the next run sees all the
  files) this gives `SecondRunCurrent`.

`LpBufProofs` proves for buffers, gaps, blocks and media of any size that satisfy
`SizesOK` and `ModesOK`, and for any number of threads that take turns (`TurnSpec`: the
steps of `Spec` in which no thread steps while another is in a call):

* `LoopBufferTyped`: `TurnSpec => []TypeOK`;
* `LoopBufferRight`: `TurnSpec => []RingRight`;
* `LoopBufferIsStream`: `TurnSpec => IsStream`;

and, assuming that there is one thread (`OneThread`, of which `OneTakesTurns` shows that
`Spec` is `TurnSpec`),

* `LoopBufferToldEnd`: `Spec => []NoFalseEnd`;
* `LoopBufferSeeks`: `Spec => []SeekLands`.

When calls overlap `RingRight` is false, as `LpTwoThreads` shows: taking turns is what
the callers of the buffer owe it, since its own mutex does not cover the read of the
medium. The last two are about the answer a thread has got, which is out of date
once another one has moved, so they say nothing of more than one.

`RingRight` alone is not inductive: it says nothing while a fill is in flight, and
nothing of the bytes a later seek back reaches. `IInv` adds

* `HeldRight`: the last `Held` bytes before the write pointer are right, where `Held`
  is what the account of old bytes says, capped by the size, except for as many
  places as a fill in flight has already overwritten;
* `InFlight(t)`: between fills the medium stands where the buffer ends; a fill in
  flight is for room that is not held against a reader, and has put the bytes
  that follow;
* `InCall(t)`: what is left of a read or a read seek adds up to its target, and the
  buffer is empty when it fills.

`Turn(t)` is what the thread whose turn it is finds and leaves. `IInv` has it for every thread
that is alone: the others are idle, and for them `InFlight` says that the medium
stands where the buffer ends, which is what the thread leaves that goes idle.

The lemmas `Amounts` (what can be read and sought back to) and `Reachable` (it is
within `Held`) carry the ring arithmetic; there is one lemma per action.

`ListTypeProofs` and `ListStreamProofs` prove, for lists of either kind (any `Kinds`), for any
number and size of segments, window, fifo, pieces and limits of the list, whenever the
list tells its media sequence (any `Numberings`), with a server that answers or does not, and
with nothing assumed but `SizesOK`:

* `ListTyped`: `Spec => []TypeOK`;
* `ListNumbered`: `Spec => []SeqsRise`, numbers that rise where a list has any, and none,
  before and after reloads, where it never tells them;
* `ListInOrder`: `Spec => []InOrder`;
* `ListToldEnd`: `Spec => []OnlyEndTold`.

The first two are about a list that is loaded again. What the parser makes of a
list is a recursive function (`Numbers`: the seq each line leaves to the next), since an
item that is dropped gives its number back. `NumbersAre` says what it computes when
nothing is dropped: the function that adds one per line satisfies the same
equation, and two functions that do are equal, since the set of numbers at which
they agree has 0 and every successor (`Induction`, which follows from the least
element that `WFMin` gives to a set of numbers, and needs no induction theorem).
`NewItems` says that nothing is ever dropped. Whatever window the server shows, a parser
that counts does so from `next_seq` or from above it, and the items that are there have
numbers below; one that does not count gives items without a number, and only
items with one are compared. So `list_test_and_add_item` never finds an item again, which is why
`ListTwice` finds segments that are in the list twice. `Reloaded` says all a reload
does: the old items, then the new ones, less some at the front that
`list_shrink_live_list` takes, and never the current one; `current_item` goes to the first
new item with its file, if there is one. `ListTyped` needs `Aside` beside the types: which
items each thread remembers when, since one remembered over a reload that
shrinks the list would be out of date.

`ListInOrder` and `ListToldEnd` rest on `Kept`, which has a case for each kind of list.

For a list with an end it is `raced` or `Sound`, whose parts say what each thread may rely
on about the other:

* `Handshake`: the flags tell where each thread is; `reset_flag` is 0 while the
  downloader is on a segment;
* `Player`: while the player seeks, `current_item` is NULL and the downloader is on an
  old segment or waits for an item; after `CacheHttp_Reset` it waits, and the fifo
  is empty;
* `Loader`: the unit that comes next into the fifo is the one after its last,
  wherever the downloader is;
* `Told`: the end is told at the end item only.

Where `raced` becomes true is where one of these fails. The window between
`getCurrentSegment` and `reset_flag = 0` is visible in the proof: `Player` cannot be
kept there.

A live list is not in order as a whole: a reload puts items behind the old ones that
are among them. What holds is `LivePart`:

* `LiveList`: from `current_item` on the list ascends, and an end item is the last one of a
  list that the server has ended;
* `Upward`: the units in the fifo ascend from the player's position; `Edge` is where they
  end;
* `LiveLoader`: nothing the downloader is on, or goes to next (`Due`), lies before `Edge`;
* `LiveTold`: `finish_flag` and the end told have a reason.

`ReloadLive` is the step that matters: either the file of the current item is among the new
ones, and the list ascends from there, or it is not, and then every new segment is
a later one, because segments leave the server's window from the front.

Model-checked only: liveness (`Converges`, `AllDownloaded`, `Returns`, `SeekReturns`, `Flows`,
`Closes`), which is out of the prover's reach. Every invariant and every refinement the
runs check is a theorem.

## 5. Not modelled

* The inside of package commands, autotools and cmake: what they do to the state
  is one of "made", "half made" and "removed".
* File names, messages, `SOURCE_CHECK` and `SHOW_EXTERNAL_DEPS` (they only print).
* Options of a package one by one: a revision number stands for all of them.
* Parallel package builds, which the top-level Makefile forbids, and two
  programs at once on `.config`.
* The syntax of configuration files, and modes of `conf` other than
  silentoldconfig, which write `.config` the way `Save` does.
* Of the loop buffer: a cache client (none registers in the repository), `url_lpreset`,
  which only combined media files use, `AVSEEK_SIZE`, the limits of what is buffered
  ahead by `seekflags`, allocation and freeing.
* Of segment lists: variants and the switch between them, keys, times of items and
  buffered time, and the split of a piece where the fifo wraps.
* The player itself, which is not in the repository, and the HLS demuxer.
* The components listed as not modelled in `PROJECT.json`, with their reasons.

## 6. Plan

1. Done: `PkgBuild`, `BuildContract`, `PkgBuildProofs`, `PkgStampProofs`; `LinuxKernel`,
   `LinuxProofs`; `Download`, `DownloadProofs`; `ConfFiles`, `ConfFilesProofs`; `LpBuf`, `SeekableStream`, `LpBufProofs`; `ListStream`,
   `ListTypeProofs`, `ListStreamProofs`.
2. `HlsDemuxer`: `hls.c` over the loop buffer, whose seek clears only one of its two
   buffers; variants of `ListStream`. `Kconfig`: symbols and choices (`symbol.c`), as
   recursive functions against a reference definition; `Cmem`: a client of the CMEM
   library and its failing ioctls; `Rootfs`: target-finalize and images composed
   with installed packages; `XiosBoot` and `Reboot`: first boot under power loss,
   remount and reboot; the autotools hooks as steps of the patch recipe.
3. Proofs: `NoFalseEnd` and `SeekLands` of threads that take turns, as properties of the
   step that answers; the modules of item 2.
4. Compositions: the loop buffer over `ListStream`, as the medium of its reads and of
   its seek by time; `Download` and the recipes of `PkgBuild` over a shared `DL_DIR`;
   two programs on `.config`.

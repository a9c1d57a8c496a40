------------------------------ MODULE Download ------------------------------
(***************************************************************************)
(* package/Makefile.package.in, the DOWNLOAD macro and the recipe of       *)
(* .stamp_downloaded: get the source of a package from the primary site,   *)
(* its own site or the backup site, whichever has it first, and the choice *)
(* the recipe of .stamp_extracted makes between an archive and a clone.    *)
(*                                                                         *)
(* Files of DL_DIR are shared by name and outlive a run.  Servers are      *)
(* external: a request is refused, or it breaks off (a break leaves what   *)
(* had arrived), or it succeeds; both failures are bounded.  Mirrors need  *)
(* not carry a file, and then refuse any request for it.                   *)
(***************************************************************************)
EXTENDS Integers, FiniteSets

CONSTANTS
  Pkg,        \* packages
  Method,     \* _SITE_METHOD of each
  File,       \* _SOURCE of each
  Sites,      \* the attempts that are enabled, a subset of Attempts
  Mirrored,   \* the files that the primary and the backup site carry
  MaxRefused, \* bound on refused requests
  MaxBroken   \* bound on broken transfers and on interrupts

Attempts == {"primary", "site", "backup"}
Methods  == {"wget", "git", "svn", "bzr", "cp"}

ASSUME DownloadAssumption ==
  /\ Method \in [Pkg -> Methods]
  /\ File \in [Pkg -> Pkg]
  /\ Sites \subseteq Attempts /\ "site" \in Sites
  /\ Mirrored \subseteq Pkg
  /\ MaxRefused \in Nat /\ MaxBroken \in Nat

VARIABLES
  archive, \* archive[f]: "none", "empty" (touched), "part", "stale" or "whole"
  repo,    \* repo[p]: the clone in DL_DIR/git, "none", "old" (no such revision) or "has"
  export,  \* export[p]: the directory svn exports to is there
  stamp,   \* packages with .stamp_downloaded
  cur,     \* the package make downloads, or "none"
  try,     \* the attempt under way
  cmd,     \* the command of the attempt: "test", "get", "tar"
  refused, broken

vars == <<archive, repo, export, stamp, cur, try, cmd, refused, broken>>
disk == <<archive, repo, export>>

Init ==
  /\ archive = [f \in Pkg |-> "none"]
  /\ repo = [p \in Pkg |-> "none"]
  /\ export = [p \in Pkg |-> FALSE]
  /\ stamp = {}
  /\ cur = "none" /\ try = "none" /\ cmd = "none"
  /\ refused = 0 /\ broken = 0

-----------------------------------------------------------------------------
F == File[cur]
How == IF try = "site" THEN Method[cur] ELSE "wget"

\* The attempt after t, "none" when there is no other.
Next3(t) ==
  LET later == IF t = "start" THEN Attempts
               ELSE IF t = "primary" THEN {"site", "backup"}
               ELSE IF t = "site" THEN {"backup"} ELSE {}
  IN  IF "primary" \in later \cap Sites THEN "primary"
      ELSE IF "site" \in later \cap Sites THEN "site"
      ELSE IF "backup" \in later \cap Sites THEN "backup" ELSE "none"

Ended == cur' = "none" /\ try' = "none" /\ cmd' = "none"

\* Mutant: another stamp is touched.
ExitOther == stamp' = stamp \cup {try} /\ Ended

\* `&& exit': the recipe goes on and touches the stamp.
Exit == stamp' = stamp \cup {cur} /\ Ended

\* The next `if', or `exit 1'.
Fall ==
  /\ IF Next3(try) = "none" THEN Ended
     ELSE try' = Next3(try) /\ cmd' = "test" /\ cur' = cur
  /\ UNCHANGED stamp

Doing(m, c) == cur # "none" /\ How = m /\ cmd = c

Start(p) ==
  /\ cur = "none"
  /\ p \notin stamp
  /\ cur' = p
  /\ try' = Next3("start")
  /\ cmd' = "test"
  /\ UNCHANGED <<disk, stamp, refused, broken>>

\* `test -e' of DOWNLOAD_WGET, _SVN and _BZR, and the -newer test of _CP.
Have(m) == IF m = "cp" THEN archive[F] \notin {"none", "stale"} ELSE archive[F] # "none"

TestFile ==
  /\ \E m \in Methods \ {"git"} : Doing(m, "test") /\ Have(m)
  /\ Exit
  /\ UNCHANGED <<disk, refused, broken>>

Fetch ==
  /\ \E m \in Methods \ {"git"} : Doing(m, "test") /\ ~Have(m)
  /\ cmd' = "get"
  /\ UNCHANGED <<disk, stamp, cur, try, refused, broken>>

\* wget, bzr and tar write the file they are asked for as they go on.
Getting == \E m \in {"wget", "bzr", "cp"} : Doing(m, "get")

Offered == try = "site" \/ F \in Mirrored

GetDone ==
  /\ Getting /\ Offered
  /\ archive' = [archive EXCEPT ![F] = "whole"]
  /\ Exit
  /\ UNCHANGED <<repo, export, refused, broken>>

GetRefused ==
  /\ Getting /\ How # "cp"
  /\ IF Offered THEN refused < MaxRefused /\ refused' = refused + 1
     ELSE UNCHANGED refused
  /\ Fall
  /\ UNCHANGED <<disk, broken>>

GetBroken ==
  /\ Getting /\ Offered
  /\ broken < MaxBroken /\ broken' = broken + 1
  /\ archive' = [archive EXCEPT ![F] = "part"]
  /\ Fall \/ (Ended /\ UNCHANGED stamp)
  /\ UNCHANGED <<repo, export, refused>>

\* svn exports to a directory, which must not exist, and tar packs it.
SvnExport ==
  /\ Doing("svn", "get") /\ ~export[cur]
  /\ export' = [export EXCEPT ![cur] = TRUE]
  /\ \/ cmd' = "tar" /\ UNCHANGED <<stamp, cur, try, broken>>
     \/ /\ broken < MaxBroken /\ broken' = broken + 1
        /\ Fall \/ (Ended /\ UNCHANGED stamp)
  /\ UNCHANGED <<archive, repo, refused>>

\* The repository is not reached: nothing is exported.
SvnRefused ==
  /\ Doing("svn", "get") /\ ~export[cur]
  /\ refused < MaxRefused /\ refused' = refused + 1
  /\ Fall
  /\ UNCHANGED <<disk, broken>>

SvnBlocked ==
  /\ Doing("svn", "get") /\ export[cur]
  /\ Fall
  /\ UNCHANGED <<disk, refused, broken>>

SvnTar ==
  /\ Doing("svn", "tar")
  /\ \/ /\ archive' = [archive EXCEPT ![F] = "whole"]
        /\ export' = [export EXCEPT ![cur] = FALSE]
        /\ Exit /\ UNCHANGED broken
     \/ /\ broken < MaxBroken /\ broken' = broken + 1
        /\ archive' = [archive EXCEPT ![F] = "part"]
        /\ Fall \/ (Ended /\ UNCHANGED stamp)
        /\ UNCHANGED export
  /\ UNCHANGED <<repo, refused>>

-----------------------------------------------------------------------------
(* git *)

\* Mutant: a clone leaves no file in DL_DIR.
TouchNothing(f) == archive[f]

\* touch of _SOURCE: the file that later attempts and runs look for.
TouchArchive(f) == IF archive[f] = "none" THEN "empty" ELSE archive[f]

\* Mutant: `true' for `false', a failed clone counts as the source.
AfterGitTrue == Exit

\* Mutant: no other site is tried after a clone.
AfterGitLast == Ended /\ UNCHANGED stamp

\* Whatever the clone came to, the list ends with `false': `exit' is not met.
AfterGit == Fall

\* The clone has the revision, or gets it by a fetch or a first clone.
GitGot ==
  /\ Doing("git", "test")
  /\ repo' = [repo EXCEPT ![cur] = "has"]
  /\ archive' = [archive EXCEPT ![F] = TouchArchive(F)]
  /\ AfterGit
  /\ UNCHANGED <<export, refused, broken>>

GitRefused ==
  /\ Doing("git", "test") /\ repo[cur] # "has"
  /\ refused < MaxRefused /\ refused' = refused + 1
  /\ AfterGit
  /\ UNCHANGED <<disk, broken>>

\* Killed during the clone: a directory with a .git but without the revision.
GitBroken ==
  /\ Doing("git", "test") /\ repo[cur] # "has"
  /\ broken < MaxBroken /\ broken' = broken + 1
  /\ repo' = [repo EXCEPT ![cur] = "old"]
  /\ Ended
  /\ UNCHANGED <<archive, export, stamp, refused>>

-----------------------------------------------------------------------------
\* Between two runs the user removes the build directory of a package, or edits
\* a site that is a directory.
RemoveBuild(p) ==
  /\ cur = "none" /\ p \in stamp
  /\ stamp' = stamp \ {p}
  /\ UNCHANGED <<disk, cur, try, cmd, refused, broken>>

EditSite(p) ==
  /\ cur = "none" /\ Method[p] = "cp" /\ archive[File[p]] # "none"
  /\ archive' = [archive EXCEPT ![File[p]] = "stale"]
  /\ UNCHANGED <<repo, export, stamp, cur, try, cmd, refused, broken>>

Work ==
  \/ TestFile \/ Fetch \/ GetDone \/ GetRefused \/ GetBroken
  \/ SvnExport \/ SvnRefused \/ SvnBlocked \/ SvnTar
  \/ GitGot \/ GitRefused \/ GitBroken

Next == Work \/ \E p \in Pkg : Start(p) \/ RemoveBuild(p) \/ EditSite(p)

Spec == Init /\ [][Next]_vars

\* make goes on, and the user asks again and again for what is missing.
FairSpec == Spec /\ WF_vars(Work) /\ \A p \in Pkg : SF_vars(Start(p))

-----------------------------------------------------------------------------
TypeOK ==
  /\ archive \in [Pkg -> {"none", "empty", "part", "stale", "whole"}]
  /\ repo \in [Pkg -> {"none", "old", "has"}]
  /\ export \in [Pkg -> BOOLEAN]
  /\ stamp \subseteq Pkg
  /\ cur \in Pkg \cup {"none"} /\ try \in Attempts \cup {"none"}
  /\ cmd \in {"none", "test", "get", "tar"}
  /\ refused \in 0..MaxRefused /\ broken \in 0..MaxBroken

\* What .stamp_extracted finds for p: it checks the clone out when there is one
\* and the archive is missing or empty, and unpacks the archive otherwise.
Extractable(p) ==
  IF repo[p] # "none" /\ archive[File[p]] \in {"none", "empty"}
  THEN repo[p] = "has"
  ELSE archive[File[p]] \in {"whole", "stale"}

\* A package that counts as downloaded can be extracted: the stamp "tells that
\* this action has been done" (docs/buildroot.html:462), and the sites that
\* were tried before another one, or for another package, left nothing that
\* passes for the source.
StampedIsThere == \A p \in stamp : Extractable(p)

\* The same as long as no transfer broke off and no run was interrupted.
StampedUnbroken == broken = 0 => StampedIsThere

\* A run does not give a package up when the source was obtained.
NotLost ==
  [][cur # "none" /\ cur' = "none" /\ cur \notin stamp' /\ broken' = broken
       => repo'[cur] # "has"]_vars

\* When the servers answer at last, everything that is asked for is downloaded.
AllDownloaded == \A p \in Pkg : []<>(p \in stamp)
=============================================================================

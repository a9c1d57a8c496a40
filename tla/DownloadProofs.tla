--------------------------- MODULE DownloadProofs ---------------------------
(***************************************************************************)
(* Proofs about Download for any packages, methods, sites and bounds.      *)
(***************************************************************************)
EXTENDS Download, TLAPS

(* No two packages have the same file in DL_DIR. *)
OwnFile == \A p, q \in Pkg : File[p] = File[q] => p = q

(* Until a transfer breaks off there are no parts, no clones without the   *)
(* revision, and an empty archive is one of a package with a clone.        *)
Unbroken ==
  /\ \A f \in Pkg : archive[f] # "part"
  /\ \A p \in Pkg : repo[p] # "old"
  /\ \A p \in Pkg : archive[File[p]] = "empty" => repo[p] = "has"
  /\ \A p \in stamp : archive[File[p]] # "none"

(* A clone has its archive touched, and make transfers an archive over the *)
(* network only where there is none.                                       *)
Touched ==
  /\ cur # "none" => try \in Attempts
  /\ \A p \in Pkg : repo[p] = "has" => archive[File[p]] # "none"
  /\ cur # "none" /\ cmd = "get" /\ How # "cp" => archive[F] = "none"

-----------------------------------------------------------------------------
LEMMA NextTry ==
  /\ Next3("start") \in Attempts
  /\ \A t : Next3(t) \in Attempts \cup {"none"}
  /\ Next3("primary") # "none"
  /\ "backup" \in Sites => Next3("site") # "none"
  BY DownloadAssumption DEF Next3, Attempts

LEMMA Files ==
  ASSUME TypeOK, cur # "none"
  PROVE  cur \in Pkg /\ F \in Pkg
  BY DownloadAssumption DEF TypeOK, F

(* Where an attempt may lead, whether it falls through, exits or ends.     *)
LEMMA AttemptTyped ==
  ASSUME TypeOK, cur # "none", Fall \/ Exit \/ (Ended /\ UNCHANGED stamp)
  PROVE  /\ cur' \in Pkg \cup {"none"} /\ try' \in Attempts \cup {"none"}
         /\ cmd' \in {"none", "test", "get", "tar"} /\ stamp' \subseteq Pkg
         /\ cur' # "none" => try' \in Attempts /\ cmd' = "test" /\ cur' = cur
         /\ stamp' \subseteq stamp \cup {cur}
  BY NextTry, Files DEF TypeOK, Fall, Exit, Ended, Attempts

LEMMA TypeNext ==
  ASSUME TypeOK, [Next]_vars
  PROVE  TypeOK'
  <1>1. CASE TestFile
    BY <1>1, AttemptTyped DEF TestFile, Doing, TypeOK, disk
  <1>2. CASE Fetch
    BY <1>2 DEF Fetch, Doing, TypeOK, disk
  <1>3. CASE GetDone
    BY <1>3, AttemptTyped, Files DEF GetDone, Getting, Doing, TypeOK
  <1>4. CASE GetRefused
    BY <1>4, AttemptTyped, DownloadAssumption
    DEF GetRefused, Getting, Doing, TypeOK, disk
  <1>5. CASE GetBroken
    BY <1>5, AttemptTyped, Files, DownloadAssumption
    DEF GetBroken, Getting, Doing, TypeOK
  <1>6. CASE SvnExport
    <2>1. export' \in [Pkg -> BOOLEAN]
      BY <1>6, Files DEF SvnExport, Doing, TypeOK
    <2>2. broken' \in 0..MaxBroken
      BY <1>6, DownloadAssumption DEF SvnExport, TypeOK
    <2> QED
      BY <1>6, <2>1, <2>2, AttemptTyped DEF SvnExport, Doing, TypeOK
  <1>7. CASE SvnRefused \/ SvnBlocked
    <2>1. refused' \in 0..MaxRefused
      BY <1>7, DownloadAssumption DEF SvnRefused, SvnBlocked, TypeOK
    <2> QED
      BY <1>7, <2>1, AttemptTyped DEF SvnRefused, SvnBlocked, Doing, TypeOK, disk
  <1>8. CASE SvnTar
    <2>1. export' \in [Pkg -> BOOLEAN]
      BY <1>8, Files DEF SvnTar, Doing, TypeOK
    <2>2. broken' \in 0..MaxBroken
      BY <1>8, DownloadAssumption DEF SvnTar, TypeOK
    <2> QED
      BY <1>8, <2>1, <2>2, AttemptTyped, Files DEF SvnTar, Doing, TypeOK
  <1>9. CASE GitGot
    BY <1>9, AttemptTyped, Files
    DEF GitGot, AfterGit, TouchArchive, Doing, TypeOK
  <1>10. CASE GitRefused
    BY <1>10, AttemptTyped, DownloadAssumption
    DEF GitRefused, AfterGit, Doing, TypeOK, disk
  <1>11. CASE GitBroken
    BY <1>11, Files, DownloadAssumption DEF GitBroken, Ended, Doing, TypeOK
  <1>12. CASE \E p \in Pkg : Start(p)
    BY <1>12, NextTry DEF Start, TypeOK, disk
  <1>13. CASE \E p \in Pkg : RemoveBuild(p) \/ EditSite(p)
    BY <1>13, DownloadAssumption DEF RemoveBuild, EditSite, TypeOK, disk
  <1>14. CASE UNCHANGED vars
    BY <1>14 DEF TypeOK, vars
  <1> QED
    BY <1>1, <1>2, <1>3, <1>4, <1>5, <1>6, <1>7, <1>8, <1>9, <1>10, <1>11,
       <1>12, <1>13, <1>14 DEF Next, Work

(* Whatever make or the user does, a stamp is touched only when there is   *)
(* an archive, and an archive is touched only beside a clone.              *)
LEMMA UnbrokenNext ==
  ASSUME OwnFile, TypeOK, Unbroken, [Next]_vars, broken' = broken
  PROVE  Unbroken'
  <1>1. CASE TestFile
    <2>1. archive[F] # "none"
      BY <1>1 DEF TestFile, Have
    <2> QED
      BY <1>1, <2>1 DEF TestFile, Exit, Unbroken, disk, F
  <1>2. CASE Fetch \/ SvnRefused \/ SvnBlocked \/ GetRefused \/ GitRefused
    BY <1>2
    DEF Fetch, SvnRefused, SvnBlocked, GetRefused, GitRefused, AfterGit, Fall, Ended,
        Unbroken, disk
  <1>3. CASE GetDone
    BY <1>3, Files, DownloadAssumption
    DEF GetDone, Getting, Doing, Exit, Unbroken, TypeOK, F
  <1>4. CASE GetBroken \/ GitBroken
    BY <1>4 DEF GetBroken, GitBroken, TypeOK
  <1>5. CASE SvnExport
    BY <1>5 DEF SvnExport, TypeOK, Unbroken
  <1>6. CASE SvnTar
    <2>1. /\ archive' = [archive EXCEPT ![F] = "whole"] /\ Exit
          /\ repo' = repo /\ cur # "none"
      BY <1>6 DEF SvnTar, Doing, TypeOK
    <2> QED
      BY <2>1, Files, DownloadAssumption DEF Exit, Unbroken, TypeOK, F
  <1>7. CASE GitGot
    <2>1. /\ repo' = [repo EXCEPT ![cur] = "has"]
          /\ archive' = [archive EXCEPT ![F] = TouchArchive(F)]
          /\ stamp' = stamp /\ cur \in Pkg /\ F \in Pkg
      BY <1>7, Files DEF GitGot, AfterGit, Fall, Doing
    <2>2. \A p \in Pkg : archive'[File[p]] = IF p = cur THEN TouchArchive(F)
                                                        ELSE archive[File[p]]
      BY <2>1, DownloadAssumption DEF OwnFile, TypeOK, F
    <2>3. \A f \in Pkg : archive'[f] # "part"
      BY <2>1 DEF Unbroken, TypeOK, TouchArchive
    <2>4. \A p \in Pkg : repo'[p] = IF p = cur THEN "has" ELSE repo[p]
      BY <2>1 DEF TypeOK
    <2>5. TouchArchive(F) # "none"
      BY DEF TouchArchive
    <2> QED
      BY <2>1, <2>2, <2>3, <2>4, <2>5 DEF Unbroken, TypeOK
  <1>8. CASE \E p \in Pkg : Start(p) \/ RemoveBuild(p)
    BY <1>8 DEF Start, RemoveBuild, Unbroken, disk
  <1>9. CASE \E p \in Pkg : EditSite(p)
    BY <1>9, DownloadAssumption DEF EditSite, Unbroken, TypeOK
  <1>10. CASE UNCHANGED vars
    BY <1>10 DEF Unbroken, vars
  <1> QED
    BY <1>1, <1>2, <1>3, <1>4, <1>5, <1>6, <1>7, <1>8, <1>9, <1>10
    DEF Next, Work

LEMMA BrokenGrows ==
  ASSUME TypeOK, [Next]_vars, broken' = 0
  PROVE  broken = 0
  <1>1. broken' = broken \/ broken' = broken + 1
    BY DEF Next, Work, TestFile, Fetch, GetDone, GetRefused, GetBroken,
           SvnExport, SvnRefused, SvnBlocked, SvnTar, GitGot, GitRefused,
           GitBroken, Start, RemoveBuild, EditSite, vars
  <1> QED
    BY <1>1, DownloadAssumption DEF TypeOK

LEMMA TouchedNext ==
  ASSUME TypeOK, Touched, [Next]_vars
  PROVE  Touched'
  <1>1. CASE TestFile
    BY <1>1, NextTry DEF TestFile, Exit, Ended, Touched, disk
  <1>2. CASE Fetch
    BY <1>2 DEF Fetch, Doing, Have, Methods, Touched, How, F, disk
  <1>3. CASE GetDone \/ GetBroken
    <2>1. /\ cur # "none" /\ repo' = repo
          /\ \E c \in {"whole", "part"} :
               archive' = [archive EXCEPT ![F] = c]
      BY <1>3 DEF GetDone, GetBroken, Getting, Doing
    <2>2. cur' # "none" => try' \in Attempts /\ cmd' = "test"
      BY <1>3, <2>1, AttemptTyped DEF GetDone, GetBroken
    <2> QED
      BY <2>1, <2>2, Files, DownloadAssumption DEF Touched, TypeOK
  <1>4. CASE GetRefused \/ SvnRefused \/ SvnBlocked \/ GitRefused
    <2>1. cur # "none" /\ Fall /\ UNCHANGED disk
      BY <1>4 DEF GetRefused, SvnRefused, SvnBlocked, GitRefused, AfterGit, Getting,
         Doing
    <2> QED
      BY <2>1, AttemptTyped DEF Touched, disk
  <1>5. CASE SvnExport
    <2>1. cur # "none" /\ archive' = archive /\ repo' = repo
      BY <1>5 DEF SvnExport, Doing
    <2>2. \/ cmd' = "tar" /\ try' = try /\ cur' = cur
          \/ cur' # "none" => try' \in Attempts /\ cmd' = "test"
      BY <1>5, <2>1, AttemptTyped DEF SvnExport
    <2> QED
      BY <2>1, <2>2 DEF Touched
  <1>6. CASE SvnTar
    <2>1. /\ cur # "none" /\ repo' = repo
          /\ \E c \in {"whole", "part"} :
               archive' = [archive EXCEPT ![F] = c]
      BY <1>6 DEF SvnTar, Doing
    <2>2. cur' # "none" => try' \in Attempts /\ cmd' = "test"
      BY <1>6, <2>1, AttemptTyped DEF SvnTar
    <2> QED
      BY <2>1, <2>2, Files, DownloadAssumption DEF Touched, TypeOK
  <1>7. CASE GitGot
    <2>1. /\ repo' = [repo EXCEPT ![cur] = "has"]
          /\ archive' = [archive EXCEPT ![F] = TouchArchive(F)]
          /\ cur \in Pkg /\ F \in Pkg /\ F = File[cur]
      BY <1>7, Files DEF GitGot, Doing, F
    <2>2. cur' # "none" => try' \in Attempts /\ cmd' = "test"
      BY <1>7, AttemptTyped DEF GitGot, AfterGit, Doing
    <2>3. TouchArchive(F) # "none"
      BY DEF TouchArchive
    <2>4. \A p \in Pkg : repo'[p] = "has" => p = cur \/ repo[p] = "has"
      BY <2>1 DEF TypeOK
    <2>5. \A f \in Pkg : archive[f] # "none" => archive'[f] # "none"
      BY <2>1, <2>3 DEF TypeOK
    <2>6. archive'[File[cur]] # "none"
      BY <2>1, <2>3 DEF TypeOK
    <2> QED
      BY <2>2, <2>4, <2>5, <2>6, DownloadAssumption DEF Touched
  <1>8. CASE GitBroken
    BY <1>8, Files DEF GitBroken, Doing, Ended, Touched, TypeOK
  <1>9. CASE \E p \in Pkg : Start(p)
    BY <1>9, NextTry DEF Start, Touched, disk
  <1>10. CASE \E p \in Pkg : RemoveBuild(p)
    BY <1>10 DEF RemoveBuild, Touched, disk
  <1>11. CASE \E p \in Pkg : EditSite(p)
    BY <1>11, DownloadAssumption DEF EditSite, Touched, TypeOK
  <1>12. CASE UNCHANGED vars
    BY <1>12 DEF Touched, vars, How, F
  <1> QED
    BY <1>1, <1>2, <1>3, <1>4, <1>5, <1>6, <1>7, <1>8, <1>9, <1>10, <1>11,
       <1>12 DEF Next, Work

(* A run that gives a package up has tried the backup site, and found no   *)
(* file there to begin with.                                               *)
LEMMA GivenUp ==
  ASSUME TypeOK, Touched, [Next]_vars, "backup" \in Sites,
         cur # "none", cur' = "none", cur \notin stamp', broken' = broken
  PROVE  repo'[cur] # "has"
  <1>1. cur \in Pkg /\ try \in Attempts /\ F = File[cur]
    BY Files DEF Touched, F
  <1>2. ~Exit
    BY DEF Exit
  <1>3. Fall => try = "backup"
    BY <1>1, NextTry DEF Fall, Attempts
  <1>4. CASE GetRefused
    <2>1. Fall /\ cmd = "get" /\ How # "cp" /\ repo' = repo
      BY <1>4 DEF GetRefused, Getting, Doing, disk
    <2>2. archive[File[cur]] = "none"
      BY <2>1, <1>1 DEF Touched
    <2> QED
      BY <2>1, <2>2, <1>1 DEF Touched
  <1>5. CASE GitGot \/ GitRefused \/ SvnRefused \/ SvnBlocked \/ SvnExport
    <2>1. Fall => How = "wget"
      BY <1>3 DEF How
    <2>2. How \in {"git", "svn"}
      BY <1>5 DEF GitGot, GitRefused, SvnRefused, SvnBlocked, SvnExport, Doing
    <2>3. Fall \/ cur' = cur
      BY <1>5 DEF GitGot, GitRefused, AfterGit, SvnRefused, SvnBlocked, SvnExport, TypeOK
    <2> QED
      BY <2>1, <2>2, <2>3
  <1>6. CASE TestFile \/ GetDone
    BY <1>6, <1>2 DEF TestFile, GetDone
  <1>7. CASE SvnTar
    BY <1>7, <1>2 DEF SvnTar, TypeOK
  <1>8. CASE GetBroken \/ GitBroken
    BY <1>8 DEF GetBroken, GitBroken, TypeOK
  <1>9. CASE Fetch \/ UNCHANGED vars
    BY <1>9 DEF Fetch, vars
  <1>10. CASE \E p \in Pkg : Start(p) \/ RemoveBuild(p) \/ EditSite(p)
    BY <1>10 DEF Start, RemoveBuild, EditSite
  <1> QED
    BY <1>4, <1>5, <1>6, <1>7, <1>8, <1>9, <1>10 DEF Next, Work

-----------------------------------------------------------------------------
LEMMA InitTyped ==
  ASSUME Init
  PROVE  TypeOK /\ Unbroken /\ Touched
  BY DownloadAssumption DEF Init, TypeOK, Unbroken, Touched

(* Archives, clones and stamps have their types, and no more requests are  *)
(* refused or broken off than the bounds allow (DOWNLOAD).                 *)
THEOREM DownloadTyped == Spec => []TypeOK
  BY InitTyped, TypeNext, PTL DEF Spec

(* As long as no transfer breaks off and no package shares its file with   *)
(* another, what has .stamp_downloaded can be extracted, whichever sites   *)
(* refuse and whatever the user removes or edits (DOWNLOAD and the recipes *)
(* of .stamp_downloaded and .stamp_extracted).                             *)
THEOREM StampsHonest ==
  ASSUME OwnFile
  PROVE  Spec => []StampedUnbroken
  <1> DEFINE IInv == TypeOK /\ (broken = 0 => Unbroken)
  <1>1. Init => IInv
    BY InitTyped
  <1>2. IInv /\ [Next]_vars => IInv'
    <2> SUFFICES ASSUME IInv, [Next]_vars PROVE IInv'
      OBVIOUS
    <2>1. TypeOK'
      BY TypeNext
    <2>2. broken' = 0 => Unbroken'
      BY BrokenGrows, UnbrokenNext
    <2> QED
      BY <2>1, <2>2
  <1>3. IInv => StampedUnbroken
    <2> SUFFICES ASSUME TypeOK, Unbroken, NEW p \in stamp
                 PROVE  Extractable(p)
      BY DEF StampedUnbroken, StampedIsThere
    <2> QED
      BY DownloadAssumption DEF TypeOK, Unbroken, Extractable
  <1> QED
    BY <1>1, <1>2, <1>3, PTL DEF Spec

(* With a backup site, a run does not give up a package whose clone has    *)
(* its revision, although no attempt with git succeeds (DOWNLOAD_GIT).     *)
THEOREM NothingLost ==
  ASSUME "backup" \in Sites
  PROVE  Spec => NotLost
  <1> DEFINE Kept == cur # "none" /\ cur' = "none" /\ cur \notin stamp'
                       /\ broken' = broken => repo'[cur] # "has"
  <1>1. Init => TypeOK /\ Touched
    BY InitTyped
  <1>2. TypeOK /\ Touched /\ [Next]_vars => (TypeOK /\ Touched)'
    BY TypeNext, TouchedNext
  <1>3. TypeOK /\ Touched /\ [Next]_vars => [Kept]_vars
    BY GivenUp
  <1> QED
    BY <1>1, <1>2, <1>3, PTL DEF Spec, NotLost
=============================================================================

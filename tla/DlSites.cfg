SPECIFICATION FairSpec
CONSTANTS
  Pkg = {"wget", "git", "svn", "cp"}
  Method <- MCMethod
  File <- MCFile
  Sites = {"primary", "site", "backup"}
  Mirrored = {"wget", "svn"}
  MaxRefused = 2
  MaxBroken = 1
INVARIANTS TypeOK StampedUnbroken
PROPERTIES NotLost AllDownloaded

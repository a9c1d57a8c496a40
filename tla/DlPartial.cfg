SPECIFICATION Spec
CONSTANTS
  Pkg = {"wget", "git"}
  Method <- MCMethod
  File <- MCFile
  Sites = {"site", "backup"}
  Mirrored = {"wget", "git"}
  MaxRefused = 0
  MaxBroken = 1
INVARIANTS StampedIsThere

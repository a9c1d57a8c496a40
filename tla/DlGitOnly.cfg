SPECIFICATION Spec
CONSTANTS
  Pkg = {"wget", "git"}
  Method <- MCMethod
  File <- MCFile
  Sites = {"site"}
  Mirrored = {"wget", "git"}
  MaxRefused = 0
  MaxBroken = 0
PROPERTIES NotLost

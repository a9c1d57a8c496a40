SPECIFICATION Spec
CONSTANTS
  app = app
  lib = lib
  tool = tool
  Pkg = {app, lib}
  HostPkg = {}
  InstallStaging = {lib}
  InstallTarget = {app, lib}
  Deps <- MCDeps
  NPatch <- MCNPatch
  Verbs = {"install"}
  CrashIn = {}
  HandRemoved = {"configured"}
  MaxRev = 2
  MaxStops = 0
INVARIANTS BuiltAsConfigured

SPECIFICATION Spec
CONSTANTS
  app = app
  lib = lib
  tool = tool
  Pkg = {app, lib}
  HostPkg = {}
  InstallStaging = {lib}
  InstallTarget = {app, lib}
  Deps <- MCDeps
  NPatch <- MCNPatch
  Verbs = {"install", "uninstall"}
  CrashIn = {"uninstalled"}
  HandRemoved = {}
  MaxRev = 1
  MaxStops = 1
INVARIANTS DepsInstalled

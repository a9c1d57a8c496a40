SPECIFICATION Spec
CONSTANTS
  app = app
  lib = lib
  tool = tool
  Pkg = {app, lib}
  HostPkg = {}
  InstallStaging = {lib}
  InstallTarget = {app, lib}
  Deps <- MCDeps
  NPatch <- MCNPatch
  Verbs = {"install", "clean", "dirclean"}
  CrashIn = {"extracted", "patched", "built", "target_installed", "cleaned", "dircleaned"}
  HandRemoved = {"extracted", "configured", "staging_installed"}
  MaxRev = 1
  MaxStops = 1
PROPERTY KeepsContract

SPECIFICATION Spec
CONSTANTS
  app = app
  lib = lib
  tool = tool
  Pkg = {app, lib}
  HostPkg = {}
  InstallStaging = {lib}
  InstallTarget = {app, lib}
  Deps <- MCDeps
  NPatch <- MCNPatch
  Verbs = {"source", "extract", "patch", "configure", "build", "install", "uninstall", "clean", "dirclean"}
  CrashIn = {"downloaded", "extracted", "patched", "configured", "built", "staging_installed", "target_installed"}
  HandRemoved = {}
  MaxRev = 2
  MaxStops = 1
INVARIANTS TypeOK DepsInstalled PatchedOnce StampsTell BuiltAsConfigured

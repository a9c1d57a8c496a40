SPECIFICATION FairSpec
CONSTANTS
  app = app
  lib = lib
  tool = tool
  Pkg = {app, lib, tool}
  HostPkg = {tool}
  InstallStaging = {lib}
  InstallTarget = {app, lib}
  Deps <- MCDeps
  NPatch <- MCNPatch
  Verbs = {"install", "uninstall"}
  CrashIn = {"downloaded", "extracted", "configured", "built", "staging_installed", "target_installed", "host_installed"}
  HandRemoved = {}
  MaxRev = 1
  MaxStops = 2
PROPERTY Converges

---------------------------- MODULE MCPkgBuild ----------------------------
(* Constants of PkgBuild for TLC: an application that uses a library, both *)
(* of which need a host tool; only the library is installed in staging.   *)
EXTENDS PkgBuild

CONSTANTS app, lib, tool

MCDeps == [p \in Pkg |-> CASE p = app -> Pkg \ {app}
                           [] p = lib -> HostPkg
                           [] OTHER   -> {}]
MCNPatch == [p \in Pkg |-> CASE p = app -> 2 [] p = lib -> 0 [] OTHER -> 1]
=============================================================================

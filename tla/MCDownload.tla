----------------------------- MODULE MCDownload -----------------------------
(* Constants of Download for TLC: a package of each method, named after it. *)
EXTENDS Download

MCMethod == [p \in Pkg |-> p]
MCFile == [p \in Pkg |-> p]
=============================================================================

----------------------------- MODULE MCPkgCache -----------------------------
(* PkgCache for two or three interchangeable processes. *)
EXTENDS PkgCache, TLC

ProcSymmetry == Permutations(Procs)
=============================================================================

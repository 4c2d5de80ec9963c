------------------------------ MODULE MCSidecar ------------------------------
(***************************************************************************)
(* Model-checking instance of the sidecar: rows and threads are            *)
(* interchangeable.                                                        *)
(***************************************************************************)
EXTENDS Sidecar, TLC

Symmetry == Permutations(Row) \cup Permutations(Thread)
=============================================================================

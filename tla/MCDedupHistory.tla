--------------------------- MODULE MCDedupHistory ---------------------------
(***************************************************************************)
(* Model-checking instance of the request pipeline with its history:       *)
(* goroutines and bodies are interchangeable in its safety properties.     *)
(***************************************************************************)
EXTENDS DedupHistory, TLC

Symmetry == Permutations(Handler) \cup Permutations(Body)
=============================================================================

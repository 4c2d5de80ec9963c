--------------------------- MODULE MCRateLimiter ---------------------------
(***************************************************************************)
(* Model-checking instance of RateLimiter: entries are interchangeable,    *)
(* and so are header values.                                               *)
(***************************************************************************)
EXTENDS RateLimiter, TLC

Symmetry == Permutations(Entry) \cup Permutations(Header)
=============================================================================

---------------------------- MODULE Subsequences ----------------------------
(***************************************************************************)
(* What is left of a sequence at some of its places, in its order, by the  *)
(* number of places up to each.  It is what SelectSeq gives for the places *)
(* that pass a test; unlike that recursion it can be reasoned about with   *)
(* facts about finite sets.  And what it is for a sequence to repeat       *)
(* nothing but some elements.                                              *)
(***************************************************************************)
EXTENDS Integers, Sequences, FiniteSets

Upto(places, i) == {j \in places : j <= i}

Nth(places, n) == CHOOSE i \in places : Cardinality(Upto(places, i)) = n

Subsequence(s, places) == [n \in 1..Cardinality(places) |-> s[Nth(places, n)]]

RepeatsOnly(s, E) == \A i, j \in DOMAIN s : s[i] = s[j] /\ i # j => s[i] \in E
=============================================================================

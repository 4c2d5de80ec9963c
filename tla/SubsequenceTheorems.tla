------------------------- MODULE SubsequenceTheorems -------------------------
(***************************************************************************)
(* Facts about subsequences: which elements they have and how often.       *)
(***************************************************************************)
EXTENDS Subsequences, FiniteSetTheorems, TLAPS

LEMMA PlacesFinite ==
    ASSUME NEW m \in Nat, NEW places, places \subseteq 1..m
    PROVE  /\ IsFiniteSet(places) /\ Cardinality(places) \in Nat
           /\ \A i \in places : i \in Int
<1>1. IsFiniteSet(1..m)
  BY FS_Interval
<1>2. IsFiniteSet(places)
  BY <1>1, FS_Subset
<1>3. Cardinality(places) \in Nat
  BY <1>2, FS_CardinalityType
<1>4. \A i \in places : i \in Int
  OBVIOUS
<1> QED
  BY <1>2, <1>3, <1>4

LEMMA UptoFinite ==
    ASSUME NEW m \in Nat, NEW places, places \subseteq 1..m, NEW i \in places
    PROVE  /\ IsFiniteSet(Upto(places, i))
           /\ Cardinality(Upto(places, i)) \in 1..Cardinality(places)
           /\ Cardinality(Upto(places, i)) \in Nat
<1>1. IsFiniteSet(places) /\ Cardinality(places) \in Nat
  BY PlacesFinite
<1>2. Upto(places, i) \subseteq places /\ i \in Upto(places, i)
  BY PlacesFinite DEF Upto
<1>3. /\ IsFiniteSet(Upto(places, i))
      /\ Cardinality(Upto(places, i)) <= Cardinality(places)
      /\ Cardinality(Upto(places, i)) \in Nat
  BY <1>1, <1>2, FS_Subset, FS_CardinalityType
<1>4. Cardinality(Upto(places, i)) # 0
  BY <1>2, <1>3, FS_EmptySet
<1> QED
  BY <1>1, <1>3, <1>4

\* A later place has more places up to it.
LEMMA UptoGrows ==
    ASSUME NEW m \in Nat, NEW places, places \subseteq 1..m, NEW i \in places, NEW j \in places,
           i < j
    PROVE  Cardinality(Upto(places, i)) < Cardinality(Upto(places, j))
<1>1. /\ IsFiniteSet(Upto(places, j))
      /\ Cardinality(Upto(places, i)) \in Nat
      /\ Cardinality(Upto(places, j)) \in Nat
  BY UptoFinite
<1>2. Upto(places, i) \subseteq Upto(places, j)
  <2>1. \A k \in places : k \in Int
    BY PlacesFinite
  <2>2. \A k \in places : k <= i => k <= j
    BY <2>1
  <2> QED
    BY <2>2 DEF Upto
<1>3. j \in Upto(places, j) /\ j \notin Upto(places, i)
  BY PlacesFinite DEF Upto
<1>4. /\ Cardinality(Upto(places, i)) <= Cardinality(Upto(places, j))
      /\ Cardinality(Upto(places, i)) # Cardinality(Upto(places, j))
  BY <1>1, <1>2, <1>3, FS_Subset
<1> QED
  BY <1>1, <1>4

LEMMA SameUpto ==
    ASSUME NEW m \in Nat, NEW places, places \subseteq 1..m, NEW i \in places, NEW j \in places,
           Cardinality(Upto(places, i)) = Cardinality(Upto(places, j))
    PROVE  i = j
<1>1. Cardinality(Upto(places, i)) \in Nat
  BY UptoFinite
<1>2. ~(i < j)
  <2>1. SUFFICES ASSUME i < j PROVE FALSE
    OBVIOUS
  <2>2. Cardinality(Upto(places, i)) < Cardinality(Upto(places, j))
    BY <2>1, UptoGrows
  <2> QED
    BY <1>1, <2>2
<1>3. ~(j < i)
  <2>1. SUFFICES ASSUME j < i PROVE FALSE
    OBVIOUS
  <2>2. Cardinality(Upto(places, j)) < Cardinality(Upto(places, i))
    BY <2>1, UptoGrows
  <2> QED
    BY <1>1, <2>2
<1>4. i \in Int /\ j \in Int
  BY PlacesFinite
<1> QED
  BY <1>2, <1>3, <1>4

\* Every number up to that of the places belongs to one place.
THEOREM NthPlace ==
    ASSUME NEW m \in Nat, NEW places, places \subseteq 1..m,
           NEW n \in 1..Cardinality(places)
    PROVE  /\ Nth(places, n) \in places
           /\ Cardinality(Upto(places, Nth(places, n))) = n
<1> DEFINE count == [i \in places |-> Cardinality(Upto(places, i))]
           total == 1..Cardinality(places)
<1>1. IsFiniteSet(places) /\ Cardinality(places) \in Nat
  BY PlacesFinite
<1>2. count \in [places -> total]
  BY UptoFinite
<1>3. ASSUME NEW i \in places, NEW j \in places, count[i] = count[j]
      PROVE  i = j
  <2> QED
    BY <1>3, SameUpto
<1>4. count \in Injection(places, total)
  BY <1>2, <1>3 DEF Injection, IsInjective
<1>5. IsFiniteSet(total) /\ Cardinality(total) = Cardinality(places)
  BY <1>1, FS_Interval
<1>6. count \in Surjection(places, total)
  BY <1>4, <1>5, FS_Injection
<1>7. \E i \in places : Cardinality(Upto(places, i)) = n
  BY <1>6 DEF Surjection
<1> QED
  BY <1>7 DEF Nth

LEMMA NthOfUpto ==
    ASSUME NEW m \in Nat, NEW places, places \subseteq 1..m, NEW i \in places
    PROVE  Nth(places, Cardinality(Upto(places, i))) = i
<1> DEFINE n == Cardinality(Upto(places, i))
           j == Nth(places, n)
<1>1. n \in 1..Cardinality(places)
  BY UptoFinite
<1>2. j \in places /\ Cardinality(Upto(places, j)) = n
  BY <1>1, NthPlace
<1> HIDE DEF j
<1>3. j = i
  BY <1>2, SameUpto
<1> QED
  BY <1>3 DEF j

\* The elements of a subsequence are those of the sequence at the places.
THEOREM SubsequenceElements ==
    ASSUME NEW T, NEW s \in Seq(T), NEW places \in SUBSET DOMAIN s
    PROVE  /\ Subsequence(s, places) \in Seq(T)
           /\ Len(Subsequence(s, places)) = Cardinality(places)
           /\ DOMAIN Subsequence(s, places) = 1..Cardinality(places)
           /\ \A n \in 1..Cardinality(places) :
                 /\ Nth(places, n) \in places
                 /\ Subsequence(s, places)[n] = s[Nth(places, n)]
           /\ \A i \in places : \E n \in 1..Cardinality(places) :
                 Subsequence(s, places)[n] = s[i]
<1>1. Len(s) \in Nat /\ places \in SUBSET (1..Len(s)) /\ DOMAIN s = 1..Len(s)
  OBVIOUS
<1>2. Cardinality(places) \in Nat
  BY <1>1, PlacesFinite
<1>3. \A n \in 1..Cardinality(places) :
         Nth(places, n) \in places /\ Subsequence(s, places)[n] = s[Nth(places, n)]
  BY <1>1, NthPlace DEF Subsequence
<1>4. \A i \in places : \E n \in 1..Cardinality(places) : Subsequence(s, places)[n] = s[i]
  <2> SUFFICES ASSUME NEW i \in places
               PROVE  \E n \in 1..Cardinality(places) : Subsequence(s, places)[n] = s[i]
    OBVIOUS
  <2>1. Cardinality(Upto(places, i)) \in 1..Cardinality(places)
    BY <1>1, UptoFinite
  <2>2. Nth(places, Cardinality(Upto(places, i))) = i
    BY <1>1, NthOfUpto
  <2> QED
    BY <1>3, <2>1, <2>2
<1>5. DOMAIN Subsequence(s, places) = 1..Cardinality(places)
  BY DEF Subsequence
<1>6. Subsequence(s, places) \in [1..Cardinality(places) -> T]
  BY <1>1, <1>3 DEF Subsequence
<1>7. Subsequence(s, places) \in Seq(T) /\ Len(Subsequence(s, places)) = Cardinality(places)
  BY <1>2, <1>6
<1> QED
  BY <1>3, <1>4, <1>5, <1>7

\* A subsequence repeats nothing that the sequence does not repeat.
THEOREM SubsequenceRepeats ==
    ASSUME NEW T, NEW s \in Seq(T), NEW places \in SUBSET DOMAIN s, NEW E,
           RepeatsOnly(s, E)
    PROVE  RepeatsOnly(Subsequence(s, places), E)
<1>1. Len(s) \in Nat /\ places \in SUBSET (1..Len(s)) /\ DOMAIN s = 1..Len(s)
  OBVIOUS
<1>2. DOMAIN Subsequence(s, places) = 1..Cardinality(places)
  BY DEF Subsequence
<1> SUFFICES ASSUME NEW k \in 1..Cardinality(places), NEW n \in 1..Cardinality(places),
                    Subsequence(s, places)[k] = Subsequence(s, places)[n], k # n
             PROVE  Subsequence(s, places)[k] \in E
  BY <1>2 DEF RepeatsOnly
<1>3. /\ Nth(places, k) \in places /\ Nth(places, n) \in places
      /\ Subsequence(s, places)[k] = s[Nth(places, k)]
      /\ s[Nth(places, k)] = s[Nth(places, n)]
  BY SubsequenceElements
<1>4. Cardinality(Upto(places, Nth(places, k))) = k
      /\ Cardinality(Upto(places, Nth(places, n))) = n
  BY <1>1, NthPlace
<1>5. Nth(places, k) # Nth(places, n)
  BY <1>4
<1> QED
  BY <1>3, <1>5 DEF RepeatsOnly

\* A subsequence keeps the order of the sequence.
THEOREM SubsequenceOrder ==
    ASSUME NEW m \in Nat, NEW places, places \subseteq 1..m,
           NEW k \in 1..Cardinality(places), NEW n \in 1..Cardinality(places), k < n
    PROVE  Nth(places, k) < Nth(places, n)
<1>1. /\ Nth(places, k) \in places /\ Cardinality(Upto(places, Nth(places, k))) = k
      /\ Nth(places, n) \in places /\ Cardinality(Upto(places, Nth(places, n))) = n
  BY NthPlace
<1>2. Nth(places, k) # Nth(places, n)
  BY <1>1, PlacesFinite
<1>3. ~(Nth(places, n) < Nth(places, k))
  <2> DEFINE x == Nth(places, n)
             y == Nth(places, k)
  <2>1. SUFFICES ASSUME x < y PROVE FALSE
    OBVIOUS
  <2>2. /\ x \in places /\ Cardinality(Upto(places, x)) = n
        /\ y \in places /\ Cardinality(Upto(places, y)) = k
    BY <1>1
  <2> HIDE DEF x, y
  <2>3. Cardinality(Upto(places, x)) < Cardinality(Upto(places, y))
    BY <2>1, <2>2, UptoGrows
  <2>4. k \in Int /\ n \in Int
    BY PlacesFinite
  <2> QED
    BY <2>2, <2>3, <2>4
<1>4. Nth(places, k) \in Int /\ Nth(places, n) \in Int
  BY <1>1, PlacesFinite
<1> QED
  BY <1>2, <1>3, <1>4
=============================================================================

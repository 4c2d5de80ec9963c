------------------------ MODULE TransactionLogProofs ------------------------
(***************************************************************************)
(* Theorems about TransactionLog, for any rows, workers and capacities:    *)
(* its types, that a transaction is logged once unless a push of it went   *)
(* unanswered, that a purge keeps the order of what it spares, and which   *)
(* transactions a reset removes for good.                                  *)
(***************************************************************************)
EXTENDS TransactionLog, SubsequenceTheorems, TLAPS

-----------------------------------------------------------------------------
(***************************************************************************)
(* The elements of a sequence and what the operations of the log do to     *)
(* them.                                                                   *)
(***************************************************************************)

LEMMA Elements ==
    ASSUME NEW T, NEW s \in Seq(T)
    PROVE  /\ ToSet(s) \subseteq T
           /\ \A i \in 1..Len(s) : s[i] \in ToSet(s)
           /\ \A x \in ToSet(s) : \E i \in 1..Len(s) : s[i] = x
           /\ DOMAIN s = 1..Len(s) /\ Len(s) \in Nat
           /\ s # <<>> => Len(s) # 0
BY DEF ToSet

LEMMA EmptyElements ==
    ToSet(<<>>) = {} /\ IsInjective(<<>>) /\ RepeatsOnly(<<>>, {})
BY DEF ToSet, IsInjective, RepeatsOnly

LEMMA MoreRepeats ==
    ASSUME NEW s, NEW E, NEW F, E \subseteq F, RepeatsOnly(s, E)
    PROVE  RepeatsOnly(s, F)
BY DEF RepeatsOnly

\* A row in front.
LEMMA Prepend ==
    ASSUME NEW T, NEW s \in Seq(T), NEW x \in T
    PROVE  /\ <<x>> \o s \in Seq(T)
           /\ Len(<<x>> \o s) = Len(s) + 1
           /\ (<<x>> \o s)[1] = x
           /\ \A i \in 1..Len(s) : (<<x>> \o s)[i + 1] = s[i]
           /\ \A j \in 1..(Len(s) + 1) :
                 j = 1 \/ (j - 1 \in 1..Len(s) /\ (<<x>> \o s)[j] = s[j - 1])
           /\ ToSet(<<x>> \o s) = {x} \cup ToSet(s)
<1> DEFINE l == <<x>> \o s
<1>1. /\ l \in Seq(T) /\ Len(l) = Len(s) + 1 /\ l[1] = x
      /\ \A i \in 1..Len(s) : l[i + 1] = s[i]
      /\ Len(s) \in Nat /\ DOMAIN s = 1..Len(s) /\ DOMAIN l = 1..Len(l)
  OBVIOUS
<1> HIDE DEF l
<1>2. \A j \in 1..(Len(s) + 1) : j = 1 \/ (j - 1 \in 1..Len(s) /\ l[j] = s[j - 1])
  <2> SUFFICES ASSUME NEW j \in 1..(Len(s) + 1), j # 1
               PROVE  j - 1 \in 1..Len(s) /\ l[j] = s[j - 1]
    OBVIOUS
  <2>1. j - 1 \in 1..Len(s) /\ (j - 1) + 1 = j
    BY <1>1
  <2>2. l[(j - 1) + 1] = s[j - 1]
    <3>1. \A i \in 1..Len(s) : l[i + 1] = s[i]
      BY <1>1
    <3> QED
      BY <2>1, <3>1
  <2> QED
    BY <2>1, <2>2
<1>3. ToSet(l) = {x} \cup ToSet(s)
  <2>1. ToSet(l) \subseteq {x} \cup ToSet(s)
    <3> SUFFICES ASSUME NEW j \in DOMAIN l PROVE l[j] = x \/ \E i \in DOMAIN s : s[i] = l[j]
      BY DEF ToSet
    <3> QED
      BY <1>1, <1>2
  <2>2. 1 \in DOMAIN l /\ \A i \in 1..Len(s) : i + 1 \in DOMAIN l
    BY <1>1
  <2>3. {x} \cup ToSet(s) \subseteq ToSet(l)
    BY <1>1, <2>2 DEF ToSet
  <2> QED
    BY <2>1, <2>3
<1> QED
  BY <1>1, <1>2, <1>3 DEF l

\* It repeats nothing if it is new or may be repeated.
LEMMA PrependRepeats ==
    ASSUME NEW T, NEW s \in Seq(T), NEW x \in T, NEW E,
           RepeatsOnly(s, E), x \notin ToSet(s) \/ x \in E
    PROVE  RepeatsOnly(<<x>> \o s, E)
<1> DEFINE l == <<x>> \o s
<1>1. /\ l \in Seq(T) /\ Len(l) = Len(s) + 1 /\ l[1] = x
      /\ \A j \in 1..(Len(s) + 1) : j = 1 \/ (j - 1 \in 1..Len(s) /\ l[j] = s[j - 1])
      /\ Len(s) \in Nat /\ DOMAIN s = 1..Len(s) /\ DOMAIN l = 1..Len(l)
  BY Prepend
<1> HIDE DEF l
<1> SUFFICES ASSUME NEW i \in 1..(Len(s) + 1), NEW j \in 1..(Len(s) + 1), l[i] = l[j], i # j
             PROVE  l[i] \in E
  BY <1>1 DEF RepeatsOnly, l
<1>2. i \in Int /\ j \in Int
  BY <1>1
<1>3. CASE x \in E /\ l[i] = x
  BY <1>3
<1>4. CASE x \notin E /\ l[i] = x
  <2>1. \A k \in 1..Len(s) : s[k] # x
    BY <1>1, <1>4 DEF ToSet
  <2>2. i = 1 /\ j = 1
    BY <1>1, <1>4, <2>1
  <2> QED
    BY <2>2
<1>5. CASE l[i] # x
  <2>1. /\ i - 1 \in 1..Len(s) /\ j - 1 \in 1..Len(s) /\ i - 1 # j - 1
        /\ l[i] = s[i - 1] /\ s[i - 1] = s[j - 1]
    BY <1>1, <1>2, <1>5
  <2> QED
    BY <1>1, <2>1 DEF RepeatsOnly
<1> QED
  BY <1>3, <1>4, <1>5

\* A task at the end.
LEMMA AppendElements ==
    ASSUME NEW T, NEW s \in Seq(T), NEW x \in T
    PROVE  /\ Append(s, x) \in Seq(T)
           /\ Len(Append(s, x)) = Len(s) + 1
           /\ ToSet(Append(s, x)) = ToSet(s) \cup {x}
           /\ IsInjective(s) /\ x \notin ToSet(s) => IsInjective(Append(s, x))
<1> DEFINE l == Append(s, x)
<1>1. /\ l \in Seq(T) /\ Len(l) = Len(s) + 1 /\ l[Len(s) + 1] = x
      /\ \A i \in 1..Len(s) : l[i] = s[i]
      /\ Len(s) \in Nat /\ DOMAIN s = 1..Len(s) /\ DOMAIN l = 1..Len(l)
  OBVIOUS
<1> HIDE DEF l
<1>2. \A j \in 1..Len(l) : j = Len(s) + 1 \/ j \in 1..Len(s)
  BY <1>1
<1>3. Len(s) + 1 \in 1..Len(l) /\ 1..Len(s) \subseteq 1..Len(l)
  BY <1>1
<1>4. ToSet(l) = ToSet(s) \cup {x}
  BY <1>1, <1>2, <1>3 DEF ToSet
<1>5. ASSUME IsInjective(s), x \notin ToSet(s) PROVE IsInjective(l)
  <2>1. \A k \in 1..Len(s) : s[k] # x
    BY <1>1, <1>5 DEF ToSet
  <2> QED
    BY <1>1, <1>2, <1>5, <2>1 DEF IsInjective
<1> QED
  BY <1>1, <1>4, <1>5 DEF l

\* The task taken from the front.
LEMMA TakeElements ==
    ASSUME NEW T, NEW s \in Seq(T), s # <<>>
    PROVE  /\ Tail(s) \in Seq(T) /\ Len(Tail(s)) = Len(s) - 1
           /\ Head(s) \in ToSet(s)
           /\ ToSet(Tail(s)) \subseteq ToSet(s)
           /\ IsInjective(s) => IsInjective(Tail(s)) /\ Head(s) \notin ToSet(Tail(s))
<1> DEFINE l == Tail(s)
<1>1. /\ l \in Seq(T) /\ Len(l) = Len(s) - 1 /\ Head(s) = s[1]
      /\ \A i \in 1..Len(l) : l[i] = s[i + 1]
      /\ Len(s) \in Nat /\ Len(s) # 0 /\ DOMAIN s = 1..Len(s) /\ DOMAIN l = 1..Len(l)
  OBVIOUS
<1> HIDE DEF l
<1>2. 1 \in DOMAIN s /\ \A i \in 1..Len(l) : i + 1 \in DOMAIN s /\ i + 1 # 1 /\ i \in Int
  BY <1>1
<1>3. Head(s) \in ToSet(s) /\ ToSet(l) \subseteq ToSet(s)
  BY <1>1, <1>2 DEF ToSet
<1>4. ASSUME IsInjective(s) PROVE IsInjective(l) /\ Head(s) \notin ToSet(l)
  <2>1. ASSUME NEW i \in 1..Len(l), NEW j \in 1..Len(l), l[i] = l[j] PROVE i = j
    <3>1. i + 1 = j + 1
      BY <1>1, <1>2, <1>4, <2>1 DEF IsInjective
    <3> QED
      BY <1>2, <3>1
  <2>2. \A i \in 1..Len(l) : l[i] # s[1]
    BY <1>1, <1>2, <1>4 DEF IsInjective
  <2> QED
    BY <1>1, <2>1, <2>2 DEF IsInjective, ToSet
<1> QED
  BY <1>1, <1>3, <1>4 DEF l

\* The beginning that a trim or the pruner leaves.
LEMMA FirstElements ==
    ASSUME NEW T, NEW s \in Seq(T), NEW n \in Nat
    PROVE  /\ First(n, s) \in Seq(T)
           /\ Len(First(n, s)) <= Len(s)
           /\ \A i \in 1..Len(First(n, s)) : i \in 1..Len(s) /\ First(n, s)[i] = s[i]
           /\ ToSet(First(n, s)) \subseteq ToSet(s)
<1> DEFINE l == First(n, s)
           m == IF n < Len(s) THEN n ELSE Len(s)
<1>1. m \in Nat /\ m <= Len(s) /\ Len(s) \in Nat /\ DOMAIN s = 1..Len(s)
  OBVIOUS
<1> HIDE DEF m
<1>2. l = SubSeq(s, 1, m)
  BY DEF First, m
<1>3. /\ l \in Seq(T) /\ Len(l) = m
      /\ \A i \in 1..m : i \in 1..Len(s) /\ l[i] = s[i]
  BY <1>1, <1>2
<1> HIDE DEF l
<1>4. DOMAIN l = 1..m
  BY <1>3
<1>5. ToSet(l) \subseteq ToSet(s)
  BY <1>1, <1>3, <1>4 DEF ToSet
<1> QED
  BY <1>1, <1>3, <1>5 DEF l

LEMMA FirstRepeats ==
    ASSUME NEW T, NEW s \in Seq(T), NEW n \in Nat, NEW E, RepeatsOnly(s, E)
    PROVE  RepeatsOnly(First(n, s), E)
<1> DEFINE l == First(n, s)
<1>1. /\ DOMAIN l = 1..Len(l) /\ DOMAIN s = 1..Len(s)
      /\ \A i \in 1..Len(l) : i \in 1..Len(s) /\ l[i] = s[i]
  BY FirstElements
<1> HIDE DEF l
<1>2. RepeatsOnly(l, E)
  BY <1>1 DEF RepeatsOnly
<1> QED
  BY <1>2 DEF l

\* The entries before the one that is pushed back.
LEMMA FrontElements ==
    ASSUME NEW T, NEW s \in Seq(T), s # <<>>
    PROVE  /\ Len(s) \in Nat \ {0}
           /\ Front(s) \in Seq(T) /\ Len(Front(s)) = Len(s) - 1
           /\ \A i \in 1..(Len(s) - 1) : i \in 1..Len(s) /\ Front(s)[i] = s[i]
           /\ Last(s) = s[Len(s)] /\ Last(s) \in T
           /\ ToSet(Front(s)) \subseteq ToSet(s) /\ Last(s) \in ToSet(s)
<1>1. Len(s) \in Nat \ {0} /\ DOMAIN s = 1..Len(s)
  OBVIOUS
<1>2. Front(s) = SubSeq(s, 1, Len(s) - 1) /\ Last(s) = s[Len(s)]
  BY DEF Front, Last
<1>3. /\ Front(s) \in Seq(T) /\ Len(Front(s)) = Len(s) - 1
      /\ \A i \in 1..(Len(s) - 1) : i \in 1..Len(s) /\ Front(s)[i] = s[i]
  BY <1>1, <1>2
<1>4. DOMAIN Front(s) = 1..(Len(s) - 1)
  BY <1>3
<1>5. Len(s) \in DOMAIN s
  BY <1>1
<1>6. ToSet(Front(s)) \subseteq ToSet(s)
  <2> SUFFICES ASSUME NEW i \in DOMAIN Front(s) PROVE \E j \in DOMAIN s : s[j] = Front(s)[i]
    BY DEF ToSet
  <2> QED
    BY <1>1, <1>3, <1>4
<1>7. Last(s) \in T /\ Last(s) \in ToSet(s)
  <2>1. s[Len(s)] \in T
    BY <1>5
  <2> QED
    BY <1>2, <1>5, <2>1 DEF ToSet
<1> QED
  BY <1>1, <1>2, <1>3, <1>6, <1>7

\* What a purge spares.
LEMMA SparedElements ==
    ASSUME NEW s \in Seq(Row), NEW p
    PROVE  Spared(p, s) \in Seq(Row) /\ ToSet(Spared(p, s)) \subseteq ToSet(s)
<1> DEFINE places == {i \in DOMAIN s : s[i] \notin Purged(p)}
<1>1. places \in SUBSET DOMAIN s /\ Spared(p, s) = Subsequence(s, places)
  BY DEF Spared
<1> HIDE DEF places
<1>2. /\ Spared(p, s) \in Seq(Row)
      /\ DOMAIN Spared(p, s) = 1..Cardinality(places)
      /\ \A n \in 1..Cardinality(places) :
            Nth(places, n) \in places /\ Spared(p, s)[n] = s[Nth(places, n)]
  BY <1>1, SubsequenceElements
<1>3. ToSet(Spared(p, s)) \subseteq ToSet(s)
  BY <1>1, <1>2 DEF ToSet
<1> QED
  BY <1>2, <1>3

LEMMA SparedRepeats ==
    ASSUME NEW s \in Seq(Row), NEW p, NEW E, RepeatsOnly(s, E)
    PROVE  RepeatsOnly(Spared(p, s), E)
<1>1. {i \in DOMAIN s : s[i] \notin Purged(p)} \in SUBSET DOMAIN s
  OBVIOUS
<1> QED
  BY <1>1, SubsequenceRepeats DEF Spared

-----------------------------------------------------------------------------
(***************************************************************************)
(* The inductive invariant.  A transaction is in the queue or with one     *)
(* worker at most, *)
(***************************************************************************)

Tasks ==
    /\ IsInjective(queue)
    /\ ToSet(queue) \subseteq logged
    /\ \A w \in Worker :
          /\ step[w] = "idle" => hand[w] = Nil
          /\ step[w] # "idle" => hand[w] \in logged /\ hand[w] \notin ToSet(queue)
    /\ \A v, w \in Worker : step[v] # "idle" /\ step[w] # "idle" /\ hand[v] = hand[w] => v = w

Stored ==
    ToSet(list) \cup ToSet(table) \cup Carried \cup UNION {ToSet(survivors[p]) : p \in Purge}

Storing(w) == step[w] \in {"push", "insert"}

\* and in no store before it is pushed or inserted, but for a push without an answer;
Unstored ==
    /\ Stored \subseteq logged
    /\ ToSet(queue) \cap Stored = {}
    /\ \A w \in Worker : Storing(w) /\ hand[w] \in Stored => hand[w] \in unanswered

\* nor in both stores.
Apart == (ToSet(list) \cup Carried) \cap ToSet(table) \subseteq unanswered

\* What a reset removes, or is about to, nobody can write again.
Writable == InHand \cup ToSet(queue) \cup Carried

Removed ==
    /\ old \cup forgotten \subseteq logged
    /\ (old \cup forgotten) \cap Writable = {}
    /\ OldRowsStayAway
    /\ reset = "idle" => old = {}
    /\ reset = "list" => old \cap ToSet(table) = {}

\* The first n entries of read are yet to be pushed back, and of the others each that
\* is in entries, but for those in E, has all newer ones before it.
InOrder(read, n, entries, E) ==
    \A k, l \in DOMAIN read :
        n < k /\ k < l /\ read[l] \in ToSet(entries) \ E =>
            \E i, j \in DOMAIN entries : i < j /\ entries[i] = read[k] /\ entries[j] = read[l]

Beginning(s, t) == Len(s) <= Len(t) /\ \A i \in 1..Len(s) : s[i] = t[i]

\* Of what was read, rest is to be pushed back, which entries lack.
Held(read, rest, entries, E) ==
    /\ RepeatsOnly(read, E)
    /\ Beginning(rest, read)
    /\ ToSet(rest) \cap ToSet(entries) \subseteq E
    /\ InOrder(read, Len(rest), entries, E)

\* A purge rewrites the list alone, and holds back what the list lacks.
Rewritten(p) ==
    /\ at[p] = "delete" => kept[p] = survivors[p] /\ RepeatsOnly(survivors[p], unanswered)
    /\ at[p] = "push" => Held(survivors[p], kept[p], list, unanswered)

Purges ==
    /\ \A p \in Purge : ~Rewriting(p) => kept[p] = <<>>
    /\ ~marred =>
          /\ RepeatsOnly(list, unanswered)
          /\ \A p, q \in Purge : Rewriting(p) /\ Rewriting(q) => p = q
          /\ \A p \in Purge : Rewriting(p) => Rewritten(p)

IInv == TypeOK /\ Tasks /\ Unstored /\ Apart /\ Removed /\ Purges

LEMMA InitInv == Init => IInv
<1> SUFFICES ASSUME Init PROVE IInv
  OBVIOUS
<1>0. QueueSize \in Nat /\ QueueSize >= 0 /\ <<>> \in Seq(Row) /\ Len(<<>>) = 0
  BY LogAssumption
<1>1. RepeatsOnly(<<>>, unanswered)
  BY EmptyElements, MoreRepeats
<1> USE DEF Init
<1>2. TypeOK
  BY <1>0, LogAssumption DEF TypeOK
<1> USE EmptyElements
<1>3. Tasks
  BY DEF Tasks
<1>4. Carried = {} /\ Stored = {}
  BY DEF Carried, Stored
<1>5. Unstored /\ Apart
  BY <1>4 DEF Unstored, Apart
<1>6. Removed
  BY <1>4 DEF Removed, OldRowsStayAway
<1>7. Purges
  BY <1>1 DEF Purges, Rewriting
<1> QED
  BY <1>2, <1>3, <1>5, <1>6, <1>7 DEF IInv

-----------------------------------------------------------------------------
(* What keeps each part of the invariant. *)

\* A step stores no new row but r, and whoever has it to store was not answered.
LEMMA KeepUnstored ==
    ASSUME Unstored, logged \subseteq logged', unanswered \subseteq unanswered',
           ToSet(queue') \subseteq ToSet(queue) \cup (logged' \ logged),
           NEW r, Stored' \subseteq Stored \cup {r}, r \in logged, r \notin ToSet(queue),
           \A w \in Worker : Storing(w)' =>
              \/ Storing(w) /\ hand'[w] = hand[w] /\ (hand[w] # r \/ r \in unanswered')
              \/ hand'[w] \in ToSet(queue)
    PROVE  Unstored'
<1>1. Stored' \subseteq logged'
  BY DEF Unstored
<1>2. ToSet(queue') \cap Stored' = {}
  BY DEF Unstored
<1>3. ASSUME NEW w \in Worker, Storing(w)', hand'[w] \in Stored' PROVE hand'[w] \in unanswered'
  BY <1>3 DEF Unstored
<1> QED
  BY <1>1, <1>2, <1>3 DEF Unstored

LEMMA KeepUnstoredSame ==
    ASSUME Unstored, logged \subseteq logged', unanswered \subseteq unanswered',
           ToSet(queue') \subseteq ToSet(queue) \cup (logged' \ logged),
           Stored' \subseteq Stored,
           \A w \in Worker : Storing(w)' =>
              \/ Storing(w) /\ hand'[w] = hand[w]
              \/ hand'[w] \in ToSet(queue)
    PROVE  Unstored'
<1>1. Stored' \subseteq logged'
  BY DEF Unstored
<1>2. ToSet(queue') \cap Stored' = {}
  BY DEF Unstored
<1>3. ASSUME NEW w \in Worker, Storing(w)', hand'[w] \in Stored' PROVE hand'[w] \in unanswered'
  BY <1>3 DEF Unstored
<1> QED
  BY <1>1, <1>2, <1>3 DEF Unstored

\* A step that no reset takes, which stores only what was stored there or could be
\* written, and gives only such rows to write on.
LEMMA KeepRemoved ==
    ASSUME Removed, logged \subseteq logged',
           UNCHANGED <<reset, forgotten>>, old' \subseteq old,
           Writable' \subseteq (Writable \cup ToSet(list) \cup (logged' \ logged)) \ old',
           ToSet(list') \cup ToSet(table') \subseteq ToSet(list) \cup ToSet(table) \cup Writable,
           reset = "list" => ToSet(table') \subseteq ToSet(table) \cup Writable
    PROVE  Removed'
<1>1. (old \cup forgotten)' \cap Writable' = {} /\ (old \cup forgotten)' \subseteq logged'
  BY DEF Removed, OldRowsStayAway
<1>2. OldRowsStayAway'
  BY DEF Removed, OldRowsStayAway
<1>3. reset' = "list" => old' \cap ToSet(table') = {}
  BY DEF Removed
<1> QED
  BY <1>1, <1>2, <1>3 DEF Removed

-----------------------------------------------------------------------------
(* The order of the entries. *)

\* There are no entries.
LEMMA HeldEmpty ==
    ASSUME NEW read, NEW rest, NEW E, RepeatsOnly(read, E), Beginning(rest, read)
    PROVE  Held(read, rest, <<>>, E)
BY EmptyElements DEF Held, InOrder

\* More rows go unanswered.
LEMMA HeldMore ==
    ASSUME NEW read, NEW rest, NEW entries, NEW E, NEW F, E \subseteq F,
           Held(read, rest, entries, E)
    PROVE  Held(read, rest, entries, F)
<1>1. RepeatsOnly(read, F)
  BY MoreRepeats DEF Held
<1>2. InOrder(read, Len(rest), entries, F)
  BY DEF Held, InOrder
<1> QED
  BY <1>1, <1>2 DEF Held

\* A new entry in front, or one that may be repeated.
LEMMA HeldPush ==
    ASSUME NEW read \in Seq(Row), NEW rest \in Seq(Row), NEW entries \in Seq(Row), NEW E,
           NEW x \in Row, Held(read, rest, entries, E),
           (x \notin ToSet(read) /\ x \notin ToSet(rest)) \/ x \in E
    PROVE  Held(read, rest, <<x>> \o entries, E)
<1> DEFINE l == <<x>> \o entries
<1>1. /\ l \in Seq(Row) /\ Len(l) = Len(entries) + 1
      /\ \A i \in 1..Len(entries) : l[i + 1] = entries[i]
      /\ ToSet(l) = {x} \cup ToSet(entries)
      /\ Len(entries) \in Nat /\ DOMAIN entries = 1..Len(entries) /\ DOMAIN l = 1..Len(l)
  BY Prepend
<1> HIDE DEF l
<1>2. ToSet(rest) \cap ToSet(l) \subseteq E
  BY <1>1 DEF Held
<1>3. InOrder(read, Len(rest), l, E)
  <2> SUFFICES ASSUME NEW j \in DOMAIN read, NEW k \in DOMAIN read,
                      Len(rest) < j, j < k, read[k] \in ToSet(l) \ E
               PROVE  \E a, b \in DOMAIN l : a < b /\ l[a] = read[j] /\ l[b] = read[k]
    BY DEF InOrder
  <2>1. read[k] \in ToSet(entries) \ E
    BY <1>1 DEF ToSet
  <2>2. PICK a \in DOMAIN entries, b \in DOMAIN entries :
           a < b /\ entries[a] = read[j] /\ entries[b] = read[k]
    BY <2>1 DEF Held, InOrder
  <2>3. /\ a + 1 \in DOMAIN l /\ b + 1 \in DOMAIN l /\ a + 1 < b + 1
        /\ l[a + 1] = read[j] /\ l[b + 1] = read[k]
    BY <1>1, <2>2
  <2> QED
    BY <2>3
<1> QED
  BY <1>2, <1>3 DEF Held, l

\* The last entries go.
LEMMA HeldFirst ==
    ASSUME NEW read \in Seq(Row), NEW rest \in Seq(Row), NEW entries \in Seq(Row), NEW E,
           NEW m \in Nat, Held(read, rest, entries, E), RepeatsOnly(entries, E)
    PROVE  Held(read, rest, First(m, entries), E)
<1> DEFINE l == First(m, entries)
<1>1. /\ l \in Seq(Row) /\ Len(l) <= Len(entries) /\ DOMAIN l = 1..Len(l)
      /\ DOMAIN entries = 1..Len(entries)
      /\ \A i \in 1..Len(l) : i \in 1..Len(entries) /\ l[i] = entries[i]
      /\ ToSet(l) \subseteq ToSet(entries)
  BY FirstElements
<1> HIDE DEF l
<1>2. ToSet(rest) \cap ToSet(l) \subseteq E
  BY <1>1 DEF Held
<1>3. InOrder(read, Len(rest), l, E)
  <2> SUFFICES ASSUME NEW j \in DOMAIN read, NEW k \in DOMAIN read,
                      Len(rest) < j, j < k, read[k] \in ToSet(l) \ E
               PROVE  \E a, b \in DOMAIN l : a < b /\ l[a] = read[j] /\ l[b] = read[k]
    BY DEF InOrder
  <2>1. PICK c \in DOMAIN l : l[c] = read[k]
    BY DEF ToSet
  <2>2. c \in DOMAIN entries /\ entries[c] = read[k] /\ read[k] \in ToSet(entries) \ E
    BY <1>1, <2>1 DEF ToSet
  <2>3. PICK a \in DOMAIN entries, b \in DOMAIN entries :
           a < b /\ entries[a] = read[j] /\ entries[b] = read[k]
    BY <2>2 DEF Held, InOrder
  <2>4. b = c
    BY <2>2, <2>3 DEF RepeatsOnly
  <2>5. a \in DOMAIN l
    BY <1>1, <2>3, <2>4
  <2> QED
    BY <1>1, <2>1, <2>3, <2>4, <2>5
<1> QED
  BY <1>2, <1>3 DEF Held, l

\* The oldest entry that is yet to be pushed back is.
LEMMA HeldBack ==
    ASSUME NEW read \in Seq(Row), NEW rest \in Seq(Row), rest # <<>>,
           NEW entries \in Seq(Row), NEW E, Held(read, rest, entries, E)
    PROVE  /\ Held(read, Front(rest), <<Last(rest)>> \o entries, E)
           /\ Last(rest) \notin ToSet(entries) \/ Last(rest) \in E
<1> DEFINE n == Len(rest)
           x == Last(rest)
           l == <<x>> \o entries
           f == Front(rest)
<1>1. /\ n \in Nat \ {0} /\ f \in Seq(Row) /\ Len(f) = n - 1
      /\ \A i \in 1..(n - 1) : i \in 1..n /\ f[i] = rest[i]
      /\ x = rest[n] /\ x \in Row
      /\ ToSet(f) \subseteq ToSet(rest) /\ x \in ToSet(rest)
  BY FrontElements
<1> HIDE DEF n, x, f
<1>2. /\ l \in Seq(Row) /\ Len(l) = Len(entries) + 1 /\ l[1] = x
      /\ \A i \in 1..Len(entries) : l[i + 1] = entries[i]
      /\ ToSet(l) = {x} \cup ToSet(entries)
      /\ Len(entries) \in Nat /\ DOMAIN entries = 1..Len(entries) /\ DOMAIN l = 1..Len(l)
  BY <1>1, Prepend
<1> HIDE DEF l
<1>3. /\ RepeatsOnly(read, E) /\ n <= Len(read) /\ \A i \in 1..n : rest[i] = read[i]
      /\ ToSet(rest) \cap ToSet(entries) \subseteq E
      /\ InOrder(read, n, entries, E)
      /\ DOMAIN read = 1..Len(read) /\ Len(read) \in Nat
  BY DEF Held, Beginning, n
<1>4. n \in DOMAIN read /\ x = read[n]
  BY <1>1, <1>3
<1>5. /\ n - 1 <= Len(read)
      /\ \A i \in 1..(n - 1) : i \in 1..Len(read) /\ i # n /\ i \in 1..n
  BY <1>1, <1>3
<1>6. \A i \in 1..(n - 1) : f[i] = read[i]
  BY <1>1, <1>3, <1>5
<1>7. Beginning(f, read)
  BY <1>1, <1>5, <1>6 DEF Beginning
<1>8. x \notin ToSet(f) \/ x \in E
  <2> SUFFICES ASSUME NEW i \in 1..(n - 1), f[i] = x PROVE x \in E
    BY <1>1 DEF ToSet
  <2>1. i \in DOMAIN read /\ i # n /\ read[i] = read[n]
    BY <1>3, <1>4, <1>5, <1>6
  <2> QED
    BY <1>3, <1>4, <2>1 DEF RepeatsOnly
<1>9. ToSet(f) \cap ToSet(l) \subseteq E
  BY <1>1, <1>2, <1>3, <1>8
<1>10. InOrder(read, n - 1, l, E)
  <2> SUFFICES ASSUME NEW j \in DOMAIN read, NEW k \in DOMAIN read,
                      n - 1 < j, j < k, read[k] \in ToSet(l) \ E
               PROVE  \E a, b \in DOMAIN l : a < b /\ l[a] = read[j] /\ l[b] = read[k]
    BY DEF InOrder
  <2>1. j \in Int /\ k \in Int /\ k # n
    BY <1>1, <1>3
  <2>2. read[k] # x
    BY <1>3, <1>4, <2>1 DEF RepeatsOnly
  <2>3. read[k] \in ToSet(entries) \ E
    BY <1>2, <2>2
  <2>4. CASE j = n
    <3>1. PICK b \in DOMAIN entries : entries[b] = read[k]
      BY <2>3 DEF ToSet
    <3>2. /\ 1 \in DOMAIN l /\ b + 1 \in DOMAIN l /\ 1 < b + 1
          /\ l[1] = read[j] /\ l[b + 1] = read[k]
      BY <1>2, <1>4, <2>4, <3>1
    <3> QED
      BY <3>2
  <2>5. CASE j # n
    <3>1. n < j
      BY <1>1, <2>1, <2>5
    <3>2. PICK a \in DOMAIN entries, b \in DOMAIN entries :
             a < b /\ entries[a] = read[j] /\ entries[b] = read[k]
      BY <1>3, <2>3, <3>1 DEF InOrder
    <3>3. /\ a + 1 \in DOMAIN l /\ b + 1 \in DOMAIN l /\ a + 1 < b + 1
          /\ l[a + 1] = read[j] /\ l[b + 1] = read[k]
      BY <1>2, <3>2
    <3> QED
      BY <3>3
  <2> QED
    BY <2>4, <2>5
<1>11. Held(read, f, l, E)
  BY <1>1, <1>3, <1>7, <1>9, <1>10 DEF Held
<1>12. x \notin ToSet(entries) \/ x \in E
  BY <1>1, <1>3
<1> QED
  BY <1>11, <1>12 DEF f, l, x

\* Two sequences, one after the other.
LEMMA Joined ==
    ASSUME NEW a \in Seq(Row), NEW b \in Seq(Row)
    PROVE  /\ a \o b \in Seq(Row)
           /\ Len(a \o b) = Len(a) + Len(b)
           /\ \A i \in 1..Len(a) : (a \o b)[i] = a[i]
           /\ \A i \in 1..Len(b) : (a \o b)[Len(a) + i] = b[i]
<1>1. a \o b \in Seq(Row) /\ Len(a \o b) = Len(a) + Len(b)
  OBVIOUS
<1>2. \A i \in 1..Len(a) : (a \o b)[i] = a[i]
  OBVIOUS
<1>3. \A i \in 1..Len(b) : (a \o b)[Len(a) + i] = b[i]
  OBVIOUS
<1> QED
  BY <1>1, <1>2, <1>3

\* An entry that cannot be pushed back is struck off.
LEMMA Struck ==
    ASSUME NEW read \in Seq(Row), NEW n \in 1..Len(read)
    PROVE  /\ RemoveAt(read, n) \in Seq(Row)
           /\ Len(RemoveAt(read, n)) = Len(read) - 1
           /\ \A i \in 1..(Len(read) - 1) :
                 /\ i < n => i \in 1..Len(read) /\ RemoveAt(read, n)[i] = read[i]
                 /\ n <= i => i + 1 \in 1..Len(read) /\ RemoveAt(read, n)[i] = read[i + 1]
           /\ ToSet(RemoveAt(read, n)) \subseteq ToSet(read)
<1> DEFINE a == SubSeq(read, 1, n - 1)
           b == SubSeq(read, n + 1, Len(read))
           l == RemoveAt(read, n)
<1>1. /\ a \in Seq(Row) /\ Len(a) = n - 1 /\ \A i \in 1..(n - 1) : a[i] = read[i]
      /\ n \in Nat /\ Len(read) \in Nat /\ n <= Len(read) /\ 1 <= n
  OBVIOUS
<1>2. /\ b \in Seq(Row) /\ Len(b) = Len(read) - n
      /\ \A i \in 1..(Len(read) - n) : b[i] = read[n + i]
  OBVIOUS
<1>3. l = a \o b
  BY DEF RemoveAt
<1> HIDE DEF a, b, l
<1>4. /\ l \in Seq(Row) /\ Len(l) = Len(read) - 1
      /\ \A i \in 1..(n - 1) : l[i] = a[i]
      /\ \A i \in 1..(Len(read) - n) : l[(n - 1) + i] = b[i]
  <2>1. l \in Seq(Row) /\ Len(l) = Len(a) + Len(b)
    BY <1>1, <1>2, <1>3, Joined
  <2>2. /\ \A i \in 1..Len(a) : l[i] = a[i]
        /\ \A i \in 1..Len(b) : l[Len(a) + i] = b[i]
    BY <1>1, <1>2, <1>3, Joined
  <2>3. (n - 1) + (Len(read) - n) = Len(read) - 1
    BY <1>1
  <2> QED
    BY <1>1, <1>2, <2>1, <2>2, <2>3
<1>5. ASSUME NEW i \in 1..(Len(read) - 1)
      PROVE  /\ i < n => i \in 1..Len(read) /\ l[i] = read[i]
             /\ n <= i => i + 1 \in 1..Len(read) /\ l[i] = read[i + 1]
  <2>1. i < n => i \in 1..(n - 1)
    BY <1>1
  <2>2. ASSUME n <= i PROVE i + 1 \in 1..Len(read) /\ l[i] = read[i + 1]
    <3>1. i - (n - 1) \in 1..(Len(read) - n) /\ (n - 1) + (i - (n - 1)) = i
          /\ n + (i - (n - 1)) = i + 1
      BY <1>1, <2>2
    <3>2. l[i] = b[i - (n - 1)] /\ b[i - (n - 1)] = read[i + 1]
      BY <1>2, <1>4, <3>1
    <3> QED
      BY <1>1, <2>2, <3>2
  <2> QED
    BY <1>1, <1>4, <2>1, <2>2
<1>6. DOMAIN l = 1..(Len(read) - 1) /\ DOMAIN read = 1..Len(read)
  BY <1>1, <1>4
<1>7. ToSet(l) \subseteq ToSet(read)
  <2> SUFFICES ASSUME NEW i \in DOMAIN l PROVE \E j \in DOMAIN read : read[j] = l[i]
    BY DEF ToSet
  <2>1. i < n \/ n <= i
    BY <1>1, <1>6
  <2> QED
    BY <1>5, <1>6, <2>1
<1> QED
  BY <1>4, <1>5, <1>7 DEF l

LEMMA StruckRepeats ==
    ASSUME NEW read \in Seq(Row), NEW n \in 1..Len(read), NEW E, RepeatsOnly(read, E)
    PROVE  RepeatsOnly(RemoveAt(read, n), E)
<1> DEFINE l == RemoveAt(read, n)
           at0(i) == IF i < n THEN i ELSE i + 1
<1>1. /\ l \in Seq(Row) /\ Len(l) = Len(read) - 1
      /\ \A i \in 1..(Len(read) - 1) :
            /\ i < n => i \in 1..Len(read) /\ l[i] = read[i]
            /\ n <= i => i + 1 \in 1..Len(read) /\ l[i] = read[i + 1]
      /\ Len(read) \in Nat /\ n \in Nat /\ DOMAIN read = 1..Len(read)
  BY Struck
<1> HIDE DEF l
<1>2. DOMAIN l = 1..(Len(read) - 1)
  BY <1>1
<1> SUFFICES ASSUME NEW i \in 1..(Len(read) - 1), NEW j \in 1..(Len(read) - 1),
                    l[i] = l[j], i # j
             PROVE  l[i] \in E
  BY <1>2 DEF RepeatsOnly, l
<1>3. i \in Int /\ j \in Int /\ at0(i) # at0(j)
  BY <1>1
<1>4. /\ at0(i) \in 1..Len(read) /\ l[i] = read[at0(i)]
      /\ at0(j) \in 1..Len(read) /\ l[j] = read[at0(j)]
  BY <1>1, <1>3
<1> QED
  BY <1>1, <1>3, <1>4 DEF RepeatsOnly

LEMMA HeldStruck ==
    ASSUME NEW read \in Seq(Row), NEW rest \in Seq(Row), rest # <<>>,
           NEW entries \in Seq(Row), NEW E, Held(read, rest, entries, E)
    PROVE  /\ Len(rest) \in 1..Len(read)
           /\ Held(RemoveAt(read, Len(rest)), Front(rest), entries, E)
<1> DEFINE n == Len(rest)
           f == Front(rest)
           l == RemoveAt(read, n)
<1>1. /\ n \in Nat \ {0} /\ f \in Seq(Row) /\ Len(f) = n - 1
      /\ \A i \in 1..(n - 1) : i \in 1..n /\ f[i] = rest[i]
      /\ ToSet(f) \subseteq ToSet(rest)
  BY FrontElements
<1> HIDE DEF n, f
<1>2. /\ RepeatsOnly(read, E) /\ n <= Len(read) /\ \A i \in 1..n : rest[i] = read[i]
      /\ ToSet(rest) \cap ToSet(entries) \subseteq E
      /\ InOrder(read, n, entries, E)
      /\ DOMAIN read = 1..Len(read) /\ Len(read) \in Nat
  BY DEF Held, Beginning, n
<1>3. n \in 1..Len(read)
  BY <1>1, <1>2
<1>4. /\ l \in Seq(Row) /\ Len(l) = Len(read) - 1
      /\ \A i \in 1..(Len(read) - 1) :
            /\ i < n => l[i] = read[i]
            /\ n <= i => i + 1 \in 1..Len(read) /\ l[i] = read[i + 1]
      /\ RepeatsOnly(l, E)
  BY <1>2, <1>3, Struck, StruckRepeats
<1> HIDE DEF l
<1>5. DOMAIN l = 1..(Len(read) - 1)
  BY <1>2, <1>4
<1>6. /\ n - 1 <= Len(l)
      /\ \A i \in 1..(n - 1) : i \in 1..(Len(read) - 1) /\ i < n /\ i \in 1..n
  BY <1>1, <1>2, <1>4
<1>7. \A i \in 1..(n - 1) : f[i] = l[i]
  BY <1>1, <1>2, <1>4, <1>6
<1>8. Beginning(f, l)
  BY <1>1, <1>6, <1>7 DEF Beginning
<1>9. InOrder(l, n - 1, entries, E)
  <2> SUFFICES ASSUME NEW j \in DOMAIN l, NEW k \in DOMAIN l,
                      n - 1 < j, j < k, l[k] \in ToSet(entries) \ E
               PROVE  \E a, b \in DOMAIN entries : a < b /\ entries[a] = l[j] /\ entries[b] = l[k]
    BY DEF InOrder
  <2>1. /\ j \in 1..(Len(read) - 1) /\ k \in 1..(Len(read) - 1)
        /\ n <= j /\ n <= k /\ n < j + 1 /\ j + 1 < k + 1
    BY <1>1, <1>2, <1>5
  <2>2. /\ j + 1 \in DOMAIN read /\ l[j] = read[j + 1]
        /\ k + 1 \in DOMAIN read /\ l[k] = read[k + 1]
    BY <1>2, <1>4, <2>1
  <2>3. \A c, d \in DOMAIN read :
           n < c /\ c < d /\ read[d] \in ToSet(entries) \ E =>
              \E a, b \in DOMAIN entries : a < b /\ entries[a] = read[c] /\ entries[b] = read[d]
    BY <1>2 DEF InOrder
  <2>4. n < j + 1 /\ j + 1 < k + 1 /\ read[k + 1] \in ToSet(entries) \ E
    BY <2>1, <2>2
  <2>5. \E a, b \in DOMAIN entries :
           a < b /\ entries[a] = read[j + 1] /\ entries[b] = read[k + 1]
    BY <2>2, <2>3, <2>4
  <2> QED
    BY <2>2, <2>5
<1>10. Held(l, f, entries, E)
  BY <1>1, <1>2, <1>4, <1>8, <1>9 DEF Held
<1> QED
  BY <1>3, <1>10 DEF f, l, n

-----------------------------------------------------------------------------
\* A step of a request, a worker, the pruner or a reset leaves the purges where they
\* are.
LEMMA KeepPurges ==
    ASSUME Purges, UNCHANGED <<at, kept, survivors, marred>>, unanswered \subseteq unanswered',
           ~marred => RepeatsOnly(list', unanswered'),
           \A p \in Purge : at[p] = "push" /\ ~marred =>
              Held(survivors[p], kept[p], list', unanswered')
    PROVE  Purges'
<1>1. ASSUME NEW p \in Purge, ~marred, Rewriting(p) PROVE Rewritten(p)'
  <2>1. Rewritten(p)
    BY <1>1 DEF Purges
  <2>2. at[p] = "delete" => RepeatsOnly(survivors[p], unanswered')
    BY <2>1, MoreRepeats DEF Rewritten
  <2> QED
    BY <1>1, <2>1, <2>2 DEF Rewritten
<1>2. \A p \in Purge : Rewriting(p)' = Rewriting(p)
  BY DEF Rewriting
<1> QED
  BY <1>1, <1>2 DEF Purges

LEMMA SamePurges ==
    ASSUME Purges, UNCHANGED <<at, kept, survivors, marred, list, unanswered>>
    PROVE  Purges'
BY DEF Purges, Rewriting, Rewritten

-----------------------------------------------------------------------------
(* Requests, and steps that leave the log alone. *)

LEMMA Alone ==
    ASSUME IInv, TypeOK', UNCHANGED <<logged, taskVars, listVars, table, purgeVars, resetVars>>
    PROVE  IInv'
<1> USE DEF taskVars, listVars, purgeVars, resetVars
<1>1. Tasks'
  BY DEF IInv, Tasks
<1>2. Carried' = Carried /\ Stored' = Stored /\ Writable' = Writable
  BY DEF Carried, Stored, Writable, InHand
<1>3. Unstored' /\ Apart'
  BY <1>2 DEF IInv, Unstored, Storing, Apart
<1>4. Removed'
  BY <1>2 DEF IInv, Removed, OldRowsStayAway
<1>5. Purges'
  BY SamePurges DEF IInv
<1> QED
  BY <1>1, <1>3, <1>4, <1>5 DEF IInv

LEMMA SubmitInv ==
    ASSUME IInv, NEW r \in Row, Submit(r)
    PROVE  IInv'
<1> USE DEF IInv, taskVars, listVars, purgeVars, resetVars
<1>1. /\ queue' \in Seq(Row) /\ Len(queue') <= QueueSize
      /\ ToSet(queue') \subseteq ToSet(queue) \cup {r}
      /\ IsInjective(queue')
  <2>1. /\ queue \in Seq(Row) /\ Len(queue) <= QueueSize /\ QueueSize \in Nat
        /\ IsInjective(queue) /\ r \notin ToSet(queue)
    BY LogAssumption DEF TypeOK, Tasks, Submit
  <2>2. CASE Len(queue) < QueueSize
    BY <2>1, <2>2, AppendElements DEF Submit
  <2>3. CASE ~(Len(queue) < QueueSize)
    BY <2>1, <2>3 DEF Submit
  <2> QED
    BY <2>2, <2>3
<1>2. TypeOK'
  BY <1>1 DEF Submit, TypeOK
<1>3. r \notin logged /\ logged' = logged \cup {r}
  BY DEF Submit
<1>4. Tasks'
  BY <1>1, <1>3 DEF Submit, Tasks
<1>5. Carried' = Carried /\ Stored' = Stored /\ InHand' = InHand
  BY DEF Submit, Carried, Stored, InHand
<1>6. Unstored'
  <2>1. \A w \in Worker : Storing(w)' => Storing(w) /\ hand'[w] = hand[w]
    BY DEF Submit, Storing
  <2>2. logged \subseteq logged' /\ ToSet(queue') \subseteq ToSet(queue) \cup (logged' \ logged)
        /\ unanswered' = unanswered
    BY <1>1, <1>3 DEF Submit
  <2> QED
    BY <1>5, <2>1, <2>2, KeepUnstoredSame
<1>7. Apart'
  BY <1>5 DEF Submit, Apart
<1>8. old \subseteq logged /\ old' = old /\ Writable \cap old = {}
  BY DEF Removed, Submit
<1>9. Writable' \subseteq Writable \cup {r}
  BY <1>1, <1>5 DEF Writable
<1>10. Removed'
  BY <1>3, <1>8, <1>9, KeepRemoved DEF Submit
<1>11. Purges'
  BY SamePurges DEF Submit
<1> QED
  BY <1>2, <1>4, <1>6, <1>7, <1>10, <1>11

-----------------------------------------------------------------------------
(* Workers. *)

LEMMA DequeueInv ==
    ASSUME IInv, NEW w \in Worker, Dequeue(w)
    PROVE  IInv'
<1> USE DEF IInv, requestVars, listVars, purgeVars, resetVars
<1>1. /\ queue' \in Seq(Row) /\ Len(queue') <= QueueSize
      /\ ToSet(queue') \subseteq ToSet(queue)
      /\ IsInjective(queue')
      /\ Head(queue) \in ToSet(queue) /\ Head(queue) \notin ToSet(queue')
      /\ Head(queue) \in Row
  <2>1. /\ queue \in Seq(Row) /\ Len(queue) <= QueueSize /\ QueueSize \in Nat
        /\ IsInjective(queue) /\ queue # <<>> /\ queue' = Tail(queue)
    BY LogAssumption DEF TypeOK, Tasks, Dequeue
  <2>2. Len(queue) \in Nat /\ ToSet(queue) \subseteq Row
    BY <2>1, Elements
  <2> QED
    BY <2>1, <2>2, TakeElements
<1>2. /\ hand' = [hand EXCEPT ![w] = Head(queue)] /\ hand \in [Worker -> Row \cup {Nil}]
      /\ step' \in [Worker -> {"idle", "push", "trim", "insert"}]
      /\ step'[w] # "idle" /\ \A v \in Worker \ {w} : step'[v] = step[v]
      /\ UNCHANGED <<logged, connected, running, inFlight, unanswered>>
  BY DEF Dequeue, TypeOK
<1>3. TypeOK'
  BY <1>1, <1>2 DEF Dequeue, TypeOK
<1>4. Tasks'
  BY <1>1, <1>2 DEF Tasks
<1>5. Carried' = Carried /\ Stored' = Stored
  BY DEF Dequeue, Carried, Stored
<1>6. Unstored'
  <2>1. \A v \in Worker : Storing(v)' =>
           \/ Storing(v) /\ hand'[v] = hand[v]
           \/ hand'[v] \in ToSet(queue)
    BY <1>1, <1>2 DEF Storing
  <2> QED
    BY <1>1, <1>2, <1>5, <2>1, KeepUnstoredSame
<1>7. Apart'
  BY <1>5 DEF Dequeue, Apart
<1>8. Writable' \subseteq Writable /\ Writable \cap old = {}
  BY <1>1, <1>2, <1>5 DEF Writable, InHand, Removed
<1>9. Removed'
  BY <1>8, KeepRemoved DEF Dequeue
<1>10. Purges'
  BY SamePurges DEF Dequeue
<1> QED
  BY <1>3, <1>4, <1>6, <1>7, <1>9, <1>10

\* What a call of a task changes of the tasks.
LEMMA ProceedTasks ==
    ASSUME IInv, NEW w \in Worker, NEW from, NEW to, Proceed(w, from, to),
           from # "idle", to \in {"trim", "insert", "idle"}, to = "insert" => from = "push"
    PROVE  /\ hand[w] \in Row /\ hand[w] \in logged /\ hand[w] \in Writable
           /\ hand[w] \notin ToSet(queue)
           /\ hand' \in [Worker -> Row \cup {Nil}]
           /\ step' \in [Worker -> {"idle", "push", "trim", "insert"}]
           /\ Tasks'
           /\ Carried' = Carried
           /\ Writable' \subseteq Writable
           /\ \A v \in Worker : Storing(v)' =>
                 /\ Storing(v) /\ hand'[v] = hand[v]
                 /\ hand[v] # hand[w] \/ to = "insert"
<1> USE DEF IInv, requestVars, purgeVars, resetVars
<1>1. /\ hand[w] \in logged /\ hand[w] \notin ToSet(queue) /\ logged \subseteq Row
      /\ hand \in [Worker -> Row \cup {Nil}]
      /\ step \in [Worker -> {"idle", "push", "trim", "insert"}]
  BY DEF Proceed, Tasks, TypeOK
<1>2. /\ step' = [step EXCEPT ![w] = to] /\ UNCHANGED <<logged, queue, kept>>
      /\ \A v \in Worker : v # w => hand'[v] = hand[v] /\ step'[v] = step[v]
      /\ step[w] = from /\ step'[w] = to
      /\ hand'[w] = IF to = "idle" THEN Nil ELSE hand[w]
      /\ hand' \in [Worker -> Row \cup {Nil}]
  BY <1>1 DEF Proceed
<1>3. Tasks'
  BY <1>1, <1>2 DEF Tasks
<1>4. Carried' = Carried /\ Writable' \subseteq Writable /\ hand[w] \in Writable
  <2>1. hand[w] # Nil
    BY <1>1, LogAssumption
  <2> QED
    BY <1>2, <2>1 DEF Carried, Writable, InHand
<1>5. ASSUME NEW v \in Worker, Storing(v)'
      PROVE  /\ Storing(v) /\ hand'[v] = hand[v]
             /\ hand[v] # hand[w] \/ to = "insert"
  <2>1. CASE v = w
    BY <1>2, <1>5, <2>1 DEF Storing
  <2>2. CASE v # w
    <3>1. Storing(v) /\ hand'[v] = hand[v] /\ step[v] # "idle" /\ step[w] # "idle"
      BY <1>2, <1>5, <2>2 DEF Storing
    <3>2. hand[v] # hand[w]
      BY <2>2, <3>1 DEF Tasks
    <3> QED
      BY <3>1, <3>2
  <2> QED
    BY <2>1, <2>2
<1> QED
  BY <1>1, <1>2, <1>3, <1>4, <1>5

\* The row goes to the list, if for the last time or if it is not answered.
LEMMA PushedInv ==
    ASSUME IInv, NEW w \in Worker, step[w] = "push", Pushed(hand[w]),
           UNCHANGED <<connected, running, requestVars, queue, table, purgeVars, resetVars>>,
           unanswered' = unanswered \/ unanswered' = unanswered \cup {hand[w]},
           hand' \in [Worker -> Row \cup {Nil}],
           step' \in [Worker -> {"idle", "push", "trim", "insert"}],
           Tasks', Carried' = Carried, Writable' \subseteq Writable,
           \A v \in Worker : Storing(v)' =>
              /\ Storing(v) /\ hand'[v] = hand[v]
              /\ hand[v] # hand[w] \/ hand[w] \in unanswered'
    PROVE  IInv'
<1> USE DEF IInv, requestVars, purgeVars, resetVars
<1>1. /\ hand[w] \in Row /\ hand[w] \in logged /\ hand[w] \in Writable
      /\ hand[w] \notin ToSet(queue)
  <2>1. hand[w] \in logged /\ hand[w] \notin ToSet(queue) /\ logged \subseteq Row
    BY DEF Tasks, TypeOK
  <2>2. hand[w] # Nil
    BY <2>1, LogAssumption
  <2> QED
    BY <2>1, <2>2 DEF Writable, InHand
<1>2. hand[w] \notin Stored \/ hand[w] \in unanswered'
  BY DEF Unstored, Storing
<1>3. /\ list \in Seq(Row) /\ list' = <<hand[w]>> \o list
      /\ list' \in Seq(Row) /\ ToSet(list') = {hand[w]} \cup ToSet(list)
  BY <1>1, Prepend DEF TypeOK, Pushed
<1>4. unanswered \subseteq unanswered' /\ unanswered' \subseteq Row
  BY <1>1 DEF TypeOK
<1>5. TypeOK'
  BY <1>3, <1>4 DEF TypeOK
<1>6. Stored' \subseteq Stored \cup {hand[w]}
  BY <1>3 DEF Stored
<1>7. Unstored'
  BY <1>1, <1>4, <1>6, KeepUnstored
<1>8. Apart'
  <2>1. ToSet(table) \subseteq Stored
    BY DEF Stored
  <2> QED
    BY <1>2, <1>3, <1>4, <2>1 DEF Apart
<1>9. Removed'
  <2>1. Writable \cap old = {}
    BY DEF Removed
  <2> QED
    BY <1>1, <1>3, <2>1, KeepRemoved
<1>10. ASSUME ~marred PROVE RepeatsOnly(list', unanswered')
  <2>1. RepeatsOnly(list, unanswered')
    BY <1>4, <1>10, MoreRepeats DEF Purges
  <2>2. hand[w] \notin ToSet(list) \/ hand[w] \in unanswered'
    BY <1>2 DEF Stored
  <2> QED
    BY <1>1, <1>3, <2>1, <2>2, PrependRepeats
<1>11. ASSUME NEW p \in Purge, at[p] = "push", ~marred
       PROVE  Held(survivors[p], kept[p], list', unanswered')
  <2>1. Held(survivors[p], kept[p], list, unanswered)
    BY <1>11 DEF Purges, Rewriting, Rewritten
  <2>2. survivors[p] \in Seq(Row) /\ kept[p] \in Seq(Row)
    BY DEF TypeOK
  <2>3. Held(survivors[p], kept[p], list, unanswered')
    BY <1>4, <2>1, HeldMore
  <2>4. (hand[w] \notin ToSet(survivors[p]) /\ hand[w] \notin ToSet(kept[p]))
           \/ hand[w] \in unanswered'
    BY <1>2 DEF Stored, Carried
  <2> QED
    BY <1>1, <1>3, <2>2, <2>3, <2>4, HeldPush
<1>12. Purges'
  BY <1>4, <1>10, <1>11, KeepPurges
<1> QED
  BY <1>5, <1>7, <1>8, <1>9, <1>12

LEMMA PushInv ==
    ASSUME IInv, NEW w \in Worker, Push(w) \/ PushAgain(w)
    PROVE  IInv'
<1>1. CASE Push(w)
  <2>1. Proceed(w, "push", "trim") /\ Pushed(hand[w]) /\ UNCHANGED <<table, unanswered>>
    BY <1>1 DEF Push
  <2>2. /\ hand' \in [Worker -> Row \cup {Nil}]
        /\ step' \in [Worker -> {"idle", "push", "trim", "insert"}]
        /\ Tasks' /\ Carried' = Carried /\ Writable' \subseteq Writable
        /\ \A v \in Worker : Storing(v)' =>
              Storing(v) /\ hand'[v] = hand[v] /\ hand[v] # hand[w]
    BY <2>1, ProceedTasks
  <2>3. /\ step[w] = "push"
        /\ UNCHANGED <<connected, running, requestVars, queue, table, purgeVars, resetVars>>
    BY <2>1 DEF Proceed
  <2> QED
    BY <2>1, <2>2, <2>3, PushedInv
<1>2. CASE PushAgain(w)
  <2>1. /\ hand' \in [Worker -> Row \cup {Nil}]
        /\ step' \in [Worker -> {"idle", "push", "trim", "insert"}]
        /\ UNCHANGED <<queue, logged, hand, step, kept>>
    BY <1>2 DEF IInv, TypeOK, PushAgain, requestVars, taskVars, purgeVars
  <2>2. Tasks' /\ Carried' = Carried /\ Writable' = Writable
    BY <2>1 DEF IInv, Tasks, Carried, Writable, InHand
  <2>3. /\ step[w] = "push" /\ Pushed(hand[w]) /\ unanswered' = unanswered \cup {hand[w]}
        /\ UNCHANGED <<connected, running, requestVars, queue, table, purgeVars, resetVars>>
    BY <1>2 DEF PushAgain, PushedUnanswered, taskVars
  <2>4. \A v \in Worker : Storing(v)' => Storing(v) /\ hand'[v] = hand[v]
    BY <2>1 DEF Storing
  <2> QED
    BY <2>1, <2>2, <2>3, <2>4, PushedInv
<1> QED
  BY <1>1, <1>2

\* The list is trimmed or stays, and the table stays.
LEMMA ListShrinksInv ==
    ASSUME IInv, NEW w \in Worker, NEW from, NEW to \in {"insert", "idle"},
           from # "idle", to = "insert" => from = "push", Proceed(w, from, to),
           list' = list \/ list' = First(MaxEntries, list), UNCHANGED <<table, unanswered>>
    PROVE  IInv'
<1> USE DEF IInv, requestVars, purgeVars, resetVars
<1>0. UNCHANGED <<logged, queue, at, kept, survivors, marred, reset, old, forgotten>>
  BY DEF Proceed
<1>1. /\ hand' \in [Worker -> Row \cup {Nil}]
      /\ step' \in [Worker -> {"idle", "push", "trim", "insert"}]
      /\ Tasks' /\ Carried' = Carried
      /\ Writable' \subseteq Writable
      /\ \A v \in Worker : Storing(v)' => Storing(v) /\ hand'[v] = hand[v]
  BY ProceedTasks
<1>2. MaxEntries \in Nat /\ list \in Seq(Row)
  BY LogAssumption DEF TypeOK
<1>3. list' \in Seq(Row) /\ ToSet(list') \subseteq ToSet(list)
  BY <1>2, FirstElements
<1>4. TypeOK'
  BY <1>1, <1>3 DEF TypeOK, Proceed
<1>5. Stored' \subseteq Stored
  BY <1>0, <1>1, <1>3 DEF Stored
<1>6. Unstored'
  BY <1>0, <1>1, <1>5, KeepUnstoredSame
<1>7. Apart'
  BY <1>1, <1>3 DEF Apart
<1>8. Removed'
  <2>1. Writable \cap old = {}
    BY DEF Removed
  <2> QED
    BY <1>0, <1>1, <1>3, <2>1, KeepRemoved
<1>9. ASSUME ~marred PROVE RepeatsOnly(list', unanswered')
  BY <1>2, <1>9, FirstRepeats DEF Purges
<1>10. ASSUME NEW p \in Purge, at[p] = "push", ~marred
       PROVE  Held(survivors[p], kept[p], list', unanswered')
  <2>1. Held(survivors[p], kept[p], list, unanswered) /\ RepeatsOnly(list, unanswered)
    BY <1>10 DEF Purges, Rewriting, Rewritten
  <2>2. survivors[p] \in Seq(Row) /\ kept[p] \in Seq(Row)
    BY DEF TypeOK
  <2> QED
    BY <1>2, <2>1, <2>2, HeldFirst
<1>11. Purges'
  BY <1>0, <1>9, <1>10, KeepPurges
<1> QED
  BY <1>1, <1>4, <1>6, <1>7, <1>8, <1>11

LEMMA PushFailsInv ==
    ASSUME IInv, NEW w \in Worker, PushFails(w)
    PROVE  IInv'
<1>1. Proceed(w, "push", "insert") /\ table' = table
  BY DEF PushFails
<1>2. CASE UNCHANGED <<list, unanswered>>
  BY <1>1, <1>2, ListShrinksInv
<1>3. CASE PushedUnanswered(hand[w])
  <2>1. Pushed(hand[w]) /\ unanswered' = unanswered \cup {hand[w]}
    BY <1>3 DEF PushedUnanswered
  <2> QED
    BY <1>1, <2>1, ProceedTasks, PushedInv DEF Proceed
<1> QED
  BY <1>2, <1>3 DEF PushFails

\* The row goes to the table.
LEMMA InsertedInv ==
    ASSUME IInv, NEW w \in Worker, Proceed(w, "insert", "idle"),
           table' = <<hand[w]>> \o table, UNCHANGED <<list, unanswered>>
    PROVE  IInv'
<1> USE DEF IInv, requestVars, purgeVars, resetVars
<1>0. /\ step[w] = "insert"
      /\ UNCHANGED <<logged, queue, at, kept, survivors, marred, reset, old, forgotten, list>>
  BY DEF Proceed
<1>1. /\ hand[w] \in Row /\ hand[w] \in logged /\ hand[w] \in Writable
      /\ hand[w] \notin ToSet(queue)
      /\ hand' \in [Worker -> Row \cup {Nil}]
      /\ step' \in [Worker -> {"idle", "push", "trim", "insert"}]
      /\ Tasks' /\ Carried' = Carried
      /\ Writable' \subseteq Writable
      /\ \A v \in Worker : Storing(v)' =>
            Storing(v) /\ hand'[v] = hand[v] /\ hand[v] # hand[w]
  BY ProceedTasks
<1>2. table' \in Seq(Row) /\ ToSet(table') = {hand[w]} \cup ToSet(table)
  BY <1>1, Prepend DEF TypeOK
<1>3. TypeOK'
  BY <1>1, <1>2 DEF TypeOK, Proceed
<1>4. Unstored'
  <2>1. Stored' \subseteq Stored \cup {hand[w]}
    BY <1>0, <1>1, <1>2 DEF Stored
  <2> QED
    BY <1>0, <1>1, <2>1, KeepUnstored
<1>5. Apart'
  <2>1. hand[w] \in Stored => hand[w] \in unanswered
    BY <1>0 DEF Unstored, Storing
  <2>2. ToSet(list) \cup Carried \subseteq Stored
    BY DEF Stored
  <2> QED
    BY <1>0, <1>1, <1>2, <2>1, <2>2 DEF Apart
<1>6. Removed'
  <2>1. Writable \cap old = {}
    BY DEF Removed
  <2> QED
    BY <1>0, <1>1, <1>2, <2>1, KeepRemoved
<1>7. Purges'
  BY <1>0, SamePurges
<1> QED
  BY <1>1, <1>3, <1>4, <1>5, <1>6, <1>7

LEMMA InsertInv ==
    ASSUME IInv, NEW w \in Worker, Insert(w) \/ InsertFails(w)
    PROVE  IInv'
<1>1. CASE table' = <<hand[w]>> \o table
  BY <1>1, InsertedInv DEF Insert, InsertFails
<1>2. CASE table' = table
  <2>1. Proceed(w, "insert", "idle") /\ UNCHANGED <<list, table, unanswered>>
    BY <1>2 DEF Insert, InsertFails
  <2> QED
    BY <2>1, ListShrinksInv
<1> QED
  BY <1>1, <1>2 DEF Insert, InsertFails

LEMMA WorkInv ==
    ASSUME IInv, NEW w \in Worker, Work(w)
    PROVE  IInv'
<1>1. CASE Trim(w)
  BY <1>1, ListShrinksInv DEF Trim
<1> QED
  BY <1>1, DequeueInv, PushInv, PushFailsInv, InsertInv DEF Work

\* The pruner deletes rows of the table.
LEMMA PruneInv ==
    ASSUME IInv, Prune
    PROVE  IInv'
<1> USE DEF IInv, requestVars, taskVars, listVars, purgeVars, resetVars
<1>1. MaxRows + 1 \in Nat /\ table \in Seq(Row)
  BY LogAssumption DEF TypeOK
<1>2. table' \in Seq(Row) /\ ToSet(table') \subseteq ToSet(table)
  BY <1>1, FirstElements DEF Prune
<1>3. TypeOK'
  BY <1>2 DEF Prune, TypeOK
<1>4. Tasks'
  BY DEF Prune, Tasks
<1>5. Carried' = Carried /\ Writable' = Writable /\ Writable \cap old = {}
  BY DEF Prune, Carried, Writable, InHand, Removed
<1>6. Unstored'
  <2>1. Stored' \subseteq Stored
    BY <1>2, <1>5 DEF Prune, Stored
  <2>2. \A w \in Worker : Storing(w)' => Storing(w) /\ hand'[w] = hand[w]
    BY DEF Prune, Storing
  <2> QED
    BY <2>1, <2>2, KeepUnstoredSame DEF Prune
<1>7. Apart'
  BY <1>2, <1>5 DEF Prune, Apart
<1>8. Removed'
  BY <1>2, <1>5, KeepRemoved DEF Prune
<1>9. Purges'
  BY SamePurges DEF Prune
<1> QED
  BY <1>3, <1>4, <1>6, <1>7, <1>8, <1>9

-----------------------------------------------------------------------------
(* Purges. *)

\* A step of the purge p that no other purge sees.
LEMMA KeepPurge ==
    ASSUME Purges, NEW p \in Purge,
           \A q \in Purge : q # p =>
              at'[q] = at[q] /\ kept'[q] = kept[q] /\ survivors'[q] = survivors[q],
           at'[p] \notin {"delete", "push"} => kept'[p] = <<>>,
           ~marred' => /\ ~marred /\ RepeatsOnly(list', unanswered')
                       /\ \A q \in Purge : q # p => ~Rewriting(q),
           ~marred' /\ at'[p] \in {"delete", "push"} => Rewritten(p)'
    PROVE  Purges'
<1>1. ASSUME NEW q \in Purge, ~Rewriting(q)' PROVE kept'[q] = <<>>
  BY <1>1 DEF Purges, Rewriting
<1>2. ASSUME ~marred', NEW q \in Purge, Rewriting(q)' PROVE q = p /\ Rewritten(q)'
  <2>1. q = p
    BY <1>2 DEF Rewriting
  <2> QED
    BY <1>2, <2>1 DEF Rewriting, Rewritten
<1> QED
  BY <1>1, <1>2 DEF Purges

\* A purge that has not read the list yet, or fails before it does.
LEMMA BeforeReadInv ==
    ASSUME IInv, TypeOK', NEW p \in Purge, NEW to \in {"idle", "table", "read"},
           ~Rewriting(p), at' = [at EXCEPT ![p] = to],
           queue' = queue \/ queue' = <<>>, ToSet(table') \subseteq ToSet(table),
           UNCHANGED <<logged, hand, step, listVars, kept, survivors, marred, resetVars>>
    PROVE  IInv'
<1> USE DEF IInv, listVars, resetVars
<1>1. ToSet(queue') \subseteq ToSet(queue) /\ IsInjective(queue')
  BY EmptyElements DEF Tasks
<1>2. Tasks'
  BY <1>1 DEF Tasks
<1>3. /\ Carried' = Carried /\ Writable' \subseteq Writable /\ Stored' \subseteq Stored
      /\ Writable \cap old = {}
  BY <1>1 DEF Carried, Writable, InHand, Stored, Removed
<1>4. Unstored'
  <2>1. \A w \in Worker : Storing(w)' => Storing(w) /\ hand'[w] = hand[w]
    BY DEF Storing
  <2> QED
    BY <1>1, <1>3, <2>1, KeepUnstoredSame
<1>5. Apart'
  BY <1>3 DEF Apart
<1>6. Removed'
  BY <1>3, KeepRemoved
<1>7. \A q \in Purge : at'[q] = at[q] \/ (q = p /\ ~Rewriting(p) /\ at'[q] = to)
  BY DEF TypeOK
<1>8. \A q \in Purge : /\ Rewriting(q)' = Rewriting(q)
                       /\ at'[q] = "push" => at[q] = "push"
                       /\ at'[q] = "delete" => at[q] = "delete"
  BY <1>7 DEF Rewriting
<1>9. Purges'
  BY <1>7, <1>8 DEF Purges, Rewritten
<1> QED
  BY <1>2, <1>4, <1>5, <1>6, <1>9

LEMMA StopSimulatorInv ==
    ASSUME IInv, StopSimulator
    PROVE  IInv'
<1> USE DEF IInv, requestVars, listVars, resetVars
<1>1. TypeOK'
  <2>1. Len(<<>>) <= QueueSize /\ <<>> \in Seq(Row)
    BY LogAssumption
  <2> QED
    BY <2>1 DEF TypeOK, StopSimulator, Purge
<1>2. "stop" \in Purge /\ ~Rewriting("stop")
  BY DEF StopSimulator, Rewriting, Purge
<1> QED
  BY <1>1, <1>2, BeforeReadInv DEF StopSimulator

LEMMA ResetSessionInv ==
    ASSUME IInv, ResetSession
    PROVE  IInv'
<1> USE DEF IInv, requestVars, taskVars, listVars, resetVars
<1>1. TypeOK'
  BY DEF TypeOK, ResetSession, Purge
<1>2. "session" \in Purge /\ ~Rewriting("session")
  BY DEF ResetSession, Rewriting, Purge
<1> QED
  BY <1>1, <1>2, BeforeReadInv DEF ResetSession

LEMMA PurgeTableInv ==
    ASSUME IInv, NEW p \in Purge, PurgeTable(p) \/ PurgeTableFails(p)
    PROVE  IInv'
<1> USE DEF IInv, requestVars, taskVars, listVars, resetVars, PurgeTable, PurgeTableFails,
            PurgeStep
<1>1. PICK to \in {"idle", "table", "read"} : at' = [at EXCEPT ![p] = to]
  OBVIOUS
<1>2. table' \in Seq(Row) /\ ToSet(table') \subseteq ToSet(table)
  BY SparedElements DEF TypeOK
<1>3. TypeOK'
  BY <1>1, <1>2 DEF TypeOK
<1>4. ~Rewriting(p)
  BY DEF Rewriting
<1> QED
  BY <1>1, <1>2, <1>3, <1>4, BeforeReadInv

\* A step of a purge leaves the tasks to store alone.
LEMMA SameStoring ==
    ASSUME Unstored, Stored' \subseteq Stored, unanswered \subseteq unanswered',
           UNCHANGED <<logged, taskVars>>
    PROVE  Unstored'
<1>1. \A w \in Worker : Storing(w)' => Storing(w) /\ hand'[w] = hand[w]
  BY DEF taskVars, Storing
<1> QED
  BY <1>1, KeepUnstoredSame DEF taskVars

LEMMA ReadListInv ==
    ASSUME IInv, NEW p \in Purge, ReadList(p)
    PROVE  IInv'
<1> USE DEF IInv, requestVars, taskVars, PurgeStep
<1>0. /\ at[p] = "read" /\ at' = [at EXCEPT ![p] = "delete"]
      /\ UNCHANGED <<connected, running, requestVars, taskVars, reset, list, unanswered, table,
                     forgotten>>
  BY DEF ReadList
<1>1. /\ kept' = [kept EXCEPT ![p] = kept'[p]] /\ kept'[p] \in Seq(Row)
      /\ ToSet(kept'[p]) \subseteq ToSet(list)
      /\ RepeatsOnly(list, unanswered) => RepeatsOnly(kept'[p], unanswered)
  <2>1. kept \in [Purge -> Seq(Row)] /\ list \in Seq(Row) /\ <<>> \in Seq(Row)
    BY DEF TypeOK
  <2>2. CASE kept' = [kept EXCEPT ![p] = Spared(p, list)]
    BY <2>1, <2>2, SparedElements, SparedRepeats
  <2>3. CASE kept' = [kept EXCEPT ![p] = <<>>]
    <3>1. RepeatsOnly(<<>>, unanswered)
      BY EmptyElements, MoreRepeats
    <3> QED
      BY <2>1, <2>3, <3>1, EmptyElements
  <2> QED
    BY <2>2, <2>3 DEF ReadList
<1>2. /\ survivors' = [survivors EXCEPT ![p] = survivors'[p]]
      /\ survivors'[p] \in {<<>>, kept'[p]} /\ (~marred' => survivors'[p] = kept'[p])
  BY DEF ReadList, TypeOK
<1>3. survivors'[p] \in Seq(Row) /\ ToSet(survivors'[p]) \subseteq ToSet(list)
  <2>1. <<>> \in Seq(Row) /\ ToSet(<<>>) = {}
    BY EmptyElements
  <2>2. survivors'[p] = <<>> \/ survivors'[p] = kept'[p]
    BY <1>2
  <2> QED
    BY <1>1, <2>1, <2>2
<1>4. old' = old \ ToSet(kept'[p]) /\ marred' \in BOOLEAN
  BY DEF ReadList, TypeOK
<1>5. TypeOK'
  BY <1>0, <1>1, <1>2, <1>3, <1>4 DEF TypeOK
<1>6. Tasks'
  BY <1>0 DEF Tasks
<1>7. \A q \in Purge : /\ at'[q] = IF q = p THEN "delete" ELSE at[q]
                       /\ kept'[q] = IF q = p THEN kept'[p] ELSE kept[q]
                       /\ survivors'[q] = IF q = p THEN survivors'[p] ELSE survivors[q]
  BY <1>0, <1>1, <1>2 DEF TypeOK
<1>8. /\ Carried' \subseteq Carried \cup ToSet(kept'[p])
      /\ Writable' \subseteq Writable \cup ToSet(kept'[p])
  BY <1>0, <1>7 DEF Carried, Writable, InHand
<1>9. Stored' \subseteq Stored
  BY <1>0, <1>1, <1>3, <1>7, <1>8 DEF Stored
<1>10. Unstored'
  BY <1>0, <1>9, SameStoring
<1>11. Apart'
  BY <1>0, <1>1, <1>8 DEF Apart
<1>12. Removed'
  <2>1. Writable \cap old = {}
    BY DEF Removed
  <2> QED
    BY <1>0, <1>1, <1>4, <1>8, <2>1, KeepRemoved
<1>13. Purges'
  <2>1. ~marred' => /\ ~marred
                    /\ \A q \in Purge : q # p => ~Rewriting(q)
    BY DEF ReadList
  <2>2. ~marred => RepeatsOnly(list, unanswered)
    BY DEF Purges
  <2>3. ASSUME ~marred' PROVE Rewritten(p)'
    <3>1. /\ RepeatsOnly(survivors'[p], unanswered') /\ survivors'[p] = kept'[p]
          /\ at'[p] = "delete"
      BY <1>0, <1>1, <1>2, <1>7, <2>1, <2>2, <2>3
    <3> QED
      BY <3>1 DEF Rewritten
  <2>4. at'[p] = "delete"
    BY <1>7
  <2> QED
    BY <1>0, <1>7, <2>1, <2>2, <2>3, <2>4, KeepPurge
<1> QED
  BY <1>5, <1>6, <1>10, <1>11, <1>12, <1>13

\* While nothing is marred, the purge that rewrites the list does so alone.
LEMMA OneRewrites ==
    ASSUME Purges, NEW p \in Purge, Rewriting(p), ~marred
    PROVE  /\ RepeatsOnly(list, unanswered) /\ Rewritten(p)
           /\ \A q \in Purge : q # p => ~Rewriting(q)
BY DEF Purges

LEMMA DeleteListInv ==
    ASSUME IInv, NEW p \in Purge, DeleteList(p)
    PROVE  IInv'
<1> USE DEF IInv, requestVars, taskVars, PurgeStep
<1>0. /\ at[p] = "delete" /\ at' = [at EXCEPT ![p] = "push"]
      /\ UNCHANGED <<connected, running, requestVars, taskVars, reset, table, kept,
                     survivors, unanswered, old, forgotten>>
      /\ list' = <<>> \/ list' = list
      /\ marred' \/ (list' = <<>> /\ ~marred)
      /\ marred' \in BOOLEAN
  BY DEF DeleteList, TypeOK
<1>1. list' \in Seq(Row) /\ ToSet(list') \subseteq ToSet(list)
  <2>1. <<>> \in Seq(Row) /\ ToSet(<<>>) = {} /\ list \in Seq(Row)
    BY EmptyElements DEF TypeOK
  <2> QED
    BY <1>0, <2>1
<1>2. TypeOK'
  BY <1>0, <1>1 DEF TypeOK
<1>3. Tasks'
  BY <1>0 DEF Tasks
<1>4. Carried' = Carried /\ Writable' = Writable /\ Stored' \subseteq Stored
  BY <1>0, <1>1 DEF Carried, Writable, InHand, Stored
<1>5. Unstored'
  BY <1>0, <1>4, SameStoring
<1>6. Apart'
  BY <1>0, <1>1, <1>4 DEF Apart
<1>7. Removed'
  <2>1. Writable \cap old = {}
    BY DEF Removed
  <2> QED
    BY <1>0, <1>1, <1>4, <2>1, KeepRemoved
<1>8. Purges'
  <2>1. \A q \in Purge : at'[q] = IF q = p THEN "push" ELSE at[q]
    BY <1>0 DEF TypeOK
  <2>2. ASSUME ~marred'
        PROVE  /\ ~marred /\ RepeatsOnly(list', unanswered') /\ Rewritten(p)'
               /\ \A q \in Purge : q # p => ~Rewriting(q)
    <3>1. ~marred /\ list' = <<>> /\ Rewriting(p)
      BY <1>0, <2>2 DEF Rewriting
    <3>2. Rewritten(p) /\ \A q \in Purge : q # p => ~Rewriting(q)
      BY <3>1, OneRewrites
    <3>3. RepeatsOnly(list', unanswered')
      BY <3>1, EmptyElements, MoreRepeats
    <3>4. Beginning(kept[p], survivors[p]) /\ RepeatsOnly(survivors[p], unanswered)
      <4>1. kept[p] = survivors[p] /\ survivors[p] \in Seq(Row)
            /\ RepeatsOnly(survivors[p], unanswered)
        BY <1>0, <3>2 DEF Rewritten, TypeOK
      <4>2. Len(survivors[p]) \in Nat
        BY <4>1
      <4> QED
        BY <4>1, <4>2 DEF Beginning
    <3>5. Held(survivors[p], kept[p], list', unanswered)
      BY <3>1, <3>4, HeldEmpty
    <3>6. Rewritten(p)'
      BY <1>0, <2>1, <3>5 DEF Rewritten
    <3> QED
      BY <3>1, <3>2, <3>3, <3>6
  <2>3. at'[p] = "push"
    BY <2>1
  <2> QED
    BY <1>0, <2>1, <2>2, <2>3, KeepPurge
<1> QED
  BY <1>2, <1>3, <1>5, <1>6, <1>7, <1>8

\* What the purge p holds back while it rewrites the list.
LEMMA Holding ==
    ASSUME IInv, NEW p \in Purge, at[p] = "push", kept[p] # <<>>
    PROVE  /\ kept[p] \in Seq(Row) /\ survivors[p] \in Seq(Row) /\ list \in Seq(Row)
           /\ Front(kept[p]) \in Seq(Row)
           /\ Last(kept[p]) \in Row
           /\ ToSet(Front(kept[p])) \subseteq ToSet(kept[p])
           /\ Last(kept[p]) \in ToSet(kept[p]) /\ Last(kept[p]) \in Carried
           /\ ~marred => /\ RepeatsOnly(list, unanswered)
                         /\ Held(survivors[p], kept[p], list, unanswered)
                         /\ Last(kept[p]) \notin ToSet(list) \/ Last(kept[p]) \in unanswered
                         /\ \A q \in Purge : q # p => ~Rewriting(q)
<1>1. kept[p] \in Seq(Row) /\ survivors[p] \in Seq(Row) /\ list \in Seq(Row)
  BY DEF IInv, TypeOK
<1>2. /\ Front(kept[p]) \in Seq(Row) /\ Last(kept[p]) \in Row
      /\ ToSet(Front(kept[p])) \subseteq ToSet(kept[p])
      /\ Last(kept[p]) \in ToSet(kept[p])
  BY <1>1, FrontElements
<1>3. Last(kept[p]) \in Carried
  BY <1>2 DEF Carried
<1>4. ASSUME ~marred
      PROVE  /\ RepeatsOnly(list, unanswered)
             /\ Held(survivors[p], kept[p], list, unanswered)
             /\ Last(kept[p]) \notin ToSet(list) \/ Last(kept[p]) \in unanswered
             /\ \A q \in Purge : q # p => ~Rewriting(q)
  <2>1. Rewriting(p)
    BY DEF Rewriting
  <2>2. /\ RepeatsOnly(list, unanswered) /\ Rewritten(p)
        /\ \A q \in Purge : q # p => ~Rewriting(q)
    BY <1>4, <2>1, OneRewrites DEF IInv
  <2>3. Held(survivors[p], kept[p], list, unanswered)
    BY <2>2 DEF Rewritten
  <2> QED
    BY <1>2, <2>2, <2>3 DEF Held
<1> QED
  BY <1>1, <1>2, <1>3, <1>4

\* A step that pushes an entry, or strikes it off, or both.
LEMMA BackInv ==
    ASSUME IInv, NEW p \in Purge, at[p] = "push", kept[p] # <<>>,
           at' = at,
           UNCHANGED <<connected, running, requestVars, taskVars, table, resetVars, marred>>,
           kept' = [kept EXCEPT ![p] = kept'[p]],
           kept'[p] \in {kept[p], Front(kept[p])},
           survivors' = [survivors EXCEPT ![p] = survivors'[p]],
           survivors'[p] \in Seq(Row), ToSet(survivors'[p]) \subseteq ToSet(survivors[p]),
           \/ UNCHANGED <<list, unanswered>>
           \/ /\ Pushed(Last(kept[p]))
              /\ unanswered' = unanswered \/ unanswered' = unanswered \cup {Last(kept[p])},
           ~marred => Held(survivors'[p], kept'[p], list', unanswered')
    PROVE  IInv'
<1> USE DEF IInv, requestVars, taskVars, resetVars
<1> DEFINE x == Last(kept[p])
<1>1. /\ kept[p] \in Seq(Row) /\ list \in Seq(Row) /\ Front(kept[p]) \in Seq(Row)
      /\ x \in Row /\ ToSet(Front(kept[p])) \subseteq ToSet(kept[p]) /\ x \in Carried
      /\ ~marred => /\ RepeatsOnly(list, unanswered)
                    /\ x \notin ToSet(list) \/ x \in unanswered
                    /\ \A q \in Purge : q # p => ~Rewriting(q)
  BY Holding
<1>2. /\ kept'[p] \in Seq(Row) /\ ToSet(kept'[p]) \subseteq ToSet(kept[p])
      /\ unanswered \subseteq unanswered' /\ unanswered' \subseteq Row
  BY <1>1 DEF TypeOK
<1> HIDE DEF x
<1>3. /\ list' = list \/ list' = <<x>> \o list
      /\ list' \in Seq(Row) /\ ToSet(list') \subseteq {x} \cup ToSet(list)
  <2>1. CASE list' = list
    BY <1>1, <2>1
  <2>2. CASE list' = <<x>> \o list
    BY <1>1, <2>2, Prepend
  <2> QED
    BY <2>1, <2>2 DEF Pushed, x
<1>4. TypeOK'
  BY <1>2, <1>3 DEF TypeOK
<1>5. Tasks'
  BY DEF Tasks
<1>6. \A q \in Purge : /\ kept'[q] = IF q = p THEN kept'[p] ELSE kept[q]
                       /\ survivors'[q] = IF q = p THEN survivors'[p] ELSE survivors[q]
  BY DEF TypeOK
<1>7. Carried' \subseteq Carried
  BY <1>2, <1>6 DEF Carried
<1>8. Writable' \subseteq Writable /\ x \in Writable
  BY <1>1, <1>7 DEF Writable, InHand
<1>9. Stored' \subseteq Stored
  BY <1>1, <1>3, <1>6, <1>7 DEF Stored
<1>10. Unstored'
  BY <1>2, <1>9, SameStoring
<1>11. Apart'
  BY <1>1, <1>2, <1>3, <1>7 DEF Apart
<1>12. Removed'
  <2>1. Writable \cap old = {}
    BY DEF Removed
  <2> QED
    BY <1>3, <1>8, <2>1, KeepRemoved
<1>13. ASSUME ~marred PROVE RepeatsOnly(list', unanswered') /\ Rewritten(p)'
  <2>1. RepeatsOnly(list, unanswered')
    BY <1>1, <1>2, <1>13, MoreRepeats
  <2>2. RepeatsOnly(list', unanswered')
    <3>1. CASE list' = list
      BY <2>1, <3>1
    <3>2. CASE list' = <<x>> \o list
      BY <1>1, <1>2, <1>13, <2>1, <3>2, PrependRepeats
    <3> QED
      BY <1>3, <3>1, <3>2
  <2> QED
    BY <1>13, <2>2 DEF Rewritten
<1>14. Purges'
  <2>1. at'[p] = "push"
    OBVIOUS
  <2>2. ~marred' = ~marred
    OBVIOUS
  <2> QED
    BY <1>1, <1>6, <1>13, <2>1, <2>2, KeepPurge
<1> QED
  BY <1>4, <1>5, <1>10, <1>11, <1>12, <1>14

LEMMA PushBackInv ==
    ASSUME IInv, NEW p \in Purge, PushBack(p)
    PROVE  IInv'
<1> USE DEF PurgeStep
<1>0. /\ at[p] = "push" /\ kept[p] # <<>> /\ Pushed(Last(kept[p]))
      /\ kept' = [kept EXCEPT ![p] = Front(kept[p])]
      /\ UNCHANGED <<connected, running, requestVars, taskVars, table, reset, old, forgotten,
                     survivors, marred, unanswered>>
  BY DEF PushBack
<1>1. at' = at /\ kept'[p] = Front(kept[p]) /\ survivors' = [survivors EXCEPT ![p] = survivors'[p]]
  BY <1>0 DEF PushBack, IInv, TypeOK
<1>2. survivors[p] \in Seq(Row) /\ kept[p] \in Seq(Row) /\ list \in Seq(Row)
  BY DEF IInv, TypeOK
<1>3. ASSUME ~marred PROVE Held(survivors'[p], kept'[p], list', unanswered')
  <2>1. Held(survivors[p], kept[p], list, unanswered)
    BY <1>0, <1>3, Holding
  <2>2. Held(survivors[p], Front(kept[p]), <<Last(kept[p])>> \o list, unanswered)
    BY <1>0, <1>2, <2>1, HeldBack
  <2> QED
    BY <1>0, <1>1, <2>2 DEF Pushed
<1> QED
  BY <1>0, <1>1, <1>2, <1>3, BackInv DEF resetVars

LEMMA PushBackAgainInv ==
    ASSUME IInv, NEW p \in Purge, PushBackAgain(p)
    PROVE  IInv'
<1>0. /\ at[p] = "push" /\ kept[p] # <<>> /\ Pushed(Last(kept[p]))
      /\ unanswered' = unanswered \cup {Last(kept[p])}
      /\ UNCHANGED <<connected, running, requestVars, taskVars, table, resetVars, at, kept,
                     survivors, marred>>
  BY DEF PushBackAgain, PushedUnanswered, purgeVars
<1>1. /\ kept' = [kept EXCEPT ![p] = kept'[p]]
      /\ survivors' = [survivors EXCEPT ![p] = survivors'[p]]
  BY <1>0 DEF IInv, TypeOK
<1>2. survivors[p] \in Seq(Row) /\ kept[p] \in Seq(Row) /\ list \in Seq(Row)
  BY DEF IInv, TypeOK
<1>3. ASSUME ~marred PROVE Held(survivors'[p], kept'[p], list', unanswered')
  <2>1. Held(survivors[p], kept[p], list, unanswered) /\ Last(kept[p]) \in Row
    BY <1>0, <1>3, Holding
  <2>2. Held(survivors[p], kept[p], list, unanswered')
    BY <1>0, <2>1, HeldMore
  <2>3. Held(survivors[p], kept[p], <<Last(kept[p])>> \o list, unanswered')
    BY <1>0, <1>2, <2>1, <2>2, HeldPush
  <2> QED
    BY <1>0, <2>3 DEF Pushed
<1> QED
  BY <1>0, <1>1, <1>2, <1>3, BackInv

LEMMA PushBackFailsInv ==
    ASSUME IInv, NEW p \in Purge, PushBackFails(p)
    PROVE  IInv'
<1> USE DEF PurgeStep
<1> DEFINE n == Len(kept[p])
           x == Last(kept[p])
<1>0. /\ at[p] = "push" /\ kept[p] # <<>>
      /\ kept' = [kept EXCEPT ![p] = Front(kept[p])]
      /\ survivors' = [survivors EXCEPT
             ![p] = IF marred THEN survivors[p] ELSE RemoveAt(survivors[p], n)]
      /\ UNCHANGED <<connected, running, requestVars, taskVars, table, reset, old, forgotten,
                     marred>>
      /\ \/ Pushed(x) /\ unanswered' = unanswered \cup {x}
         \/ UNCHANGED <<list, unanswered>>
  BY DEF PushBackFails, PushedUnanswered
<1>1. /\ at' = at /\ kept'[p] = Front(kept[p])
      /\ survivors'[p] = IF marred THEN survivors[p] ELSE RemoveAt(survivors[p], n)
  BY <1>0 DEF PushBackFails, IInv, TypeOK
<1>2. survivors[p] \in Seq(Row) /\ kept[p] \in Seq(Row) /\ list \in Seq(Row)
      /\ Front(kept[p]) \in Seq(Row) /\ x \in Row
  BY <1>0, Holding
<1>3. ASSUME ~marred
      PROVE  /\ n \in 1..Len(survivors[p])
             /\ Held(RemoveAt(survivors[p], n), Front(kept[p]), list, unanswered)
  <2>1. Held(survivors[p], kept[p], list, unanswered)
    BY <1>0, <1>3, Holding
  <2> QED
    BY <1>0, <1>2, <2>1, HeldStruck
<1> HIDE DEF n, x
<1>4. survivors'[p] \in Seq(Row) /\ ToSet(survivors'[p]) \subseteq ToSet(survivors[p])
  <2>1. CASE marred
    BY <1>1, <1>2, <2>1
  <2>2. CASE ~marred
    BY <1>1, <1>2, <1>3, <2>2, Struck
  <2> QED
    BY <2>1, <2>2
<1>5. ASSUME ~marred PROVE Held(survivors'[p], kept'[p], list', unanswered')
  <2>1. Held(survivors'[p], kept'[p], list, unanswered)
    BY <1>1, <1>3, <1>5
  <2>2. CASE UNCHANGED <<list, unanswered>>
    BY <2>1, <2>2
  <2>3. CASE Pushed(x) /\ unanswered' = unanswered \cup {x}
    <3>1. Held(survivors'[p], kept'[p], list, unanswered')
      BY <2>1, <2>3, HeldMore
    <3>2. Held(survivors'[p], kept'[p], <<x>> \o list, unanswered')
      BY <1>1, <1>2, <1>4, <2>3, <3>1, HeldPush
    <3> QED
      BY <2>3, <3>2 DEF Pushed
  <2> QED
    BY <1>0, <2>2, <2>3
<1>6. survivors' = [survivors EXCEPT ![p] = survivors'[p]]
      /\ kept' = [kept EXCEPT ![p] = kept'[p]]
  BY <1>0, <1>1
<1>7. UNCHANGED resetVars
  BY <1>0 DEF resetVars
<1> QED
  BY <1>0, <1>1, <1>4, <1>5, <1>6, <1>7, BackInv DEF x

LEMMA EndPurgeInv ==
    ASSUME IInv, NEW p \in Purge, EndPurge(p)
    PROVE  IInv'
<1> USE DEF IInv, requestVars, taskVars, PurgeStep
<1>0. /\ at[p] = "push" /\ at' = [at EXCEPT ![p] = "idle"] /\ kept[p] = <<>>
      /\ survivors' = [survivors EXCEPT ![p] = <<>>]
      /\ UNCHANGED <<connected, running, requestVars, taskVars, reset, list, unanswered, table,
                     kept, marred, old, forgotten>>
  BY DEF EndPurge
<1>1. <<>> \in Seq(Row) /\ ToSet(<<>>) = {}
  BY EmptyElements
<1>2. TypeOK'
  BY <1>0, <1>1 DEF TypeOK
<1>3. Tasks'
  BY <1>0 DEF Tasks
<1>4. \A q \in Purge : /\ at'[q] = IF q = p THEN "idle" ELSE at[q]
                       /\ survivors'[q] = IF q = p THEN <<>> ELSE survivors[q]
  BY <1>0 DEF TypeOK
<1>5. Carried' = Carried /\ Writable' = Writable /\ Stored' \subseteq Stored
  BY <1>0, <1>1, <1>4 DEF Carried, Writable, InHand, Stored
<1>6. Unstored'
  BY <1>0, <1>5, SameStoring
<1>7. Apart'
  BY <1>0, <1>5 DEF Apart
<1>8. Removed'
  <2>1. Writable \cap old = {}
    BY DEF Removed
  <2> QED
    BY <1>0, <1>5, <2>1, KeepRemoved
<1>9. Purges'
  <2>1. ~marred' => /\ ~marred /\ RepeatsOnly(list', unanswered')
                    /\ \A q \in Purge : q # p => ~Rewriting(q)
    BY <1>0 DEF Purges, Rewriting
  <2>2. at'[p] \notin {"delete", "push"}
    BY <1>4
  <2> QED
    BY <1>0, <1>4, <2>1, <2>2, KeepPurge
<1> QED
  BY <1>2, <1>3, <1>6, <1>7, <1>8, <1>9

LEMMA ContinueInv ==
    ASSUME IInv, NEW p \in Purge, Continue(p)
    PROVE  IInv'
BY PurgeTableInv, ReadListInv, DeleteListInv, PushBackInv, PushBackAgainInv, PushBackFailsInv,
   EndPurgeInv DEF Continue

-----------------------------------------------------------------------------
(* A reset of everything. *)

LEMMA ResetStopsInv ==
    ASSUME IInv, ResetStops
    PROVE  IInv'
<1> USE DEF IInv, requestVars, listVars, purgeVars, ResetStops
<1>1. ToSet(queue') = {} /\ IsInjective(queue')
  BY EmptyElements
<1>2. TypeOK'
  <2>1. Len(<<>>) <= QueueSize /\ <<>> \in Seq(Row)
    BY LogAssumption
  <2>2. old' \subseteq Row
    BY DEF TypeOK
  <2> QED
    BY <2>1, <2>2 DEF TypeOK
<1>3. Tasks'
  BY <1>1 DEF Tasks
<1>4. Carried' = Carried /\ InHand' = InHand
  BY DEF Carried, InHand
<1>5. Stored' = Stored /\ Writable' \subseteq Writable /\ old' \cap Writable' = {}
  BY <1>1, <1>4 DEF Stored, Writable
<1>6. Unstored'
  <2>1. \A w \in Worker : Storing(w)' => Storing(w) /\ hand'[w] = hand[w]
    BY DEF Storing
  <2> QED
    BY <1>1, <1>5, <2>1, KeepUnstoredSame
<1>7. Apart'
  BY <1>4 DEF Apart
<1>8. Removed'
  BY <1>5 DEF Removed, OldRowsStayAway
<1>9. Purges'
  BY SamePurges
<1> QED
  BY <1>2, <1>3, <1>6, <1>7, <1>8, <1>9

\* A step that may empty the list or the table, and leaves the purges alone.
LEMMA EmptyingInv ==
    ASSUME IInv,
           UNCHANGED <<connected, running, requestVars, taskVars, unanswered, purgeVars>>,
           list' = list \/ list' = <<>>, table' = table \/ table' = <<>>,
           reset' \in {"idle", "list"},
           old' \cup forgotten' \subseteq old \cup forgotten, Removed'
    PROVE  IInv'
<1> USE DEF IInv, requestVars, purgeVars
<1>1. <<>> \in Seq(Row) /\ ToSet(<<>>) = {} /\ RepeatsOnly(<<>>, unanswered)
  BY EmptyElements, MoreRepeats
<1>2. /\ list' \in Seq(Row) /\ table' \in Seq(Row)
      /\ ToSet(list') \subseteq ToSet(list) /\ ToSet(table') \subseteq ToSet(table)
  <2>1. list \in Seq(Row) /\ table \in Seq(Row)
    BY DEF TypeOK
  <2> QED
    BY <1>1, <2>1
<1>3. TypeOK'
  <2>1. old' \subseteq Row /\ forgotten' \subseteq Row
    BY DEF TypeOK
  <2> QED
    BY <1>2, <2>1 DEF TypeOK, taskVars
<1>4. Tasks'
  BY DEF Tasks, taskVars
<1>5. Carried' = Carried /\ Stored' \subseteq Stored
  BY <1>2 DEF Carried, Stored
<1>6. Unstored'
  BY <1>5, SameStoring
<1>7. Apart'
  BY <1>2, <1>5 DEF Apart
<1>8. Purges'
  <2>1. ASSUME NEW p \in Purge, at[p] = "push", ~marred
        PROVE  Held(survivors[p], kept[p], list', unanswered')
    <3>1. Held(survivors[p], kept[p], list, unanswered)
      BY <2>1 DEF Purges, Rewriting, Rewritten
    <3>2. Held(survivors[p], kept[p], <<>>, unanswered)
      BY <3>1, HeldEmpty DEF Held
    <3> QED
      BY <3>1, <3>2
  <2>2. ~marred => RepeatsOnly(list', unanswered')
    BY <1>1 DEF Purges
  <2> QED
    BY <2>1, <2>2, KeepPurges
<1> QED
  BY <1>3, <1>4, <1>6, <1>7, <1>8

LEMMA ResetInv ==
    ASSUME IInv, Truncate \/ TruncateFails \/ ResetList
    PROVE  IInv'
<1> USE DEF ResetStep, requestVars, taskVars, purgeVars
<1>1. Writable' = Writable /\ logged' = logged
  BY DEF Truncate, TruncateFails, ResetList, Writable, InHand, Carried
<1>2. ToSet(<<>>) = {}
  BY EmptyElements
<1>3. CASE Truncate
  <2>1. Removed'
    BY <1>1, <1>2, <1>3 DEF IInv, Removed, OldRowsStayAway, Truncate
  <2> QED
    BY <1>3, <2>1, EmptyingInv DEF Truncate
<1>4. CASE TruncateFails
  <2>1. Removed'
    BY <1>1, <1>2, <1>4 DEF IInv, Removed, OldRowsStayAway, TruncateFails
  <2>2. table' = table \/ table' = <<>>
    BY <1>4 DEF TruncateFails
  <2> QED
    BY <1>4, <2>1, <2>2, EmptyingInv DEF TruncateFails
<1>5. CASE ResetList
  <2>1. CASE list' = <<>> /\ forgotten' = forgotten \cup old
    <3>1. Removed'
      BY <1>1, <1>2, <1>5, <2>1 DEF IInv, Removed, OldRowsStayAway, ResetList
    <3> QED
      BY <1>5, <2>1, <3>1, EmptyingInv DEF ResetList
  <2>2. CASE list' = list /\ forgotten' = forgotten
    <3>1. Removed'
      BY <1>1, <1>5, <2>2 DEF IInv, Removed, OldRowsStayAway, ResetList
    <3> QED
      BY <1>5, <2>2, <3>1, EmptyingInv DEF ResetList
  <2> QED
    BY <1>5, <2>1, <2>2 DEF ResetList
<1> QED
  BY <1>3, <1>4, <1>5

-----------------------------------------------------------------------------
LEMMA NextInv == IInv /\ [Next]_vars => IInv'
<1> SUFFICES ASSUME IInv, [Next]_vars PROVE IInv'
  OBVIOUS
<1>1. ASSUME NEW r \in Sim, Ask(r) PROVE IInv'
  <2>1. TypeOK'
    BY <1>1 DEF IInv, TypeOK, Ask, requestVars, taskVars, listVars, purgeVars, resetVars
  <2> QED
    BY <1>1, <2>1, Alone DEF Ask
<1>2. ASSUME NEW r \in Row, Submit(r) PROVE IInv'
  BY <1>2, SubmitInv
<1>3. ASSUME NEW w \in Worker, Work(w) PROVE IInv'
  BY <1>3, WorkInv
<1>4. CASE Prune
  BY <1>4, PruneInv
<1>5. CASE StartSimulator
  <2>1. TypeOK'
    BY <1>5 DEF IInv, TypeOK, StartSimulator, requestVars, taskVars, listVars, purgeVars,
                resetVars
  <2> QED
    BY <1>5, <2>1, Alone DEF StartSimulator, requestVars
<1>6. CASE StopSimulator
  BY <1>6, StopSimulatorInv
<1>7. CASE ResetSession
  BY <1>7, ResetSessionInv
<1>8. ASSUME NEW p \in Purge, Continue(p) PROVE IInv'
  BY <1>8, ContinueInv
<1>9. CASE ResetStops
  BY <1>9, ResetStopsInv
<1>10. CASE Truncate \/ TruncateFails \/ ResetList
  BY <1>10, ResetInv
<1>11. CASE UNCHANGED vars
  <2>1. TypeOK'
    BY <1>11 DEF IInv, TypeOK, vars, requestVars, taskVars, listVars, purgeVars, resetVars
  <2> QED
    BY <1>11, <2>1, Alone DEF vars, requestVars
<1> QED
  BY <1>1, <1>2, <1>3, <1>4, <1>5, <1>6, <1>7, <1>8, <1>9, <1>10, <1>11 DEF Next

LEMMA Invariance == Spec => []IInv
BY InitInv, NextInv, PTL DEF Spec

-----------------------------------------------------------------------------
\* The queue never holds more tasks than dbTaskQueue has room for, and the workers and
\* the purges are always at a call of LogTransactionState, stopSimulatorLocally,
\* handleAPISessionReset or handleAPISystemReset.
THEOREM Typing == Spec => []TypeOK
<1>1. IInv => TypeOK
  BY DEF IInv
<1> QED
  BY <1>1, Invariance, PTL

\* However many workers push, trim and insert, and whichever calls fail, a transaction
\* that LPush was never carried out for without being answered is not in both
\* active_inference:logs and runtime_inference_state, nor in the list twice until two
\* purges overlap or one cannot delete it.
THEOREM OncePerRow == Spec => []LoggedOnce
<1>1. IInv => LoggedOnce
  BY DEF IInv, Apart, Purges, LoggedOnce
<1> QED
  BY <1>1, Invariance, PTL

\* A purge that deletes the list and pushes back, from its end, what it spares leaves
\* that in the order it was in, whatever requests push and trim meanwhile; entries that
\* are pushed again for want of an answer do not disturb the others.
THEOREM Order == Spec => []PurgeKeepsOrder
<1>1. ASSUME IInv PROVE PurgeKeepsOrder
  <2> SUFFICES ASSUME NEW p \in Purge, at[p] = "push", ~marred
               PROVE  /\ IsPrefix(kept[p], survivors[p])
                      /\ ToSet(kept[p]) \cap ToSet(list) \subseteq unanswered
                      /\ InOrder(survivors[p], Len(kept[p]), list, unanswered)
    BY DEF PurgeKeepsOrder, InOrder
  <2>1. Held(survivors[p], kept[p], list, unanswered)
    BY <1>1 DEF IInv, Purges, Rewriting, Rewritten
  <2>2. kept[p] \in Seq(Row) /\ survivors[p] \in Seq(Row)
    BY <1>1 DEF IInv, TypeOK
  <2>3. Len(kept[p]) <= Len(survivors[p])
        /\ \A i \in 1..Len(kept[p]) : kept[p][i] = survivors[p][i]
    BY <2>1 DEF Held, Beginning
  <2>4. SubSeq(kept[p], 1, Len(kept[p])) = SubSeq(survivors[p], 1, Len(kept[p]))
    BY <2>2, <2>3
  <2>5. IsPrefix(kept[p], survivors[p])
    BY <2>3, <2>4 DEF IsPrefix
  <2> QED
    BY <2>1, <2>5 DEF Held
<1> QED
  BY <1>1, Invariance, PTL

\* A system reset that is completed is final for the transactions logged, or queued to
\* be, before it began, other than those a worker had in hand then and those a purge
\* carried while it was going on: they are in neither log again.
THEOREM ResetIsFinal == Spec => []OldRowsStayAway
<1>1. IInv => OldRowsStayAway
  BY DEF IInv, Removed
<1> QED
  BY <1>1, Invariance, PTL
=============================================================================

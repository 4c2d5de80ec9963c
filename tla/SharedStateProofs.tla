------------------------- MODULE SharedStateProofs -------------------------
(***************************************************************************)
(* Proofs about three parts of the gateway that all requests share: the    *)
(* slices of the rate limiter, the counters of the metrics, and the agent  *)
(* keys with their cache and loops; for any headers, window, limit and     *)
(* supply of entries, any transactions, workers and resets, and any keys,  *)
(* clients and loops.                                                      *)
(***************************************************************************)
EXTENDS AgentFleet, Metrics, RateLimiter, FiniteSetTheorems, TLAPS

(***************************************************************************)
(* The rate limiter.                                                       *)
(***************************************************************************)

\* What a slice has to remember for its count to mean something: it is finite, and
\* it holds every request of its key that is still in the window, and no other.
SliceFaithful ==
    \A k \in Header :
        /\ IsFiniteSet(rateStore[k])
        /\ InWindow(arrived[k]) = InWindow(rateStore[k])
        /\ admitted[k] \subseteq arrived[k]

SliceInv == LimiterTypeOK /\ SliceFaithful /\ AdmissionsBounded

\* Slices only ever hold entries, ages stay in range.
THEOREM SliceTyping == LimiterSpec => []LimiterTypeOK
<1> USE LimiterAssumption DEF LimiterTypeOK
<1>1. LimiterInit => LimiterTypeOK
  BY DEF LimiterInit
<1>2. LimiterTypeOK /\ [LimiterNext]_limiterVars => LimiterTypeOK'
  <2> SUFFICES ASSUME LimiterTypeOK, [LimiterNext]_limiterVars PROVE LimiterTypeOK'
    OBVIOUS
  <2>1. CASE Tick
    BY <2>1 DEF Tick
  <2>2. ASSUME NEW k \in Header, NEW e \in Entry, Check(k, e)
        PROVE  LimiterTypeOK'
    BY <2>2 DEF Check, Recorded, InWindow
  <2>3. CASE UNCHANGED limiterVars
    BY <2>3 DEF limiterVars
  <2> QED
    BY <2>1, <2>2, <2>3 DEF LimiterNext
<1> QED
  BY <1>1, <1>2, PTL DEF LimiterSpec

\* The window of a finite slice is finite.
LEMMA WindowFinite ==
    ASSUME NEW S, IsFiniteSet(S)
    PROVE  IsFiniteSet(InWindow(S)) /\ Cardinality(InWindow(S)) <= Cardinality(S)
BY FS_Subset DEF InWindow

\* Time only moves entries out of the window.
LEMMA TickStep ==
    ASSUME SliceInv, Tick
    PROVE  SliceInv'
<1> USE LimiterAssumption DEF SliceInv
<1>1. LimiterTypeOK'
  BY DEF Tick, LimiterTypeOK
<1>2. SliceFaithful'
  <2> SUFFICES ASSUME NEW k \in Header
               PROVE  InWindow(arrived[k])' = InWindow(rateStore[k])'
    BY DEF Tick, SliceFaithful
  <2>1. \A e \in arrived[k] : age'[e] <= Window => age[e] <= Window
    BY DEF Tick, LimiterTypeOK
  <2>2. \A e \in rateStore[k] : age'[e] <= Window => age[e] <= Window
    BY DEF Tick, LimiterTypeOK
  <2>3. InWindow(arrived[k]) = InWindow(rateStore[k])
    BY DEF SliceFaithful
  <2> QED
    BY <2>1, <2>2, <2>3 DEF Tick, InWindow
<1>3. AdmissionsBounded'
  <2> SUFFICES ASSUME NEW k \in Header
               PROVE  Cardinality(InWindow(admitted[k]))' <= Limit
    BY DEF AdmissionsBounded
  <2>1. InWindow(admitted[k])' \subseteq InWindow(admitted[k])
    BY DEF Tick, LimiterTypeOK, InWindow
  <2>2. InWindow(admitted[k]) \subseteq InWindow(rateStore[k])
    BY DEF SliceFaithful, InWindow
  <2>3. IsFiniteSet(InWindow(admitted[k]))
    BY <2>2, WindowFinite, FS_Subset DEF SliceFaithful
  <2>4. /\ IsFiniteSet(InWindow(admitted[k])')
        /\ Cardinality(InWindow(admitted[k])') <= Cardinality(InWindow(admitted[k]))
    BY <2>1, <2>3, FS_Subset
  <2>5. /\ Cardinality(InWindow(admitted[k])') \in Nat
        /\ Cardinality(InWindow(admitted[k])) \in Nat
    BY <2>3, <2>4, FS_CardinalityType
  <2>6. Cardinality(InWindow(admitted[k])) <= Limit
    BY DEF AdmissionsBounded
  <2> QED
    BY <2>4, <2>5, <2>6
<1> QED
  BY <1>1, <1>2, <1>3

\* A check counts every request that is still in the window.
LEMMA CheckStep ==
    ASSUME SliceInv, LimiterTypeOK', NEW k \in Header, NEW e \in Entry, Check(k, e)
    PROVE  SliceInv'
<1> USE LimiterAssumption DEF SliceInv
<1>0. /\ age' = [age EXCEPT ![e] = 0]
      /\ age'[e] = 0
      /\ age[e] > Window
      /\ \A c \in Header : e \notin rateStore[c]
  BY DEF Check, Unused, LimiterTypeOK
<1>1. ASSUME NEW c \in Header
      PROVE  /\ InWindow(rateStore[c]) \subseteq rateStore'[c]
             /\ e \notin InWindow(rateStore[c])
             /\ InWindow(arrived[c]) = InWindow(rateStore[c])
  BY <1>0 DEF Check, Recorded, InWindow, SliceFaithful, LimiterTypeOK
<1>2. SliceFaithful'
  <2> SUFFICES ASSUME NEW c \in Header
               PROVE  /\ IsFiniteSet(rateStore'[c])
                      /\ InWindow(arrived[c])' = InWindow(rateStore[c])'
                      /\ admitted'[c] \subseteq arrived'[c]
    BY DEF SliceFaithful
  <2>1. IsFiniteSet(rateStore'[c])
    <3>1. IsFiniteSet(Recorded(k, e))
      BY WindowFinite, FS_AddElement DEF Recorded, SliceFaithful
    <3> QED
      BY <3>1 DEF Check, SliceFaithful, LimiterTypeOK
  <2>2. InWindow(arrived[c])' = InWindow(rateStore[c])'
    <3>1. CASE c = k
      <4>1. rateStore'[c] = InWindow(rateStore[c]) \cup {e}
        BY <3>1 DEF Check, Recorded, LimiterTypeOK
      <4>2. arrived'[c] = arrived[c] \cup {e}
        BY <3>1 DEF Check, LimiterTypeOK
      <4> QED
        BY <4>1, <4>2, <1>0, <1>1 DEF InWindow, LimiterTypeOK
    <3>2. CASE c # k
      <4>1. rateStore'[c] = rateStore[c] /\ arrived'[c] = arrived[c] \ {e}
        BY <3>2 DEF Check, LimiterTypeOK
      <4> QED
        BY <4>1, <1>0, <1>1 DEF InWindow, LimiterTypeOK
    <3> QED
      BY <3>1, <3>2
  <2>3. admitted'[c] \subseteq arrived'[c]
    BY DEF Check, SliceFaithful
  <2> QED
    BY <2>1, <2>2, <2>3
<1>3. AdmissionsBounded'
  <2> SUFFICES ASSUME NEW c \in Header
               PROVE  Cardinality(InWindow(admitted[c]))' <= Limit
    BY DEF AdmissionsBounded
  <2>1. CASE c = k /\ Cardinality(Recorded(k, e)) <= Limit
    <3>1. InWindow(admitted[c])' \subseteq Recorded(k, e)
      <4>1. admitted'[c] = admitted[c] \cup {e}
        BY <2>1 DEF Check
      <4>2. InWindow(admitted[c])' \subseteq InWindow(admitted[c]) \cup {e}
        BY <4>1, <1>0 DEF InWindow, LimiterTypeOK
      <4>3. InWindow(admitted[c]) \subseteq InWindow(arrived[c])
        BY DEF InWindow, SliceFaithful
      <4> QED
        BY <2>1, <4>2, <4>3, <1>1 DEF Recorded
    <3>2. IsFiniteSet(Recorded(k, e))
      BY WindowFinite, FS_AddElement DEF Recorded, SliceFaithful
    <3>3. /\ IsFiniteSet(InWindow(admitted[c])')
          /\ Cardinality(InWindow(admitted[c])') <= Cardinality(Recorded(k, e))
      BY <3>1, <3>2, FS_Subset
    <3>4. /\ Cardinality(InWindow(admitted[c])') \in Nat
          /\ Cardinality(Recorded(k, e)) \in Nat
      BY <3>2, <3>3, FS_CardinalityType
    <3> QED
      BY <2>1, <3>3, <3>4
  <2>2. CASE ~(c = k /\ Cardinality(Recorded(k, e)) <= Limit)
    <3>1. admitted'[c] = admitted[c] \ {e}
      BY <2>2 DEF Check
    <3>2. InWindow(admitted[c])' = InWindow(admitted[c])
      BY <3>1, <1>0 DEF InWindow, LimiterTypeOK
    <3> QED
      BY <3>2 DEF AdmissionsBounded
  <2> QED
    BY <2>1, <2>2
<1> QED
  BY <1>2, <1>3

\* The slices are faithful and the admissions bounded in every reachable state.
THEOREM SliceInvariance == LimiterSpec => []SliceInv
<1>1. LimiterInit => SliceInv
  <2>1. LimiterInit => LimiterTypeOK
    BY LimiterAssumption DEF LimiterInit, LimiterTypeOK
  <2>2. IsFiniteSet({}) /\ Cardinality({}) = 0
    BY FS_EmptySet
  <2>3. InWindow({}) = {}
    BY DEF InWindow
  <2>4. LimiterInit => SliceFaithful
    BY <2>2 DEF LimiterInit, SliceFaithful
  <2>5. LimiterInit => AdmissionsBounded
    BY <2>2, <2>3, LimiterAssumption DEF LimiterInit, AdmissionsBounded
  <2> QED
    BY <2>1, <2>4, <2>5 DEF SliceInv
<1>2. SliceInv /\ LimiterTypeOK' /\ [LimiterNext]_limiterVars => SliceInv'
  <2> SUFFICES ASSUME SliceInv, LimiterTypeOK', [LimiterNext]_limiterVars PROVE SliceInv'
    OBVIOUS
  <2>1. CASE UNCHANGED limiterVars
    BY <2>1 DEF limiterVars, SliceInv, LimiterTypeOK, SliceFaithful, AdmissionsBounded, InWindow
  <2> QED
    BY <2>1, TickStep, CheckStep DEF LimiterNext
<1> QED
  BY <1>1, <1>2, SliceTyping, PTL DEF LimiterSpec

\* No window contains more than Limit admitted requests of a key, for every limit,
\* window and pattern of arrivals.
THEOREM Bounded == LimiterSpec => []AdmissionsBounded
BY SliceInvariance, PTL DEF SliceInv

\* A check refuses only when the window already holds Limit requests of its key.
LEMMA RefusalNeedsFlood ==
    ASSUME SliceInv, NEW k \in Header, NEW e \in Entry, Check(k, e), e \notin admitted'[k]
    PROVE  Cardinality(InWindow(arrived[k])) >= Limit
<1>1. ~(Cardinality(Recorded(k, e)) <= Limit)
  BY DEF Check
<1>2. InWindow(arrived[k]) = InWindow(rateStore[k])
  BY DEF SliceInv, SliceFaithful
<1>3. IsFiniteSet(InWindow(rateStore[k])) /\ e \notin InWindow(rateStore[k])
  BY WindowFinite DEF SliceInv, SliceFaithful, Check, Unused, InWindow
<1>4. Cardinality(Recorded(k, e)) = Cardinality(InWindow(rateStore[k])) + 1
  BY <1>3, FS_AddElement DEF Recorded
<1>5. Cardinality(InWindow(rateStore[k])) \in Nat
  BY <1>3, FS_CardinalityType
<1> QED
  BY <1>1, <1>2, <1>4, <1>5, LimiterAssumption

\* Requests are refused only under a flood of their own key.
THEOREM RefusalsJustified == LimiterSpec => RefusedOnlyUnderFlood
<1>1. SliceInv /\ [LimiterNext]_limiterVars =>
        [\A k \in Header, e \in Entry :
            Check(k, e) /\ e \notin admitted'[k]
                => Cardinality(InWindow(arrived[k])) >= Limit]_limiterVars
  BY RefusalNeedsFlood
<1> QED
  BY <1>1, SliceInvariance, PTL DEF LimiterSpec, RefusedOnlyUnderFlood

-----------------------------------------------------------------------------
(***************************************************************************)
(* The counters of the metrics.                                            *)
(***************************************************************************)

LEMMA InitCounterTypes == MetricsInit => MetricsTypeOK
<1> SUFFICES ASSUME MetricsInit PROVE MetricsTypeOK
  OBVIOUS
<1>1. hand \in [Worker -> Transaction \cup {NoTransaction}]
  BY DEF MetricsInit
<1>2. step \in [Worker -> {"idle", "push", "insert", "count", "countBlock"}]
  BY DEF MetricsInit
<1>3. MaxResets \in Nat /\ 0 \in 0..MaxResets
  BY MetricsAssumption
<1> QED
  BY <1>1, <1>2, <1>3 DEF MetricsInit, MetricsTypeOK

LEMMA AddsType ==
  ASSUME NEW total \in Nat, NEW taking \in Nat, NEW update \in Adds(total, taking)
  PROVE  /\ update.total \in {total, total + taking}
         /\ update.error \in BOOLEAN
         /\ ~update.error => update.total = total + taking
<1>1. CASE update = [total |-> total + taking, error |-> FALSE]
  BY <1>1
<1>2. CASE update \in [total: {total, total + taking}, error: {TRUE}]
  BY <1>2
<1> QED
  BY <1>1, <1>2 DEF Adds

LEMMA WorkerTypes ==
  ASSUME MetricsTypeOK, NEW w \in Worker, Log(w)
  PROVE  MetricsTypeOK'
<1> USE DEF MetricsTypeOK, syncer, totals, resetVars, deltas, history
<1>1. ASSUME NEW from \in {"push", "insert", "count", "countBlock"},
             NEW to \in {"idle", "insert", "count", "countBlock"},
             Proceed(w, from, to)
      PROVE  /\ hand' \in [Worker -> Transaction \cup {NoTransaction}]
             /\ step' \in [Worker -> {"idle", "push", "insert", "count", "countBlock"}]
             /\ UNCHANGED <<connected, taken, reqs, blks, sync, totalRequests, totalBlocks,
                            resetting, resets, disturbed>>
  BY <1>1 DEF Proceed
<1>2. CASE Push(w)
  BY <1>1, <1>2 DEF Push
<1>3. CASE Insert(w)
  BY <1>1, <1>3 DEF Insert
<1>4. CASE CountRequest(w)
  BY <1>1, <1>4 DEF CountRequest
<1>5. CASE CountBlock(w)
  BY <1>1, <1>5 DEF CountBlock
<1> QED
  BY <1>2, <1>3, <1>4, <1>5 DEF Log

LEMMA NextCounterTypes == MetricsTypeOK /\ [MetricsNext]_metricsVars => MetricsTypeOK'
<1> SUFFICES ASSUME MetricsTypeOK, [MetricsNext]_metricsVars PROVE MetricsTypeOK'
  OBVIOUS
<1> USE MetricsAssumption
<1> USE DEF MetricsTypeOK, workerVars, deltas, syncer, totals, resetVars, history
<1>1. ASSUME NEW w \in Worker, NEW t \in Transaction, Take(w, t) PROVE MetricsTypeOK'
  BY <1>1 DEF Take
<1>2. ASSUME NEW w \in Worker, Log(w) PROVE MetricsTypeOK'
  BY <1>2, WorkerTypes
<1>3. CASE SwapRequests
  BY <1>3 DEF SwapRequests
<1>4. CASE SwapBlocks
  BY <1>4 DEF SwapBlocks
<1>5. CASE AddRequests
  BY <1>5, AddsType DEF AddRequests
<1>6. CASE AddBlocks
  BY <1>6, AddsType DEF AddBlocks
<1>7. CASE ZeroTotals
  BY <1>7 DEF ZeroTotals, Goes
<1>8. CASE ZeroRequests
  BY <1>8 DEF ZeroRequests, Goes
<1>9. CASE ZeroBlocks
  BY <1>9 DEF ZeroBlocks, Goes
<1>10. CASE UNCHANGED metricsVars
  BY <1>10 DEF metricsVars
<1> QED
  BY <1>1, <1>2, <1>3, <1>4, <1>5, <1>6, <1>7, <1>8, <1>9, <1>10 DEF MetricsNext, Sync

(* The counters hold numbers and a worker that is logging has something to *)
(* log (LogTransactionState, StartMetricsSyncer, ResetLocalMetrics).       *)
THEOREM CounterTyping == MetricsSpec => []MetricsTypeOK
  BY InitCounterTypes, NextCounterTypes, PTL DEF MetricsSpec

-----------------------------------------------------------------------------
LEMMA NextCountedOnce == MetricsTypeOK /\ CountedOnce /\ [MetricsNext]_metricsVars => CountedOnce'
<1> SUFFICES ASSUME MetricsTypeOK, CountedOnce, [MetricsNext]_metricsVars PROVE CountedOnce'
  OBVIOUS
<1> USE DEF MetricsTypeOK, CountedOnce, workerVars, deltas, syncer, totals, resetVars, history
<1>1. ASSUME NEW w \in Worker, NEW t \in Transaction, Take(w, t) PROVE CountedOnce'
  BY <1>1 DEF Take
<1>2. ASSUME NEW w \in Worker, Log(w) PROVE CountedOnce'
  BY <1>2 DEF Log, Push, Insert, CountRequest, CountBlock, Proceed
<1>3. CASE SwapRequests
  BY <1>3 DEF SwapRequests
<1>4. CASE SwapBlocks
  BY <1>4 DEF SwapBlocks
<1>5. CASE AddRequests
  BY <1>5, AddsType DEF AddRequests
<1>6. CASE AddBlocks
  BY <1>6, AddsType DEF AddBlocks
<1>7. CASE ZeroTotals
  BY <1>7 DEF ZeroTotals, Goes
<1>8. CASE ZeroRequests
  BY <1>8 DEF ZeroRequests, Goes
<1>9. CASE ZeroBlocks
  BY <1>9 DEF ZeroBlocks, Goes
<1>10. CASE UNCHANGED metricsVars
  BY <1>10 DEF metricsVars
<1> QED
  BY <1>1, <1>2, <1>3, <1>4, <1>5, <1>6, <1>7, <1>8, <1>9, <1>10 DEF MetricsNext, Sync

(* Rows, hands and counters never hold more than was logged, across        *)
(* failing updates and resets that overlap the syncer's round              *)
(* (StartMetricsSyncer, ResetLocalMetrics).                                *)
THEOREM NoDoubleCount == MetricsSpec => []CountedOnce
<1>1. MetricsInit => CountedOnce
  BY DEF MetricsInit, CountedOnce
<1> QED
  BY <1>1, InitCounterTypes, NextCounterTypes, NextCountedOnce, PTL DEF MetricsSpec

-----------------------------------------------------------------------------
\* The workers that have counted a request and have yet to count its block.
Due == {w \in Worker : step[w] = "countBlock"}

\* The syncer's hands are empty of requests when it swaps the counter.
EmptyHanded == sync \in {"addBlocks", "swapRequests"} => reqs = 0

\* Blocks that are due are covered by requests too.
Covered ==
    ~disturbed =>
        /\ resetting = "idle"
        /\ totalBlocks + blks + deltaBlocks + Cardinality(Due)
           <= totalRequests + reqs + deltaRequests

IInv == MetricsTypeOK /\ EmptyHanded /\ Covered

LEMMA DueFinite == IsFiniteSet(Due) /\ Cardinality(Due) \in Nat
  BY MetricsAssumption, FS_Subset, FS_CardinalityType DEF Due

LEMMA InitIInv == MetricsInit => IInv
<1> SUFFICES ASSUME MetricsInit PROVE IInv
  OBVIOUS
<1>1. Due = {}
  BY DEF MetricsInit, Due
<1> QED
  BY <1>1, InitCounterTypes, FS_EmptySet DEF MetricsInit, IInv, EmptyHanded, Covered

LEMMA NextEmptyHanded == IInv /\ [MetricsNext]_metricsVars => EmptyHanded'
<1> SUFFICES ASSUME IInv, [MetricsNext]_metricsVars PROVE EmptyHanded'
  OBVIOUS
<1> USE DEF IInv, EmptyHanded, syncer
<1>1. ASSUME NEW w \in Worker, NEW t \in Transaction, Take(w, t) PROVE EmptyHanded'
  BY <1>1 DEF Take
<1>2. ASSUME NEW w \in Worker, Log(w) PROVE EmptyHanded'
  BY <1>2 DEF Log, Push, Insert, CountRequest, CountBlock, Proceed
<1>3. CASE Sync
  BY <1>3 DEF Sync, SwapRequests, SwapBlocks, AddRequests, AddBlocks
<1>4. CASE ZeroTotals \/ ZeroRequests \/ ZeroBlocks
  BY <1>4 DEF ZeroTotals, ZeroRequests, ZeroBlocks, Goes
<1>5. CASE UNCHANGED metricsVars
  BY <1>5 DEF metricsVars
<1> QED
  BY <1>1, <1>2, <1>3, <1>4, <1>5 DEF MetricsNext

\* What a worker's step does to the blocks that are due.
LEMMA DueAfterWorker ==
  ASSUME MetricsTypeOK, NEW w \in Worker, NEW from, NEW to, Proceed(w, from, to)
  PROVE  /\ (from # "countBlock" /\ to # "countBlock") => Due' = Due
         /\ (from # "countBlock" /\ to = "countBlock")
                => Cardinality(Due)' = Cardinality(Due) + 1
         /\ (from = "countBlock" /\ to # "countBlock")
                => Cardinality(Due)' = Cardinality(Due) - 1
<1> USE DEF MetricsTypeOK, Proceed, Due
<1>1. CASE from # "countBlock" /\ to # "countBlock"
  BY <1>1
<1>2. CASE from # "countBlock" /\ to = "countBlock"
  <2>1. step[w] = from /\ step' = [step EXCEPT ![w] = "countBlock"]
    BY <1>2
  <2>2. w \notin Due
    BY <1>2, <2>1
  <2>3. Due' = Due \cup {w}
    BY <2>1
  <2> QED
    BY <2>2, <2>3, DueFinite, FS_AddElement
<1>3. CASE from = "countBlock" /\ to # "countBlock"
  <2>1. w \in Due /\ Due' = Due \ {w}
    BY <1>3
  <2> QED
    BY <1>3, <2>1, DueFinite, FS_RemoveElement
<1> QED
  BY <1>1, <1>2, <1>3

LEMMA NextCovered == IInv /\ [MetricsNext]_metricsVars => Covered'
<1> SUFFICES ASSUME IInv, [MetricsNext]_metricsVars, ~disturbed' PROVE Covered'
  BY DEF Covered
<1> USE DueFinite
<1> USE DEF IInv, MetricsTypeOK, Covered, deltas, syncer, totals, resetVars
<1>1. ASSUME NEW w \in Worker, NEW t \in Transaction, Take(w, t) PROVE Covered'
  <2>1. Due' = Due
    BY <1>1 DEF Take, Due
  <2> QED
    BY <1>1, <2>1 DEF Take
<1>2. ASSUME NEW w \in Worker, Push(w) \/ Insert(w) PROVE Covered'
  <2>1. Due' = Due
    BY <1>2, DueAfterWorker DEF Push, Insert
  <2> QED
    BY <1>2, <2>1 DEF Push, Insert, Proceed
<1>3. ASSUME NEW w \in Worker, CountRequest(w) PROVE Covered'
  <2>1. Cardinality(Due)' \in {Cardinality(Due), Cardinality(Due) + 1}
    BY <1>3, DueAfterWorker DEF CountRequest
  <2> QED
    BY <1>3, <2>1 DEF CountRequest, Proceed
<1>4. ASSUME NEW w \in Worker, CountBlock(w) PROVE Covered'
  <2>1. Cardinality(Due)' = Cardinality(Due) - 1
    BY <1>4, DueAfterWorker DEF CountBlock
  <2> QED
    BY <1>4, <2>1 DEF CountBlock, Proceed
<1>5. CASE Sync
  <2>1. Due' = Due
    BY <1>5 DEF Sync, SwapRequests, SwapBlocks, AddRequests, AddBlocks, workerVars, Due
  <2>2. CASE SwapRequests
    BY <2>1, <2>2 DEF SwapRequests, EmptyHanded
  <2>3. CASE SwapBlocks
    BY <2>1, <2>3 DEF SwapBlocks
  <2>4. CASE AddRequests
    BY <2>1, <2>4, AddsType DEF AddRequests
  <2>5. CASE AddBlocks
    BY <2>1, <2>5, AddsType DEF AddBlocks
  <2> QED
    BY <1>5, <2>2, <2>3, <2>4, <2>5 DEF Sync
<1>6. CASE ZeroTotals
  BY <1>6 DEF ZeroTotals
<1>7. CASE ZeroRequests \/ ZeroBlocks
  BY <1>7 DEF ZeroRequests, ZeroBlocks, Goes
<1>8. CASE UNCHANGED metricsVars
  <2>1. Due' = Due
    BY <1>8 DEF metricsVars, workerVars, Due
  <2> QED
    BY <1>8, <2>1 DEF metricsVars
<1> QED
  BY <1>1, <1>2, <1>3, <1>4, <1>5, <1>6, <1>7, <1>8 DEF MetricsNext, Log

(* Blocks never exceed requests, wherever between counter and row they are,*)
(* unless an update fails or a reset intervenes (LogTransactionState,      *)
(* StartMetricsSyncer).                                                    *)
THEOREM BlocksCovered == MetricsSpec => []BlocksAreRequests
<1>1. IInv /\ [MetricsNext]_metricsVars => IInv'
  BY NextCounterTypes, NextEmptyHanded, NextCovered DEF IInv
<1>2. IInv => BlocksAreRequests
  BY DueFinite DEF IInv, MetricsTypeOK, Covered, BlocksAreRequests
<1> QED
  BY <1>1, <1>2, InitIInv, PTL DEF MetricsSpec

-----------------------------------------------------------------------------
(***************************************************************************)
(* Agent keys and loops.                                                   *)
(***************************************************************************)

USE DEF Client, Move, Answered, requestVars, loopVars, historyVars

\* The type invariant holds in every reachable state, for all constants.
THEOREM Typing == Spec => []TypeOK
<1> USE RegisteredAssumption, ClientAssumption
<1>1. Init => TypeOK
  BY DEF Init, TypeOK
<1>2. TypeOK /\ [Next]_vars => TypeOK'
  <2> SUFFICES ASSUME TypeOK, [Next]_vars PROVE TypeOK'
    OBVIOUS
  <2> USE DEF TypeOK
  <2>1. ASSUME NEW c \in Client, Validate(c)
        PROVE  TypeOK'
    BY <2>1 DEF Validate, CacheHit, CacheMiss, Query, Store, Tell
  <2>2. ASSUME NEW c \in Client, NEW k \in Key, Request(c, k)
        PROVE  TypeOK'
    BY <2>2 DEF Request, Begin
  <2>3. ASSUME NEW k \in Key, NEW on \in BOOLEAN, Toggle(k, on)
        PROVE  TypeOK'
    BY <2>3 DEF Toggle
  <2>4. ASSUME NEW l \in Loop, NEW k \in Key, StartLoop(l, k)
        PROVE  TypeOK'
    BY <2>4 DEF StartLoop, Begin
  <2>5. ASSUME NEW k \in Key, StopLoop(k)
        PROVE  TypeOK'
    BY <2>5 DEF StopLoop
  <2>6. ASSUME NEW l \in Loop, LoopTick(l) \/ LoopEnds(l)
        PROVE  TypeOK'
    BY <2>6 DEF LoopTick, LoopEnds, Begin
  <2>7. CASE ResetLoops \/ ResetFails \/ ResetKeys
    BY <2>7 DEF ResetLoops, ResetFails, ResetKeys
  <2>8. CASE UNCHANGED vars
    BY <2>8 DEF vars
  <2> QED
    BY <2>1, <2>2, <2>3, <2>4, <2>5, <2>6, <2>7, <2>8 DEF Next
<1> QED
  BY <1>1, <1>2, PTL DEF Spec

-----------------------------------------------------------------------------
(* Loops. *)

\* What stopping a loop relies on: a loop the manager knows runs under that key and is
\* not cancelled, a cancelled loop still runs, and a running one has a key.
LoopInv ==
    /\ \A k \in Key : loops[k] # Nil =>
           loops[k] \notin cancelled /\ pc[loops[k]] # "idle" /\ key[loops[k]] = k
    /\ \A l \in cancelled : pc[l] # "idle"
    /\ \A l \in Loop : pc[l] # "idle" => key[l] \in Key
    /\ RunningLoopsAreKnown

\* LoopInv is inductive relative to the type invariant.
LEMMA LoopInvariance ==
    ASSUME TypeOK, LoopInv, [Next]_vars
    PROVE  LoopInv'
<1> USE ClientAssumption DEF TypeOK, LoopInv, RunningLoopsAreKnown
<1>1. ASSUME NEW c \in Client, Validate(c)
      PROVE  LoopInv'
  BY <1>1 DEF Validate, CacheHit, CacheMiss, Query, Store
<1>2. ASSUME NEW c \in Client, NEW k \in Key, Request(c, k)
      PROVE  LoopInv'
  BY <1>2 DEF Request
<1>3. ASSUME NEW k \in Key, NEW on \in BOOLEAN, Toggle(k, on)
      PROVE  LoopInv'
  BY <1>3 DEF Toggle
<1>4. ASSUME NEW l \in Loop, NEW k \in Key, StartLoop(l, k)
      PROVE  LoopInv'
  BY <1>4 DEF StartLoop
<1>5. ASSUME NEW k \in Key, StopLoop(k)
      PROVE  LoopInv'
  BY <1>5 DEF StopLoop
<1>6. ASSUME NEW l \in Loop, LoopTick(l)
      PROVE  LoopInv'
  BY <1>6 DEF LoopTick
<1>7. ASSUME NEW l \in Loop, LoopEnds(l)
      PROVE  LoopInv'
  BY <1>7 DEF LoopEnds
<1>8. CASE ResetLoops
  BY <1>8 DEF ResetLoops
<1>9. CASE ResetFails \/ ResetKeys \/ UNCHANGED vars
  BY <1>9 DEF ResetFails, ResetKeys, vars
<1> QED
  BY <1>1, <1>2, <1>3, <1>4, <1>5, <1>6, <1>7, <1>8, <1>9 DEF Next

\* No loop goes on that neither a stop request nor a reset could end.
THEOREM LoopsKnown == Spec => []RunningLoopsAreKnown
<1>1. Init => LoopInv
  BY ClientAssumption DEF Init, LoopInv, RunningLoopsAreKnown
<1>2. TypeOK /\ LoopInv /\ [Next]_vars => LoopInv'
  BY LoopInvariance
<1>3. LoopInv => RunningLoopsAreKnown
  BY DEF LoopInv
<1> QED
  BY <1>1, <1>2, <1>3, Typing, PTL DEF Spec

-----------------------------------------------------------------------------
(* Revocation. *)

\* Nothing vouches for a revoked key: neither its row, nor the cache, nor a query that
\* is about to be cached.
RevokedInv ==
    /\ \A c \in found : pc[c] = "store"
    /\ \A k \in revoked : k \notin active /\ cache[k] # "valid" /\ ~Vouching(k)

\* RevokedInv is inductive relative to the type invariant.
LEMMA RevokedInvariance ==
    ASSUME TypeOK, RevokedInv, [Next]_vars
    PROVE  RevokedInv'
<1> USE RegisteredAssumption, ClientAssumption DEF TypeOK, RevokedInv, Vouching
<1>1. ASSUME NEW c \in Client, CacheHit(c) \/ CacheMiss(c)
      PROVE  RevokedInv'
  BY <1>1 DEF CacheHit, CacheMiss
<1>2. ASSUME NEW c \in Client, Query(c)
      PROVE  RevokedInv'
  BY <1>2 DEF Query
<1>3. ASSUME NEW c \in Client, Store(c)
      PROVE  RevokedInv'
  BY <1>3 DEF Store
<1>4. ASSUME NEW c \in Client, NEW k \in Key, Request(c, k)
      PROVE  RevokedInv'
  BY <1>4 DEF Request
<1>5. ASSUME NEW k \in Key, NEW on \in BOOLEAN, Toggle(k, on)
      PROVE  RevokedInv'
  BY <1>5 DEF Toggle
<1>6. ASSUME NEW l \in Loop, NEW k \in Key, StartLoop(l, k)
      PROVE  RevokedInv'
  BY <1>6 DEF StartLoop
<1>7. ASSUME NEW l \in Loop, LoopTick(l) \/ LoopEnds(l)
      PROVE  RevokedInv'
  BY <1>7 DEF LoopTick, LoopEnds
<1>8. ASSUME NEW k \in Key, StopLoop(k)
      PROVE  RevokedInv'
  BY <1>8 DEF StopLoop
<1>9. CASE ResetKeys
  BY <1>9 DEF ResetKeys
<1>10. CASE ResetLoops \/ ResetFails \/ UNCHANGED vars
  BY <1>10 DEF ResetLoops, ResetFails, vars
<1> QED
  BY <1>1, <1>2, <1>3, <1>4, <1>5, <1>6, <1>7, <1>8, <1>9, <1>10 DEF Next, Validate

\* A step that lets a request through does so for a key that is not revoked.
LEMMA StepKeepsOut ==
    ASSUME TypeOK, RevokedInv, [Next]_vars
    PROVE  [\A c \in Client : Passes(c) => key[c] \notin revoked]_vars
<1> SUFFICES ASSUME Next, NEW c \in Client, Passes(c), key[c] \in revoked
             PROVE  FALSE
  OBVIOUS
<1> USE ClientAssumption DEF TypeOK, RevokedInv, Vouching, Passes
<1>1. ASSUME NEW d \in Client, Validate(d)
      PROVE  FALSE
  BY <1>1 DEF Validate, CacheHit, CacheMiss, Query, Store, Tell
<1>2. ASSUME NEW d \in Client, NEW k \in Key, Request(d, k)
      PROVE  FALSE
  BY <1>2 DEF Request, Begin
<1>3. ASSUME NEW l \in Loop, NEW k \in Key, StartLoop(l, k)
      PROVE  FALSE
  BY <1>3 DEF StartLoop, Begin
<1>4. ASSUME NEW l \in Loop, LoopTick(l) \/ LoopEnds(l)
      PROVE  FALSE
  BY <1>4 DEF LoopTick, LoopEnds, Begin
<1>5. ASSUME NEW k \in Key, StopLoop(k) \/ \E on \in BOOLEAN : Toggle(k, on)
      PROVE  FALSE
  BY <1>5 DEF StopLoop, Toggle
<1>6. CASE ResetLoops \/ ResetFails \/ ResetKeys
  BY <1>6 DEF ResetLoops, ResetFails, ResetKeys
<1> QED
  BY <1>1, <1>2, <1>3, <1>4, <1>5, <1>6 DEF Next

\* A key inactive since an undisturbed reset is never let through.
THEOREM StayOut == Spec => RevokedStayOut
<1>1. Init => RevokedInv
  BY DEF Init, RevokedInv, Vouching
<1>2. TypeOK /\ RevokedInv /\ [Next]_vars => RevokedInv'
  BY RevokedInvariance
<1>3. TypeOK /\ RevokedInv /\ [Next]_vars
        => [\A c \in Client : Passes(c) => key[c] \notin revoked]_vars
  BY StepKeepsOut
<1> QED
  BY <1>1, <1>2, <1>3, Typing, PTL DEF Spec, RevokedStayOut
=============================================================================

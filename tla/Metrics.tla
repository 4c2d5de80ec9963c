------------------------------- MODULE Metrics -------------------------------
(***************************************************************************)
(* The counters behind the metrics of the dashboards.  A worker that has   *)
(* logged a transaction, in Redis or in PostgreSQL, adds to counters in    *)
(* memory; the syncer swaps them with zero every second and adds what it   *)
(* took to the rows of system_metrics; a system reset zeroes rows and      *)
(* counters, one after another.                                            *)
(***************************************************************************)
EXTENDS Integers, FiniteSets

CONSTANTS
    Transaction,
    Blocked,       \* those that were blocked
    Worker,        \* the workers of dbTaskQueue
    Faults,        \* whether calls of Redis and PostgreSQL may fail
    MaxResets,     \* bound: system resets
    NoTransaction

ASSUME MetricsAssumption ==
    /\ Blocked \subseteq Transaction
    /\ NoTransaction \notin Transaction
    /\ IsFiniteSet(Worker)
    /\ Faults \in BOOLEAN
    /\ MaxResets \in Nat

VARIABLES
    connected,                    \* redisClient # nil
    taken,                        \* transactions whose task a worker has taken
    hand, step,                   \* per worker: its transaction and its next step
    deltaRequests, deltaBlocks,   \* localDeltaRequests, localDeltaBlocks
    reqs, blks,                   \* what the syncer has taken
    sync,                         \* its next step
    totalRequests, totalBlocks,   \* the rows of system_metrics
    resetting, resets,            \* the next step of a system reset
    counted, countedBlocks,       \* history: what has ever been added to the counters
    disturbed                     \* history: an update failed, or a reset has begun

workerVars == <<connected, taken, hand, step>>
deltas == <<deltaRequests, deltaBlocks>>
syncer == <<reqs, blks, sync>>
totals == <<totalRequests, totalBlocks>>
resetVars == <<resetting, resets>>
history == <<counted, countedBlocks>>
metricsVars == <<workerVars, deltas, syncer, totals, resetVars, history, disturbed>>

MetricsInit ==
    /\ connected \in BOOLEAN
    /\ taken = {}
    /\ hand = [w \in Worker |-> NoTransaction]
    /\ step = [w \in Worker |-> "idle"]
    /\ deltaRequests = 0 /\ deltaBlocks = 0
    /\ reqs = 0 /\ blks = 0
    /\ sync = "swapRequests"
    /\ totalRequests = 0 /\ totalBlocks = 0
    /\ resetting = "idle" /\ resets = 0
    /\ counted = 0 /\ countedBlocks = 0
    /\ disturbed = FALSE

(***************************************************************************)
(* Workers: LogTransactionState.                                           *)
(***************************************************************************)

Take(w, t) ==
    /\ step[w] = "idle"
    /\ t \notin taken
    /\ taken' = taken \cup {t}
    /\ hand' = [hand EXCEPT ![w] = t]
    /\ step' = [step EXCEPT ![w] = IF connected THEN "push" ELSE "insert"]
    /\ UNCHANGED <<connected, deltas, syncer, totals, resetVars, history, disturbed>>

Proceed(w, from, to) ==
    /\ step[w] = from
    /\ step' = [step EXCEPT ![w] = to]
    /\ hand' = IF to = "idle" THEN [hand EXCEPT ![w] = NoTransaction] ELSE hand
    /\ UNCHANGED <<connected, taken, syncer, totals, resetVars, disturbed>>

Push(w) ==
    /\ \/ Proceed(w, "push", "count")
       \/ Faults /\ Proceed(w, "push", "insert")
    /\ UNCHANGED <<deltas, history>>

\* A transaction that cannot be inserted either is not counted.
Insert(w) ==
    /\ \/ Proceed(w, "insert", "count")
       \/ Faults /\ Proceed(w, "insert", "idle")
    /\ UNCHANGED <<deltas, history>>

\* Mutant of CountRequest: a blocked transaction is no request.
CountRequestAllowed(w) ==
    /\ Proceed(w, "count", IF hand[w] \in Blocked THEN "countBlock" ELSE "idle")
    /\ deltaRequests' = IF hand[w] \in Blocked THEN deltaRequests ELSE deltaRequests + 1
    /\ counted' = counted + 1
    /\ UNCHANGED <<deltaBlocks, countedBlocks>>

CountRequest(w) ==
    /\ Proceed(w, "count", IF hand[w] \in Blocked THEN "countBlock" ELSE "idle")
    /\ deltaRequests' = deltaRequests + 1
    /\ counted' = counted + 1
    /\ UNCHANGED <<deltaBlocks, countedBlocks>>

CountBlock(w) ==
    /\ Proceed(w, "countBlock", "idle")
    /\ deltaBlocks' = deltaBlocks + 1
    /\ countedBlocks' = countedBlocks + 1
    /\ UNCHANGED <<deltaRequests, counted>>

Log(w) == Push(w) \/ Insert(w) \/ CountRequest(w) \/ CountBlock(w)

(***************************************************************************)
(* StartMetricsSyncer: two swaps, then an update for what is not zero.  An *)
(* update that reports an error is not tried again, and may have been done.*)
(***************************************************************************)

\* Mutant of SwapRequests: the counter is read, to be zeroed once it has been added.
LoadRequests ==
    /\ sync = "swapRequests"
    /\ reqs' = deltaRequests
    /\ sync' = "swapBlocks"
    /\ UNCHANGED <<workerVars, deltas, blks, totals, resetVars, history, disturbed>>

SwapRequests ==
    /\ sync = "swapRequests"
    /\ deltaRequests' = 0
    /\ reqs' = deltaRequests
    /\ sync' = "swapBlocks"
    /\ UNCHANGED <<workerVars, deltaBlocks, blks, totals, resetVars, history, disturbed>>

SwapBlocks ==
    /\ sync = "swapBlocks"
    /\ deltaBlocks' = 0
    /\ blks' = deltaBlocks
    /\ sync' = "addRequests"
    /\ UNCHANGED <<workerVars, deltaRequests, reqs, totals, resetVars, history, disturbed>>

\* The new value of a row, and whether the update went wrong.
Adds(total, taking) ==
    {[total |-> total + taking, error |-> FALSE]} \cup
    (IF Faults /\ taking > 0 THEN [total: {total, total + taking}, error: {TRUE}] ELSE {})

AddRequests ==
    /\ sync = "addRequests"
    /\ \E update \in Adds(totalRequests, reqs) :
           /\ totalRequests' = update.total
           /\ disturbed' = (disturbed \/ update.error)
    /\ reqs' = 0
    /\ sync' = "addBlocks"
    /\ UNCHANGED <<workerVars, deltas, blks, totalBlocks, resetVars, history>>

\* Mutant of AddBlocks: blocks are left for a round that has requests too.
AddBlocksWithRequests ==
    /\ sync = "addBlocks"
    /\ \E update \in Adds(totalBlocks, blks) :
           /\ totalBlocks' = IF totalRequests > totalBlocks THEN update.total ELSE totalBlocks
           /\ disturbed' = (disturbed \/ update.error)
    /\ blks' = 0
    /\ sync' = "swapRequests"
    /\ UNCHANGED <<workerVars, deltas, reqs, totalRequests, resetVars, history>>

AddBlocks ==
    /\ sync = "addBlocks"
    /\ \E update \in Adds(totalBlocks, blks) :
           /\ totalBlocks' = update.total
           /\ disturbed' = (disturbed \/ update.error)
    /\ blks' = 0
    /\ sync' = "swapRequests"
    /\ UNCHANGED <<workerVars, deltas, reqs, totalRequests, resetVars, history>>

Sync == SwapRequests \/ SwapBlocks \/ AddRequests \/ AddBlocks

(***************************************************************************)
(* handleAPISystemReset: one statement for both rows, whose error is not   *)
(* looked at, and ResetLocalMetrics, one store after another.              *)
(***************************************************************************)

Goes(from, to) ==
    /\ resetting = from
    /\ resetting' = to
    /\ UNCHANGED <<workerVars, syncer, history>>

ZeroTotals ==
    /\ resets < MaxResets
    /\ Goes("idle", "requests")
    /\ resets' = resets + 1
    /\ \/ totalRequests' = 0 /\ totalBlocks' = 0
       \/ Faults /\ UNCHANGED totals
    /\ disturbed' = TRUE
    /\ UNCHANGED deltas

ZeroRequests ==
    /\ Goes("requests", "blocks")
    /\ deltaRequests' = 0
    /\ UNCHANGED <<resets, totals, deltaBlocks, disturbed>>

ZeroBlocks ==
    /\ Goes("blocks", "idle")
    /\ deltaBlocks' = 0
    /\ UNCHANGED <<resets, totals, deltaRequests, disturbed>>

MetricsNext ==
    \/ \E w \in Worker : Log(w) \/ \E t \in Transaction : Take(w, t)
    \/ Sync
    \/ ZeroTotals \/ ZeroRequests \/ ZeroBlocks

MetricsSpec == MetricsInit /\ [][MetricsNext]_metricsVars

\* A worker that has taken a task runs on, and the ticker of the syncer goes on.
FairMetricsSpec == MetricsSpec /\ WF_metricsVars(Sync) /\ \A w \in Worker : WF_metricsVars(Log(w))

-----------------------------------------------------------------------------
MetricsTypeOK ==
    /\ connected \in BOOLEAN
    /\ taken \subseteq Transaction
    /\ hand \in [Worker -> Transaction \cup {NoTransaction}]
    /\ step \in [Worker -> {"idle", "push", "insert", "count", "countBlock"}]
    /\ deltaRequests \in Nat /\ deltaBlocks \in Nat
    /\ reqs \in Nat /\ blks \in Nat
    /\ totalRequests \in Nat /\ totalBlocks \in Nat
    /\ counted \in Nat /\ countedBlocks \in Nat
    /\ sync \in {"swapRequests", "swapBlocks", "addRequests", "addBlocks"}
    /\ resetting \in {"idle", "requests", "blocks"}
    /\ resets \in 0..MaxResets
    /\ disturbed \in BOOLEAN

\* No transaction is counted twice, by whatever mixture of swaps, failing updates and
\* resets: the rows, the syncer's hands and the counters together never hold more than
\* was logged, although a reset zeroes them one by one and the syncer may carry what it
\* took across it.
CountedOnce ==
    /\ totalRequests + reqs + deltaRequests <= counted
    /\ totalBlocks + blks + deltaBlocks <= countedBlocks

\* A block is never on its way without its request: unless an update fails or a reset
\* comes in between, the blocks that are shown, carried and counted are at most the
\* requests that are.  (Those that are shown may be more for a round, when a
\* transaction is counted between the two swaps.)
BlocksAreRequests ==
    ~disturbed => totalBlocks + blks + deltaBlocks <= totalRequests + reqs + deltaRequests

\* What is logged is shown: unless an update fails or a reset intervenes, the rows come
\* to agree with what was counted, however workers and syncer interleave.
CountsArrive ==
    <>[](disturbed \/ (totalRequests = counted /\ totalBlocks = countedBlocks))
=============================================================================

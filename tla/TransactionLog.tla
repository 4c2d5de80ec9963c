--------------------------- MODULE TransactionLog ---------------------------
(***************************************************************************)
(* The log of transactions and everything that writes it: the tasks that   *)
(* requests queue, the workers that push a row to the Redis list or, if    *)
(* that fails, insert it in PostgreSQL, the pruner, and the three purges:  *)
(* of the simulator's sessions when it stops, of one session when it is    *)
(* reset, and of everything.                                               *)
(*                                                                         *)
(* A row stands for its transaction; one task is queued for it.  Both      *)
(* stores are sequences with the newest row first.  The metrics counted    *)
(* on the side are left out.                                               *)
(*                                                                         *)
(* The Redis client sends a call again when its answer does not come, also *)
(* if Redis carried it out.  That is modelled for LPush: an LTrim or a Del *)
(* that is carried out twice leaves what the later one alone would leave.  *)
(***************************************************************************)
EXTENDS Integers, SequencesExt, Subsequences

CONSTANTS
    Row,         \* transactions
    Sim,         \* those of the simulator's sessions
    Mine,        \* those of the session /api/session/reset is called for
    Worker,      \* the workers of dbTaskQueue
    QueueSize,   \* capacity of dbTaskQueue
    MaxEntries,  \* length the Redis list is trimmed to
    MaxRows,     \* rows the pruner is asked to keep
    Lossy,       \* a bound: the rows a push of which may go unanswered,
    Often,       \* and whether more than once
    Faults,      \* whether calls of Redis and PostgreSQL may fail
    Nil          \* no row

ASSUME LogAssumption ==
    /\ Sim \cup Mine \cup Lossy \subseteq Row
    /\ Nil \notin Row
    /\ {QueueSize, MaxEntries, MaxRows} \subseteq Nat \ {0}
    /\ {Faults, Often} \subseteq BOOLEAN

Purge == {"stop", "session"}

VARIABLES
    connected,   \* redisClient # nil
    running,     \* simulator.isRunning
    inFlight,    \* requests the simulator has sent
    logged,      \* rows a task was queued, or dropped, for
    queue,       \* dbTaskQueue
    hand, step,  \* per worker: the row of its task, and the next call of the task
    list,        \* active_inference:logs
    table,       \* runtime_inference_state
    at, kept,    \* per purge: its next step, and the entries it has yet to push back
    reset,       \* the next step of a system reset
    survivors,   \* history: per purge, what it read and is to keep
    marred,      \* history: two purges overlapped, or the list could not be deleted
    unanswered,  \* history: rows an LPush was carried out for without being answered
    old,         \* history: what was logged before the present reset began, but for
                 \* what a worker held then and what a purge has held since
    forgotten    \* history: what was old when a reset was completed

requestVars == <<inFlight, logged>>
taskVars == <<queue, hand, step>>
listVars == <<list, unanswered>>
purgeVars == <<at, kept, survivors, marred>>
resetVars == <<reset, old, forgotten>>
vars == <<connected, running, requestVars, taskVars, listVars, table, purgeVars, resetVars>>

Init ==
    /\ connected \in BOOLEAN
    /\ running \in BOOLEAN
    /\ inFlight = {}
    /\ logged = {}
    /\ queue = <<>>
    /\ hand = [w \in Worker |-> Nil]
    /\ step = [w \in Worker |-> "idle"]
    /\ list = <<>>
    /\ unanswered = {}
    /\ table = <<>>
    /\ at = [p \in Purge |-> "idle"]
    /\ kept = [p \in Purge |-> <<>>]
    /\ reset = "idle"
    /\ survivors = [p \in Purge |-> <<>>]
    /\ marred = FALSE
    /\ old = {} /\ forgotten = {}

First(n, s) == SubSeq(s, 1, IF n < Len(s) THEN n ELSE Len(s))

(***************************************************************************)
(* Requests.  A worker of the simulator looks at its context and sends; a  *)
(* request that was sent goes on when the simulator is stopped.            *)
(***************************************************************************)

Ask(r) ==
    /\ running
    /\ r \in Sim \ (inFlight \cup logged)
    /\ inFlight' = inFlight \cup {r}
    /\ UNCHANGED <<connected, running, logged, taskVars, listVars, table, purgeVars,
                   resetVars>>

\* Mutant of Submit: the queue is taken to have room.
SubmitAlways(r) ==
    /\ r \notin logged
    /\ r \in Sim => r \in inFlight
    /\ inFlight' = inFlight \ {r}
    /\ logged' = logged \cup {r}
    /\ queue' = Append(queue, r)
    /\ UNCHANGED <<connected, running, hand, step, listVars, table, purgeVars,
                   resetVars>>

\* LogTransactionStateAsync: a full queue drops the task.
Submit(r) ==
    /\ r \notin logged
    /\ r \in Sim => r \in inFlight
    /\ inFlight' = inFlight \ {r}
    /\ logged' = logged \cup {r}
    /\ queue' = IF Len(queue) < QueueSize THEN Append(queue, r) ELSE queue
    /\ UNCHANGED <<connected, running, hand, step, listVars, table, purgeVars,
                   resetVars>>

(***************************************************************************)
(* Workers: LogTransactionState.                                           *)
(***************************************************************************)

Dequeue(w) ==
    /\ step[w] = "idle"
    /\ queue # <<>>
    /\ hand' = [hand EXCEPT ![w] = Head(queue)]
    /\ step' = [step EXCEPT ![w] = IF connected THEN "push" ELSE "insert"]
    /\ queue' = Tail(queue)
    /\ UNCHANGED <<connected, running, requestVars, listVars, table, purgeVars,
                   resetVars>>

Proceed(w, from, to) ==
    /\ step[w] = from
    /\ step' = [step EXCEPT ![w] = to]
    /\ hand' = IF to = "idle" THEN [hand EXCEPT ![w] = Nil] ELSE hand
    /\ UNCHANGED <<connected, running, requestVars, queue, purgeVars, resetVars>>

Pushed(r) == list' = <<r>> \o list

\* Redis carried the call out and its answer was lost.
PushedUnanswered(r) ==
    /\ Faults
    /\ r \in Lossy
    /\ r \in unanswered => Often
    /\ Pushed(r)
    /\ unanswered' = unanswered \cup {r}

Push(w) ==
    /\ Proceed(w, "push", "trim")
    /\ Pushed(hand[w])
    /\ UNCHANGED <<table, unanswered>>

\* The client sends the call again, as often as it takes.  A call that was not carried
\* out needs no step: the next one does what it would have done.
PushAgain(w) ==
    /\ step[w] = "push"
    /\ PushedUnanswered(hand[w])
    /\ UNCHANGED <<connected, running, requestVars, taskVars, table, purgeVars, resetVars>>

\* The last answer is an error too.
PushFails(w) ==
    /\ Faults
    /\ Proceed(w, "push", "insert")
    /\ \/ PushedUnanswered(hand[w])
       \/ UNCHANGED <<list, unanswered>>
    /\ UNCHANGED table

\* The result of LTrim is not looked at.
Trim(w) ==
    /\ Proceed(w, "trim", "idle")
    /\ \/ list' = First(MaxEntries, list)
       \/ Faults /\ list' = list
    /\ UNCHANGED <<table, unanswered>>

Insert(w) ==
    /\ Proceed(w, "insert", "idle")
    /\ table' = <<hand[w]>> \o table
    /\ UNCHANGED <<list, unanswered>>

\* An error may mean that the row was inserted and the answer lost.
InsertFails(w) ==
    /\ Faults
    /\ Proceed(w, "insert", "idle")
    /\ table' \in {table, <<hand[w]>> \o table}
    /\ UNCHANGED <<list, unanswered>>

\* StartDBPruner.  OFFSET MaxRows is the row after the newest MaxRows; the rows older
\* than it are deleted.  The rows are counted before, in a call of its own that only
\* says whether to go on.
Prune ==
    /\ Len(table) > MaxRows
    /\ table' = First(MaxRows + 1, table)
    /\ UNCHANGED <<connected, running, requestVars, taskVars, listVars, purgeVars,
                   resetVars>>

(***************************************************************************)
(* The simulator, and the purge of the log when it stops or when one       *)
(* session is reset.  stopSimulatorLocally holds the simulator's mutex to  *)
(* its end.  A command published through Redis is carried out later or,    *)
(* if it is lost, never.                                                   *)
(***************************************************************************)

\* A bound: copies of entries that were not deleted would double with every purge.
MayPurge == ~marred

StartSimulator ==
    /\ ~running
    /\ at["stop"] = "idle"
    /\ running' = TRUE
    /\ UNCHANGED <<connected, requestVars, taskVars, listVars, table, purgeVars,
                   resetVars>>

\* The queue is emptied, of whatever tasks it holds.
StopSimulator ==
    /\ MayPurge
    /\ running
    /\ at["stop"] = "idle"
    /\ running' = FALSE
    /\ queue' = <<>>
    /\ at' = [at EXCEPT !["stop"] = "table"]
    /\ UNCHANGED <<connected, requestVars, hand, step, listVars, table, kept,
                   survivors, marred, resetVars>>

ResetSession ==
    /\ MayPurge
    /\ at["session"] = "idle"
    /\ at' = [at EXCEPT !["session"] = "table"]
    /\ UNCHANGED <<connected, running, requestVars, taskVars, listVars, table,
                   kept, survivors, marred, resetVars>>

Purged(p) == IF p = "stop" THEN Sim ELSE Mine
Spared(p, s) == Subsequence(s, {i \in DOMAIN s : s[i] \notin Purged(p)})

\* A purge goes from one step to another and leaves requests and workers alone.
PurgeStep(p, from, to) ==
    /\ at[p] = from
    /\ at' = [at EXCEPT ![p] = to]
    /\ UNCHANGED <<connected, running, requestVars, taskVars, reset, forgotten>>

PurgeTable(p) ==
    /\ PurgeStep(p, "table", IF connected THEN "read" ELSE "idle")
    /\ table' = Spared(p, table)
    /\ UNCHANGED <<list, kept, survivors, marred, unanswered, old>>

\* A session reset gives up; stopping the simulator goes on.
PurgeTableFails(p) ==
    /\ Faults
    /\ PurgeStep(p, "table", IF connected /\ p = "stop" THEN "read" ELSE "idle")
    /\ table' \in {table, Spared(p, table)}
    /\ UNCHANGED <<list, kept, survivors, marred, unanswered, old>>

Rewriting(p) == at[p] \in {"delete", "push"}

\* An error of LRange is ignored and leaves nothing to keep.
ReadList(p) ==
    /\ PurgeStep(p, "read", "delete")
    /\ \/ kept' = [kept EXCEPT ![p] = Spared(p, list)]
       \/ Faults /\ kept' = [kept EXCEPT ![p] = <<>>]
    /\ marred' = (marred \/ \E q \in Purge \ {p} : Rewriting(q))
    /\ survivors' = [survivors EXCEPT ![p] = IF marred' THEN <<>> ELSE kept'[p]]
    /\ old' = old \ ToSet(kept'[p])
    /\ UNCHANGED <<list, table, unanswered>>

\* Mutant of DeleteList: nothing is deleted while there is something to keep.
DeleteListIfAllGoes(p) ==
    /\ PurgeStep(p, "delete", "push")
    /\ list' = IF kept[p] = <<>> THEN <<>> ELSE list
    /\ UNCHANGED <<table, kept, survivors, marred, unanswered, old>>

DeleteList(p) ==
    /\ PurgeStep(p, "delete", "push")
    /\ \/ list' = <<>> /\ marred' = marred
       \/ Faults /\ list' = list /\ marred' = TRUE
    /\ UNCHANGED <<table, kept, survivors, unanswered, old>>

\* Mutant of PushBack: the entries are pushed in the order they were read.
PushBackInOrder(p) ==
    /\ PurgeStep(p, "push", "push")
    /\ kept[p] # <<>>
    /\ kept' = [kept EXCEPT ![p] = Tail(kept[p])]
    /\ Pushed(Head(kept[p]))
    /\ UNCHANGED <<table, survivors, marred, unanswered, old>>

PushBack(p) ==
    /\ PurgeStep(p, "push", "push")
    /\ kept[p] # <<>>
    /\ kept' = [kept EXCEPT ![p] = Front(kept[p])]
    /\ Pushed(Last(kept[p]))
    /\ UNCHANGED <<table, survivors, marred, unanswered, old>>

PushBackAgain(p) ==
    /\ at[p] = "push"
    /\ kept[p] # <<>>
    /\ PushedUnanswered(Last(kept[p]))
    /\ UNCHANGED <<connected, running, requestVars, taskVars, table, purgeVars, resetVars>>

\* An entry that cannot be pushed back is lost, or in the list unanswered.
PushBackFails(p) ==
    /\ Faults
    /\ PurgeStep(p, "push", "push")
    /\ kept[p] # <<>>
    /\ kept' = [kept EXCEPT ![p] = Front(kept[p])]
    /\ survivors' = [survivors EXCEPT ![p] =
           IF marred THEN @ ELSE RemoveAt(@, Len(kept[p]))]
    /\ \/ PushedUnanswered(Last(kept[p]))
       \/ UNCHANGED <<list, unanswered>>
    /\ UNCHANGED <<table, marred, old>>

EndPurge(p) ==
    /\ PurgeStep(p, "push", "idle")
    /\ kept[p] = <<>>
    /\ survivors' = [survivors EXCEPT ![p] = <<>>]
    /\ UNCHANGED <<list, table, kept, marred, unanswered, old>>

(***************************************************************************)
(* handleAPISystemReset.                                                   *)
(***************************************************************************)

InHand == {hand[w] : w \in Worker} \ {Nil}
Carried == UNION {ToSet(kept[p]) : p \in Purge}

\* The simulator is stopped without a purge, and the queue emptied.
ResetStops ==
    /\ reset = "idle"
    /\ at["stop"] = "idle"
    /\ reset' = "truncate"
    /\ running' = FALSE
    /\ queue' = <<>>
    /\ old' = logged \ (InHand \cup Carried)
    /\ UNCHANGED <<connected, requestVars, hand, step, listVars, table, purgeVars,
                   forgotten>>

ResetStep(from, to) ==
    /\ reset = from
    /\ reset' = to
    /\ UNCHANGED <<connected, running, requestVars, taskVars, unanswered, purgeVars>>

Truncate ==
    /\ ResetStep("truncate", "list")
    /\ table' = <<>>
    /\ UNCHANGED <<list, old, forgotten>>

TruncateFails ==
    /\ Faults
    /\ ResetStep("truncate", "idle")
    /\ table' \in {table, <<>>}
    /\ old' = {}
    /\ UNCHANGED <<list, forgotten>>

\* Mutant of ResetList: the list is left to the trims.
ResetListLeft ==
    /\ ResetStep("list", "idle")
    /\ forgotten' = forgotten \cup old
    /\ old' = {}
    /\ UNCHANGED <<list, table>>

ResetList ==
    /\ ResetStep("list", "idle")
    /\ \/ list' = <<>> /\ forgotten' = forgotten \cup old
       \/ Faults /\ list' = list /\ forgotten' = forgotten
    /\ old' = {}
    /\ UNCHANGED table

Work(w) ==
    \/ Dequeue(w)
    \/ Push(w)
    \/ PushAgain(w)
    \/ PushFails(w)
    \/ Trim(w)
    \/ Insert(w)
    \/ InsertFails(w)

Continue(p) ==
    \/ PurgeTable(p)
    \/ PurgeTableFails(p)
    \/ ReadList(p)
    \/ DeleteList(p)
    \/ PushBack(p)
    \/ PushBackAgain(p)
    \/ PushBackFails(p)
    \/ EndPurge(p)

Next ==
    \/ \E r \in Sim : Ask(r)
    \/ \E r \in Row : Submit(r)
    \/ \E w \in Worker : Work(w)
    \/ Prune
    \/ StartSimulator
    \/ StopSimulator
    \/ ResetSession
    \/ \E p \in Purge : Continue(p)
    \/ ResetStops
    \/ Truncate
    \/ TruncateFails
    \/ ResetList

Spec == Init /\ [][Next]_vars

-----------------------------------------------------------------------------
TypeOK ==
    /\ connected \in BOOLEAN /\ running \in BOOLEAN
    /\ inFlight \subseteq Sim
    /\ logged \subseteq Row
    /\ queue \in Seq(Row) /\ Len(queue) <= QueueSize
    /\ hand \in [Worker -> Row \cup {Nil}]
    /\ step \in [Worker -> {"idle", "push", "trim", "insert"}]
    /\ list \in Seq(Row)
    /\ unanswered \subseteq Row
    /\ table \in Seq(Row)
    /\ at \in [Purge -> {"idle", "table", "read", "delete", "push"}]
    /\ kept \in [Purge -> Seq(Row)]
    /\ reset \in {"idle", "truncate", "list"}
    /\ survivors \in [Purge -> Seq(Row)]
    /\ marred \in BOOLEAN
    /\ old \subseteq Row /\ forgotten \subseteq Row

\* While one purge rewrites the list, what it has yet to push back is the beginning of
\* what it read and, but for rows pushed unanswered, not in the list; and of the rest
\* it put back each such entry has all newer ones before it: what it spares stays in
\* the order it was in, and if the trims of new entries push some out, the oldest go.
PurgeKeepsOrder ==
    \A p \in Purge : at[p] = "push" /\ ~marred =>
        /\ IsPrefix(kept[p], survivors[p])
        /\ ToSet(kept[p]) \cap ToSet(list) \subseteq unanswered
        /\ \A k, l \in DOMAIN survivors[p] :
              Len(kept[p]) < k /\ k < l /\ survivors[p][l] \in ToSet(list) \ unanswered =>
                 \E i, j \in DOMAIN list :
                    i < j /\ list[i] = survivors[p][k] /\ list[j] = survivors[p][l]

\* A transaction is logged once unless an LPush for it was carried out and not
\* answered: it is never both in the list and, as after a failed push, in the table;
\* and it is in the list at most once, unless two purges overlapped or one could not
\* delete the list.
LoggedOnce ==
    /\ ToSet(list) \cap ToSet(table) \subseteq unanswered
    /\ ~marred => RepeatsOnly(list, unanswered)

\* A transaction logged, or queued to be, before a system reset began is in no log after
\* the reset is completed, if no worker had it in hand when the reset began and no purge
\* carried it while the reset was going on: those rows do come back.
OldRowsStayAway == forgotten \cap (ToSet(list) \cup ToSet(table)) = {}
=============================================================================

------------------------------- MODULE Sidecar -------------------------------
(***************************************************************************)
(* The sidecar, and the end of the gateway it talks to, for one session    *)
(* that is resident in the gateway.  A row inserted in PostgreSQL sends a  *)
(* notification; the listener hands it to a pool of threads; a thread      *)
(* reads the row, lets the session's layer 3 engine perceive it, commits   *)
(* the matrices the engine decides for and asks the gateway to reload      *)
(* them; and the gateway installs them under the session's mutex.          *)
(*                                                                         *)
(* What an engine believes is reduced to the rows its beliefs reflect, and *)
(* the matrices to the intent they were adjusted for: they are adjusted    *)
(* from the defaults every time.  An engine goes by the name of the thread *)
(* that created it, since a thread that has created one finds one after.   *)
(***************************************************************************)
EXTENDS Integers, Sequences

CONSTANTS
    Row,          \* transactions of the session
    Thread,       \* threads of the executor
    Intent,       \* actions of layer 3
    Initial,      \* the one a session starts with, by its seeded matrices
    Faults,       \* whether calls of the database and of the gateway may fail
    MaxLosses,    \* bound: lost connections and restarts of the sidecar
    Nil

ASSUME SidecarAssumption ==
    /\ Initial \in Intent
    /\ Faults \in BOOLEAN
    /\ MaxLosses \in Nat
    /\ Nil \notin Row \cup Thread \cup Intent \cup {"read", "install"}

VARIABLES
    inserted,     \* transactions inserted in runtime_inference_state so far
    table,        \* the rows that are still there
    matrices,     \* the intent of the matrices in agent_profile_matrices
    listening,    \* the listener has a connection
    channel,      \* notifications the connection has yet to deliver
    jobs,         \* the queue of the executor
    at, job,      \* per thread: its next step and its row
    mine, seen,   \* per thread: its engine, and the beliefs it has read from it
    chosen,       \* per thread: the intent it has decided for
    registered,   \* the entry of session_engines
    engine,       \* per engine: the rows its beliefs reflect
    losses,
    locked,       \* the session's mutex: free (Nil), or held by a reload that is to
                  \* "read" the matrices and then to "install" them
    calls,        \* reloads on their way to the mutex
    reload, got,  \* the reload that holds it, and the matrices it has read
    installed,    \* the intent of the matrices in the gateway's state
    l2Action,     \* L2Action of that state
    learned,      \* history: the rows perceived since the sidecar started
    overlapped,   \* history: two threads worked on an engine, or looked for one, at once
    missed,       \* history: matrices were committed that no later reload has read
    crossed       \* history: the last commit came while another's reload was outstanding

postgres == <<inserted, table, matrices>>
listener == <<listening, channel, losses>>
threadVars == <<at, job, mine, seen, chosen>>
engines == <<registered, engine>>
gateway == <<locked, calls, reload, got, installed, l2Action>>
vars == <<postgres, listener, jobs, threadVars, engines, gateway, learned,
          overlapped, missed, crossed>>

NoCall == [row |-> Nil, intent |-> Initial]

Init ==
    /\ inserted = {} /\ table = {} /\ matrices = Initial
    /\ listening = TRUE /\ channel = <<>> /\ losses = 0
    /\ jobs = <<>>
    /\ at = [t \in Thread |-> "idle"]
    /\ job = [t \in Thread |-> Nil]
    /\ mine = [t \in Thread |-> Nil]
    /\ seen = [t \in Thread |-> {}]
    /\ chosen = [t \in Thread |-> Initial]
    /\ registered = Nil
    /\ engine = [t \in Thread |-> {}]
    /\ locked = Nil /\ calls = {} /\ reload = NoCall /\ got = Initial
    /\ installed = Initial /\ l2Action = Initial
    /\ learned = {}
    /\ overlapped = FALSE /\ missed = FALSE /\ crossed = FALSE

(***************************************************************************)
(* PostgreSQL: the trigger notifies whoever listens when a row is          *)
(* inserted; pruner and purges take rows away before they are read.        *)
(***************************************************************************)

Insert(r) ==
    /\ r \notin inserted
    /\ inserted' = inserted \cup {r}
    /\ table' = table \cup {r}
    /\ channel' = IF listening THEN Append(channel, r) ELSE channel
    /\ UNCHANGED <<matrices, listening, losses, jobs, threadVars, engines, gateway,
                   learned, overlapped, missed, crossed>>

Remove(r) ==
    /\ r \in table
    /\ table' = table \ {r}
    /\ UNCHANGED <<inserted, matrices, listener, jobs, threadVars, engines, gateway,
                   learned, overlapped, missed, crossed>>

(***************************************************************************)
(* The listener.                                                           *)
(***************************************************************************)

\* Notifications sent before the listener listens again reach nobody.
LoseConnection ==
    /\ listening
    /\ losses < MaxLosses
    /\ losses' = losses + 1
    /\ listening' = FALSE
    /\ channel' = <<>>
    /\ UNCHANGED <<postgres, jobs, threadVars, engines, gateway, learned,
                   overlapped, missed, crossed>>

Reconnect ==
    /\ ~listening
    /\ listening' = TRUE
    /\ UNCHANGED <<postgres, channel, losses, jobs, threadVars, engines, gateway,
                   learned, overlapped, missed, crossed>>

Deliver ==
    /\ channel # <<>>
    /\ channel' = Tail(channel)
    /\ jobs' = Append(jobs, Head(channel))
    /\ UNCHANGED <<postgres, listening, losses, threadVars, engines, gateway,
                   learned, overlapped, missed, crossed>>

\* The container restarts the sidecar; reloads it asked for go on in the gateway.
RestartSidecar ==
    /\ losses < MaxLosses
    /\ losses' = losses + 1
    /\ listening' = TRUE
    /\ channel' = <<>>
    /\ jobs' = <<>>
    /\ at' = [t \in Thread |-> "idle"]
    /\ job' = [t \in Thread |-> Nil]
    /\ mine' = [t \in Thread |-> Nil]
    /\ seen' = [t \in Thread |-> {}]
    /\ chosen' = [t \in Thread |-> Initial]
    /\ registered' = Nil
    /\ engine' = [t \in Thread |-> {}]
    /\ learned' = {}
    /\ overlapped' = FALSE
    /\ missed' = (missed \/ \E t \in Thread : at[t] = "call")
    /\ UNCHANGED <<postgres, gateway, crossed>>

(***************************************************************************)
(* handle_notification.                                                    *)
(***************************************************************************)

Goes(t, from, to) ==
    /\ at[t] = from
    /\ at' = [at EXCEPT ![t] = to]

\* The thread is done with its row: the connection goes back to the pool.
Ends(t, from) ==
    /\ Goes(t, from, "idle")
    /\ job' = [job EXCEPT ![t] = Nil]
    /\ mine' = [mine EXCEPT ![t] = Nil]
    /\ seen' = [seen EXCEPT ![t] = {}]
    /\ chosen' = [chosen EXCEPT ![t] = Initial]

Take(t) ==
    /\ jobs # <<>>
    /\ Goes(t, "idle", "read")
    /\ job' = [job EXCEPT ![t] = Head(jobs)]
    /\ jobs' = Tail(jobs)
    /\ UNCHANGED <<postgres, listener, mine, seen, chosen, engines, gateway, learned,
                   overlapped, missed, crossed>>

\* The row and the session's matrices.
ReadRow(t) ==
    /\ job[t] \in table
    /\ Goes(t, "read", "lookUp")
    /\ UNCHANGED <<postgres, listener, jobs, job, mine, seen, chosen, engines, gateway,
                   learned, overlapped, missed, crossed>>

\* The row is gone, or a query fails.
ReadRowFails(t) ==
    /\ job[t] \notin table \/ Faults
    /\ Ends(t, "read")
    /\ UNCHANGED <<postgres, listener, jobs, engines, gateway, learned, overlapped,
                   missed, crossed>>

\* Mutant of LookUp: every notification gets an engine of its own.
LookUpNothing(t) ==
    /\ Goes(t, "lookUp", "create")
    /\ mine' = mine
    /\ overlapped' = (overlapped \/ \E u \in Thread \ {t} : at[u] = "create")
    /\ UNCHANGED <<postgres, listener, jobs, job, seen, chosen, engines, gateway,
                   learned, missed, crossed>>

LookUp(t) ==
    /\ Goes(t, "lookUp", IF registered = Nil THEN "create" ELSE "perceive")
    /\ mine' = [mine EXCEPT ![t] = registered]
    /\ overlapped' = (overlapped \/ \E u \in Thread \ {t} : at[u] = "create")
    /\ UNCHANGED <<postgres, listener, jobs, job, seen, chosen, engines, gateway,
                   learned, missed, crossed>>

CreateEngine(t) ==
    /\ Goes(t, "create", "perceive")
    /\ engine' = [engine EXCEPT ![t] = {}]
    /\ registered' = t
    /\ mine' = [mine EXCEPT ![t] = t]
    /\ UNCHANGED <<postgres, listener, jobs, job, seen, chosen, gateway, learned,
                   overlapped, missed, crossed>>

\* update_perception computes with the beliefs it finds and assigns the new ones; a
\* switch of threads in between loses the other's.
BeginPerception(t) ==
    /\ Goes(t, "perceive", "assign")
    /\ seen' = [seen EXCEPT ![t] = engine[mine[t]]]
    /\ overlapped' = (overlapped \/ \E u \in Thread \ {t} : at[u] = "assign")
    /\ UNCHANGED <<postgres, listener, jobs, job, mine, chosen, engines, gateway,
                   learned, missed, crossed>>

\* select_action follows at once: any intent, as the numbers will have it.
EndPerception(t) ==
    /\ Goes(t, "assign", "commit")
    /\ engine' = [engine EXCEPT ![mine[t]] = seen[t] \cup {job[t]}]
    /\ learned' = learned \cup {job[t]}
    /\ \E i \in Intent : chosen' = [chosen EXCEPT ![t] = i]
    /\ UNCHANGED <<postgres, listener, jobs, job, mine, seen, registered, gateway,
                   overlapped, missed, crossed>>

Outstanding(t) ==
    \/ calls # {} \/ reload # NoCall
    \/ \E u \in Thread \ {t} : at[u] = "call"

Commit(t) ==
    /\ Goes(t, "commit", "call")
    /\ matrices' = chosen[t]
    /\ crossed' = Outstanding(t)
    /\ UNCHANGED <<inserted, table, listener, jobs, job, mine, seen, chosen, engines,
                   gateway, learned, overlapped, missed>>

\* The defaults cannot be read, or the update fails; what was perceived stays.
CommitFails(t) ==
    /\ Faults
    /\ Ends(t, "commit")
    /\ UNCHANGED <<postgres, listener, jobs, engines, gateway, learned, overlapped,
                   missed, crossed>>

\* Mutant of Call: the gateway is not bothered with the intent it has.
CallIfNew(t) ==
    /\ Goes(t, "call", "wait")
    /\ calls' = IF chosen[t] = l2Action THEN calls
                ELSE calls \cup {[row |-> job[t], intent |-> chosen[t]]}
    /\ UNCHANGED <<postgres, listener, jobs, job, mine, seen, chosen, engines, locked,
                   reload, got, installed, l2Action, learned, overlapped, missed, crossed>>

Call(t) ==
    /\ Goes(t, "call", "wait")
    /\ calls' = calls \cup {[row |-> job[t], intent |-> chosen[t]]}
    /\ UNCHANGED <<postgres, listener, jobs, job, mine, seen, chosen, engines, locked,
                   reload, got, installed, l2Action, learned, overlapped, missed, crossed>>

CallFails(t) ==
    /\ Faults
    /\ Ends(t, "call")
    /\ missed' = TRUE
    /\ UNCHANGED <<postgres, listener, jobs, engines, gateway, learned, overlapped,
                   crossed>>

\* The answer has come, or two seconds have passed: the handler in the gateway goes on.
EndCall(t) ==
    /\ Ends(t, "wait")
    /\ UNCHANGED <<postgres, listener, jobs, engines, gateway, learned, overlapped,
                   missed, crossed>>

Handle(t) ==
    \/ ReadRow(t) \/ ReadRowFails(t)
    \/ LookUp(t) \/ CreateEngine(t)
    \/ BeginPerception(t) \/ EndPerception(t)
    \/ Commit(t) \/ CommitFails(t)
    \/ Call(t) \/ CallFails(t) \/ EndCall(t)

(***************************************************************************)
(* The gateway: handleConfigReload.  A request that holds the session's    *)
(* mutex delays a reload, as any delay of a call on its way does.          *)
(***************************************************************************)

LockReload(c) ==
    /\ c \in calls
    /\ locked = Nil
    /\ locked' = "read"
    /\ calls' = calls \ {c}
    /\ reload' = c
    /\ UNCHANGED <<postgres, listener, jobs, threadVars, engines, got, installed,
                   l2Action, learned, overlapped, missed, crossed>>

\* GetSessionMatrices.  When the query fails the state keeps its matrices: it is deleted
\* from the cache and then stored again by the deferred function.
ReadMatrices ==
    /\ locked = "read"
    /\ \/ got' = matrices /\ missed' = FALSE
       \/ Faults /\ got' = installed /\ missed' = TRUE
    /\ locked' = "install"
    /\ UNCHANGED <<postgres, listener, jobs, threadVars, engines, calls, reload,
                   installed, l2Action, learned, overlapped, crossed>>

\* Mutant of Install: an action of zero is taken for an absent one.
InstallUnlessInitial ==
    /\ locked = "install"
    /\ installed' = got
    /\ l2Action' = IF reload.intent = Initial THEN l2Action ELSE reload.intent
    /\ reload' = NoCall
    /\ got' = Initial
    /\ locked' = Nil
    /\ UNCHANGED <<postgres, listener, jobs, threadVars, engines, calls, learned,
                   overlapped, missed, crossed>>

\* UpdateMatrices, and UpdateL2State with what came with the call.
Install ==
    /\ locked = "install"
    /\ installed' = got
    /\ l2Action' = reload.intent
    /\ reload' = NoCall
    /\ got' = Initial
    /\ locked' = Nil
    /\ UNCHANGED <<postgres, listener, jobs, threadVars, engines, calls, learned,
                   overlapped, missed, crossed>>

Next ==
    \/ \E r \in Row : Insert(r) \/ Remove(r)
    \/ LoseConnection \/ Reconnect \/ Deliver \/ RestartSidecar
    \/ \E t \in Thread : Take(t) \/ Handle(t)
    \/ \E c \in calls : LockReload(c)
    \/ ReadMatrices \/ Install

Spec == Init /\ [][Next]_vars

-----------------------------------------------------------------------------
TypeOK ==
    /\ table \subseteq inserted /\ inserted \subseteq Row
    /\ matrices \in Intent /\ got \in Intent
    /\ installed \in Intent /\ l2Action \in Intent
    /\ listening \in BOOLEAN
    /\ channel \in Seq(Row) /\ jobs \in Seq(Row)
    /\ ~listening => channel = <<>>
    /\ losses \in 0..MaxLosses
    /\ at \in [Thread -> {"idle", "read", "lookUp", "create", "perceive", "assign",
                          "commit", "call", "wait"}]
    /\ job \in [Thread -> Row \cup {Nil}]
    /\ mine \in [Thread -> Thread \cup {Nil}]
    /\ seen \in [Thread -> SUBSET Row]
    /\ chosen \in [Thread -> Intent]
    /\ registered \in Thread \cup {Nil}
    /\ engine \in [Thread -> SUBSET Row]
    /\ locked \in {Nil, "read", "install"}
    /\ calls \subseteq [row: Row, intent: Intent]
    /\ reload \in [row: Row \cup {Nil}, intent: Intent]
    /\ learned \subseteq Row
    /\ overlapped \in BOOLEAN /\ missed \in BOOLEAN /\ crossed \in BOOLEAN

\* Every notification that was perceived is in the beliefs the next one starts from,
\* unless two threads were at it at the same time.
BeliefsKeepAll == ~overlapped /\ registered # Nil => engine[registered] = learned

Settled ==
    /\ \A t \in Thread : at[t] # "call"
    /\ calls = {} /\ reload = NoCall

\* When no reload is outstanding the gateway judges by the matrices that were committed
\* last, whatever the order of commits and of reloads; and a reload that failed, or was
\* never asked for, is made good by the next one.
MatricesArrive == Settled /\ ~missed => installed = matrices

\* The intent the gateway shows is the one its matrices were adjusted for, unless a
\* commit overtook the reload of another.  A call that has timed out is still a reload
\* to come.
IntentMatches == Settled /\ ~missed /\ ~crossed => l2Action = installed
=============================================================================

----------------------------- MODULE AgentFleet -----------------------------
(***************************************************************************)
(* The agents of a gateway: their keys in authorized_agent_keys, the cache *)
(* of validated keys, the background loops that send requests in an        *)
(* agent's name, and the system reset, which ends the loops and later      *)
(* empties the cache.                                                      *)
(*                                                                         *)
(* A loop waits for the answer to its own request, so it is a client like  *)
(* any other.  A request without a key changes nothing here and is left    *)
(* out: it passes on the chat endpoint and is blocked on the other.        *)
(***************************************************************************)
EXTENDS FiniteSets

CONSTANTS
    Key,         \* values of X-Agent-Key
    Registered,  \* keys with a row in authorized_agent_keys
    Outsider,    \* clients from outside the gateway
    Loop,        \* goroutines of agent loops
    Nil          \* no loop, no key

ASSUME RegisteredAssumption == Registered \subseteq Key
ASSUME ClientAssumption == Nil \notin Loop /\ Outsider \cap Loop = {}

Client == Outsider \cup Loop

VARIABLES
    active,     \* keys whose row has is_active
    cache,      \* authorizedKeysCache
    pc,         \* where the validation of each client's request is
    key,        \* the key of that request
    found,      \* clients whose query found an active row
    verdict,    \* what the client was told
    loops,      \* activeLoops: the loop that can be cancelled under a key
    cancelled,  \* loops whose context is cancelled
    reset,      \* where a system reset is
    revoked,    \* history: keys inactive since a moment when nothing vouched for them
    vouched     \* history: clients whose key was active at some time in their request

requestVars == <<pc, key, found, verdict>>
loopVars == <<loops, cancelled>>
historyVars == <<revoked, vouched>>
vars == <<active, cache, requestVars, loopVars, reset, historyVars>>

Init ==
    /\ active \in SUBSET Registered
    /\ cache = [k \in Key |-> "unknown"]
    /\ pc = [c \in Client |-> "idle"]
    /\ key = [c \in Client |-> Nil]
    /\ found = {}
    /\ verdict = [c \in Client |-> "none"]
    /\ loops = [k \in Key |-> Nil]
    /\ cancelled = {}
    /\ reset = "idle"
    /\ revoked = Key \ active
    /\ vouched = {}

Move(c, from, to) ==
    /\ pc[c] = from
    /\ pc' = [pc EXCEPT ![c] = to]

Begin(c, k) ==
    /\ verdict' = [verdict EXCEPT ![c] = "none"]
    /\ vouched' = IF k \in active THEN vouched \cup {c} ELSE vouched

Tell(c, valid) ==
    /\ verdict' = [verdict EXCEPT ![c] = IF valid THEN "passed" ELSE "blocked"]
    /\ vouched' = vouched \ {c}

\* Where a client is once it has its answer: a loop goes back to its select.
Answered(c) == IF c \in Loop THEN "select" ELSE "idle"

(***************************************************************************)
(* validateAgentKey.                                                       *)
(***************************************************************************)

Request(c, k) ==
    /\ c \in Outsider
    /\ Move(c, "idle", "load")
    /\ key' = [key EXCEPT ![c] = k]
    /\ Begin(c, k)
    /\ UNCHANGED <<active, cache, found, loopVars, reset, revoked>>

CacheHit(c) ==
    /\ Move(c, "load", Answered(c))
    /\ cache[key[c]] # "unknown"
    /\ Tell(c, cache[key[c]] = "valid")
    /\ UNCHANGED <<active, cache, key, found, loopVars, reset, revoked>>

CacheMiss(c) ==
    /\ Move(c, "load", "query")
    /\ cache[key[c]] = "unknown"
    /\ UNCHANGED <<active, cache, key, found, verdict, loopVars, reset, historyVars>>

\* Mutant of Query: a row is enough, whatever its is_active.
QueryAnyRow(c) ==
    /\ Move(c, "query", "store")
    /\ \/ found' = found
       \/ key[c] \in Registered /\ found' = found \cup {c}
    /\ UNCHANGED <<active, cache, key, verdict, loopVars, reset, historyVars>>

\* No row and a failing query both leave isValid false.
Query(c) ==
    /\ Move(c, "query", "store")
    /\ \/ found' = found
       \/ key[c] \in active /\ found' = found \cup {c}
    /\ UNCHANGED <<active, cache, key, verdict, loopVars, reset, historyVars>>

Store(c) ==
    /\ Move(c, "store", Answered(c))
    /\ cache' = [cache EXCEPT ![key[c]] = IF c \in found THEN "valid" ELSE "invalid"]
    /\ Tell(c, c \in found)
    /\ found' = found \ {c}
    /\ UNCHANGED <<active, key, loopVars, reset, revoked>>

Asking(c, k) == pc[c] \in {"load", "query", "store"} /\ key[c] = k

\* handleAPIToggleAgent updates the row, if there is one, and nothing else.
Toggle(k, on) ==
    /\ k \in Registered
    /\ active' = IF on THEN active \cup {k} ELSE active \ {k}
    /\ revoked' = IF on THEN revoked \ {k} ELSE revoked
    /\ vouched' = IF on THEN vouched \cup {c \in Client : Asking(c, k)} ELSE vouched
    /\ UNCHANGED <<cache, requestVars, loopVars, reset>>

(***************************************************************************)
(* Agent loops.  agentLoopMgr's mutex makes each handler one action.       *)
(***************************************************************************)

\* Mutant of StartLoop: no look at the loops that run.
StartLoopAgain(l, k) ==
    /\ Move(l, "idle", "load")
    /\ loops' = [loops EXCEPT ![k] = l]
    /\ key' = [key EXCEPT ![l] = k]
    /\ Begin(l, k)
    /\ UNCHANGED <<active, cache, found, cancelled, reset, revoked>>

\* The loop sends its first request at once.
StartLoop(l, k) ==
    /\ loops[k] = Nil
    /\ Move(l, "idle", "load")
    /\ loops' = [loops EXCEPT ![k] = l]
    /\ key' = [key EXCEPT ![l] = k]
    /\ Begin(l, k)
    /\ UNCHANGED <<active, cache, found, cancelled, reset, revoked>>

StopLoop(k) ==
    /\ loops[k] # Nil
    /\ cancelled' = cancelled \cup {loops[k]}
    /\ loops' = [loops EXCEPT ![k] = Nil]
    /\ UNCHANGED <<active, cache, requestVars, reset, historyVars>>

\* The ticker is ready; select may take it although the context is cancelled too.
LoopTick(l) ==
    /\ Move(l, "select", "load")
    /\ Begin(l, key[l])
    /\ UNCHANGED <<active, cache, key, found, loopVars, reset, revoked>>

\* Mutant of LoopEnds: the loop looks at the map instead of its own context.
LoopEndsByMap(l) ==
    /\ l \in cancelled
    /\ loops[key[l]] = Nil
    /\ Move(l, "select", "idle")
    /\ cancelled' = cancelled \ {l}
    /\ key' = [key EXCEPT ![l] = Nil]
    /\ verdict' = [verdict EXCEPT ![l] = "none"]
    /\ UNCHANGED <<active, cache, found, loops, reset, historyVars>>

LoopEnds(l) ==
    /\ l \in cancelled
    /\ Move(l, "select", "idle")
    /\ cancelled' = cancelled \ {l}
    /\ key' = [key EXCEPT ![l] = Nil]
    /\ verdict' = [verdict EXCEPT ![l] = "none"]
    /\ UNCHANGED <<active, cache, found, loops, reset, historyVars>>

(***************************************************************************)
(* handleAPISystemReset: every loop is cancelled and forgotten; after the  *)
(* tables have been truncated and the session states cleared, the cache of *)
(* keys is emptied.                                                        *)
(***************************************************************************)

\* Mutant of ResetLoops: the loops are forgotten but not cancelled.
ResetLoopsForgets ==
    /\ reset = "idle"
    /\ reset' = "truncate"
    /\ loops' = [k \in Key |-> Nil]
    /\ UNCHANGED <<active, cache, requestVars, cancelled, historyVars>>

ResetLoops ==
    /\ reset = "idle"
    /\ reset' = "truncate"
    /\ cancelled' = cancelled \cup {loops[k] : k \in {c \in Key : loops[c] # Nil}}
    /\ loops' = [k \in Key |-> Nil]
    /\ UNCHANGED <<active, cache, requestVars, historyVars>>

\* The tables cannot be truncated: the reset ends with an error.
ResetFails ==
    /\ reset = "truncate"
    /\ reset' = "idle"
    /\ UNCHANGED <<active, cache, requestVars, loopVars, historyVars>>

\* A request whose query has vouched for the key and is about to be cached.
Vouching(k) == \E c \in found : key[c] = k

ResetKeys ==
    /\ reset = "truncate"
    /\ reset' = "idle"
    /\ cache' = [k \in Key |-> "unknown"]
    /\ revoked' = revoked \cup {k \in Key \ active : ~Vouching(k)}
    /\ UNCHANGED <<active, requestVars, loopVars, vouched>>

Validate(c) ==
    \/ CacheHit(c)
    \/ CacheMiss(c)
    \/ Query(c)
    \/ Store(c)

Next ==
    \/ \E c \in Client : Validate(c)
    \/ \E c \in Client, k \in Key : Request(c, k)
    \/ \E k \in Key, on \in BOOLEAN : Toggle(k, on)
    \/ \E l \in Loop, k \in Key : StartLoop(l, k)
    \/ \E k \in Key : StopLoop(k)
    \/ \E l \in Loop : LoopTick(l)
    \/ \E l \in Loop : LoopEnds(l)
    \/ ResetLoops
    \/ ResetFails
    \/ ResetKeys

\* Validations run on, and a select whose context stays cancelled notices some time,
\* since it picks among its ready cases at random.
Fairness ==
    /\ \A c \in Client : WF_vars(Validate(c))
    /\ \A l \in Loop : SF_vars(LoopEnds(l))

Spec == Init /\ [][Next]_vars /\ Fairness

-----------------------------------------------------------------------------
TypeOK ==
    /\ active \subseteq Registered
    /\ cache \in [Key -> {"unknown", "valid", "invalid"}]
    /\ pc \in [Client -> {"idle", "load", "query", "store", "select"}]
    /\ key \in [Client -> Key \cup {Nil}]
    /\ found \subseteq Client
    /\ verdict \in [Client -> {"none", "passed", "blocked"}]
    /\ loops \in [Key -> Loop \cup {Nil}]
    /\ cancelled \subseteq Loop
    /\ reset \in {"idle", "truncate"}
    /\ revoked \subseteq Key
    /\ vouched \subseteq Client

Passes(c) == verdict[c] # "passed" /\ verdict'[c] = "passed"

\* A key that was never registered, or that has been inactive since a reset that no
\* validation of it overlapped, is never let through: neither a cached verdict nor a
\* late store can bring it back before somebody activates it.
RevokedStayOut ==
    [][\A c \in Client : Passes(c) => key[c] \notin revoked]_vars

\* A loop goroutine that can still go on can be stopped: it is the one activeLoops has
\* for its key, so stop requests and resets leave no loop behind that nobody can end.
RunningLoopsAreKnown ==
    \A l \in Loop : pc[l] # "idle" /\ l \notin cancelled => loops[key[l]] = l

\* A loop that was stopped, by its own button or by a reset, ends.
StoppedLoopsEnd ==
    \A l \in Loop : l \in cancelled ~> pc[l] = "idle"

\* config.html:631: "Unregistered/revoked agent keys will trigger security blocks", so
\* a request whose key is inactive from its start to its verdict is blocked.
RevokedBlocked ==
    [][\A c \in Client : Passes(c) => c \in vouched]_vars
=============================================================================

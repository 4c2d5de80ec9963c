-------------------------- MODULE RequestPipeline --------------------------
(***************************************************************************)
(* The life of a request on one resident session object: the goroutines    *)
(* that serve /v1/chat/completions, /v1/agent/action and /api/evaluate     *)
(* share an ActiveInfState and hold its mutex from the deduplication check *)
(* to the answer, the upstream call included.                              *)
(*                                                                         *)
(* Data abstractions: a body stands for its SHA-256; the leaky free energy *)
(* and the threshold theta are small integers whose order is kept; the     *)
(* verdict of the policy, the observation, the expected free energy and    *)
(* the upstream's answer are chosen freely.  Time is the saturating age of *)
(* LastRequestTime, so behaviours are not cut off by a horizon.            *)
(***************************************************************************)
EXTENDS Integers, FiniteSets

CONSTANTS
    Handler,      \* goroutines serving requests of this session
    Body,         \* request bodies, one per hash
    NoBody,       \* the empty LastRequestHash, or nothing answered yet
    NoHandler,    \* the mutex is free
    Window,       \* DeduplicateWindowMs, in clock ticks
    Limit,        \* DeduplicateLimit
    ThetaOff,     \* the level 4.95 at which blocking is turned off
    MaxSurprise   \* bound on the leaky free energy

ASSUME HandlerAssumption == NoHandler \notin Handler
ASSUME BodyAssumption == NoBody \notin Body
ASSUME NumberAssumption ==
    /\ Window \in Nat \ {0}
    /\ Limit \in Nat
    /\ ThetaOff \in Nat
    /\ MaxSurprise \in Nat

ALLOW == 0
MONITOR == 1
BLOCK == 2
Action == {ALLOW, MONITOR, BLOCK}

Theta == 0..ThetaOff
Surprise == 0..MaxSurprise
Kind == {"chat", "agent", "evaluate"}

\* Where a goroutine is in its handler; everything after "lock" is under the mutex.
Location == {"idle", "lock", "dedup", "policy", "perceive", "threshold",
             "refuse", "forward", "evaluate", "unlock"}
Critical == Location \ {"idle", "lock"}

\* What a goroutine wrote to its client, and for which body it was computed.
Reply == [for : Body \cup {NoBody},
          status : {"none", "denied", "blocked", "served", "failed", "evaluated"}]
NoReply == [for |-> NoBody, status |-> "none"]

\* The transaction row a goroutine queued for its request: none, or its is_blocked flag.
Row == {"none", "blocked", "passed"}

VARIABLES
    holder,    \* holder of ActiveInfState.Mutex
    pc,        \* location of each goroutine
    kind,      \* which handler it runs
    body,      \* the body it serves
    judged,    \* the theta its decision read
    reply,     \* what it answered
    row,       \* the transaction row it queued
    age,       \* time.Since(LastRequestTime), saturated at Window
    hash,      \* LastRequestHash
    resp,      \* LastResponseBytes and LastResponseCode
    dups,      \* ConsecutiveDuplicatesCount
    action,    \* CurrentAction
    leaky,     \* LeakyVFE
    theta      \* Theta

requestVars == <<pc, kind, body, judged, reply, row>>
memoryVars == <<hash, resp, dups>>
beliefVars == <<action, leaky, theta>>
vars == <<holder, requestVars, age, memoryVars, beliefVars>>

Init ==
    /\ holder = NoHandler
    /\ pc = [h \in Handler |-> "idle"]
    /\ kind = [h \in Handler |-> "chat"]
    /\ body = [h \in Handler |-> NoBody]
    /\ judged = [h \in Handler |-> 0]
    /\ reply = [h \in Handler |-> NoReply]
    /\ row = [h \in Handler |-> "none"]
    /\ age = 0
    /\ hash = NoBody
    /\ resp = NoReply
    /\ dups = 0
    /\ action = ALLOW
    /\ leaky = 0
    /\ theta \in Theta

At(h, l) == pc[h] = l
GoTo(h, l) == pc' = [pc EXCEPT ![h] = l]
Answer(h, r) == reply' = [reply EXCEPT ![h] = r]
Fresh(h, s) == [for |-> body[h], status |-> s]

(***************************************************************************)
(* The clock, and the goroutine's way to the mutex.                        *)
(***************************************************************************)

Tick ==
    /\ age' = IF age < Window THEN age + 1 ELSE age
    /\ UNCHANGED <<holder, requestVars, memoryVars, beliefVars>>

\* A request whose key was accepted and whose session object was found.
Arrive(h, k, b) ==
    /\ At(h, "idle")
    /\ GoTo(h, "lock")
    /\ kind' = [kind EXCEPT ![h] = k]
    /\ body' = [body EXCEPT ![h] = b]
    /\ UNCHANGED <<holder, judged, reply, row, age, memoryVars, beliefVars>>

\* Mutant of Lock: the mutex is not waited for.
LockWithoutWaiting(h) ==
    /\ At(h, "lock")
    /\ holder' = h
    /\ GoTo(h, IF kind[h] = "evaluate" THEN "evaluate" ELSE "dedup")
    /\ UNCHANGED <<kind, body, judged, reply, row, age, memoryVars, beliefVars>>

Lock(h) ==
    /\ At(h, "lock")
    /\ holder = NoHandler
    /\ holder' = h
    /\ GoTo(h, IF kind[h] = "evaluate" THEN "evaluate" ELSE "dedup")
    /\ UNCHANGED <<kind, body, judged, reply, row, age, memoryVars, beliefVars>>

\* The deferred unlock; the request is over and its locals are gone.
Unlock(h) ==
    /\ At(h, "unlock")
    /\ holder' = NoHandler
    /\ GoTo(h, "idle")
    /\ kind' = [kind EXCEPT ![h] = "chat"]
    /\ body' = [body EXCEPT ![h] = NoBody]
    /\ judged' = [judged EXCEPT ![h] = 0]
    /\ reply' = [reply EXCEPT ![h] = NoReply]
    /\ row' = [row EXCEPT ![h] = "none"]
    /\ UNCHANGED <<age, memoryVars, beliefVars>>

(***************************************************************************)
(* The deduplication check.                                                *)
(***************************************************************************)

\* Mutants of IsDuplicate: no limit, and no comparison of hashes.
IsDuplicateUnlimited(h) == hash # NoBody /\ body[h] = hash /\ age < Window
IsDuplicateOfAnyBody(h) == hash # NoBody /\ age < Window /\ dups < Limit

IsDuplicate(h) ==
    /\ hash # NoBody
    /\ body[h] = hash
    /\ age < Window
    /\ dups < Limit

ReplayCached(h) ==
    /\ At(h, "dedup")
    /\ IsDuplicate(h)
    /\ dups' = dups + 1
    /\ Answer(h, resp)
    /\ GoTo(h, "unlock")
    /\ UNCHANGED <<holder, kind, body, judged, row, age, hash, resp, beliefVars>>

ProcessAnew(h) ==
    /\ At(h, "dedup")
    /\ ~IsDuplicate(h)
    /\ GoTo(h, "policy")
    /\ UNCHANGED <<holder, kind, body, judged, reply, row, age, memoryVars, beliefVars>>

(***************************************************************************)
(* Helpers of the belief engine: UpdatePerception lets the leaky free      *)
(* energy decay with the time since the last request, adds what the new    *)
(* observation costs, and stamps LastRequestTime; CacheResponse remembers  *)
(* an answer and stamps it again.                                          *)
(***************************************************************************)

\* s is a leaky free energy that UpdatePerception can leave behind.
Perceived(s) == age = 0 => s >= leaky

\* Mutant of CacheResponse: the count is never reset.
CacheResponseNoReset(b, r) ==
    /\ dups' = dups
    /\ hash' = b
    /\ resp' = r
    /\ age' = 0

CacheResponse(b, r) ==
    /\ dups' = IF b # hash \/ age >= Window THEN 0 ELSE dups
    /\ hash' = b
    /\ resp' = r
    /\ age' = 0

LogTransaction(h, blocked) ==
    row' = [row EXCEPT ![h] = IF blocked THEN "blocked" ELSE "passed"]

(***************************************************************************)
(* Policy, perception and decision.                                        *)
(***************************************************************************)

\* The Rego policy denies: perceive an input error, log, remember the 403.  The
\* stamp of UpdatePerception precedes CacheResponse, which thus sees age 0.
PolicyDenies(h) ==
    /\ At(h, "policy")
    /\ \E s \in Surprise : Perceived(s) /\ leaky' = s
    /\ LogTransaction(h, TRUE)
    /\ dups' = IF body[h] # hash THEN 0 ELSE dups
    /\ hash' = body[h]
    /\ resp' = Fresh(h, "denied")
    /\ age' = 0
    /\ Answer(h, Fresh(h, "denied"))
    /\ GoTo(h, "unlock")
    /\ UNCHANGED <<holder, kind, body, judged, action, theta>>

\* The policy allows, or its evaluation fails: an error is logged and ignored.
PolicyPasses(h) ==
    /\ At(h, "policy")
    /\ GoTo(h, "perceive")
    /\ UNCHANGED <<holder, kind, body, judged, reply, row, age, memoryVars, beliefVars>>

\* Classification, the X-Theta-Override header, and UpdatePerception.
Perceive(h) ==
    /\ At(h, "perceive")
    /\ \E s \in Surprise : Perceived(s) /\ leaky' = s
    /\ \E t \in Theta : theta' = t
    /\ age' = 0
    /\ GoTo(h, "threshold")
    /\ UNCHANGED <<holder, kind, body, judged, reply, row, memoryVars, action>>

OverThreshold == theta < ThetaOff /\ leaky > theta

\* The threshold overrides the action the expected free energy prefers.
\* Mutant of Decided: the downgrade is applied before the threshold.
DecidedDowngradeFirst(preferred) ==
    IF preferred = BLOCK THEN MONITOR
    ELSE IF OverThreshold THEN BLOCK ELSE preferred

Decided(preferred) ==
    IF OverThreshold THEN BLOCK
    ELSE IF preferred = BLOCK THEN MONITOR ELSE preferred

\* Mutant of Decide: the row is flagged with the preferred action, not the decided one.
DecideLogsPreferred(h) ==
    /\ At(h, "threshold")
    /\ \E preferred \in Action :
          action' = Decided(preferred) /\ LogTransaction(h, preferred = BLOCK)
    /\ judged' = [judged EXCEPT ![h] = theta]
    /\ GoTo(h, IF action' = BLOCK THEN "refuse" ELSE "forward")
    /\ UNCHANGED <<holder, kind, body, reply, age, memoryVars, leaky, theta>>

Decide(h) ==
    /\ At(h, "threshold")
    /\ \E preferred \in Action : action' = Decided(preferred)
    /\ judged' = [judged EXCEPT ![h] = theta]
    /\ LogTransaction(h, action' = BLOCK)
    /\ GoTo(h, IF action' = BLOCK THEN "refuse" ELSE "forward")
    /\ UNCHANGED <<holder, kind, body, reply, age, memoryVars, leaky, theta>>

\* The 403 of a BLOCK decision, remembered for deduplication.
Refuse(h) ==
    /\ At(h, "refuse")
    /\ CacheResponse(body[h], Fresh(h, "blocked"))
    /\ Answer(h, Fresh(h, "blocked"))
    /\ GoTo(h, "unlock")
    /\ UNCHANGED <<holder, kind, body, judged, row, beliefVars>>

(***************************************************************************)
(* The upstream call, under the mutex.                                     *)
(***************************************************************************)

UpstreamAnswers(h) ==
    /\ At(h, "forward")
    /\ CacheResponse(body[h], Fresh(h, "served"))
    /\ Answer(h, Fresh(h, "served"))
    /\ GoTo(h, "unlock")
    /\ UNCHANGED <<holder, kind, body, judged, row, beliefVars>>

\* The error goes to the client and CacheResponse is skipped.
Fail(h) ==
    /\ At(h, "forward")
    /\ Answer(h, Fresh(h, "failed"))
    /\ GoTo(h, "unlock")
    /\ UNCHANGED <<holder, kind, body, judged, row, age, memoryVars, beliefVars>>

\* Redaction broke the JSON, or the provider's answer has another form: chat only.
TranslationFails(h) == kind[h] = "chat" /\ Fail(h)

\* Mutants of ForwardFails: the failure is cached, and the deferred unlock is missing.
ForwardFailsCached(h) ==
    /\ At(h, "forward")
    /\ CacheResponse(body[h], Fresh(h, "failed"))
    /\ Answer(h, Fresh(h, "failed"))
    /\ GoTo(h, "unlock")
    /\ UNCHANGED <<holder, kind, body, judged, row, beliefVars>>
ForwardFailsLocked(h) ==
    /\ At(h, "forward")
    /\ Answer(h, Fresh(h, "failed"))
    /\ GoTo(h, "idle")
    /\ UNCHANGED <<holder, kind, body, judged, row, age, memoryVars, beliefVars>>

\* A refused connection, or the client's timeout.
ForwardFails(h) == Fail(h)

(***************************************************************************)
(* /api/evaluate, and the settings page, which takes no lock.              *)
(***************************************************************************)

\* No deduplication, no policy and no threshold rule.
Evaluate(h) ==
    /\ At(h, "evaluate")
    /\ \E s \in Surprise : Perceived(s) /\ leaky' = s
    /\ \E preferred \in Action : action' = preferred
    /\ LogTransaction(h, action' = BLOCK)
    /\ age' = 0
    /\ Answer(h, Fresh(h, "evaluated"))
    /\ GoTo(h, "unlock")
    /\ UNCHANGED <<holder, kind, body, judged, memoryVars, theta>>

\* handleAPIInferenceSettingsSave assigns Theta without the mutex; the reload a
\* sidecar asks for assigns it under the mutex, which this includes.
SaveTheta(t) ==
    /\ theta' = t
    /\ UNCHANGED <<holder, requestVars, age, memoryVars, action, leaky>>

\* One step of a request that holds the mutex.
Proceed(h) ==
    \/ ReplayCached(h)
    \/ ProcessAnew(h)
    \/ PolicyDenies(h)
    \/ PolicyPasses(h)
    \/ Perceive(h)
    \/ Decide(h)
    \/ Refuse(h)
    \/ UpstreamAnswers(h)
    \/ TranslationFails(h)
    \/ ForwardFails(h)
    \/ Evaluate(h)
    \/ Unlock(h)

Next ==
    \/ Tick
    \/ \E h \in Handler, k \in Kind, b \in Body : Arrive(h, k, b)
    \/ \E h \in Handler : Lock(h)
    \/ \E h \in Handler : Proceed(h)
    \/ \E t \in Theta : SaveTheta(t)

\* Code under the mutex runs on, the upstream call ending at the client's timeout;
\* a mutex in starvation mode is handed to whoever waits for it.
Fairness ==
    /\ \A h \in Handler : WF_vars(Proceed(h))
    /\ \A h \in Handler : SF_vars(Lock(h))

Spec == Init /\ [][Next]_vars /\ Fairness

-----------------------------------------------------------------------------
\* The client whose question is with the provider: the holder of the mutex, from the
\* moment it has decided to forward.
Upstream ==
    IF holder \in Handler /\ At(holder, "forward") THEN holder ELSE NoHandler

Phase(h) ==
    CASE pc[h] = "idle" -> "idle"
      [] pc[h] = "unlock" -> "answered"
      [] OTHER -> "asked"

\* The session as its clients see it: a serial service with one remembered answer.
Service == INSTANCE SessionService WITH
    Client <- Handler,
    NoClient <- NoHandler,
    phase <- [h \in Handler |-> Phase(h)],
    asked <- body,
    answer <- reply,
    upstream <- Upstream,
    memory <- resp,
    given <- dups

\* The pipeline implements that service: deduplication, refusals, failures and
\* upstream answers each take effect at one instant, in some serial order, and
\* every question is answered.
ServesSerially == Service!Spec

TypeOK ==
    /\ holder \in Handler \cup {NoHandler}
    /\ pc \in [Handler -> Location]
    /\ kind \in [Handler -> Kind]
    /\ body \in [Handler -> Body \cup {NoBody}]
    /\ judged \in [Handler -> Theta]
    /\ reply \in [Handler -> Reply]
    /\ row \in [Handler -> Row]
    /\ age \in 0..Window
    /\ hash \in Body \cup {NoBody}
    /\ resp \in Reply
    /\ dups \in Nat
    /\ action \in Action
    /\ leaky \in Surprise
    /\ theta \in Theta

\* Requests of a session are handled one at a time: whoever is past Lock holds the
\* mutex, so no two requests interleave their perception, decision or answer.
SessionSerialised ==
    \A h \in Handler : pc[h] \in Critical => holder = h

\* While a request is on its way upstream, the session is within the threshold its
\* decision read (or blocking was off): no other request's perception, and no
\* settings save, can push a request past a decision it was not judged by.
ForwardedWithinThreshold ==
    \A h \in Handler : At(h, "forward") =>
        /\ action # BLOCK
        /\ judged[h] >= ThetaOff \/ leaky <= judged[h]

\* Whatever a client is sent, fresh or replayed from the session's memory, was
\* computed for the body that client sent.
ReplyIsForOwnBody ==
    \A h \in Handler : At(h, "unlock") => reply[h].for = body[h]

\* The transaction log tells refusals apart from answers: a request that was refused
\* afresh queued a row flagged blocked and one that went upstream an unflagged row,
\* while a replay queued none and repeats only a refusal or an upstream answer.
LogAgreesWithReply ==
    \A h \in Handler : At(h, "unlock") =>
        \/ row[h] = "none" /\ reply[h].status \in {"denied", "blocked", "served"}
        \/ row[h] = "blocked" /\ reply[h].status \in {"denied", "blocked", "evaluated"}
        \/ row[h] = "passed" /\ reply[h].status \in {"served", "failed", "evaluated"}

\* Every request that has reached the session is answered, whatever the requests
\* queued on the same mutex and the upstream do.
EveryRequestAnswered ==
    \A h \in Handler : At(h, "lock") ~> At(h, "idle")
=============================================================================

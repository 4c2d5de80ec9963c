----------------------- MODULE RequestPipelineProofs -----------------------
(***************************************************************************)
(* Proofs, for any set of goroutines and bodies, any window, any limit and *)
(* any threshold, that RequestPipeline keeps its invariants and implements *)
(* the safety part of SessionService, and, about deduplication over time,  *)
(* that the count of duplicates lies between the replays in a row and      *)
(* those of the remembered body.                                           *)
(***************************************************************************)
EXTENDS DedupHistory, TLAPS

USE DEF ALLOW, MONITOR, BLOCK, Action, Kind, Location, Critical, Reply,
        NoReply, Row, Theta, Surprise, At, GoTo, Answer, Fresh

\* The type invariant holds in every reachable state, for all constants.
THEOREM Typing == Spec => []TypeOK
<1> USE HandlerAssumption, BodyAssumption, NumberAssumption
<1>1. Init => TypeOK
  BY DEF Init, TypeOK
<1>2. TypeOK /\ [Next]_vars => TypeOK'
  <2> SUFFICES ASSUME TypeOK, [Next]_vars PROVE TypeOK'
    OBVIOUS
  <2> USE DEF TypeOK
  <2>1. CASE Tick
    BY <2>1 DEF Tick, requestVars, memoryVars, beliefVars
  <2>2. ASSUME NEW h \in Handler, NEW k \in Kind, NEW b \in Body, Arrive(h, k, b)
        PROVE  TypeOK'
    BY <2>2 DEF Arrive, memoryVars, beliefVars
  <2>3. ASSUME NEW h \in Handler, Lock(h)
        PROVE  TypeOK'
    BY <2>3 DEF Lock, memoryVars, beliefVars
  <2>4. ASSUME NEW h \in Handler, Proceed(h)
        PROVE  TypeOK'
    <3>1. CASE ReplayCached(h)
      BY <2>4, <3>1 DEF ReplayCached, beliefVars
    <3>2. CASE ProcessAnew(h)
      BY <2>4, <3>2 DEF ProcessAnew, memoryVars, beliefVars
    <3>3. CASE PolicyDenies(h)
      BY <2>4, <3>3 DEF PolicyDenies, LogTransaction
    <3>4. CASE PolicyPasses(h)
      BY <2>4, <3>4 DEF PolicyPasses, memoryVars, beliefVars
    <3>5. CASE Perceive(h)
      BY <2>4, <3>5 DEF Perceive, memoryVars
    <3>6. CASE Decide(h)
      BY <2>4, <3>6 DEF Decide, Decided, LogTransaction, memoryVars
    <3>7. CASE Refuse(h)
      BY <2>4, <3>7 DEF Refuse, CacheResponse, beliefVars
    <3>8. CASE UpstreamAnswers(h)
      BY <2>4, <3>8 DEF UpstreamAnswers, CacheResponse, beliefVars
    <3>9. CASE Fail(h)
      BY <2>4, <3>9 DEF Fail, memoryVars, beliefVars
    <3>10. CASE Evaluate(h)
      BY <2>4, <3>10 DEF Evaluate, LogTransaction, memoryVars
    <3>11. CASE Unlock(h)
      BY <2>4, <3>11 DEF Unlock, memoryVars, beliefVars
    <3> QED
      BY <2>4, <3>1, <3>2, <3>3, <3>4, <3>5, <3>6, <3>7, <3>8, <3>9, <3>10, <3>11
         DEF Proceed, TranslationFails, ForwardFails
  <2>5. ASSUME NEW t \in Theta, SaveTheta(t)
        PROVE  TypeOK'
    BY <2>5 DEF SaveTheta, requestVars, memoryVars
  <2>6. CASE UNCHANGED vars
    BY <2>6 DEF vars, requestVars, memoryVars, beliefVars
  <2> QED
    BY <2>1, <2>2, <2>3, <2>4, <2>5, <2>6 DEF Next
<1> QED
  BY <1>1, <1>2, PTL DEF Spec

-----------------------------------------------------------------------------
(***************************************************************************)
(* The inductive invariant.  The safety invariants need to know what the   *)
(* session remembers and which row a request has queued so far.            *)
(***************************************************************************)

\* A remembered answer is one for the remembered body, and never an error.
MemoryConsistent ==
    /\ resp.for = hash
    /\ hash # NoBody => resp.status \in {"denied", "blocked", "served"}
    /\ dups <= Limit

\* How far a goroutine has come: it has a body, holds the mutex when it must, has
\* queued its row with its decision, and is answered in agreement with both.
Stage(h) ==
    /\ pc[h] # "idle" => body[h] \in Body
    /\ pc[h] \in Critical => holder = h
    /\ pc[h] \notin {"refuse", "forward", "unlock"} => row[h] = "none"
    /\ pc[h] = "refuse" => row[h] = "blocked"
    /\ pc[h] = "forward" => /\ row[h] = "passed"
                            /\ action # BLOCK
                            /\ judged[h] >= ThetaOff \/ leaky <= judged[h]
    /\ pc[h] = "unlock" =>
          /\ reply[h].for = body[h]
          /\ \/ row[h] = "none" /\ reply[h].status \in {"denied", "blocked", "served"}
             \/ row[h] = "blocked" /\ reply[h].status \in {"denied", "blocked", "evaluated"}
             \/ row[h] = "passed" /\ reply[h].status \in {"served", "failed", "evaluated"}

Inv ==
    /\ TypeOK
    /\ MemoryConsistent
    /\ \A h \in Handler : Stage(h)

LEMMA InvInit == Init => Inv
BY HandlerAssumption, BodyAssumption, NumberAssumption
   DEF Init, Inv, TypeOK, MemoryConsistent, Stage

\* The inductive invariant implies the safety invariants.
LEMMA InvImplies ==
    Inv => /\ SessionSerialised
           /\ ForwardedWithinThreshold
           /\ ReplyIsForOwnBody
           /\ LogAgreesWithReply
BY DEF Inv, Stage, SessionSerialised, ForwardedWithinThreshold, ReplyIsForOwnBody,
       LogAgreesWithReply

\* A goroutine that waits or is idle keeps its stage while the holder of the mutex
\* takes a step that leaves its locals alone.
LEMMA Bystander ==
    ASSUME Inv, NEW h \in Handler, NEW g \in Handler \ {h}, holder = h,
           pc'[g] = pc[g], body'[g] = body[g], row'[g] = row[g]
    PROVE  Stage(g)'
BY HandlerAssumption DEF Inv, Stage, TypeOK

\* The steps that need no mutex leave whoever holds it undisturbed.
LEMMA OutsideSteps ==
    ASSUME Inv, TypeOK',
           \/ Tick
           \/ \E h \in Handler, k \in Kind, b \in Body : Arrive(h, k, b)
           \/ \E h \in Handler : Lock(h)
           \/ \E t \in Theta : SaveTheta(t)
           \/ UNCHANGED vars
    PROVE  Inv'
<1>1. MemoryConsistent'
  BY DEF Inv, MemoryConsistent, Tick, Arrive, Lock, SaveTheta, vars, memoryVars
<1>2. ASSUME NEW g \in Handler
      PROVE  Stage(g)'
  <2>1. CASE Tick \/ (\E t \in Theta : SaveTheta(t)) \/ UNCHANGED vars
    <3>1. UNCHANGED <<holder, pc, body, judged, reply, row, action, leaky>>
      BY <2>1 DEF Tick, SaveTheta, vars, requestVars, beliefVars
    <3> QED
      BY <3>1 DEF Inv, Stage
  <2>2. ASSUME NEW h \in Handler, NEW k \in Kind, NEW b \in Body, Arrive(h, k, b)
        PROVE  Stage(g)'
    <3>1. UNCHANGED <<holder, judged, reply, row, action, leaky>>
      BY <2>2 DEF Arrive, beliefVars
    <3>2. g # h => pc'[g] = pc[g] /\ body'[g] = body[g]
      BY <2>2 DEF Arrive, Inv, TypeOK
    <3>3. pc[h] = "idle" /\ pc'[h] = "lock" /\ body'[h] = b
      BY <2>2 DEF Arrive, Inv, TypeOK
    <3> QED
      BY <3>1, <3>2, <3>3 DEF Inv, Stage
  <2>3. ASSUME NEW h \in Handler, Lock(h)
        PROVE  Stage(g)'
    <3>1. UNCHANGED <<body, judged, reply, row, action, leaky>>
      BY <2>3 DEF Lock, beliefVars
    <3>2. g # h => pc'[g] = pc[g] /\ pc[g] \notin Critical
      BY <2>3, HandlerAssumption DEF Lock, Inv, Stage, TypeOK
    <3>3. pc[h] = "lock" /\ pc'[h] \in {"evaluate", "dedup"} /\ holder' = h
      BY <2>3 DEF Lock, Inv, TypeOK
    <3> QED
      BY <3>1, <3>2, <3>3 DEF Inv, Stage
  <2> QED
    BY <2>1, <2>2, <2>3
<1> QED
  BY <1>1, <1>2 DEF Inv

\* The steps of the goroutine that holds the mutex.
LEMMA InsideSteps ==
    ASSUME Inv, TypeOK', NEW h \in Handler, Proceed(h)
    PROVE  Inv'
<1> USE HandlerAssumption, BodyAssumption, NumberAssumption
<1>a. holder = h
  BY DEF Inv, Stage, Proceed, ReplayCached, ProcessAnew, PolicyDenies, PolicyPasses,
         Perceive, Decide, Refuse, UpstreamAnswers, TranslationFails, ForwardFails, Fail,
         Evaluate, Unlock
<1>b. \A g \in Handler \ {h} : /\ pc'[g] = pc[g]
                              /\ body'[g] = body[g]
                              /\ row'[g] = row[g]
  BY DEF Inv, TypeOK, LogTransaction, Proceed, ReplayCached, ProcessAnew, PolicyDenies,
         PolicyPasses, Perceive, Decide, Refuse, UpstreamAnswers, TranslationFails,
         ForwardFails, Fail, Evaluate, Unlock
<1>c. \A g \in Handler \ {h} : Stage(g)'
  BY <1>a, <1>b, Bystander
<1>1. CASE ReplayCached(h)
  <2>1. MemoryConsistent'
    BY <1>1 DEF ReplayCached, IsDuplicate, Inv, TypeOK, MemoryConsistent
  <2>2. Stage(h)'
    BY <1>1, <1>a DEF ReplayCached, IsDuplicate, Inv, TypeOK, MemoryConsistent, Stage
  <2> QED
    BY <2>1, <2>2, <1>c DEF Inv
<1>2. CASE ProcessAnew(h)
  <2>1. MemoryConsistent'
    BY <1>2 DEF ProcessAnew, Inv, MemoryConsistent, memoryVars
  <2>2. Stage(h)'
    BY <1>2, <1>a DEF ProcessAnew, Inv, TypeOK, Stage
  <2> QED
    BY <2>1, <2>2, <1>c DEF Inv
<1>3. CASE PolicyDenies(h)
  <2>1. MemoryConsistent'
    BY <1>3 DEF PolicyDenies, Inv, TypeOK, MemoryConsistent
  <2>2. Stage(h)'
    BY <1>3, <1>a DEF PolicyDenies, LogTransaction, Inv, TypeOK, Stage
  <2> QED
    BY <2>1, <2>2, <1>c DEF Inv
<1>4. CASE PolicyPasses(h)
  <2>1. MemoryConsistent'
    BY <1>4 DEF PolicyPasses, Inv, MemoryConsistent, memoryVars
  <2>2. Stage(h)'
    BY <1>4, <1>a DEF PolicyPasses, Inv, TypeOK, Stage
  <2> QED
    BY <2>1, <2>2, <1>c DEF Inv
<1>5. CASE Perceive(h)
  <2>1. MemoryConsistent'
    BY <1>5 DEF Perceive, Inv, MemoryConsistent, memoryVars
  <2>2. Stage(h)'
    BY <1>5, <1>a DEF Perceive, Inv, TypeOK, Stage
  <2> QED
    BY <2>1, <2>2, <1>c DEF Inv
<1>6. CASE Decide(h)
  <2>1. MemoryConsistent'
    BY <1>6 DEF Decide, Inv, MemoryConsistent, memoryVars
  <2>2. action' # BLOCK => theta >= ThetaOff \/ leaky <= theta
    BY <1>6 DEF Decide, Decided, OverThreshold, Inv, TypeOK
  <2>3. Stage(h)'
    BY <1>6, <1>a, <2>2 DEF Decide, LogTransaction, Inv, TypeOK, Stage
  <2> QED
    BY <2>1, <2>3, <1>c DEF Inv
<1>7. CASE Refuse(h)
  <2>1. MemoryConsistent'
    BY <1>7 DEF Refuse, CacheResponse, Inv, TypeOK, MemoryConsistent
  <2>2. Stage(h)'
    BY <1>7, <1>a DEF Refuse, Inv, TypeOK, Stage
  <2> QED
    BY <2>1, <2>2, <1>c DEF Inv
<1>8. CASE UpstreamAnswers(h)
  <2>1. MemoryConsistent'
    BY <1>8 DEF UpstreamAnswers, CacheResponse, Inv, TypeOK, MemoryConsistent
  <2>2. Stage(h)'
    BY <1>8, <1>a DEF UpstreamAnswers, Inv, TypeOK, Stage
  <2> QED
    BY <2>1, <2>2, <1>c DEF Inv
<1>9. CASE Fail(h)
  <2>1. MemoryConsistent'
    BY <1>9 DEF Fail, Inv, MemoryConsistent, memoryVars
  <2>2. Stage(h)'
    BY <1>9, <1>a DEF Fail, Inv, TypeOK, Stage
  <2> QED
    BY <2>1, <2>2, <1>c DEF Inv
<1>10. CASE Evaluate(h)
  <2>1. MemoryConsistent'
    BY <1>10 DEF Evaluate, Inv, MemoryConsistent, memoryVars
  <2>2. Stage(h)'
    BY <1>10, <1>a DEF Evaluate, LogTransaction, Inv, TypeOK, Stage
  <2> QED
    BY <2>1, <2>2, <1>c DEF Inv
<1>11. CASE Unlock(h)
  <2>1. MemoryConsistent'
    BY <1>11 DEF Unlock, Inv, MemoryConsistent, memoryVars
  <2>2. Stage(h)'
    BY <1>11 DEF Unlock, Inv, TypeOK, Stage
  <2> QED
    BY <2>1, <2>2, <1>c DEF Inv
<1> QED
  BY <1>1, <1>2, <1>3, <1>4, <1>5, <1>6, <1>7, <1>8, <1>9, <1>10, <1>11
     DEF Proceed, TranslationFails, ForwardFails

\* The inductive invariant holds in every reachable state.
THEOREM Invariance == Spec => []Inv
<1>1. Init => Inv
  BY InvInit
<1>2. Inv /\ TypeOK' /\ [Next]_vars => Inv'
  BY OutsideSteps, InsideSteps DEF Next
<1> QED
  BY <1>1, <1>2, Typing, PTL DEF Spec

\* Requests of one session are handled one at a time.
THEOREM Serialised == Spec => []SessionSerialised
BY Invariance, InvImplies, PTL

\* A request on its way upstream is within the threshold it was judged by.
THEOREM WithinThreshold == Spec => []ForwardedWithinThreshold
BY Invariance, InvImplies, PTL

\* An answer, fresh or replayed, was computed for the body it is sent to.
THEOREM OwnBody == Spec => []ReplyIsForOwnBody
BY Invariance, InvImplies, PTL

\* The queued transaction rows agree with the answers.
THEOREM LogAgrees == Spec => []LogAgreesWithReply
BY Invariance, InvImplies, PTL

-----------------------------------------------------------------------------
(***************************************************************************)
(* Refinement of SessionService: under the mapping of Service, each step   *)
(* of the pipeline is a step of the service or leaves it unchanged.        *)
(***************************************************************************)

\* While a goroutine holds the mutex short of "forward", nothing is upstream, and
\* when it is at "forward" it is the one upstream.
LEMMA UpstreamIs ==
    ASSUME Inv, NEW h \in Handler, pc[h] \in Critical
    PROVE  /\ holder = h
           /\ Upstream = IF pc[h] = "forward" THEN h ELSE NoHandler
BY HandlerAssumption DEF Inv, Stage, Upstream

\* Initial states map to initial states.
LEMMA ServiceInit == Init => Service!Init
BY HandlerAssumption DEF Init, Service!Init, Service!NoAnswer, Phase, Upstream

\* A step that only moves a goroutine between locations of the same phase, neither
\* to nor from "forward", is invisible.
LEMMA Invisible ==
    ASSUME Inv, NEW h \in Handler, NEW l \in Location \ {"idle", "unlock", "forward"},
           pc[h] \in Location \ {"idle", "unlock", "forward"},
           pc' = [pc EXCEPT ![h] = l],
           holder' = h, holder \in {h, NoHandler},
           UNCHANGED <<body, reply, resp, dups>>
    PROVE  UNCHANGED Service!vars
<1>1. [g \in Handler |-> Phase(g)]' = [g \in Handler |-> Phase(g)]
  BY DEF Phase, Inv, TypeOK
<1>2. Upstream' = Upstream
  BY HandlerAssumption DEF Upstream, Inv, TypeOK
<1> QED
  BY <1>1, <1>2 DEF Service!vars

\* A goroutine that answers moves from "asked" to "answered".
LEMMA Answering ==
    ASSUME Inv, NEW h \in Handler, NEW r,
           pc[h] \in Critical \ {"unlock"},
           pc' = [pc EXCEPT ![h] = "unlock"],
           reply' = [reply EXCEPT ![h] = r],
           UNCHANGED <<holder, body>>
    PROVE  Service!Reply(h, r) /\ Upstream' = NoHandler
<1>1. [g \in Handler |-> Phase(g)][h] = "asked"
  BY DEF Phase
<1>2. [g \in Handler |-> Phase(g)]' = [[g \in Handler |-> Phase(g)] EXCEPT ![h] = "answered"]
  BY DEF Phase, Inv, TypeOK
<1>3. Upstream' = NoHandler
  BY UpstreamIs, HandlerAssumption DEF Upstream, Inv, TypeOK
<1> QED
  BY <1>1, <1>2, <1>3 DEF Service!Reply

\* Steps map to steps or stutters.
LEMMA ServiceStep ==
    ASSUME Inv, [Next]_vars
    PROVE  [Service!Next]_Service!vars
<1> USE HandlerAssumption
<1> DEFINE phase == [g \in Handler |-> Phase(g)]
<1>1. CASE Tick \/ (\E t \in Theta : SaveTheta(t)) \/ UNCHANGED vars
  <2>1. UNCHANGED <<holder, pc, body, reply, resp, dups>>
    BY <1>1 DEF Tick, SaveTheta, vars, requestVars, memoryVars
  <2>2. phase' = phase /\ Upstream' = Upstream
    BY <2>1 DEF Phase, Upstream
  <2> QED
    BY <2>1, <2>2 DEF Service!vars
<1>2. ASSUME NEW h \in Handler, NEW k \in Kind, NEW b \in Body, Arrive(h, k, b)
      PROVE  [Service!Next]_Service!vars
  <2>1. /\ pc[h] = "idle"
        /\ pc' = [pc EXCEPT ![h] = "lock"]
        /\ body' = [body EXCEPT ![h] = b]
        /\ UNCHANGED <<holder, reply, resp, dups>>
    BY <1>2 DEF Arrive, memoryVars
  <2>2. phase[h] = "idle" /\ phase' = [phase EXCEPT ![h] = "asked"]
    BY <2>1 DEF Phase, Inv, TypeOK
  <2>3. Upstream' = Upstream
    BY <2>1 DEF Upstream, Inv, TypeOK
  <2>4. Service!Ask(h, b)
    BY <2>1, <2>2, <2>3 DEF Service!Ask
  <2> QED
    BY <2>4 DEF Service!Next
<1>3. ASSUME NEW h \in Handler, Lock(h)
      PROVE  [Service!Next]_Service!vars
  BY <1>3, Invisible DEF Lock, memoryVars
<1>4. ASSUME NEW h \in Handler, Proceed(h)
      PROVE  [Service!Next]_Service!vars
  <2>1. CASE ReplayCached(h)
    <3>1. Service!Reply(h, resp) /\ Upstream' = NoHandler
      BY <2>1, Answering DEF ReplayCached
    <3>2. Upstream = NoHandler /\ body[h] = resp.for /\ dups < Limit
      BY <2>1, UpstreamIs DEF ReplayCached, IsDuplicate, Inv, MemoryConsistent
    <3>3. Service!Repeat(h)
      BY <2>1, <3>1, <3>2 DEF ReplayCached, Service!Repeat
    <3> QED
      BY <3>3 DEF Service!Next
  <2>2. CASE ProcessAnew(h) \/ PolicyPasses(h) \/ Perceive(h)
    <3>1. holder = h
      BY <2>2, UpstreamIs DEF ProcessAnew, PolicyPasses, Perceive
    <3> QED
      BY <2>2, <3>1, Invisible DEF ProcessAnew, PolicyPasses, Perceive, memoryVars
  <2>3. CASE PolicyDenies(h)
    <3>1. Service!Reply(h, Fresh(h, "denied")) /\ Upstream' = NoHandler
      BY <2>3, Answering DEF PolicyDenies
    <3>2. Upstream = NoHandler
      BY <2>3, UpstreamIs DEF PolicyDenies
    <3>3. Service!Remember(Fresh(h, "denied"))
      BY <2>3 DEF PolicyDenies, Service!Remember, Inv, MemoryConsistent
    <3>4. Service!Decline(h)
      BY <3>1, <3>2, <3>3 DEF Service!Decline, Service!Own
    <3> QED
      BY <3>4 DEF Service!Next
  <2>4. CASE Decide(h)
    <3>1. holder = h /\ Upstream = NoHandler
      BY <2>4, UpstreamIs DEF Decide
    <3>2. CASE action' = BLOCK
      BY <2>4, <3>1, <3>2, Invisible DEF Decide, memoryVars
    <3>3. CASE action' # BLOCK
      <4>1. phase[h] = "asked" /\ phase' = phase
        BY <2>4, <3>3 DEF Decide, Phase, Inv, TypeOK
      <4>2. Upstream' = h
        BY <2>4, <3>1, <3>3 DEF Decide, Upstream, Inv, TypeOK
      <4>3. Service!Send(h)
        BY <2>4, <3>1, <4>1, <4>2 DEF Decide, memoryVars, Service!Send
      <4> QED
        BY <4>3 DEF Service!Next
    <3> QED
      BY <3>2, <3>3
  <2>5. CASE Refuse(h)
    <3>1. Service!Reply(h, Fresh(h, "blocked")) /\ Upstream' = NoHandler
      BY <2>5, Answering DEF Refuse
    <3>2. Upstream = NoHandler
      BY <2>5, UpstreamIs DEF Refuse
    <3>3. Service!Remember(Fresh(h, "blocked"))
      BY <2>5 DEF Refuse, CacheResponse, Service!Remember, Inv, MemoryConsistent
    <3>4. Service!Decline(h)
      BY <3>1, <3>2, <3>3 DEF Service!Decline, Service!Own
    <3> QED
      BY <3>4 DEF Service!Next
  <2>6. CASE UpstreamAnswers(h)
    <3>1. Service!Reply(h, Fresh(h, "served")) /\ Upstream' = NoHandler
      BY <2>6, Answering DEF UpstreamAnswers
    <3>2. Upstream = h
      BY <2>6, UpstreamIs DEF UpstreamAnswers
    <3>3. Service!Remember(Fresh(h, "served"))
      BY <2>6 DEF UpstreamAnswers, CacheResponse, Service!Remember, Inv, MemoryConsistent
    <3>4. Service!Deliver(h)
      BY <3>1, <3>2, <3>3 DEF Service!Deliver, Service!Own
    <3> QED
      BY <3>4 DEF Service!Next
  <2>7. CASE Fail(h)
    <3>1. Service!Reply(h, Fresh(h, "failed")) /\ Upstream' = NoHandler
      BY <2>7, Answering DEF Fail
    <3>2. Upstream = h
      BY <2>7, UpstreamIs DEF Fail
    <3>3. Service!Deliver(h)
      BY <2>7, <3>1, <3>2 DEF Fail, memoryVars, Service!Deliver, Service!Own
    <3> QED
      BY <3>3 DEF Service!Next
  <2>8. CASE Evaluate(h)
    <3>1. Service!Reply(h, Fresh(h, "evaluated")) /\ Upstream' = NoHandler
      BY <2>8, Answering DEF Evaluate
    <3>2. Upstream = NoHandler
      BY <2>8, UpstreamIs DEF Evaluate
    <3>3. Service!Assess(h)
      BY <2>8, <3>1, <3>2 DEF Evaluate, memoryVars, Service!Assess, Service!Own
    <3> QED
      BY <3>3 DEF Service!Next
  <2>9. CASE Unlock(h)
    <3>1. phase[h] = "answered" /\ phase' = [phase EXCEPT ![h] = "idle"]
      BY <2>9 DEF Unlock, Phase, Inv, TypeOK
    <3>2. Upstream = NoHandler /\ Upstream' = NoHandler
      BY <2>9, UpstreamIs DEF Unlock, Upstream
    <3>3. Service!Leave(h)
      BY <2>9, <3>1, <3>2 DEF Unlock, memoryVars, Service!Leave, Service!NoAnswer
    <3> QED
      BY <3>3 DEF Service!Next
  <2> QED
    BY <1>4, <2>1, <2>2, <2>3, <2>4, <2>5, <2>6, <2>7, <2>8, <2>9
       DEF Proceed, TranslationFails, ForwardFails
<1> QED
  BY <1>1, <1>2, <1>3, <1>4 DEF Next

\* The pipeline implements the safety part of the serial service, for all constants.
THEOREM ImplementsService == Spec => Service!Init /\ [][Service!Next]_Service!vars
BY Invariance, ServiceInit, ServiceStep, PTL DEF Spec
-----------------------------------------------------------------------------
(***************************************************************************)
(* Deduplication over time: DedupHistory.                                  *)
(***************************************************************************)
HIDE DEF ALLOW, MONITOR, BLOCK, Action, Kind, Reply, NoReply, Row, Theta, Surprise, Fresh
USE DEF Replayed, Processed

\* The locations between a duplicate check that fails and the answer.
Working == {"policy", "perceive", "threshold", "refuse", "forward"}

\* While a request is processed anew nothing was replayed since it began, which is why
\* the count may be reset meanwhile; and the count of replays of the remembered body
\* keeps up with the count that is compared.
Counts ==
    /\ run \in Nat /\ spent \in Nat
    /\ run <= dups
    /\ dups <= spent
    /\ \A h \in Handler : pc[h] \in Working => run = 0

LEMMA InitCounts == HistoryInit => Counts
  BY DEF HistoryInit, Init, Counts, Working

\* A step of the holder of the mutex.
LEMMA ProceedCounts ==
  ASSUME Inv, Counts, NEW h \in Handler, Proceed(h), Record
  PROVE  Counts'
<1> USE NumberAssumption
<1> USE DEF Inv, MemoryConsistent, TypeOK, Stage, Counts, Working, Record, UpTo
<1>1. CASE ReplayCached(h)
  <2>1. Replayed /\ hash' = hash /\ dups' = dups + 1 /\ dups < Limit
    BY <1>1 DEF ReplayCached, IsDuplicate
  <2>2. run' = run + 1 /\ spent' \in {Limit, spent + 1} /\ spent' >= dups + 1
    BY <2>1
  <2>3. \A g \in Handler : pc'[g] \notin Working
    BY <1>1 DEF ReplayCached
  <2> QED
    BY <2>1, <2>2, <2>3
<1>2. CASE ~ReplayCached(h) /\ ProcessAnew(h)
  <2>1. ~Replayed /\ Processed /\ UNCHANGED <<hash, dups>>
    BY <1>2 DEF ProcessAnew, ReplayCached, memoryVars
  <2> QED
    BY <2>1
<1>3. CASE \/ PolicyDenies(h) \/ PolicyPasses(h) \/ Perceive(h) \/ Decide(h) \/ Refuse(h)
             \/ UpstreamAnswers(h) \/ TranslationFails(h) \/ ForwardFails(h)
  <2>1. pc[h] \in Working /\ holder = h /\ run = 0
    BY <1>3 DEF PolicyDenies, PolicyPasses, Perceive, Decide, Refuse, UpstreamAnswers,
                TranslationFails, ForwardFails, Fail
  <2>2. \A g \in Handler : ~At(g, "dedup")
    BY <2>1
  <2>3. ~Replayed /\ ~Processed
    BY <2>2 DEF ReplayCached, ProcessAnew
  <2>4. (dups' = dups /\ hash' = hash) \/ dups' = 0
    BY <1>3 DEF PolicyDenies, PolicyPasses, Perceive, Decide, Refuse, UpstreamAnswers,
                TranslationFails, ForwardFails, Fail, CacheResponse, memoryVars
  <2>5. hash' # hash => dups' = 0
    BY <2>4
  <2>6. run' = 0 /\ spent' = IF hash' # hash THEN 0 ELSE spent
    BY <2>1, <2>3
  <2> QED
    BY <2>4, <2>5, <2>6
<1>4. CASE Evaluate(h) \/ Unlock(h)
  <2>1. ~Replayed /\ ~Processed /\ UNCHANGED <<hash, dups>>
    BY <1>4, HandlerAssumption DEF Evaluate, Unlock, ReplayCached, ProcessAnew, memoryVars
  <2>2. \A g \in Handler : pc'[g] \in Working => pc[g] \in Working
    BY <1>4 DEF Evaluate, Unlock
  <2> QED
    BY <2>1, <2>2
<1> QED
  BY <1>1, <1>2, <1>3, <1>4 DEF Proceed

LEMMA NextCounts == Inv /\ Counts /\ [HistoryNext]_allVars => Counts'
<1> SUFFICES ASSUME Inv, Counts, [HistoryNext]_allVars PROVE Counts'
  OBVIOUS
<1> USE DEF Inv, TypeOK, Stage, Counts, Working
<1>1. ASSUME NEW h \in Handler, Proceed(h), Record PROVE Counts'
  BY <1>1, ProceedCounts
<1>2. CASE Tick /\ Record
  BY <1>2 DEF Tick, requestVars, memoryVars, Record, ReplayCached, ProcessAnew
<1>3. ASSUME NEW h \in Handler, NEW k \in Kind, NEW b \in Body, Arrive(h, k, b), Record
      PROVE  Counts'
  <2>1. ~Replayed /\ ~Processed /\ UNCHANGED <<hash, dups>>
    BY <1>3 DEF Arrive, ReplayCached, ProcessAnew, memoryVars
  <2>2. \A g \in Handler : pc'[g] \in Working => pc[g] \in Working
    BY <1>3 DEF Arrive
  <2> QED
    BY <1>3, <2>1, <2>2 DEF Record
<1>4. ASSUME NEW h \in Handler, Lock(h), Record PROVE Counts'
  <2>1. ~Replayed /\ ~Processed /\ UNCHANGED <<hash, dups>>
    BY <1>4 DEF Lock, ReplayCached, ProcessAnew, memoryVars
  <2>2. \A g \in Handler : pc'[g] \in Working => pc[g] \in Working
    BY <1>4 DEF Lock
  <2> QED
    BY <1>4, <2>1, <2>2 DEF Record
<1>5. ASSUME NEW t \in Theta, SaveTheta(t), Record PROVE Counts'
  BY <1>5 DEF SaveTheta, requestVars, memoryVars, Record, ReplayCached, ProcessAnew
<1>6. CASE UNCHANGED allVars
  BY <1>6 DEF allVars, historyVars, vars, requestVars, memoryVars
<1> QED
  BY <1>1, <1>2, <1>3, <1>4, <1>5, <1>6 DEF HistoryNext, Next

LEMMA HistoryImplements == HistorySpec => Spec
<1>1. HistoryInit => Init
  BY DEF HistoryInit
<1>2. [HistoryNext]_allVars => [Next]_vars
  BY DEF HistoryNext, allVars
<1> QED
  BY <1>1, <1>2, PTL DEF HistorySpec, Spec

LEMMA CountsHold == HistorySpec => [](Inv /\ Counts)
<1>1. HistorySpec => []Inv
  BY HistoryImplements, Invariance, PTL
<1> QED
  BY <1>1, InitCounts, NextCounts, PTL DEF HistorySpec

(* No more than DeduplicateLimit clients in a row get the remembered       *)
(* answer (handleChatCompletions, handleAgentAction, CacheResponse).       *)
THEOREM Bounded == HistorySpec => []ReplaysBounded
<1>1. Inv /\ Counts => ReplaysBounded
  BY NumberAssumption DEF Inv, TypeOK, MemoryConsistent, Counts, ReplaysBounded
<1> QED
  BY <1>1, CountsHold, PTL

(* A duplicate within the window is processed in full only when the body's *)
(* own allowance is spent (handleChatCompletions, CacheResponse).          *)
THEOREM OwnAllowance == HistorySpec => BypassOnlyWhenSpent
<1> DEFINE Bypass == \A h \in Handler :
                       ProcessAnew(h) /\ body[h] = hash /\ age < Window => spent >= Limit
<1>1. Inv /\ Counts => Bypass
  <2> SUFFICES ASSUME Inv, Counts, NEW h \in Handler,
                      ProcessAnew(h), body[h] = hash, age < Window
               PROVE  spent >= Limit
    OBVIOUS
  <2>1. hash # NoBody
    BY BodyAssumption DEF ProcessAnew, Inv, Stage
  <2>2. dups >= Limit
    BY <2>1, NumberAssumption DEF ProcessAnew, IsDuplicate, Inv, TypeOK
  <2> QED
    BY <2>2, NumberAssumption DEF Inv, TypeOK, Counts
<1>2. Inv /\ Counts => [Bypass]_allVars
  BY <1>1
<1> QED
  BY <1>2, CountsHold, PTL DEF BypassOnlyWhenSpent
=============================================================================

--------------------------- MODULE SessionService ---------------------------
(***************************************************************************)
(* What a client may rely on when it talks to one session, whatever the    *)
(* goroutines inside do.  The service remembers one answer.  It answers a  *)
(* question either with the remembered answer, if that was computed for    *)
(* the same body and has been repeated fewer than Limit times in a row,    *)
(* or afresh; at most one question is with the provider, and while it is   *)
(* there nobody else is answered.  Failures leave the memory alone.        *)
(***************************************************************************)
EXTENDS Integers

CONSTANTS Client, NoClient, Body, NoBody, Limit

VARIABLES
    phase,      \* of each client: idle, asked, answered
    asked,      \* the body each client asked about
    answer,     \* the answer each client got
    upstream,   \* the client whose question is with the provider
    memory,     \* the remembered answer
    given       \* how often it was repeated

vars == <<phase, asked, answer, upstream, memory, given>>

NoAnswer == [for |-> NoBody, status |-> "none"]

Init ==
    /\ phase = [c \in Client |-> "idle"]
    /\ asked = [c \in Client |-> NoBody]
    /\ answer = [c \in Client |-> NoAnswer]
    /\ upstream = NoClient
    /\ memory = NoAnswer
    /\ given = 0

Ask(c, b) ==
    /\ phase[c] = "idle"
    /\ phase' = [phase EXCEPT ![c] = "asked"]
    /\ asked' = [asked EXCEPT ![c] = b]
    /\ UNCHANGED <<answer, upstream, memory, given>>

Reply(c, r) ==
    /\ phase[c] = "asked"
    /\ phase' = [phase EXCEPT ![c] = "answered"]
    /\ answer' = [answer EXCEPT ![c] = r]
    /\ UNCHANGED asked

Own(c, status) == [for |-> asked[c], status |-> status]

\* A new answer replaces the remembered one; for the same body the count of
\* repetitions may go on.
Remember(r) ==
    /\ memory' = r
    /\ given' \in IF r.for = memory.for THEN {0, given} ELSE {0}

Repeat(c) ==
    /\ upstream = NoClient
    /\ asked[c] = memory.for
    /\ given < Limit
    /\ Reply(c, memory)
    /\ given' = given + 1
    /\ UNCHANGED <<upstream, memory>>

Decline(c) ==
    /\ upstream = NoClient
    /\ \E s \in {"denied", "blocked"} :
           Reply(c, Own(c, s)) /\ Remember(Own(c, s))
    /\ UNCHANGED upstream

Assess(c) ==
    /\ upstream = NoClient
    /\ Reply(c, Own(c, "evaluated"))
    /\ UNCHANGED <<upstream, memory, given>>

Send(c) ==
    /\ phase[c] = "asked"
    /\ upstream = NoClient
    /\ upstream' = c
    /\ UNCHANGED <<phase, asked, answer, memory, given>>

Deliver(c) ==
    /\ upstream = c
    /\ upstream' = NoClient
    /\ \/ Reply(c, Own(c, "served")) /\ Remember(Own(c, "served"))
       \/ Reply(c, Own(c, "failed")) /\ UNCHANGED <<memory, given>>

Leave(c) ==
    /\ phase[c] = "answered"
    /\ phase' = [phase EXCEPT ![c] = "idle"]
    /\ asked' = [asked EXCEPT ![c] = NoBody]
    /\ answer' = [answer EXCEPT ![c] = NoAnswer]
    /\ UNCHANGED <<upstream, memory, given>>

Next == \E c \in Client :
    \/ \E b \in Body : Ask(c, b)
    \/ Repeat(c)
    \/ Decline(c)
    \/ Assess(c)
    \/ Send(c)
    \/ Deliver(c)
    \/ Leave(c)

Spec == Init /\ [][Next]_vars /\ \A c \in Client : (phase[c] = "asked") ~> (phase[c] = "answered")
=============================================================================

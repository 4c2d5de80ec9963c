---------------------------- MODULE RateLimiter ----------------------------
(***************************************************************************)
(* checkRateLimit: the sliding-window limiter every classified request     *)
(* passes.  rateMutex makes one check atomic, so a check is one action.    *)
(*                                                                         *)
(* A recorded time is an identified entry with an age; the slice of a key  *)
(* is a set of entries, since the code only filters and counts it.  Ages   *)
(* saturate just past the window, beyond which the code tells no two apart *)
(* and an entry that no slice holds may be used again.                     *)
(***************************************************************************)
EXTENDS Integers, FiniteSets

CONSTANTS
    Header,        \* values of the X-Session-ID header
    Entry,      \* entries of the slices; their number bounds a burst
    Window,     \* the 2 s window, in clock ticks
    Limit       \* the limit of 15 requests

ASSUME LimiterAssumption ==
    /\ Window \in Nat
    /\ Limit \in Nat \ {0}

VARIABLES
    age,        \* how long ago an entry was recorded, up to Window + 1
    rateStore,  \* the entries kept for each key
    arrived,    \* history: the requests made under a key
    admitted    \* history: those that were let through

limiterVars == <<age, rateStore, arrived, admitted>>

LimiterInit ==
    /\ age = [e \in Entry |-> Window + 1]
    /\ rateStore = [k \in Header |-> {}]
    /\ arrived = [k \in Header |-> {}]
    /\ admitted = [k \in Header |-> {}]

Tick ==
    /\ age' = [e \in Entry |-> IF age[e] <= Window THEN age[e] + 1 ELSE age[e]]
    /\ UNCHANGED <<rateStore, arrived, admitted>>

InWindow(S) == {e \in S : age[e] <= Window}

\* e stands for nothing any slice or the present window remembers.
Unused(e) ==
    /\ age[e] > Window
    /\ \A k \in Header : e \notin rateStore[k]

\* Mutants of Recorded: the request is left out of its slice, and old entries are never
\* pruned.
RecordedWithoutNew(k, e) == InWindow(rateStore[k])
RecordedUnpruned(k, e) == rateStore[k] \cup {e}

\* The slice a check leaves behind: what is in the window, and the new request.
Recorded(k, e) == InWindow(rateStore[k]) \cup {e}

\* A refused request is recorded like an admitted one.
Check(k, e) ==
    /\ Unused(e)
    /\ rateStore' = [rateStore EXCEPT ![k] = Recorded(k, e)]
    /\ age' = [age EXCEPT ![e] = 0]
    /\ arrived' = [c \in Header |-> IF c = k THEN arrived[c] \cup {e} ELSE arrived[c] \ {e}]
    /\ admitted' = [c \in Header |->
           IF c = k /\ Cardinality(Recorded(k, e)) <= Limit
           THEN admitted[c] \cup {e} ELSE admitted[c] \ {e}]

LimiterNext ==
    \/ Tick
    \/ \E k \in Header, e \in Entry : Check(k, e)

LimiterSpec == LimiterInit /\ [][LimiterNext]_limiterVars

-----------------------------------------------------------------------------
LimiterTypeOK ==
    /\ age \in [Entry -> 0..(Window + 1)]
    /\ rateStore \in [Header -> SUBSET Entry]
    /\ arrived \in [Header -> SUBSET Entry]
    /\ admitted \in [Header -> SUBSET Entry]

\* However requests are spaced, no window of 2 s (both ends included) contains more
\* than Limit admitted requests of a key: pruning a slice only at the next check and
\* recording the refused requests never lets an extra one through.
AdmissionsBounded ==
    \A k \in Header : Cardinality(InWindow(admitted[k])) <= Limit

\* A request is refused only if its key made at least Limit requests within the
\* window before it: neither stale entries nor other keys' requests use up a budget.
RefusedOnlyUnderFlood ==
    [][\A k \in Header, e \in Entry :
          Check(k, e) /\ e \notin admitted'[k]
              => Cardinality(InWindow(arrived[k])) >= Limit]_limiterVars
=============================================================================

---------------------------- MODULE DedupHistory ----------------------------
(***************************************************************************)
(* RequestPipeline with history variables about duplicates, so that what   *)
(* deduplication promises can be said in terms of the requests the session *)
(* saw rather than of the counters that implement it.                      *)
(***************************************************************************)
EXTENDS RequestPipeline

VARIABLES
    run,      \* replays since a request was last processed anew
    spent     \* replays since the remembered body last changed, up to Limit

historyVars == <<run, spent>>
allVars == <<vars, historyVars>>

HistoryInit ==
    /\ Init
    /\ run = 0
    /\ spent = 0

UpTo(bound, n) == IF n < bound THEN n ELSE bound

\* The history of one step of the pipeline.
Replayed == \E h \in Handler : ReplayCached(h)
Processed == \E h \in Handler : ProcessAnew(h)

Record ==
    /\ run' = IF Replayed THEN run + 1 ELSE IF Processed THEN 0 ELSE run
    /\ spent' = IF hash' # hash THEN 0
                ELSE IF Replayed THEN UpTo(Limit, spent + 1) ELSE spent

HistoryNext == Next /\ Record

HistorySpec == HistoryInit /\ [][HistoryNext]_allVars /\ Fairness

-----------------------------------------------------------------------------
\* At most Limit clients in a row are fobbed off with the remembered answer before
\* some request is processed in full again.
ReplaysBounded == run <= Limit

\* A duplicate that reaches the session within the window of its last activity is
\* processed in full only when the allowance of its body is used up: the count of
\* one body never eats into the allowance of the next.
BypassOnlyWhenSpent ==
    [][\A h \in Handler :
          ProcessAnew(h) /\ body[h] = hash /\ age < Window => spent >= Limit]_allVars
=============================================================================

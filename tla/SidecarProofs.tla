---------------------------- MODULE SidecarProofs ----------------------------
(***************************************************************************)
(* Proofs about the sidecar and the reloads it asks the gateway for, for   *)
(* any number of rows, threads, intents, lost connections and restarts.    *)
(***************************************************************************)
EXTENDS Sidecar, TLAPS

\* A thread has a row while it is at work, and an engine to perceive it with; a reload
\* that holds the mutex has a row.
Working ==
    /\ \A t \in Thread : at[t] # "idle" => job[t] \in Row
    /\ \A t \in Thread : at[t] \in {"perceive", "assign"} => mine[t] \in Thread
    /\ locked # Nil => reload.row \in Row

Types == TypeOK /\ Working

LEMMA Distinct ==
    /\ Nil \notin Row /\ Nil \notin Thread /\ Nil \notin {"read", "install"}
    /\ Initial \in Intent
  BY SidecarAssumption

LEMMA InitTypes == Init => Types
<1> SUFFICES ASSUME Init PROVE Types
  OBVIOUS
<1>1. 0 \in 0..MaxLosses
  BY SidecarAssumption
<1>2. channel \in Seq(Row) /\ jobs \in Seq(Row)
  BY DEF Init
<1>3. /\ job \in [Thread -> Row \cup {Nil}] /\ mine \in [Thread -> Thread \cup {Nil}]
      /\ seen \in [Thread -> SUBSET Row] /\ engine \in [Thread -> SUBSET Row]
      /\ chosen \in [Thread -> Intent]
  BY Distinct DEF Init
<1>4. at \in [Thread -> {"idle", "read", "lookUp", "create", "perceive", "assign",
                         "commit", "call", "wait"}]
  BY DEF Init
<1>5. reload \in [row: Row \cup {Nil}, intent: Intent]
  BY Distinct DEF Init, NoCall
<1>6. TypeOK
  BY <1>1, <1>2, <1>3, <1>4, <1>5, Distinct DEF Init, TypeOK
<1>7. Working
  BY DEF Init, Working
<1> QED
  BY <1>6, <1>7 DEF Types

LEMMA NextTypeOK == Types /\ [Next]_vars => TypeOK'
<1> SUFFICES ASSUME Types, [Next]_vars PROVE TypeOK'
  OBVIOUS
<1> USE Distinct, SidecarAssumption
<1> USE DEF Types, TypeOK, Working, postgres, listener, threadVars, engines, gateway, NoCall
<1>1. ASSUME NEW r \in Row, Insert(r) PROVE TypeOK'
  BY <1>1 DEF Insert
<1>2. ASSUME NEW r \in Row, Remove(r) PROVE TypeOK'
  BY <1>2 DEF Remove
<1>3. CASE LoseConnection
  <2>1. losses' \in 0..MaxLosses
    BY <1>3 DEF LoseConnection
  <2>2. channel' \in Seq(Row)
    BY <1>3 DEF LoseConnection
  <2> QED
    BY <1>3, <2>1, <2>2 DEF LoseConnection
<1>4. CASE Reconnect
  BY <1>4 DEF Reconnect
<1>5. CASE Deliver
  BY <1>5 DEF Deliver
<1>6. CASE RestartSidecar
  <2>1. losses' \in 0..MaxLosses
    BY <1>6 DEF RestartSidecar
  <2>2. channel' \in Seq(Row) /\ jobs' \in Seq(Row)
    BY <1>6 DEF RestartSidecar
  <2>3. missed' \in BOOLEAN
    BY <1>6 DEF RestartSidecar
  <2>4. /\ job' \in [Thread -> Row \cup {Nil}] /\ mine' \in [Thread -> Thread \cup {Nil}]
        /\ seen' \in [Thread -> SUBSET Row] /\ engine' \in [Thread -> SUBSET Row]
        /\ chosen' \in [Thread -> Intent]
    BY <1>6 DEF RestartSidecar
  <2>5. at' \in [Thread -> {"idle", "read", "lookUp", "create", "perceive", "assign",
                            "commit", "call", "wait"}]
    BY <1>6 DEF RestartSidecar
  <2> QED
    BY <1>6, <2>1, <2>2, <2>3, <2>4, <2>5 DEF RestartSidecar
<1>7. ASSUME NEW t \in Thread, Take(t) PROVE TypeOK'
  BY <1>7 DEF Take, Goes
<1>8. ASSUME NEW t \in Thread, ReadRow(t) PROVE TypeOK'
  BY <1>8 DEF ReadRow, Goes
<1>9. ASSUME NEW t \in Thread, ReadRowFails(t) PROVE TypeOK'
  BY <1>9 DEF ReadRowFails, Ends, Goes
<1>10. ASSUME NEW t \in Thread, LookUp(t) PROVE TypeOK'
  BY <1>10 DEF LookUp, Goes
<1>11. ASSUME NEW t \in Thread, CreateEngine(t) PROVE TypeOK'
  BY <1>11 DEF CreateEngine, Goes
<1>12. ASSUME NEW t \in Thread, BeginPerception(t) PROVE TypeOK'
  BY <1>12 DEF BeginPerception, Goes
<1>13. ASSUME NEW t \in Thread, EndPerception(t) PROVE TypeOK'
  <2>1. seen[t] \cup {job[t]} \in SUBSET Row /\ mine[t] \in Thread
    BY <1>13 DEF EndPerception, Goes
  <2>2. engine' \in [Thread -> SUBSET Row]
    BY <1>13, <2>1 DEF EndPerception
  <2>3. learned' \subseteq Row
    BY <1>13, <2>1 DEF EndPerception
  <2>4. chosen' \in [Thread -> Intent]
    BY <1>13 DEF EndPerception
  <2> QED
    BY <1>13, <2>2, <2>3, <2>4 DEF EndPerception, Goes
<1>14. ASSUME NEW t \in Thread, Commit(t) PROVE TypeOK'
  BY <1>14 DEF Commit, Goes, Outstanding
<1>15. ASSUME NEW t \in Thread, CommitFails(t) PROVE TypeOK'
  BY <1>15 DEF CommitFails, Ends, Goes
<1>16. ASSUME NEW t \in Thread, Call(t) PROVE TypeOK'
  BY <1>16 DEF Call, Goes
<1>17. ASSUME NEW t \in Thread, CallFails(t) PROVE TypeOK'
  BY <1>17 DEF CallFails, Ends, Goes
<1>18. ASSUME NEW t \in Thread, EndCall(t) PROVE TypeOK'
  BY <1>18 DEF EndCall, Ends, Goes
<1>19. ASSUME NEW c \in calls, LockReload(c) PROVE TypeOK'
  BY <1>19 DEF LockReload
<1>20. CASE ReadMatrices
  <2>1. CASE got' = matrices /\ missed' = FALSE
    BY <1>20, <2>1 DEF ReadMatrices
  <2>2. CASE got' = installed /\ missed' = TRUE
    BY <1>20, <2>2 DEF ReadMatrices
  <2> QED
    BY <1>20, <2>1, <2>2 DEF ReadMatrices
<1>21. CASE Install
  BY <1>21 DEF Install
<1>22. CASE UNCHANGED vars
  BY <1>22 DEF vars
<1> QED
  BY <1>1, <1>2, <1>3, <1>4, <1>5, <1>6, <1>7, <1>8, <1>9, <1>10, <1>11, <1>12, <1>13,
     <1>14, <1>15, <1>16, <1>17, <1>18, <1>19, <1>20, <1>21, <1>22 DEF Next, Handle

LEMMA NextWorking == Types /\ [Next]_vars => Working'
<1> SUFFICES ASSUME Types, [Next]_vars PROVE Working'
  OBVIOUS
<1> USE Distinct
<1> USE DEF Types, TypeOK, Working, postgres, listener, threadVars, engines, gateway, NoCall
<1>1. ASSUME NEW r \in Row, Insert(r) PROVE Working'
  BY <1>1 DEF Insert
<1>2. ASSUME NEW r \in Row, Remove(r) PROVE Working'
  BY <1>2 DEF Remove
<1>3. CASE LoseConnection
  BY <1>3 DEF LoseConnection
<1>4. CASE Reconnect
  BY <1>4 DEF Reconnect
<1>5. CASE Deliver
  BY <1>5 DEF Deliver
<1>6. CASE RestartSidecar
  BY <1>6 DEF RestartSidecar
<1>7. ASSUME NEW t \in Thread, Take(t) PROVE Working'
  BY <1>7 DEF Take, Goes
<1>8. ASSUME NEW t \in Thread, ReadRow(t) PROVE Working'
  BY <1>8 DEF ReadRow, Goes
<1>9. ASSUME NEW t \in Thread, ReadRowFails(t) PROVE Working'
  BY <1>9 DEF ReadRowFails, Ends, Goes
<1>10. ASSUME NEW t \in Thread, LookUp(t) PROVE Working'
  BY <1>10 DEF LookUp, Goes
<1>11. ASSUME NEW t \in Thread, CreateEngine(t) PROVE Working'
  BY <1>11 DEF CreateEngine, Goes
<1>12. ASSUME NEW t \in Thread, BeginPerception(t) PROVE Working'
  BY <1>12 DEF BeginPerception, Goes
<1>13. ASSUME NEW t \in Thread, EndPerception(t) PROVE Working'
  BY <1>13 DEF EndPerception, Goes
<1>14. ASSUME NEW t \in Thread, Commit(t) PROVE Working'
  BY <1>14 DEF Commit, Goes
<1>15. ASSUME NEW t \in Thread, CommitFails(t) PROVE Working'
  BY <1>15 DEF CommitFails, Ends, Goes
<1>16. ASSUME NEW t \in Thread, Call(t) PROVE Working'
  BY <1>16 DEF Call, Goes
<1>17. ASSUME NEW t \in Thread, CallFails(t) PROVE Working'
  BY <1>17 DEF CallFails, Ends, Goes
<1>18. ASSUME NEW t \in Thread, EndCall(t) PROVE Working'
  BY <1>18 DEF EndCall, Ends, Goes
<1>19. ASSUME NEW c \in calls, LockReload(c) PROVE Working'
  BY <1>19 DEF LockReload
<1>20. CASE ReadMatrices
  BY <1>20 DEF ReadMatrices
<1>21. CASE Install
  BY <1>21 DEF Install
<1>22. CASE UNCHANGED vars
  BY <1>22 DEF vars
<1> QED
  BY <1>1, <1>2, <1>3, <1>4, <1>5, <1>6, <1>7, <1>8, <1>9, <1>10, <1>11, <1>12, <1>13,
     <1>14, <1>15, <1>16, <1>17, <1>18, <1>19, <1>20, <1>21, <1>22 DEF Next, Handle

LEMMA NextTypes == Types /\ [Next]_vars => Types'
  BY NextTypeOK, NextWorking DEF Types

(* Queues, threads, engines, calls and the gateway's state hold what they  *)
(* should, across every lost connection and restart (handle_notification,  *)
(* main, handleConfigReload).                                              *)
THEOREM Typing == Spec => []TypeOK
<1>1. Types => TypeOK
  BY DEF Types
<1> QED
  BY <1>1, InitTypes, NextTypes, PTL DEF Spec

-----------------------------------------------------------------------------
\* A reload will read the matrices, or has to be asked for first.
ToRead ==
    \/ \E t \in Thread : at[t] = "call"
    \/ calls # {}
    \/ locked = "read"

\* What was committed last is yet to be read, is about to be installed, or is installed.
OnTheWay ==
    ~missed =>
        \/ ToRead
        \/ locked = "install" /\ got = matrices
        \/ locked = Nil /\ installed = matrices

LEMMA InitOnTheWay == Init => OnTheWay
  BY DEF Init, OnTheWay

LEMMA NextOnTheWay == Types /\ OnTheWay /\ [Next]_vars => OnTheWay'
<1> SUFFICES ASSUME Types, OnTheWay, [Next]_vars PROVE OnTheWay'
  OBVIOUS
<1> USE Distinct
<1> USE DEF Types, TypeOK, OnTheWay, ToRead,
           postgres, listener, threadVars, engines, gateway
<1>1. ASSUME NEW r \in Row, Insert(r) PROVE OnTheWay'
  BY <1>1 DEF Insert
<1>2. ASSUME NEW r \in Row, Remove(r) PROVE OnTheWay'
  BY <1>2 DEF Remove
<1>3. CASE LoseConnection
  BY <1>3 DEF LoseConnection
<1>4. CASE Reconnect
  BY <1>4 DEF Reconnect
<1>5. CASE Deliver
  BY <1>5 DEF Deliver
<1>6. CASE RestartSidecar
  BY <1>6 DEF RestartSidecar
<1>7. ASSUME NEW t \in Thread, Take(t) PROVE OnTheWay'
  BY <1>7 DEF Take, Goes
<1>8. ASSUME NEW t \in Thread, ReadRow(t) PROVE OnTheWay'
  BY <1>8 DEF ReadRow, Goes
<1>9. ASSUME NEW t \in Thread, ReadRowFails(t) PROVE OnTheWay'
  BY <1>9 DEF ReadRowFails, Ends, Goes
<1>10. ASSUME NEW t \in Thread, LookUp(t) PROVE OnTheWay'
  BY <1>10 DEF LookUp, Goes
<1>11. ASSUME NEW t \in Thread, CreateEngine(t) PROVE OnTheWay'
  BY <1>11 DEF CreateEngine, Goes
<1>12. ASSUME NEW t \in Thread, BeginPerception(t) PROVE OnTheWay'
  BY <1>12 DEF BeginPerception, Goes
<1>13. ASSUME NEW t \in Thread, EndPerception(t) PROVE OnTheWay'
  BY <1>13 DEF EndPerception, Goes
<1>14. ASSUME NEW t \in Thread, Commit(t) PROVE OnTheWay'
  BY <1>14 DEF Commit, Goes
<1>15. ASSUME NEW t \in Thread, CommitFails(t) PROVE OnTheWay'
  BY <1>15 DEF CommitFails, Ends, Goes
<1>16. ASSUME NEW t \in Thread, Call(t) PROVE OnTheWay'
  BY <1>16 DEF Call, Goes
<1>17. ASSUME NEW t \in Thread, CallFails(t) PROVE OnTheWay'
  BY <1>17 DEF CallFails, Ends, Goes
<1>18. ASSUME NEW t \in Thread, EndCall(t) PROVE OnTheWay'
  BY <1>18 DEF EndCall, Ends, Goes
<1>19. ASSUME NEW c \in calls, LockReload(c) PROVE OnTheWay'
  BY <1>19 DEF LockReload
<1>20. CASE ReadMatrices
  BY <1>20 DEF ReadMatrices
<1>21. CASE Install
  BY <1>21 DEF Install
<1>22. CASE UNCHANGED vars
  BY <1>22 DEF vars
<1> QED
  BY <1>1, <1>2, <1>3, <1>4, <1>5, <1>6, <1>7, <1>8, <1>9, <1>10, <1>11, <1>12, <1>13,
     <1>14, <1>15, <1>16, <1>17, <1>18, <1>19, <1>20, <1>21, <1>22 DEF Next, Handle

(* Whatever the order of commits, calls and reloads, the gateway judges by *)
(* the matrices that were committed last once no reload is outstanding,    *)
(* unless one failed since (handle_notification, handleConfigReload).      *)
THEOREM LastCommitArrives == Spec => []MatricesArrive
<1>1. Types /\ OnTheWay => MatricesArrive
  <2> SUFFICES ASSUME Types, OnTheWay, Settled, ~missed PROVE installed = matrices
    BY DEF MatricesArrive
  <2>1. locked = Nil
    BY Distinct DEF Types, Working, Settled, NoCall
  <2>2. ~ToRead
    BY <2>1, SidecarAssumption DEF Settled, ToRead, Types, TypeOK
  <2> QED
    BY <2>1, <2>2, Distinct DEF OnTheWay, Types, TypeOK
<1> QED
  BY <1>1, InitTypes, NextTypes, InitOnTheWay, NextOnTheWay, PTL DEF Spec

-----------------------------------------------------------------------------
\* The reload of the last commit has yet to be asked for, is on its way, holds the mutex
\* or is done, and there is no other.
Asked ==
    \E t \in Thread :
        /\ at[t] = "call" /\ chosen[t] = matrices
        /\ \A u \in Thread : at[u] = "call" => u = t
        /\ calls = {} /\ reload = NoCall /\ locked = Nil
Sent ==
    /\ \A t \in Thread : at[t] # "call"
    /\ \E c \in calls : c.intent = matrices /\ calls = {c}
    /\ reload = NoCall /\ locked = Nil
Held ==
    /\ \A t \in Thread : at[t] # "call"
    /\ calls = {} /\ reload.intent = matrices
    /\ locked \in {"read", "install"}
    /\ locked = "install" /\ ~missed => got = matrices
Done ==
    /\ \A t \in Thread : at[t] # "call"
    /\ calls = {} /\ reload = NoCall /\ locked = Nil
    /\ ~missed => installed = matrices /\ l2Action = matrices

OneReload == ~crossed => Asked \/ Sent \/ Held \/ Done

LEMMA InitOneReload == Init => OneReload
  BY DEF Init, OneReload, Done

LEMMA NextOneReload == Types /\ OneReload /\ [Next]_vars => OneReload'
<1> SUFFICES ASSUME Types, OneReload, [Next]_vars PROVE OneReload'
  OBVIOUS
<1> USE Distinct
<1> USE DEF Types, TypeOK, Working, OneReload, Asked, Sent, Held, Done, NoCall,
           postgres, listener, threadVars, engines, gateway
<1>1. ASSUME NEW r \in Row, Insert(r) PROVE OneReload'
  BY <1>1 DEF Insert
<1>2. ASSUME NEW r \in Row, Remove(r) PROVE OneReload'
  BY <1>2 DEF Remove
<1>3. CASE LoseConnection
  BY <1>3 DEF LoseConnection
<1>4. CASE Reconnect
  BY <1>4 DEF Reconnect
<1>5. CASE Deliver
  BY <1>5 DEF Deliver
<1>6. CASE RestartSidecar
  BY <1>6 DEF RestartSidecar
<1>7. ASSUME NEW t \in Thread, Take(t) PROVE OneReload'
  BY <1>7 DEF Take, Goes
<1>8. ASSUME NEW t \in Thread, ReadRow(t) PROVE OneReload'
  BY <1>8 DEF ReadRow, Goes
<1>9. ASSUME NEW t \in Thread, ReadRowFails(t) PROVE OneReload'
  BY <1>9 DEF ReadRowFails, Ends, Goes
<1>10. ASSUME NEW t \in Thread, LookUp(t) PROVE OneReload'
  BY <1>10 DEF LookUp, Goes
<1>11. ASSUME NEW t \in Thread, CreateEngine(t) PROVE OneReload'
  BY <1>11 DEF CreateEngine, Goes
<1>12. ASSUME NEW t \in Thread, BeginPerception(t) PROVE OneReload'
  BY <1>12 DEF BeginPerception, Goes
<1>13. ASSUME NEW t \in Thread, EndPerception(t) PROVE OneReload'
  BY <1>13 DEF EndPerception, Goes
<1>14. ASSUME NEW t \in Thread, Commit(t) PROVE OneReload'
  BY <1>14 DEF Commit, Goes, Outstanding
<1>15. ASSUME NEW t \in Thread, CommitFails(t) PROVE OneReload'
  BY <1>15 DEF CommitFails, Ends, Goes
<1>16. ASSUME NEW t \in Thread, Call(t) PROVE OneReload'
  <2> SUFFICES ASSUME ~crossed PROVE Sent'
    BY <1>16 DEF Call
  <2>1. /\ chosen[t] = matrices /\ calls = {} /\ reload = NoCall /\ locked = Nil
        /\ \A u \in Thread : at[u] = "call" => u = t
    BY <1>16 DEF Call, Goes
  <2>2. calls' = {[row |-> job[t], intent |-> matrices]}
    BY <1>16, <2>1 DEF Call
  <2>3. \A u \in Thread : at'[u] # "call"
    BY <1>16, <2>1 DEF Call, Goes
  <2>4. \E c \in calls' : c.intent = matrices /\ calls' = {c}
    BY <2>2
  <2> QED
    BY <1>16, <2>1, <2>3, <2>4 DEF Call
<1>17. ASSUME NEW t \in Thread, CallFails(t) PROVE OneReload'
  BY <1>17 DEF CallFails, Ends, Goes
<1>18. ASSUME NEW t \in Thread, EndCall(t) PROVE OneReload'
  BY <1>18 DEF EndCall, Ends, Goes
<1>19. ASSUME NEW c \in calls, LockReload(c) PROVE OneReload'
  BY <1>19 DEF LockReload
<1>20. CASE ReadMatrices
  BY <1>20 DEF ReadMatrices
<1>21. CASE Install
  BY <1>21 DEF Install
<1>22. CASE UNCHANGED vars
  BY <1>22 DEF vars
<1> QED
  BY <1>1, <1>2, <1>3, <1>4, <1>5, <1>6, <1>7, <1>8, <1>9, <1>10, <1>11, <1>12, <1>13,
     <1>14, <1>15, <1>16, <1>17, <1>18, <1>19, <1>20, <1>21, <1>22 DEF Next, Handle

(* The intent that came with the last reload is the one its matrices were  *)
(* adjusted for, unless a commit overtook another's reload                 *)
(* (handle_notification, notify_gateway_reload, handleConfigReload).       *)
THEOREM IntentArrives == Spec => []IntentMatches
<1>1. Types /\ OneReload => IntentMatches
  BY Distinct DEF Types, Working, OneReload, Asked, Sent, Held, Done, NoCall, Settled,
     IntentMatches
<1> QED
  BY <1>1, InitTypes, NextTypes, InitOneReload, NextOneReload, PTL DEF Spec

-----------------------------------------------------------------------------
\* Threads that have not met look for and work on one engine, whose beliefs reflect all
\* that was perceived.
OneEngine ==
    ~overlapped =>
        /\ \A t, u \in Thread : at[t] = at[u] /\ at[t] \in {"create", "assign"} => t = u
        /\ \A t \in Thread : at[t] = "create" => registered = Nil
        /\ \A t \in Thread : at[t] \in {"perceive", "assign"} => mine[t] = registered
        /\ \A t \in Thread : at[t] = "assign" => seen[t] = learned
        /\ registered = Nil => learned = {}
        /\ registered # Nil => engine[registered] = learned

LEMMA InitOneEngine == Init => OneEngine
  BY DEF Init, OneEngine

LEMMA NextOneEngine == Types /\ OneEngine /\ [Next]_vars => OneEngine'
<1> SUFFICES ASSUME Types, OneEngine, [Next]_vars PROVE OneEngine'
  OBVIOUS
<1> USE Distinct
<1> USE DEF Types, TypeOK, Working, OneEngine,
           postgres, listener, threadVars, engines, gateway
<1>1. ASSUME NEW r \in Row, Insert(r) PROVE OneEngine'
  BY <1>1 DEF Insert
<1>2. ASSUME NEW r \in Row, Remove(r) PROVE OneEngine'
  BY <1>2 DEF Remove
<1>3. CASE LoseConnection
  BY <1>3 DEF LoseConnection
<1>4. CASE Reconnect
  BY <1>4 DEF Reconnect
<1>5. CASE Deliver
  BY <1>5 DEF Deliver
<1>6. CASE RestartSidecar
  BY <1>6 DEF RestartSidecar
<1>7. ASSUME NEW t \in Thread, Take(t) PROVE OneEngine'
  BY <1>7 DEF Take, Goes
<1>8. ASSUME NEW t \in Thread, ReadRow(t) PROVE OneEngine'
  BY <1>8 DEF ReadRow, Goes
<1>9. ASSUME NEW t \in Thread, ReadRowFails(t) PROVE OneEngine'
  BY <1>9 DEF ReadRowFails, Ends, Goes
<1>10. ASSUME NEW t \in Thread, LookUp(t) PROVE OneEngine'
  BY <1>10 DEF LookUp, Goes
<1>11. ASSUME NEW t \in Thread, CreateEngine(t) PROVE OneEngine'
  BY <1>11 DEF CreateEngine, Goes
<1>12. ASSUME NEW t \in Thread, BeginPerception(t) PROVE OneEngine'
  <2> SUFFICES ASSUME ~overlapped' PROVE OneEngine'
    OBVIOUS
  <2>1. ~overlapped /\ \A u \in Thread \ {t} : at[u] # "assign"
    BY <1>12 DEF BeginPerception
  <2>2. mine[t] = registered /\ registered # Nil /\ engine[mine[t]] = learned
    BY <1>12, <2>1 DEF BeginPerception, Goes
  <2>3. /\ at' = [at EXCEPT ![t] = "assign"] /\ seen' = [seen EXCEPT ![t] = learned]
        /\ UNCHANGED <<mine, registered, engine, learned>>
    BY <1>12, <2>2 DEF BeginPerception, Goes
  <2>4. \A u, v \in Thread : at'[u] = at'[v] /\ at'[u] \in {"create", "assign"} => u = v
    BY <2>1, <2>3
  <2>5. \A u \in Thread : at'[u] = "assign" => seen'[u] = learned
    BY <2>1, <2>3
  <2>6. /\ \A u \in Thread : at'[u] = "create" => registered = Nil
        /\ \A u \in Thread : at'[u] \in {"perceive", "assign"} => mine[u] = registered
    BY <2>1, <2>2, <2>3
  <2> QED
    BY <2>1, <2>2, <2>3, <2>4, <2>5, <2>6
<1>13. ASSUME NEW t \in Thread, EndPerception(t) PROVE OneEngine'
  BY <1>13 DEF EndPerception, Goes
<1>14. ASSUME NEW t \in Thread, Commit(t) PROVE OneEngine'
  BY <1>14 DEF Commit, Goes
<1>15. ASSUME NEW t \in Thread, CommitFails(t) PROVE OneEngine'
  BY <1>15 DEF CommitFails, Ends, Goes
<1>16. ASSUME NEW t \in Thread, Call(t) PROVE OneEngine'
  BY <1>16 DEF Call, Goes
<1>17. ASSUME NEW t \in Thread, CallFails(t) PROVE OneEngine'
  BY <1>17 DEF CallFails, Ends, Goes
<1>18. ASSUME NEW t \in Thread, EndCall(t) PROVE OneEngine'
  BY <1>18 DEF EndCall, Ends, Goes
<1>19. ASSUME NEW c \in calls, LockReload(c) PROVE OneEngine'
  BY <1>19 DEF LockReload
<1>20. CASE ReadMatrices
  BY <1>20 DEF ReadMatrices
<1>21. CASE Install
  BY <1>21 DEF Install
<1>22. CASE UNCHANGED vars
  BY <1>22 DEF vars
<1> QED
  BY <1>1, <1>2, <1>3, <1>4, <1>5, <1>6, <1>7, <1>8, <1>9, <1>10, <1>11, <1>12, <1>13,
     <1>14, <1>15, <1>16, <1>17, <1>18, <1>19, <1>20, <1>21, <1>22 DEF Next, Handle

(* An engine forgets no row it has perceived while threads do not meet on  *)
(* it or in its creation (handle_notification, update_perception).         *)
THEOREM NothingForgotten == Spec => []BeliefsKeepAll
<1>1. Types /\ OneEngine => BeliefsKeepAll
  BY DEF OneEngine, BeliefsKeepAll
<1> QED
  BY <1>1, InitTypes, NextTypes, InitOneEngine, NextOneEngine, PTL DEF Spec
=============================================================================

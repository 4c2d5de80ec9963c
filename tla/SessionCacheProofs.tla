------------------------- MODULE SessionCacheProofs -------------------------
(***************************************************************************)
(* Theorems about SessionCache, for any number of requests, reloads, saves *)
(* and resets: its types; the mutual exclusion of the handlers that lock a *)
(* state; and, for a session that stays resident, the three invariants of  *)
(* the cached object.                                                      *)
(***************************************************************************)
EXTENDS SessionCache, TLAPS, FiniteSetTheorems

-----------------------------------------------------------------------------
(***************************************************************************)
(* The inductive invariant behind the types: which handlers run which      *)
(* code, that whoever uses its object has one, and that the version in the *)
(* database counts the handlers that have committed.                       *)
(***************************************************************************)

OnlyAt(locations, processes) ==
    \A p \in Process : pc[p] \in locations => p \in processes

Kinds ==
    /\ OnlyAt({"begin"}, Reload \cup Save)
    /\ OnlyAt({"wipe"}, Reset)
    /\ OnlyAt({"lock", "unlock"}, Request \cup Reload)
    /\ OnlyAt({"work"}, Request)
    /\ OnlyAt({"reread", "assign"}, Reload \cup Save)
    /\ OnlyAt({"evict", "purge"}, Reload \cup Save \cup Reset)
    /\ OnlyAt({"load", "redis", "adopt", "rehydrate", "publish", "marshal",
               "store", "snapshot"}, Request \cup Reload \cup Save)

Attached ==
    \A p \in Process :
        \/ pc[p] \in {"adopt", "publish", "marshal", "lock", "work", "store",
                      "snapshot", "unlock", "reread", "assign"}
        \/ p \in Reload /\ pc[p] \in {"evict", "purge"}
        => obj[p] \in Object

Committer == Reload \cup Save \cup Reset

Counted == db = Cardinality({p \in Committer : Begun(p)})

Types ==
    /\ pc \in [Process -> Location]
    /\ obj \in [Process -> Object \cup {Nil}]
    /\ read \in [Process -> Version]
    /\ seen \in [Object -> SUBSET Request]
    /\ version \in [Object -> Version]
    /\ holder \in [Object -> Process \cup {Nil}]
    /\ cache \in Object \cup {Nil}
    /\ redis \in Copy \cup {Nil}
    /\ queue \in Seq(Copy) /\ Len(queue) <= QueueSize
    /\ running \subseteq Copy

IInv == Types /\ Kinds /\ Attached /\ Counted

LEMMA CountIsVersion ==
    ASSUME NEW S \in SUBSET Committer
    PROVE  Cardinality(S) \in Version
<1>1. IsFiniteSet(Committer)
  BY CacheAssumption, FS_Subset DEF Committer, Process
<1>2. Cardinality(S) \in Nat /\ Cardinality(Committer) \in Nat
  BY <1>1, FS_Subset, FS_CardinalityType
<1>3. Cardinality(S) <= Cardinality(Committer)
  BY <1>1, FS_Subset
<1> QED
  BY <1>2, <1>3 DEF Version, MaxVersion, Committer

LEMMA StartOf ==
    /\ \A p \in Request : Start(p) = "load"
    /\ \A p \in Reload \cup Save : Start(p) = "begin"
    /\ \A p \in Reset : Start(p) = "wipe"
BY CacheAssumption DEF Start

LEMMA DbIsVersion == Counted => db \in Version
BY CountIsVersion DEF Counted

LEMMA InitInv == Init => IInv
<1> SUFFICES ASSUME Init PROVE IInv
  OBVIOUS
<1> USE DEF Init
<1>1. {p \in Committer : Begun(p)} = {}
  BY DEF Begun, Committer, Process
<1>2. Counted
  BY <1>1, FS_EmptySet DEF Counted
<1>3. 0 \in Version
  BY CountIsVersion, FS_EmptySet
<1>4. \A p \in Process : Start(p) \in {"begin", "wipe", "load"}
  BY StartOf DEF Process
<1>5. Types
  BY <1>3, <1>4, CacheAssumption DEF Types, Location, Object, Process
<1>6. Kinds
  BY StartOf, CacheAssumption DEF Kinds, OnlyAt, Process
<1>7. Attached
  BY <1>4 DEF Attached
<1> QED
  BY <1>2, <1>5, <1>6, <1>7 DEF IInv

\* What a marshal leaves in the queue.
LEMMA MarshalTypes ==
    ASSUME Types, NEW c \in Copy,
           queue' = IF Len(queue) < QueueSize THEN Append(queue, c) ELSE queue
    PROVE  queue' \in Seq(Copy) /\ Len(queue') <= QueueSize
BY CacheAssumption DEF Types

LEMMA StepTypes ==
    ASSUME IInv, NEW p \in Process, Step(p) \/ Lock(p)
    PROVE  Types' /\ Kinds' /\ Attached'
<1> USE DEF IInv, Move, Found, objectVars, taskVars
<1> USE DEF Types, Kinds, OnlyAt, Attached, Location
<1>0. /\ db \in Version
      /\ Process \subseteq Object
      /\ Process = Request \cup Reload \cup Save \cup Reset
      /\ Request \cap (Reload \cup Save \cup Reset) = {}
      /\ Reload \cap (Save \cup Reset) = {}
      /\ Save \cap Reset = {}
  BY DbIsVersion, CacheAssumption DEF Object, Process
<1>1. CASE CacheHit(p)
  BY <1>0, <1>1 DEF CacheHit
<1>2. CASE CacheMiss(p)
  BY <1>0, <1>2 DEF CacheMiss
<1>3. CASE RedisHit(p)
  <2>1. redis.seen \subseteq Request /\ redis.version \in Version
    BY <1>3 DEF RedisHit, Allocate, Copy
  <2> QED
    BY <1>0, <1>3, <2>1 DEF RedisHit, Allocate
<1>4. CASE RedisMiss(p)
  BY <1>0, <1>4 DEF RedisMiss
<1>5. CASE Adopt(p)
  BY <1>0, <1>5 DEF Adopt
<1>6. CASE Rehydrate(p)
  BY <1>0, <1>6 DEF Rehydrate, Allocate
<1>7. CASE RehydrateFails(p)
  BY <1>0, <1>7 DEF RehydrateFails
<1>8. CASE PublishLoaded(p)
  BY <1>0, <1>8 DEF PublishLoaded, Publish
<1>9. CASE MarshalLoaded(p)
  <2>1. CopyOf(obj[p]) \in Copy
    BY <1>9 DEF MarshalLoaded, Marshal, CopyOf, Copy
  <2>2. queue' \in Seq(Copy) /\ Len(queue') <= QueueSize
    BY <1>9, <2>1, MarshalTypes DEF MarshalLoaded, Marshal
  <2> QED
    BY <1>0, <1>9, <2>2 DEF MarshalLoaded, Marshal
<1>10. CASE PublishUpdated(p)
  BY <1>0, <1>10 DEF PublishUpdated, Publish
<1>11. CASE MarshalUpdated(p)
  <2>1. CopyOf(obj[p]) \in Copy
    BY <1>11 DEF MarshalUpdated, Marshal, CopyOf, Copy
  <2>2. queue' \in Seq(Copy) /\ Len(queue') <= QueueSize
    BY <1>11, <2>1, MarshalTypes DEF MarshalUpdated, Marshal
  <2> QED
    BY <1>0, <1>11, <2>2 DEF MarshalUpdated, Marshal
<1>12. CASE Unlock(p)
  BY <1>0, <1>12 DEF Unlock
<1>13. CASE Handle(p)
  BY <1>0, <1>13 DEF Handle
<1>14. CASE Evict(p)
  BY <1>0, <1>14 DEF Evict
<1>15. CASE Purge(p)
  BY <1>0, <1>15 DEF Purge
<1>16. CASE UpdateRow(p)
  BY <1>0, <1>16 DEF UpdateRow
<1>17. CASE Reread(p)
  BY <1>0, <1>17 DEF Reread
<1>18. CASE RereadFails(p)
  BY <1>0, <1>18 DEF RereadFails
<1>19. CASE Assign(p)
  BY <1>0, <1>19 DEF Assign
<1>20. CASE Wipe(p)
  BY <1>0, <1>20 DEF Wipe
<1>21. CASE Lock(p)
  BY <1>0, <1>21 DEF Lock
<1> QED
  BY <1>1, <1>2, <1>3, <1>4, <1>5, <1>6, <1>7, <1>8, <1>9, <1>10, <1>11, <1>12, <1>13, <1>14, <1>15, <1>16, <1>17, <1>18, <1>19, <1>20, <1>21 DEF Step

\* A step inside a handler commits nothing, and keeps the handlers that have begun.
LEMMA StepWithin ==
    ASSUME IInv, NEW p \in Process, NEW from, NEW to, Move(p, from, to),
           from \notin {"begin", "wipe"}, to \notin {"begin", "wipe"},
           db' = db
    PROVE  Counted'
<1>1. \A q \in Committer : Start(q) \in {"begin", "wipe"}
  BY StartOf DEF Committer
<1>2. \A q \in Committer : Begun(q)' <=> Begun(q)
  BY <1>1 DEF Move, Begun, IInv, Types, Committer, Process
<1>3. {q \in Committer : Begun(q)}' = {q \in Committer : Begun(q)}
  BY <1>2
<1> QED
  BY <1>3 DEF IInv, Counted

\* A commit is counted once.
LEMMA StepCommits ==
    ASSUME IInv, NEW p \in Committer, NEW to, Move(p, Start(p), to),
           to \notin {"begin", "wipe"}, db' = db + 1
    PROVE  Counted'
<1> DEFINE S == {q \in Committer : Begun(q)}
<1>1. \A q \in Committer : Start(q) \in {"begin", "wipe"}
  BY StartOf DEF Committer
<1>2. p \notin S /\ p \in Process
  BY DEF Move, Begun, Committer, Process
<1>3. S' = S \cup {p}
  BY <1>1, <1>2 DEF Move, Begun, IInv, Types, Committer, Process
<1>4. IsFiniteSet(S)
  BY CacheAssumption, FS_Subset DEF Committer, Process
<1>5. Cardinality(S') = Cardinality(S) + 1
  BY <1>2, <1>3, <1>4, FS_AddElement
<1> QED
  BY <1>5 DEF IInv, Counted

LEMMA StepCounted ==
    ASSUME IInv, NEW p \in Process, Step(p) \/ Lock(p)
    PROVE  Counted'
<1>1. CASE UpdateRow(p)
  <2>1. p \in Reload \cup Save
    BY <1>1 DEF UpdateRow, Move, IInv, Kinds, OnlyAt
  <2>2. p \in Committer /\ Start(p) = "begin"
    BY <2>1, StartOf DEF Committer
  <2> QED
    BY <1>1, <2>2, StepCommits DEF UpdateRow
<1>2. CASE Wipe(p)
  <2>1. p \in Reset
    BY <1>2 DEF Wipe, Move, IInv, Kinds, OnlyAt
  <2>2. p \in Committer /\ Start(p) = "wipe"
    BY <2>1, StartOf DEF Committer
  <2> QED
    BY <1>2, <2>2, StepCommits DEF Wipe
<1>3. CASE CacheHit(p) \/ CacheMiss(p) \/ RedisHit(p) \/ RedisMiss(p) \/ Adopt(p)
             \/ Rehydrate(p) \/ RehydrateFails(p)
  BY <1>3, StepWithin DEF CacheHit, CacheMiss, RedisHit, RedisMiss, Adopt, Rehydrate,
     RehydrateFails, Found
<1>4. CASE PublishLoaded(p) \/ MarshalLoaded(p) \/ PublishUpdated(p) \/ MarshalUpdated(p)
  BY <1>4, StepWithin DEF PublishLoaded, MarshalLoaded, PublishUpdated, MarshalUpdated,
     Publish, Marshal, Found
<1>5. CASE Lock(p) \/ Unlock(p) \/ Handle(p) \/ Evict(p) \/ Purge(p)
  BY <1>5, StepWithin DEF Lock, Unlock, Handle, Evict, Purge
<1>6. CASE Reread(p) \/ RereadFails(p) \/ Assign(p)
  BY <1>6, StepWithin DEF Reread, RereadFails, Assign
<1> QED
  BY <1>1, <1>2, <1>3, <1>4, <1>5, <1>6 DEF Step

LEMMA NextInv == IInv /\ [Next]_vars => IInv'
<1> SUFFICES ASSUME IInv, [Next]_vars PROVE IInv'
  OBVIOUS
<1>1. ASSUME NEW p \in Process, Step(p) \/ Lock(p) PROVE IInv'
  BY <1>1, StepTypes, StepCounted DEF IInv
<1>2. ASSUME UNCHANGED <<processVars, db>> PROVE Kinds' /\ Attached' /\ Counted'
  BY <1>2 DEF IInv, processVars, Kinds, OnlyAt, Attached, Counted, Begun
<1>3. CASE Dequeue
  <2>1. Head(queue) \in Copy /\ Tail(queue) \in Seq(Copy) /\ Len(Tail(queue)) <= QueueSize
    BY <1>3, CacheAssumption DEF Dequeue, IInv, Types
  <2>2. Types'
    BY <1>3, <2>1 DEF Dequeue, IInv, Types, processVars, objectVars
  <2> QED
    BY <1>2, <1>3, <2>2 DEF Dequeue, IInv
<1>4. CASE \E copy \in running : Set(copy)
  <2>1. Types'
    BY <1>4 DEF Set, IInv, Types, processVars, objectVars
  <2> QED
    BY <1>2, <1>4, <2>1 DEF Set, IInv
<1>5. CASE Expire
  <2>1. Types'
    BY <1>5 DEF Expire, IInv, Types, processVars, objectVars, taskVars
  <2> QED
    BY <1>2, <1>5, <2>1 DEF Expire, IInv
<1>6. CASE UNCHANGED vars
  <2>1. Types'
    BY <1>6 DEF vars, IInv, Types, processVars, objectVars, taskVars
  <2> QED
    BY <1>2, <1>6, <2>1 DEF vars, IInv
<1> QED
  BY <1>1, <1>3, <1>4, <1>5, <1>6 DEF Next, Work, Idle

LEMMA Invariance == Spec => []IInv
BY InitInv, NextInv, PTL DEF Spec

\* Types, whatever the numbers of handlers and whatever fails: every location runs only
\* in the handlers whose code has it, whoever works on a state has one, and the version
\* of the matrices never exceeds the number of commits.
THEOREM Typing == Spec => []TypeOK
<1>1. IInv => TypeOK
  BY DbIsVersion DEF IInv, Types, TypeOK
<1> QED
  BY <1>1, Invariance, PTL

-----------------------------------------------------------------------------
(***************************************************************************)
(* A request or a reload is inside the mutex of its state from the lock to *)
(* the deferred unlock; a settings save is never.                          *)
(***************************************************************************)

Inside(p) ==
    /\ p \in Request \cup Reload
    /\ pc[p] \in {"work", "reread", "assign", "evict", "purge", "store", "snapshot",
                  "unlock"}

HoldsMutex == \A p \in Process : Inside(p) => holder[obj[p]] = p

MutualExclusion ==
    \A p, q \in Process : Inside(p) /\ Inside(q) /\ obj[p] = obj[q] => p = q

LEMMA StepHolds ==
    ASSUME IInv, HoldsMutex, NEW p \in Process, Step(p) \/ Lock(p)
    PROVE  HoldsMutex'
<1> USE DEF IInv, Move, Found, objectVars
<1> USE DEF Types, Kinds, OnlyAt, Attached, HoldsMutex, Inside
<1>0. /\ Process = Request \cup Reload \cup Save \cup Reset
      /\ Request \cap (Reload \cup Save \cup Reset) = {}
      /\ Reload \cap (Save \cup Reset) = {}
      /\ Nil \notin Process
      /\ Process \subseteq Object
  BY CacheAssumption DEF Object, Process
<1>1. CASE CacheHit(p)
  BY <1>0, <1>1 DEF CacheHit
<1>2. CASE CacheMiss(p)
  BY <1>0, <1>2 DEF CacheMiss
<1>3. CASE RedisHit(p)
  BY <1>0, <1>3 DEF RedisHit, Allocate
<1>4. CASE RedisMiss(p)
  BY <1>0, <1>4 DEF RedisMiss
<1>5. CASE Adopt(p)
  BY <1>0, <1>5 DEF Adopt
<1>6. CASE Rehydrate(p)
  BY <1>0, <1>6 DEF Rehydrate, Allocate
<1>7. CASE RehydrateFails(p)
  BY <1>0, <1>7 DEF RehydrateFails
<1>8. CASE PublishLoaded(p)
  BY <1>0, <1>8 DEF PublishLoaded, Publish
<1>9. CASE MarshalLoaded(p)
  BY <1>0, <1>9 DEF MarshalLoaded, Marshal
<1>10. CASE PublishUpdated(p)
  BY <1>0, <1>10 DEF PublishUpdated, Publish
<1>11. CASE MarshalUpdated(p)
  BY <1>0, <1>11 DEF MarshalUpdated, Marshal
<1>12. CASE Unlock(p)
  BY <1>0, <1>12 DEF Unlock
<1>13. CASE Handle(p)
  BY <1>0, <1>13 DEF Handle
<1>14. CASE Evict(p)
  BY <1>0, <1>14 DEF Evict
<1>15. CASE Purge(p)
  BY <1>0, <1>15 DEF Purge
<1>16. CASE Reread(p)
  BY <1>0, <1>16 DEF Reread
<1>17. CASE RereadFails(p)
  BY <1>0, <1>17 DEF RereadFails
<1>18. CASE Assign(p)
  BY <1>0, <1>18 DEF Assign
<1>19. CASE UpdateRow(p)
  BY <1>0, <1>19 DEF UpdateRow
<1>20. CASE Wipe(p)
  BY <1>0, <1>20 DEF Wipe
<1>21. CASE Lock(p)
  BY <1>0, <1>21 DEF Lock
<1> QED
  BY <1>1, <1>2, <1>3, <1>4, <1>5, <1>6, <1>7, <1>8, <1>9, <1>10, <1>11, <1>12, <1>13, <1>14, <1>15, <1>16, <1>17, <1>18, <1>19, <1>20, <1>21 DEF Step

LEMMA NextHolds == IInv /\ HoldsMutex /\ [Next]_vars => HoldsMutex'
<1> SUFFICES ASSUME IInv, HoldsMutex, [Next]_vars PROVE HoldsMutex'
  OBVIOUS
<1>1. ASSUME UNCHANGED <<processVars, objectVars>> PROVE HoldsMutex'
  BY <1>1 DEF processVars, objectVars, HoldsMutex, Inside
<1> QED
  BY <1>1, StepHolds DEF Next, Work, Dequeue, Set, Expire, Idle, vars

LEMMA HoldsInvariance == Spec => []HoldsMutex
<1>1. Init => HoldsMutex
  <2>1. \A p \in Process : Start(p) \in {"begin", "wipe", "load"}
    BY StartOf DEF Process
  <2> QED
    BY <2>1 DEF Init, HoldsMutex, Inside
<1> QED
  BY <1>1, NextHolds, Invariance, PTL DEF Spec

\* No two requests or reloads are inside the mutex of one state at a time, from their
\* lock to the deferred unlock, also while the state is evicted, published and copied.
THEOREM Exclusion == Spec => []MutualExclusion
<1>1. HoldsMutex => MutualExclusion
  BY DEF HoldsMutex, MutualExclusion
<1> QED
  BY <1>1, HoldsInvariance, PTL

-----------------------------------------------------------------------------
(***************************************************************************)
(* A session that stays resident: it starts in the cache, it is not reset, *)
(* and no reload or save meets a failing query (which would evict it).     *)
(***************************************************************************)

StaysResident ==
    /\ Resident
    /\ Reset = {}
    /\ Faults => Reload \cup Save = {}

\* One object: every lookup finds it in the cache, so nobody allocates another.
OneObject ==
    /\ cache = Seed
    /\ \A p \in Process :
          /\ pc[p] \in {"begin", "load", "lock", "work", "reread", "assign", "store",
                        "snapshot", "unlock", "done"}
          /\ pc[p] \notin {"begin", "load"} => obj[p] = Seed

\* It reflects a request from the request's update on.
Reflected ==
    \A p \in Request : pc[p] \in {"store", "snapshot", "unlock", "done"} => p \in seen[Seed]

\* Copies were made from it, and it only grows.
Copies ==
    /\ \A c \in running : c.seen \subseteq seen[Seed]
    /\ \A i \in 1..Len(queue) : queue[i].seen \subseteq seen[Seed]
    /\ redis # Nil => redis.seen \subseteq seen[Seed]

ResidentInv == OneObject /\ Reflected /\ Copies

LEMMA InitResident == StaysResident /\ Init => ResidentInv
<1> SUFFICES ASSUME StaysResident, Init PROVE ResidentInv
  OBVIOUS
<1>1. \A p \in Process : Start(p) \in {"begin", "load"}
  BY StartOf DEF Process, StaysResident
<1>2. OneObject
  BY <1>1 DEF Init, OneObject, StaysResident
<1>3. Reflected
  BY <1>1 DEF Init, Reflected, Process
<1>4. Copies
  BY DEF Init, Copies
<1> QED
  BY <1>2, <1>3, <1>4 DEF ResidentInv

\* What a copy of the object adds.
LEMMA MarshalCopies ==
    ASSUME Types, Copies, NEW p \in Process, obj[p] = Seed,
           NEW from, NEW to, Marshal(p, from, to)
    PROVE  Copies'
<1>1. CopyOf(obj[p]).seen = seen[Seed]
  BY DEF CopyOf
<1>2. \A i \in 1..Len(queue') :
         \/ i \in 1..Len(queue) /\ queue'[i] = queue[i]
         \/ queue'[i] = CopyOf(obj[p])
  BY DEF Marshal, Types
<1> QED
  BY <1>1, <1>2 DEF Copies, Marshal, objectVars

LEMMA StepResident ==
    ASSUME StaysResident, IInv, ResidentInv, NEW p \in Process, Step(p) \/ Lock(p)
    PROVE  ResidentInv'
<1> USE DEF IInv, ResidentInv, OneObject
<1>0. /\ ~CacheMiss(p) /\ ~RedisHit(p) /\ ~RedisMiss(p) /\ ~Adopt(p) /\ ~Rehydrate(p)
      /\ ~RehydrateFails(p) /\ ~PublishLoaded(p) /\ ~MarshalLoaded(p)
      /\ ~Evict(p) /\ ~Purge(p) /\ ~Wipe(p)
  BY CacheAssumption
     DEF CacheMiss, RedisHit, RedisMiss, Adopt, Rehydrate, RehydrateFails,
     PublishLoaded, MarshalLoaded, Publish, Marshal, Evict, Purge, Wipe, Move, Object
<1>1. ~RereadFails(p)
  BY DEF RereadFails, Move, StaysResident, Kinds, OnlyAt
<1>2. Process = Request \cup Reload \cup Save /\ Request \cap (Reload \cup Save) = {}
      /\ Seed \in Object
  BY CacheAssumption DEF Process, Object, StaysResident
<1> USE DEF Types, Kinds, OnlyAt, Reflected, Move, objectVars
<1>3. CASE CacheHit(p)
  BY <1>2, <1>3 DEF CacheHit, Found, Copies, taskVars
<1>4. CASE PublishUpdated(p)
  BY <1>2, <1>4 DEF PublishUpdated, Publish, Found, Copies, taskVars
<1>5. CASE Unlock(p)
  BY <1>2, <1>5 DEF Unlock, Found, Copies, taskVars
<1>6. CASE UpdateRow(p)
  BY <1>2, <1>6 DEF UpdateRow, Found, Copies, taskVars
<1>7. CASE Reread(p)
  BY <1>2, <1>7 DEF Reread, Found, Copies, taskVars
<1>8. CASE Assign(p)
  BY <1>2, <1>8 DEF Assign, Found, Copies, taskVars
<1>9. CASE Lock(p)
  BY <1>2, <1>9 DEF Lock, Found, Copies, taskVars
<1>10. CASE MarshalUpdated(p)
  <2>1. Copies'
    BY <1>10, MarshalCopies DEF MarshalUpdated, Marshal
  <2> QED
    BY <1>2, <1>10, <2>1 DEF MarshalUpdated, Marshal
<1>11. CASE Handle(p)
  <2>1. seen'[Seed] = seen[Seed] \cup {p}
    BY <1>2, <1>11 DEF Handle
  <2>2. Copies'
    BY <1>11, <2>1 DEF Handle, Copies, taskVars
  <2> QED
    BY <1>2, <1>11, <2>1, <2>2 DEF Handle
<1> QED
  BY <1>0, <1>1, <1>3, <1>4, <1>5, <1>6, <1>7, <1>8, <1>9, <1>10, <1>11 DEF Step

LEMMA NextResident ==
    StaysResident /\ IInv /\ ResidentInv /\ [Next]_vars => ResidentInv'
<1> SUFFICES ASSUME StaysResident, IInv, ResidentInv, [Next]_vars PROVE ResidentInv'
  OBVIOUS
<1> USE DEF ResidentInv
<1>1. ASSUME UNCHANGED <<processVars, objectVars, cache>> PROVE OneObject' /\ Reflected'
  BY <1>1 DEF processVars, objectVars, OneObject, Reflected
<1>2. CASE Dequeue
  <2>1. Head(queue) = queue[1] /\ 1 \in 1..Len(queue)
        /\ \A i \in 1..Len(Tail(queue)) :
              i + 1 \in 1..Len(queue) /\ Tail(queue)[i] = queue[i + 1]
    BY <1>2 DEF Dequeue, IInv, Types
  <2>2. Copies'
    BY <1>2, <2>1 DEF Dequeue, Copies, objectVars
  <2> QED
    BY <1>1, <1>2, <2>2 DEF Dequeue
<1>3. CASE \E copy \in running : Set(copy)
  <2>1. Copies'
    BY <1>3 DEF Set, Copies, objectVars
  <2> QED
    BY <1>1, <1>3, <2>1 DEF Set
<1>4. CASE Expire
  <2>1. Copies'
    BY <1>4 DEF Expire, Copies, objectVars, taskVars
  <2> QED
    BY <1>1, <1>4, <2>1 DEF Expire
<1>5. CASE UNCHANGED vars
  <2>1. Copies'
    BY <1>5 DEF vars, Copies, objectVars, taskVars
  <2> QED
    BY <1>1, <1>5, <2>1 DEF vars
<1> QED
  BY <1>2, <1>3, <1>4, <1>5, StepResident DEF Next, Work, Idle

LEMMA ResidentInvariance ==
    ASSUME StaysResident
    PROVE  Spec => []ResidentInv
<1>1. Init => ResidentInv
  BY InitResident
<1>2. IInv /\ ResidentInv /\ [Next]_vars => ResidentInv'
  BY NextResident
<1> QED
  BY <1>1, <1>2, Invariance, PTL DEF Spec

\* A session that stays resident loses nothing, for any number of requests, reloads and
\* saves: every lookup returns the one cached object, and the mutex is held from a
\* request's update to its answer.
THEOREM KeepsAll ==
    ASSUME StaysResident
    PROVE  Spec => []ResidentKeepsAll
<1>1. ResidentInv /\ IInv => ResidentKeepsAll
  BY CacheAssumption
     DEF IInv, ResidentInv, OneObject, Reflected, ResidentKeepsAll, Object
<1> QED
  BY <1>1, ResidentInvariance, Invariance, PTL

\* No copy in the queue, with a worker or in Redis shows a request that the cached object
\* lacks, however the workers reorder the copies and whichever of them are dropped.
THEOREM CopiesBehind ==
    ASSUME StaysResident
    PROVE  Spec => []CopiesBehindCache
<1>1. ResidentInv /\ IInv => CopiesBehindCache
  <2> SUFFICES ASSUME ResidentInv, IInv PROVE CopiesBehindCache
    OBVIOUS
  <2>1. cache = Seed /\ cache # Nil
    BY CacheAssumption DEF ResidentInv, OneObject, Object
  <2>2. DOMAIN queue = 1..Len(queue)
    BY DEF IInv, Types
  <2> QED
    BY <2>1, <2>2 DEF ResidentInv, Copies, CopiesBehindCache
<1> QED
  BY <1>1, ResidentInvariance, Invariance, PTL

-----------------------------------------------------------------------------
(***************************************************************************)
(* The matrices of a resident session, as long as no settings save (which  *)
(* takes no mutex) has run: whoever is about to install has read last, or  *)
(* another reload is still to read.                                        *)
(***************************************************************************)

NoSaves == \A s \in Save : ~Begun(s)

ToRead == \E r \in Reload : pc[r] \in {"load", "lock", "reread"}

CurrentInv ==
    NoSaves =>
        /\ \A r \in Reload : pc[r] = "assign" => ToRead \/ read[r] = db
        /\ ToRead \/ (\E r \in Reload : pc[r] = "assign") \/ version[Seed] = db

LEMMA NoSavesBefore ==
    ASSUME IInv, NEW p \in Process, Step(p) \/ Lock(p), NoSaves'
    PROVE  NoSaves /\ p \notin Save
<1>1. \A s \in Save : Start(s) = "begin" /\ s \in Process
  BY StartOf DEF Process
<1>2. \A s \in Save : pc'[s] = "begin"
  <2>1. \A s \in Save : Start(s)' = Start(s)
    BY DEF Start
  <2> QED
    BY <1>1, <2>1 DEF NoSaves, Begun
<1>3. \A s \in Process : pc'[s] = "begin" => pc[s] = "begin" /\ s # p
  BY DEF Step, Lock, CacheHit, CacheMiss, RedisHit, RedisMiss, Adopt, Rehydrate,
     RehydrateFails, PublishLoaded, MarshalLoaded, PublishUpdated, MarshalUpdated,
     Publish, Marshal, Unlock, Handle, Evict, Purge, UpdateRow, Reread, RereadFails,
     Assign, Wipe, Move, Found, IInv, Types
<1> QED
  BY <1>1, <1>2, <1>3 DEF NoSaves, Begun

\* What the steps of a resident session keep, when they neither commit nor read nor
\* install.
LEMMA SameMatrices ==
    ASSUME CurrentInv, NoSaves => NoSaves', NoSaves' => NoSaves,
           UNCHANGED <<read, version, db>>,
           ToRead => ToRead',
           \A r \in Reload : pc'[r] = "assign" <=> pc[r] = "assign"
    PROVE  CurrentInv'
BY DEF CurrentInv

LEMMA StepCurrent ==
    ASSUME StaysResident, IInv, HoldsMutex, ResidentInv, CurrentInv,
           NEW p \in Process, Step(p) \/ Lock(p)
    PROVE  CurrentInv'
<1> SUFFICES ASSUME NoSaves' PROVE CurrentInv'
  BY DEF CurrentInv
<1>1. NoSaves /\ p \notin Save
  BY NoSavesBefore
<1>2. /\ Process = Request \cup Reload \cup Save
      /\ Request \cap (Reload \cup Save) = {}
      /\ Reload \cap Save = {}
      /\ Seed \in Object
  BY CacheAssumption DEF Process, Object, StaysResident
<1>3. /\ ~CacheMiss(p) /\ ~RedisHit(p) /\ ~RedisMiss(p) /\ ~Adopt(p) /\ ~Rehydrate(p)
      /\ ~RehydrateFails(p) /\ ~PublishLoaded(p) /\ ~MarshalLoaded(p)
      /\ ~Evict(p) /\ ~Purge(p) /\ ~Wipe(p)
  BY CacheAssumption
     DEF CacheMiss, RedisHit, RedisMiss, Adopt, Rehydrate, RehydrateFails,
     PublishLoaded, MarshalLoaded, Publish, Marshal, Evict, Purge, Wipe, Move, Object,
     ResidentInv, OneObject
<1>4. ~RereadFails(p)
  BY DEF RereadFails, Move, StaysResident, IInv, Kinds, OnlyAt
\* Only one reload at a time is between its lock and its unlock.
<1>5. ASSUME p \in Reload, pc[p] \in {"reread", "assign"},
             NEW r \in Reload, pc[r] = "assign"
      PROVE  r = p
  <2>1. Inside(p) /\ Inside(r)
    BY <1>5 DEF Inside
  <2>2. obj[p] = Seed /\ obj[r] = Seed
    BY <1>2, <1>5 DEF ResidentInv, OneObject
  <2> QED
    BY <1>2, <2>1, <2>2 DEF HoldsMutex
<1>6. CASE CacheHit(p) \/ PublishUpdated(p) \/ MarshalUpdated(p) \/ Unlock(p)
             \/ Handle(p) \/ Lock(p)
  <2>1. UNCHANGED <<read, version, db>>
    BY <1>6 DEF CacheHit, PublishUpdated, Publish, MarshalUpdated, Marshal, Unlock,
       Handle, Lock, objectVars
  <2>2. p \in Reload =>
          \/ pc[p] \in {"load", "lock"} /\ pc'[p] \in {"lock", "reread"}
          \/ pc[p] \notin {"load", "lock", "reread", "assign"} /\ pc'[p] # "assign"
    BY <1>2, <1>6 DEF CacheHit, PublishUpdated, Publish, MarshalUpdated, Marshal,
       Unlock, Handle, Lock, Move, Found, IInv, Types, Kinds, OnlyAt
  <2>3. \A r \in Reload : r # p => pc'[r] = pc[r]
    BY <1>2, <1>6 DEF CacheHit, PublishUpdated, Publish, MarshalUpdated, Marshal,
       Unlock, Handle, Lock, Move, IInv, Types
  <2>4. (ToRead => ToRead') /\ \A r \in Reload : pc'[r] = "assign" <=> pc[r] = "assign"
    BY <2>2, <2>3 DEF ToRead
  <2> QED
    BY <1>1, <2>1, <2>4, SameMatrices
<1>7. CASE UpdateRow(p)
  <2>1. p \in Reload
    BY <1>1, <1>7 DEF UpdateRow, Move, IInv, Kinds, OnlyAt
  <2>2. ToRead'
    BY <1>2, <1>7, <2>1 DEF UpdateRow, Move, ToRead, IInv, Types
  <2> QED
    BY <2>2 DEF CurrentInv
<1>8. CASE Reread(p)
  <2>1. p \in Reload /\ pc[p] = "reread" /\ pc'[p] = "assign" /\ read'[p] = db'
    BY <1>1, <1>8 DEF Reread, Move, IInv, Types, Kinds, OnlyAt
  <2>2. \A r \in Reload : pc'[r] = "assign" => r = p
    BY <1>2, <1>5, <1>8, <2>1 DEF Reread, Move, IInv, Types
  <2> QED
    BY <2>1, <2>2 DEF CurrentInv
<1>9. CASE Assign(p)
  <2>1. p \in Reload /\ pc[p] = "assign" /\ pc'[p] = "store"
    BY <1>1, <1>9 DEF Assign, Move, IInv, Types, Kinds, OnlyAt
  <2>2. \A r \in Reload : pc'[r] # "assign"
    BY <1>2, <1>5, <1>9, <2>1 DEF Assign, Move, IInv, Types
  <2>3. ToRead => ToRead'
    BY <1>2, <1>9, <2>1 DEF ToRead, Assign, Move, IInv, Types
  <2>4. obj[p] = Seed
    BY <1>2, <2>1 DEF ResidentInv, OneObject
  <2>5. version'[Seed] = read[p] /\ db' = db
    BY <1>2, <1>9, <2>4 DEF Assign, IInv, Types
  <2>6. ToRead \/ read[p] = db
    BY <1>1, <2>1 DEF CurrentInv
  <2> QED
    BY <2>2, <2>3, <2>5, <2>6 DEF CurrentInv
<1> QED
  BY <1>3, <1>4, <1>6, <1>7, <1>8, <1>9 DEF Step

LEMMA NextCurrent ==
    StaysResident /\ IInv /\ HoldsMutex /\ ResidentInv /\ CurrentInv /\ [Next]_vars
    => CurrentInv'
<1> SUFFICES ASSUME StaysResident, IInv, HoldsMutex, ResidentInv, CurrentInv, [Next]_vars
             PROVE  CurrentInv'
  OBVIOUS
<1>1. ASSUME UNCHANGED <<pc, read, version, db>> PROVE CurrentInv'
  BY <1>1 DEF CurrentInv, NoSaves, Begun, Start, ToRead
<1>2. CASE \E p \in Process : Step(p) \/ Lock(p)
  BY <1>2, StepCurrent
<1>3. CASE Work \/ Expire \/ UNCHANGED vars
  BY <1>1, <1>3 DEF Work, Dequeue, Set, Expire, vars, processVars, objectVars
<1> QED
  BY <1>2, <1>3 DEF Next, Idle

\* On a session that stays resident, and until the first settings save: whenever no
\* handler is under way, the cached state has the matrices committed last, in whatever
\* order the sidecar's reloads arrived, waited for the mutex and read.
THEOREM Current ==
    ASSUME StaysResident
    PROVE  Spec => []MatricesCurrent
<1>1. Init => CurrentInv
  <2>1. \A p \in Reload : Start(p) = "begin" /\ p \in Process
    BY StartOf DEF Process
  <2>2. Seed \in Object
    BY DEF Object
  <2> QED
    BY <2>1, <2>2 DEF Init, CurrentInv
<1>2. IInv /\ HoldsMutex /\ ResidentInv /\ CurrentInv /\ [Next]_vars => CurrentInv'
  BY NextCurrent
<1>3. IInv /\ ResidentInv /\ CurrentInv => MatricesCurrent
  <2> SUFFICES ASSUME IInv, ResidentInv, CurrentInv, Quiet, NoSaves
               PROVE  cache # Nil /\ version[cache] = db
    BY DEF MatricesCurrent, NoSaves
  <2>1. cache = Seed /\ Seed # Nil
    BY CacheAssumption DEF ResidentInv, OneObject, Object
  <2>2. \A r \in Reload : Start(r) = "begin" /\ r \in Process
    BY StartOf DEF Process
  <2>3. \A r \in Reload : pc[r] \in {"begin", "done"}
    BY <2>2 DEF Quiet, Begun
  <2> QED
    BY <2>1, <2>3 DEF CurrentInv, ToRead
<1> QED
  BY <1>1, <1>2, <1>3, Invariance, HoldsInvariance, ResidentInvariance, PTL DEF Spec
=============================================================================

---------------------------- MODULE SessionCache ----------------------------
(***************************************************************************)
(* Where a session's state lives: the sessionCache of one gateway process, *)
(* its JSON copy in Redis, and the matrices in PostgreSQL; and what the    *)
(* goroutines that look a session up, update, reload, save and reset it do *)
(* to the three.  One session, Redis connected.                            *)
(*                                                                         *)
(* An ActiveInfState is an object named after the goroutine that allocated *)
(* it, since each allocates at most one.  Of its content the model keeps   *)
(* the requests it reflects and the version of the matrices and theta; the *)
(* deduplication fields (json:"-") are no part of a copy.                  *)
(***************************************************************************)
EXTENDS Integers, Sequences, FiniteSets

CONSTANTS
    Request,    \* goroutines of chat and agent requests
    Reload,     \* the sidecar's updates: a commit, then a call of /api/config/reload
    Save,       \* goroutines of /api/inference-settings
    Reset,      \* goroutines of /api/session/reset
    Seed,       \* an object that is resident from the start
    Nil,        \* no object, no copy, no holder
    Resident,   \* whether the cache starts with Seed
    Faults,     \* whether calls of the database and of Redis may fail
    QueueSize   \* capacity of dbTaskQueue

Process == Request \cup Reload \cup Save \cup Reset
Object == Process \cup {Seed}

\* A goroutine runs one handler, there are finitely many, and Seed is allocated by
\* none of them.
ASSUME CacheAssumption ==
    /\ IsFiniteSet(Process)
    /\ Request \cap (Reload \cup Save \cup Reset) = {}
    /\ Reload \cap (Save \cup Reset) = {}
    /\ Save \cap Reset = {}
    /\ Seed \notin Process
    /\ Nil \notin Object
    /\ Resident \in BOOLEAN
    /\ Faults \in BOOLEAN
    /\ QueueSize \in Nat

MaxVersion == Cardinality(Reload \cup Save \cup Reset)
Version == 0..MaxVersion
Copy == [seen : SUBSET Request, version : Version]

Location == {"begin", "load", "redis", "adopt", "rehydrate", "publish", "marshal",
             "lock", "work", "evict", "purge", "store", "snapshot", "unlock",
             "reread", "assign", "wipe", "done"}

VARIABLES
    pc, obj,        \* per goroutine: location, and the object its lookup returned
    read,           \* per goroutine: the version it read from the database
    seen, version,  \* per object: requests reflected, version of the matrices
    holder,         \* per object: holder of its mutex
    cache,          \* sessionCache
    redis,          \* the key beliefs:<session>
    queue, running, \* "Set" tasks in dbTaskQueue, and taken by a worker
    db              \* version in agent_profile_matrices

processVars == <<pc, obj, read>>
objectVars == <<seen, version, holder>>
taskVars == <<queue, running>>
vars == <<processVars, objectVars, cache, redis, taskVars, db>>

Start(p) ==
    CASE p \in Save \cup Reload -> "begin"
      [] p \in Reset -> "wipe"
      [] OTHER -> "load"

Begun(p) == pc[p] # Start(p)

Init ==
    /\ pc = [p \in Process |-> Start(p)]
    /\ obj = [p \in Process |-> Nil]
    /\ read = [p \in Process |-> 0]
    /\ seen = [o \in Object |-> {}]
    /\ version = [o \in Object |-> 0]
    /\ holder = [o \in Object |-> Nil]
    /\ cache = IF Resident THEN Seed ELSE Nil
    /\ redis = Nil
    /\ queue = <<>>
    /\ running = {}
    /\ db = 0

Move(p, from, to) ==
    /\ pc[p] = from
    /\ pc' = [pc EXCEPT ![p] = to]

\* Where a goroutine goes on with the object its lookup returned.
Found(p) == IF p \in Save THEN "reread" ELSE "lock"

(***************************************************************************)
(* GetSessionState: local cache, then Redis, then PostgreSQL.  No step of  *)
(* it looks again at what another goroutine may have cached meanwhile.     *)
(***************************************************************************)

\* A fresh object p with this content.
Allocate(p, s, v) ==
    /\ obj' = [obj EXCEPT ![p] = p]
    /\ seen' = [seen EXCEPT ![p] = s]
    /\ version' = [version EXCEPT ![p] = v]

\* Mutant of CacheHit: the lookup hands out a copy of the cached state.
CacheHitCopies(p) ==
    /\ cache # Nil
    /\ Move(p, "load", Found(p))
    /\ Allocate(p, seen[cache], version[cache])
    /\ UNCHANGED <<read, holder, cache, redis, taskVars, db>>

CacheHit(p) ==
    /\ cache # Nil
    /\ Move(p, "load", Found(p))
    /\ obj' = [obj EXCEPT ![p] = cache]
    /\ UNCHANGED <<read, objectVars, cache, redis, taskVars, db>>

CacheMiss(p) ==
    /\ cache = Nil
    /\ Move(p, "load", "redis")
    /\ UNCHANGED <<obj, read, objectVars, cache, redis, taskVars, db>>

RedisHit(p) ==
    /\ redis # Nil
    /\ Move(p, "redis", "adopt")
    /\ Allocate(p, redis.seen, redis.version)
    /\ UNCHANGED <<read, holder, cache, redis, taskVars, db>>

RedisMiss(p) ==
    /\ redis = Nil \/ Faults
    /\ Move(p, "redis", "rehydrate")
    /\ UNCHANGED <<obj, read, objectVars, cache, redis, taskVars, db>>

Adopt(p) ==
    /\ Move(p, "adopt", Found(p))
    /\ cache' = obj[p]
    /\ UNCHANGED <<obj, read, objectVars, redis, taskVars, db>>

\* While Redis is connected no transaction row reaches runtime_inference_state, so
\* there is no history to replay: the object starts afresh with the matrices.
Rehydrate(p) ==
    /\ Move(p, "rehydrate", "publish")
    /\ Allocate(p, {}, db)
    /\ UNCHANGED <<read, holder, cache, redis, taskVars, db>>

\* The query fails: a request is answered 500, a reload or a save finds no session.
RehydrateFails(p) ==
    /\ Faults
    /\ Move(p, "rehydrate", "done")
    /\ UNCHANGED <<obj, read, objectVars, cache, redis, taskVars, db>>

(***************************************************************************)
(* StoreSessionState: publish the object, marshal it, queue the copy.      *)
(***************************************************************************)

Publish(p, from, to) ==
    /\ Move(p, from, to)
    /\ cache' = obj[p]
    /\ UNCHANGED <<obj, read, objectVars, redis, taskVars, db>>

CopyOf(o) == [seen |-> seen[o], version |-> version[o]]

\* Mutant of Marshal: the queue grows without bound.
MarshalUnbounded(p, from, to) ==
    /\ Move(p, from, to)
    /\ queue' = Append(queue, CopyOf(obj[p]))
    /\ UNCHANGED <<obj, read, objectVars, cache, redis, running, db>>

\* queueDBTask drops the task when the channel is full.
Marshal(p, from, to) ==
    /\ Move(p, from, to)
    /\ queue' = IF Len(queue) < QueueSize THEN Append(queue, CopyOf(obj[p])) ELSE queue
    /\ UNCHANGED <<obj, read, objectVars, cache, redis, running, db>>

\* The store at the end of a lookup is not under the object's mutex.
PublishLoaded(p) == Publish(p, "publish", "marshal")
MarshalLoaded(p) == Marshal(p, "marshal", Found(p))

\* Mutant of MarshalUpdated: the state is locked for the copy, although its request
\* holds the mutex.
MarshalUpdatedLocks(p) ==
    /\ pc[p] = "snapshot" /\ holder[obj[p]] = Nil
    /\ Marshal(p, "snapshot", IF p \in Save THEN "done" ELSE "unlock")

\* The deferred store of a request or a reload is; that of a settings save is not.
PublishUpdated(p) == Publish(p, "store", "snapshot")
MarshalUpdated(p) == Marshal(p, "snapshot", IF p \in Save THEN "done" ELSE "unlock")

(***************************************************************************)
(* The workers: tasks leave the queue in order and finish in any order.    *)
(***************************************************************************)

Dequeue ==
    /\ queue # <<>>
    /\ Head(queue) \notin running
    /\ running' = running \cup {Head(queue)}
    /\ queue' = Tail(queue)
    /\ UNCHANGED <<processVars, objectVars, cache, redis, db>>

Set(copy) ==
    /\ copy \in running
    /\ running' = running \ {copy}
    /\ redis' = copy \/ (Faults /\ redis' = redis)
    /\ UNCHANGED <<processVars, objectVars, cache, queue, db>>

\* A key lives for 15 minutes after it was set.
Expire ==
    /\ redis # Nil
    /\ redis' = Nil
    /\ UNCHANGED <<processVars, objectVars, cache, taskVars, db>>

(***************************************************************************)
(* The handlers, on the object they looked up.                             *)
(***************************************************************************)

\* Mutant of Lock: the mutex is not waited for.
LockWithoutWaiting(p) ==
    /\ Move(p, "lock", IF p \in Reload THEN "reread" ELSE "work")
    /\ holder' = [holder EXCEPT ![obj[p]] = p]
    /\ UNCHANGED <<obj, read, seen, version, cache, redis, taskVars, db>>

Lock(p) ==
    /\ Move(p, "lock", IF p \in Reload THEN "reread" ELSE "work")
    /\ holder[obj[p]] = Nil
    /\ holder' = [holder EXCEPT ![obj[p]] = p]
    /\ UNCHANGED <<obj, read, seen, version, cache, redis, taskVars, db>>

Unlock(p) ==
    /\ Move(p, "unlock", "done")
    /\ holder' = [holder EXCEPT ![obj[p]] = Nil]
    /\ UNCHANGED <<obj, read, seen, version, cache, redis, taskVars, db>>

\* The request updates beliefs, history and deduplication fields.
Handle(p) ==
    /\ Move(p, "work", "store")
    /\ seen' = [seen EXCEPT ![obj[p]] = @ \cup {p}]
    /\ UNCHANGED <<obj, read, version, holder, cache, redis, taskVars, db>>

\* DeleteSessionState: the cache first, Redis second.
Evict(p) ==
    /\ Move(p, "evict", "purge")
    /\ cache' = Nil
    /\ UNCHANGED <<obj, read, objectVars, redis, taskVars, db>>

Purge(p) ==
    /\ Move(p, "purge", IF p \in Reload THEN "store" ELSE "done")
    /\ redis' = Nil \/ (Faults /\ redis' = redis)
    /\ UNCHANGED <<obj, read, objectVars, cache, taskVars, db>>

\* The row is committed before the lookup: by the handler of a settings save, and by
\* the sidecar before it asks for a reload.
UpdateRow(p) ==
    /\ Move(p, "begin", "load")
    /\ db' = db + 1
    /\ UNCHANGED <<obj, read, objectVars, cache, redis, taskVars>>

\* GetSessionMatrices, then UpdateMatrices and Theta: a reload is inside the mutex of
\* the object, a settings save is not.

Reread(p) ==
    /\ Move(p, "reread", "assign")
    /\ read' = [read EXCEPT ![p] = db]
    /\ UNCHANGED <<obj, objectVars, cache, redis, taskVars, db>>

\* The query fails: DeleteSessionState; the deferred store of a reload still follows.
RereadFails(p) ==
    /\ Faults
    /\ Move(p, "reread", "evict")
    /\ UNCHANGED <<obj, read, objectVars, cache, redis, taskVars, db>>

\* Mutant of Assign: a fresh state with the new matrices takes the old one's place.
AssignAfresh(p) ==
    /\ Move(p, "assign", "store")
    /\ version' = [version EXCEPT ![obj[p]] = read[p]]
    /\ seen' = [seen EXCEPT ![obj[p]] = {}]
    /\ UNCHANGED <<obj, read, holder, cache, redis, taskVars, db>>

Assign(p) ==
    /\ Move(p, "assign", "store")
    /\ version' = [version EXCEPT ![obj[p]] = read[p]]
    /\ UNCHANGED <<obj, read, seen, holder, cache, redis, taskVars, db>>

\* A session reset: the rows go, the matrices revert to the defaults, and the state
\* is deleted.
Wipe(p) ==
    /\ Move(p, "wipe", "evict")
    /\ db' = db + 1
    /\ UNCHANGED <<obj, read, objectVars, cache, redis, taskVars>>

Step(p) ==
    \/ CacheHit(p)
    \/ CacheMiss(p)
    \/ RedisHit(p)
    \/ RedisMiss(p)
    \/ Adopt(p)
    \/ Rehydrate(p)
    \/ RehydrateFails(p)
    \/ PublishLoaded(p)
    \/ MarshalLoaded(p)
    \/ PublishUpdated(p)
    \/ MarshalUpdated(p)
    \/ Unlock(p)
    \/ Handle(p)
    \/ Evict(p)
    \/ Purge(p)
    \/ UpdateRow(p)
    \/ Reread(p)
    \/ RereadFails(p)
    \/ Assign(p)
    \/ Wipe(p)

Work ==
    \/ Dequeue
    \/ \E copy \in running : Set(copy)

\* The workers have nothing to do, and whoever waits for a mutex waits.
Idle == queue = <<>> /\ running = {} /\ UNCHANGED vars

Next ==
    \/ \E p \in Process : Step(p)
    \/ \E p \in Process : Lock(p)
    \/ Work
    \/ Expire
    \/ Idle

\* A handler that has begun runs on, workers drain the queue, and a mutex is handed to
\* its waiters.
Fairness ==
    /\ \A p \in Process : WF_vars(Begun(p) /\ Step(p)) /\ SF_vars(Lock(p))
    /\ WF_vars(Work)

Spec == Init /\ [][Next]_vars /\ Fairness

-----------------------------------------------------------------------------
\* No handler is under way and every copy has been written.
Quiet ==
    /\ queue = <<>>
    /\ running = {}
    /\ \A p \in Process : Begun(p) => pc[p] = "done"

TypeOK ==
    /\ pc \in [Process -> Location]
    /\ obj \in [Process -> Object \cup {Nil}]
    /\ read \in [Process -> Version]
    /\ seen \in [Object -> SUBSET Request]
    /\ version \in [Object -> Version]
    /\ holder \in [Object -> Process \cup {Nil}]
    /\ cache \in Object \cup {Nil}
    /\ redis \in Copy \cup {Nil}
    /\ queue \in Seq(Copy) /\ Len(queue) <= QueueSize
    /\ running \subseteq Copy
    /\ db \in Version

\* A session that stays resident loses nothing: whatever the interleaving with
\* reloads and saves, the cached object reflects every request that was answered.
ResidentKeepsAll ==
    \A p \in Request : pc[p] = "done" => cache # Nil /\ p \in seen[cache]

\* A copy on its way to Redis, or there, shows no request the cached object lacks.
CopiesBehindCache ==
    \A c \in running \cup {queue[i] : i \in DOMAIN queue} \cup ({redis} \ {Nil}) :
        cache # Nil /\ c.seen \subseteq seen[cache]

\* Reloads read the matrices under the mutex, so of several the one that installs last
\* has read last: whenever the gateway is quiet and no settings save (which takes no
\* mutex) has run, the resident object has the matrices committed last, in whatever
\* order the sidecar's calls arrived.
MatricesCurrent ==
    Quiet /\ (\A s \in Save : ~Begun(s)) => cache # Nil /\ version[cache] = db

\* Every handler that has begun finishes: no mutex is taken twice by its holder, or
\* kept, whatever fails.
EverythingFinishes == \A p \in Process : Begun(p) ~> pc[p] = "done"
=============================================================================

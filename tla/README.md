# A TLA+ model of the AI gateway

The repository is a gateway that stands between clients (chat applications and tool-calling agents) and an LLM provider.
It decides for every request, from a policy, a classifier and an "active inference" engine kept per session, whether to
answer it from memory, refuse it, or forward it. This directory holds TLA+ modules of that program, TLC configurations
that check them on small instances, and proofs, checked by TLAPS, of what matters most for every value of the constants.

Paths below are relative to the repository (`gateway/main.go` is `src/gateway/main.go` in `PROJECT.json`).

## 1. The system

### 1.1 Components and their state

| Component | State | Operations | Code |
|---|---|---|---|
| Request pipeline | `ActiveInfState` of a session under its mutex: beliefs, histories, leaky free energy, theta, deduplication fields | `handleChatCompletions`, `handleAgentAction`, `handleEvaluate` | `main.go:277-1041`, `active_engine.go` |
| Session cache | `sessionCache` (a `sync.Map`), Redis keys `beliefs:<uuid>` with a life of 15 minutes, rows of `agent_profile_matrices` | `GetSessionState`, `StoreSessionState`, `DeleteSessionState`, `ClearAllSessionStates`, `getSessionState`, `handleConfigReload`, `handleAPIInferenceSettingsSave`, `handleAPISessionReset` | `redis.go`, `db.go`, `main.go` |
| Task queue | `dbTaskQueue` (100000 closures), 80 workers | `queueDBTask`, `ClearDBTaskQueue`, the worker loop | `db.go:33-51,154-161` |
| Transaction log | Redis list `active_inference:logs` (1000 entries) or table `runtime_inference_state`; `localDelta*` counters; `system_metrics` | `LogTransactionState`, `StartDBPruner`, `StartMetricsSyncer`, `ResetLocalMetrics` | `db.go:271-527` |
| Rate limiter | `rateStore`: recent request times per header value | `checkRateLimit` | `parser.go:16-18,159-186` |
| Classifier | none of its own | `ClassifyRequest`, `ScanRequestTokens` | `parser.go:39-157,236-264` |
| Redaction | a map of placeholders per request | `RedactPII`, `RehydrateResponse` | `parser.go:188-234` |
| Policy | the Rego file, `preparedRegoQuery` | `handleAPIPolicy`, `CompileRegoPolicy`, `EvaluatePolicy` | `main.go:1189-1241`, `parser.go:266-351` |
| Agent keys | table `authorized_agent_keys`, `authorizedKeysCache` | `validateAgentKey`, `handleAPIToggleAgent` | `main.go:2141-2235,2391-2423` |
| Simulator, agent loops | `simulator` (running, cancel), `agentLoopMgr.activeLoops`, `UnthrottledModeActive`, channel `simulator_control` | start, stop, status, the worker loops | `main.go:1881-2139,2280-2389`, `redis.go:178-193` |
| System reset | none of its own | `handleAPISystemReset` | `main.go:1713-1771` |
| Configuration | `GatewayConfig`, its file, theta of all rows | `loadConfig`, `initializeConfigDefaults`, `handleAPIConfigSave` | `main.go:188-249,1481-1547` |
| Translation | none | `TranslateRequest`, `TranslateResponse` | `translator.go` |
| Sidecar | `session_engines`, a pool of three threads, one listening connection | `handle_notification`, `notify_gateway_reload`, the listener loop | `sidecar/app.py`, `sidecar/active_engine.py` |
| Observers | none that decides anything | audit log, tracing, dashboards, log and status endpoints | `audit.go`, `otel.go`, `dashboard/`, `main.go` |

### 1.2 How they interact

1. A request is checked for its agent key, its session is looked up (cache, then Redis, then PostgreSQL), and the handler
   takes the session's mutex and keeps it to the end, the upstream call of up to ten seconds included.
2. Under the mutex: duplicate check, policy, classification (with the rate limiter), perception, decision, log, refusal or
   redaction, translation, upstream call, rehydration, and remembering the answer. The deferred function stores the state
   (cache at once, Redis through the task queue) and unlocks.
3. The log goes through the task queue to Redis or PostgreSQL; the worker then adds to counters in memory, which a syncer
   carries to `system_metrics`.
4. A transaction row inserted in PostgreSQL notifies the sidecar, which updates the session's matrices and calls
   `/config/reload`; the gateway installs them under the mutex.
5. The dashboards save settings, configurations and policies, reset a session or the whole system, start and stop the
   simulator and agent loops; these handlers touch the same memory, caches and files, mostly without a mutex.

### 1.3 What is hard, and what makes each part correct

* **Pipeline**: goroutines of one session queue on a mutex while the upstream is slow; time passes between any two steps;
  failures leave the handler on four paths. Correct when requests of a session are serial, an answer belongs to the body
  it is sent for, nothing is forwarded past a decision it was not judged by, the log agrees with the answers, and everyone
  is answered.
* **Deduplication**: two clocks (window and count) and several writers of `LastRequestTime`. Correct when replays are
  bounded and a body's allowance is its own.
* **Rate limiter**: a sliding window recorded by refused requests too. Correct when no window admits more than the limit
  and no refusal is unjustified.
* **Classification, redaction, translation**: patterns over an encoded document and over decoded text, one counter for five
  passes, a provider that may be changed between request and answer. Correct when no personal datum leaves that the
  patterns can see, every client gets its own values back, and a refusal names what was found.
* **Session cache**: three stores and no transaction over them; copies travel through a queue that may drop and workers
  that may reorder. Correct when a resident session loses no request, no copy runs ahead of it, and the matrices committed
  last are installed.
* **Settings**: memory, rows and files written one after another without a lock, files truncated before they are written.
  Correct when memory, rows and files agree once the saves are done, and after every crash and restart, but for what was
  set for one session or by the environment.
* **Sidecar**: lost notifications, racing threads, reloads that overtake each other. Correct when nothing perceived is
  forgotten and the gateway ends with the matrices and the intent decided last.
* **Metrics**: counters swapped while workers add to them and a reset zeroes them. Correct when everything is counted once.
* **The rest** (log, keys, simulator, reset): caches that are never told of a change, tasks that outlive what they belong
  to, read-modify-write sequences over Redis.

Each of these is listed at its line under `hazards` in `PROJECT.json`, with the properties that cover it. Where what can go
wrong does go wrong in the code, no property denies it: the hazard then has a note that says so, and which property comes
closest and leaves it out. Several properties are therefore stated for what is left of a promise (`PolicyAgrees` without
overlapping compilations, `AnswerArrives` without a switch of the provider, `BeliefsKeepAll` without overlapping threads,
`IntentMatches` without crossing reloads); they show where the promise still holds, and cover no hazard.

## 2. The modules

| Module | Models | Kind |
|---|---|---|
| `RequestPipeline` | one session object and the goroutines that serve its requests | detailed specification |
| `SessionService` | what a client of one session may rely on | abstract specification |
| `DedupHistory` | `RequestPipeline` with history variables about duplicates | extension |
| `RateLimiter` | `checkRateLimit` | detailed specification |
| `Redaction`, `Classifier`, `Translation` | `RedactPII`, `RehydrateResponse`; `ClassifyRequest`, `generateDetailedBlockReason`; `TranslateRequest`, `TranslateResponse` | operators |
| `Exchange` | one request and its answer through those three | composition |
| `SessionCache` | one session's state in cache, Redis and PostgreSQL | detailed specification |
| `Sidecar` | the sidecar, and the reloads it asks the gateway for | detailed specification |
| `SettingsStore` | configuration and policy in memory, rows and files | detailed specification |
| `AgentFleet` | agent keys, their cache, agent loops, the system reset's part in both | detailed specification |
| `TransactionLog` | the log in Redis and PostgreSQL, the simulator, the three purges | detailed specification |
| `Metrics` | the counters, the syncer, the system reset's part in them | detailed specification |
| `Subsequences` | the filters of messages, turns and log entries, as the subsequence at given places | operators |
| `MC...` | instances for TLC (symmetry, sets of bodies, reference definitions) | instances |
| `...Proofs` | theorems about the module of that name; `RequestPipelineProofs` also has those of `DedupHistory`, and `SharedStateProofs` those of `RateLimiter`, `Metrics` and `AgentFleet` | proofs |
| `SubsequenceTheorems` | what a subsequence contains, and in which order | proofs |

### 2.1 RequestPipeline

A goroutine is in one of the locations of its handler (`pc`). `Arrive` is the request up to the mutex; `Lock` and `Unlock`
are the mutex and the deferred function; `ReplayCached` and `ProcessAnew` are the two outcomes of the duplicate check
(`main.go:335`, `main.go:689`); `PolicyDenies` and `PolicyPasses` those of `EvaluatePolicy`, where an evaluation error
counts as a pass, as in the code; `Perceive` is classification and `UpdatePerception`; `Decide` is the threshold rule with
the transaction row; `Refuse`, `UpstreamAnswers`, `TranslationFails` and `ForwardFails` are the ways out; `Evaluate` is
`/api/evaluate`, which perceives and decides but never checks duplicates; `SaveTheta` is whoever writes `Theta` at a moment
the holder does not control. `Tick` ages `LastRequestTime`.

Abstractions: a body stands for its SHA-256; free energies are small integers whose order is kept (without time passing,
the leaky free energy does not fall); the verdicts of policy, classifier and expected free energy are free choices, so
every property holds whatever they decide; the age saturates at the window, beyond which the code compares nothing.

`SessionService` knows neither mutex nor locations: a serial service with one remembered answer, a provider that serves
one question at a time, and the promise that a question is answered. The mapping sends a goroutine's location to a phase
and reads `upstream` off the holder of the mutex.

### 2.2 DedupHistory

Adds two history variables: the replays since a request was last processed anew (`run`), and those since the remembered
body last changed (`spent`). The bounds of deduplication are stated with them, not with the counters that implement it.

### 2.3 RateLimiter

One action per check, since `rateMutex` covers all of it. A recorded time is an identified entry with an age; ages saturate
just past the window, so behaviours are not cut off by a horizon. Entries no slice refers to are reused, which is why a
finite set of entries explores unbounded histories; their number bounds the requests that are in a slice or a window at
once.

### 2.4 Redaction, Classifier, Translation, Exchange

A text is a sequence of items: the place of an item, which is the role of the message it is in, or a string (`"field"`) or
bare number (`"number"`) outside the messages, and a token. Tokens are personal data of the five kinds, placeholders, and
words that stand for what the classifier looks for. What the code does to characters matters where a pattern sees something
else than the program: the patterns of `RedactPII` and of the explanation of a block run over the encoded document, those of
the classifier over the decoded content of the last message, and the upstream gets everything decoded. That is kept as the
*style* of a datum: the usual one; with spaces, or none, between the groups of a number, which the explanation does not know
for two kinds; right after a line break, which the document holds as `\n`, so that a number is no word of its own, and an
address of electronic mail takes the `n` along and leaves a backslash; and with an escape sequence in it
(`alice\u0040example.com`), so that nothing matches until it is decoded. An instruction with an escape sequence in it is
the word `"hidden"`. A datum that loses only a part to a pattern counts as found; where that part ends in a backslash, it is
like one after a line break.

`RedactPII` is given without its counter: the number of a placeholder is how many matches the passes get to before it.
`RedactInPasses` is the same as the code runs it, pass after pass with one counter, and `NumberedInPasses` compares the two.
Filters over messages (`Messages`, `SystemPrompt`, `Turns`) are subsequences rather than recursions, so that theorems can be
proved about them; `MCExchange` assumes, and TLC evaluates on every body of the instance, that they are what `SelectSeq`
gives (`SubsequenceFilters`) and that a pass is what replacing one match after the other gives (`PassesFold`).
`RehydrateResponse` replaces placeholders in any order; no datum contains a bracket, so the order of a
Go map makes no difference. `ClassifyRequest` is a decision over what the patterns find in the last message or the
whole document; that the surprise of layer 1 exceeds 2, and the verdict of the rate limiter, are inputs.
`TranslateRequest` and `TranslateResponse` have three cases, Gemini, Claude and the default branch that passes both
through; the provider is read when a request is translated, when the address is looked up, and when the answer is
translated, and `SaveProvider` may come between. An answer of another form than the one expected decodes to one without
parts.

`Exchange` follows one request from classification to reply: `Block`, `TranslateChat` or `ForwardTool`, `Forward`,
`UpstreamAnswers` with any of the tokens it was sent, in any order, or `UpstreamFails`, then `AnswerChat` or `AnswerTool`.
Requests share nothing but the provider, so one at a time is enough.

### 2.5 SessionCache

Each goroutine runs one handler once: a request, a reload the sidecar asks for after it committed matrices, a settings
save, a session reset. The lookup is the code's three stages with a step between any two; `Publish` and `Marshal` are the
two halves of `StoreSessionState`; `Dequeue` and `Set` are the workers; `Reread` and `Assign` are the query and the
installation of the matrices, under the mutex for a reload and without it for a save; `Evict` and `Purge` are
`DeleteSessionState`; `Expire` is the life of a Redis key. The content of a state is reduced to the requests it reflects
and the version of its matrices. With `Faults`, queries, Redis reads, writes and deletions may fail.

### 2.6 Sidecar

`Insert` is the trigger's notification, `Deliver` the listener that hands it to the pool, `Take` to `EndCall` the steps of
`handle_notification` in a thread: the row and the matrices are read, an engine is looked up and created if there is none,
it perceives (`BeginPerception` reads its beliefs, `EndPerception` assigns them, and chooses an intent), the matrices are
committed, and the gateway is called. `LockReload`, `ReadMatrices` and `Install` are `handleConfigReload` under the session's
mutex: the matrices are those of the database at that moment, the intent the one that came with the call. A call that timed
out in the sidecar goes on in the gateway. `LoseConnection` and `RestartSidecar` lose notifications, queue and engines.

`SessionCache` takes a reload as a goroutine that installs what was committed before it; `Sidecar` takes the gateway's
state as resident, and a request that holds the mutex as a delay of the call. Where the two overlap (`Reread`, `Assign`
there, `ReadMatrices`, `Install` here) they model the same lines.

Engines perceive with numbers; here beliefs are the rows they reflect, matrices the intent they were adjusted for (they are
adjusted from the defaults every time), and the intent is any. History variables say when two threads were at one engine,
or at its creation, at once (`overlapped`), when a commit has no reload to come (`missed`), and when a commit came while
another's reload was outstanding (`crossed`).

### 2.7 SettingsStore

`ConfigSave` to `WriteConfig` are `handleAPIConfigSave` step by step: the masked secret is replaced by the one in force,
`GatewayConfig` is assigned word by word (`Assign`), defaults are filled in, `DefaultTheta` is set, the argument of the
`UPDATE` is read before the statement runs, the file is created, the *global* configuration is encoded, and written. The rows
of `agent_profile_matrices` have three more writers: `SaveThreshold` is the `UPDATE` of one session's threshold in
`handleAPIInferenceSettingsSave`, which takes any number, zero included; `SeedSession` and `InsertRow` are
`GetSessionMatrices` for a session without a row, which read `DefaultTheta` and insert later; `DeleteRow` is a session reset
or the end of the simulator. `PolicySave`, `PutPolicy`, `ReadPolicy` and `InstallPolicy` are `handleAPIPolicy` with
`CompileRegoPolicy`; `EvaluatePolicy` is a request that finds no prepared query and compiles the file itself. `Crash` may
come between any two steps; `Start` is `main` up to the server, where `UPSTREAM_URL` takes the place of the base URL
(`Loaded`). A configuration has three fields, a secret that may be masked, a base URL that the environment may override, and
a threshold whose zero means absent, and which may be negative: the others behave like one of these. History variables say
which sessions have a threshold of their own (`own`), what has overlapped since the start (`raced`), whether a call failed,
and whether a crash or a failing write cut the file.

### 2.8 AgentFleet

`validateAgentKey` in its three moments: the look into `authorizedKeysCache` (`CacheHit`, `CacheMiss`), the query of
`authorized_agent_keys` (`Query`, which finds no row, an inactive one or an error alike) and the store of the verdict
(`Store`). `Toggle` is `handleAPIToggleAgent`, which writes the row and nothing else. An agent loop dispatches a request,
waits for its answer and selects between its ticker and its context, so a loop is a client whose next request is
`LoopTick`; `StartLoop`, `StopLoop` and `ResetLoops` are the handlers under `agentLoopMgr`'s mutex. A system reset cancels
the loops, truncates tables (which may fail: `ResetFails`) and later empties the cache of keys (`ResetKeys`). Two history
variables remember which keys are inactive since a moment when nothing vouched for them, and whose key was active at some
time during the request. Requests without a key change nothing here and are left out.

### 2.9 TransactionLog

A row is a transaction. `Ask` and `Submit` are the request up to `LogTransactionStateAsync`; a simulator's request is in
flight for a time that a stop cannot cut short. `Dequeue`, `Push`, `Trim` and `Insert` are a worker in
`LogTransactionState`. go-redis sends a command again when its answer does not come (`redis.go:27-33` leaves `MaxRetries` at
its default of three), whether or not Redis carried it out, so `PushAgain` and `PushBackAgain` may put a row into the list
any number of times before the call that is answered, and a push that reports an error may have been done; `unanswered`
remembers the rows this happened to. An `LTrim` or `Del` that is carried out twice leaves what the later one alone leaves,
so only `LPush` has an action for it. `Prune` is one round of the pruner. A purge
(`stopSimulatorLocally` for the simulator's sessions, `handleAPISessionReset` for one session) deletes rows of the table,
reads the list, deletes it and pushes back what it spares, one entry at a time, while the workers go on; every call may
fail, and the code ignores most failures. `ResetStops`, `Truncate` and `ResetList` are the system reset. Commands of the
simulator arrive late or never, so publishing through Redis needs no action of its own. One purge of each kind runs at a
time, and none begins once two have overlapped or the list could not be deleted (`MayPurge`, a bound: nothing is claimed
of the list from then on, and it could double without end). `Lossy` and `Often` bound which rows may be pushed unanswered,
and whether more than once; the proofs hold for all of them.

### 2.10 Metrics

What follows a worker's log: `CountRequest` and `CountBlock` add to `localDeltaRequests` and `localDeltaBlocks`, one after
the other; a transaction that could be logged nowhere is not counted. `StartMetricsSyncer` swaps both with zero and then
adds what it took to the rows of `system_metrics`; an update that reports an error is not tried again, and may have been
done. `ZeroTotals`, `ZeroRequests` and `ZeroBlocks` are the system reset's statement and `ResetLocalMetrics`.

## 3. What the runs show

| Run | Checks | Instance and why it is enough |
|---|---|---|
| `pipeline` | `SessionSerialised`, `ForwardedWithinThreshold`, `ReplyIsForOwnBody`, `LogAgreesWithReply`, `ReplaysBounded`, `BypassOnlyWhenSpent` | two goroutines and two bodies (a duplicate, and a stranger, can always be queued behind a holder), window and limit 2 (below, at, above), theta on and off |
| `pipeline_refines` | `ServesSerially`, `EveryRequestAnswered` | the same goroutines and bodies with window and limit 1, without symmetry since liveness is checked |
| `rate` | `AdmissionsBounded`, `RefusedOnlyUnderFlood` | two header values, limit 3, window 2, six entries: a full window, a refused request and an expired one exist together |
| `exchange` | `DataStayIn`, `OwnValuesBack`, `AnswerArrives`, `BadOnlyByRedaction`, `BlockExplained`, `NumberedInPasses` | bodies of `MCExchange`: every token in every string, and for a number those it can hold; all words of three data and a placeholder the client wrote, all roles of three messages, a string or number before a message that is found, escaped or hidden; two values; answers of two parts; any provider, and any save |
| `cache` | `TypeOK`, `MatricesCurrent`, `ResidentKeepsAll`, `CopiesBehindCache` | a resident session, two requests, two reloads and a settings save that does not take the mutex, a queue that can be full so that a copy is dropped |
| `cache_finishes` | `EverythingFinishes` | a cold session, a request, a reload and a reset, every call may fail, queue of one |
| `sidecar` | `BeliefsKeepAll`, `MatricesArrive`, `IntentMatches` | three rows, two threads (two reloads can overtake each other while a third row waits), two intents, one lost connection or restart, failing queries and calls |
| `settings` | `ConfigAgrees`, `ZeroNeedsRace`, `LossNeedsCut`, `PolicyAgrees`, `FileRestored` | two handlers, two saves and one crash: two saves that overlap, a save after a restart, one of a threshold before or after, and a request that compiles or inserts a row during a save; one session, with and without a row; two base URLs, one of them that of the environment; two policies that compile (a truncated file is the text that does not) |
| `log` | `TypeOK`, `PurgeKeepsOrder`, `LoggedOnce`, `OldRowsStayAway` | a row of the simulator, one of the reset session and one of another; one worker, whose steps interleave with both purges and the reset; a queue of one task and a list of two entries, so that drops and trims bite; every call may fail, and the push of the reset session's row, which a purge of the simulator pushes back too, may be carried out once without being answered |
| `metrics` | `CountedOnce`, `BlocksAreRequests`, `CountsArrive` | three transactions, two of them blocked, two workers (one can be between its two additions while the other is), one reset, failing updates |
| `fleet` | `RunningLoopsAreKnown`, `RevokedStayOut`, `StoppedLoopsEnd` | a registered key and one without a row, a client, two loop goroutines that may follow each other under one key, any toggles and resets |
| `fleet_revoked` | what the configuration page says of revoked keys, violated | as `fleet`, one client |

Every type invariant is a theorem; `cache` and `log`, where handlers are many, run theirs as well.
Bounds are constants of the modules: `MaxSurprise` (free energies), `MaxParts` (parts of an answer), `MaxSaves`,
`MaxCrashes`, `MaxLosses`, `MaxResets`, `Lossy`, `Often`, and the sizes of `Row`, `Transaction`, `Entry`. The modules that are proved about
are proved for every value of them.

Deadlock is not checked in `settings` and `sidecar`. A gateway whose configuration file was cut does not start again
(`log.Fatalf`, `main.go:205`), and once every row of the sidecar's instance has been dealt with nothing is left to do.

### 3.1 Where the code does not do what a text of the repository says

`fleet_revoked` is run: a toggle writes the row only, so a key that was validated before passes until the next system
reset, although the configuration page says a revoked key is blocked. The others were met while modelling; the models do
what the code does.

* `config.html:553` speaks of duplicates "in a single burst". `CacheResponse` (`active_engine.go:472`) would restart the
  count after a quiet window, but `UpdatePerception` has stamped the time a moment before, so the count survives: a body
  that used its allowance once is not deduplicated again until another body is remembered. What does hold are
  `ReplaysBounded` and `BypassOnlyWhenSpent`.
* `config.html:544` promises replays within the window. A failed upstream call stamps the time and leaves the old answer
  remembered, which is then replayed although its own request is long past (`main.go:335`).
* The pruner keeps one row more than `maxRows` (`db.go:363`; the comment at `db.go:340` says the latest `maxRows`).
* A copy still in the queue brings a reset session back into Redis (`main.go:1807`; the comment above it says the state is
  deleted).
* The comment at `parser.go:47` says five requests where the limit is fifteen; the limiter's key is the raw header where
  the session's is its UUID (`parser.go:168`), so two spellings of one session have two budgets.
* The store at the end of a lookup (`redis.go:141`) marshals, without the mutex `walkthrough.md:163` speaks of, an object
  that is already public; copies of one session written by two workers may end in the older one (`redis.go:155`).
* A system reset stops the simulator "to prevent post-reset writes" (`main.go:1720`) but empties the task queue before it
  waits for the requests in flight.
* A policy that does not compile is answered as saved, and an empty policy file, which the page can save, never compiles
  (`main.go:1230`): until a restart the old policy decides, and after it none.
* Redaction runs over the encoded document (`parser.go:197`): a number outside a string becomes a placeholder and the
  request a bad one, a number right after a line break is sent as it is, and so is a datum with an escape sequence in it
  (`alice\u0040example.com`), which `TranslateRequest` decodes (`translator.go:116`). The classifier decodes the last message
  and observes it; whether that blocks the request is up to the threshold. `DataStayIn` and `BadOnlyByRedaction` state
  exactly this.
* The explanation of a block searches the document without decoding it (`main.go:1611-1644`): a datum or an instruction with
  an escape sequence in it (`\u0027 or 1=1`), which the classifier saw, is put down to the schema. `BlockExplained` says when.
* The comment at `db.go:282` has a row written to Redis or else to PostgreSQL. A push whose answer is lost is sent again by
  go-redis (`redis.go:27-33`), so that the row can be in the list twice, and if no answer comes it is in both. `LoggedOnce` is
  stated for the other rows.
* A base URL saved in the portal lasts until the next start when `UPSTREAM_URL` is set (`main.go:210-212`,
  `deployment-k8s.yaml:136-137`): the file has the saved one, memory the other.
* A threshold saved for one session (`main.go:1577`) lasts until the next save of the configuration or the next start, which
  overwrite all rows (`main.go:244`); a zero is taken as it is there, where a configuration's zero means the default
  (`main.go:238`). A row inserted while a configuration is saved may keep the default of before (`db.go:249`).
* What a worker held, or a purge had read, when a system reset began can be logged after it (`main.go:1737`, `main.go:1809`);
  `OldRowsStayAway` is about everything else.
* Stopping the simulator empties `dbTaskQueue` (`db.go:43`), which also holds the tasks of every other session; by the comment
  at `db.go:39` what is lost is telemetry. After a session reset `recordPayloadDetail` (`main.go:1387`) appends to another
  object than the one whose mutex its handler holds; only the forensic views read that.
* The limit of the log view is applied before the simulator's rows are left out (`main.go:1266`), so a page may be short.

### 3.2 Fairness

* `RequestPipeline`: weak fairness of a goroutine's own steps, since code that holds the mutex runs on, and the upstream
  call ends, `sharedClient` having a timeout. The write of the answer, also under the mutex, is taken to end too: the server
  sets no `WriteTimeout`, so that rests on the client reading or its connection failing. Strong fairness of `Lock`: a waiter may see the mutex taken again and again,
  but Go's mutex goes into starvation mode after a millisecond and is then handed over in order.
* `SessionCache`: the same, for handlers that have begun, and weak fairness of the workers, which loop over the channel.
* `AgentFleet`: a validation runs on (weak), and `LoopEnds` is strongly fair: Go's `select` chooses at random among the
  cases that are ready, so a context that stays cancelled is noticed some time, however often the ticker is ready too.
* `SettingsStore`: weak fairness of the steps of a save that has begun. Nothing says that a crash does not come, or that
  anyone starts the gateway again.
* `Metrics`: weak fairness of a worker that has a task, and of the syncer, whose ticker never stops.

Nothing is assumed of clients, operators, `SaveTheta`, expiry, time, or of the sidecar, whose properties are safety.

## 4. What is proved

All theorems hold for every value of the constants under the named assumptions of the module (disjoint values, natural
bounds, finite sets of handlers). Each proof module has the inductive invariants, one lemma per invariant with one step per
action, and the theorems. Every safety property that a passing run checks is a theorem, and so is the safety half of the
refinement.

`RequestPipelineProofs`: `Typing`, `Serialised`, `WithinThreshold`, `OwnBody`, `LogAgrees`, and `ImplementsService`: initial
states map to initial states of `SessionService` and steps to steps or stutters. One inductive invariant `Inv`. Mutual
exclusion alone is inductive; the others need what each location knows: at `forward` the session is within the threshold
the holder read, and nobody else can change `leaky` or `action`, because only a holder does (the settings save changes
`theta`, which is why `judged` keeps the value the decision read); the remembered answer was computed for the remembered
body, so a replay after equal hashes is for its own body; and each location knows which row has been queued.
`Bounded` and `OwnAllowance` are about duplicates: `HistorySpec` implements `Spec`, so `Inv` holds in it; `Counts` adds that
the count the code compares lies between the two histories, `run <= dups <= spent`, and that nothing has been replayed
while a request is processed anew, which is why remembering its answer may reset the count.

`SessionCacheProofs`, for any number of requests, reloads, saves and resets: `Typing`, which needs to know which handlers run
which code (`Kinds`), that whoever uses its object has one (`Attached`), and that the version in the database counts the
commits (`Counted`); and `Exclusion`, that two handlers are never inside the mutex of one object. `KeepsAll`, `CopiesBehind`
and `Current` are about a session that stays resident (`StaysResident`): it starts in the cache, is not reset, and no reload
or save meets a failing query. These are the circumstances of the `cache` run and the hypotheses are needed: a reset
takes the object out of the cache on purpose, a failing query evicts it (`main.go:1071`, `main.go:1595`), and of two lookups that miss both
allocate. Requests may fail in every way. Under the hypotheses every lookup
finds the one object (`OneObject`), which reflects a request from its update on (`Reflected`) and from which all copies were
made (`Copies`), so neither the order of the workers nor a dropped copy matters. For the matrices, `CurrentInv` says that
whoever is about to install has read the last version unless another reload is still to read; it rests on `Exclusion`.

`TransactionLogProofs`, for any rows, workers and capacities, and any rows pushed again unanswered, any number of times: `Typing`, `OncePerRow` (`LoggedOnce`), `Order`
(`PurgeKeepsOrder`), `ResetIsFinal` (`OldRowsStayAway`). None of the three is inductive. A transaction is in the queue or with
one worker at most (`Tasks`), in no store before it is pushed or inserted, unless unanswered (`Unstored`), which is why an
answered push does not duplicate, and not in both stores (`Apart`); what a reset removes, or is about to, nobody who can
still write has in hand (`Removed`); and while nothing has marred it no row but an unanswered one is twice in the list, one
purge at a time rewrites it, what that purge has yet to push is the beginning of what it read and, but for unanswered rows,
not in the list, and of what it has pushed back everything is behind what is newer (`Purges`). The last allows trims in the
middle of a purge: they take the oldest entries first. `ResetIsFinal` is about what was logged before the reset, was in no
worker's hand when it began and was read by no purge while it went on: the definition of `old` says that, and rows of the
other two kinds do come back.

`SubsequenceTheorems`: the n-th place of a set of naturals is where n of its members are reached; a subsequence has exactly
the elements at its places, in their order, and repeats only what its sequence repeats. They replace the induction over data that
facts about `SelectSeq` would need; `TransactionLogProofs` and `ExchangeProofs` cite them.

`ExchangeProofs`, for bodies and answers of any length, all data and all providers: `Typing` says that every function of the
three modules is defined on whatever reaches it. `PlaceholdersDiffer`: of two data of a text one is reached before the
other, and the set that is counted for it is a proper subset, so the numbers differ. `ValuesReturn` (`OwnValuesBack`) rests
on it and on `InFlight`: what the upstream has seen of a chat is its redaction, and an answer repeats tokens of it.
`TextArrives` (`AnswerArrives`) needs `SameProvider`: without a save since translation, endpoint and answer have the
provider's form. `DataStays` (`DataStayIn`), `BadByRedaction` (`BadOnlyByRedaction`) and `Explained` (`BlockExplained`) follow
a request from classification to the body or the refusal; that an unredacted last message was observed needs the
classification to be remembered as long as the body (`Judged`), and that what decodes after its redaction decoded before
(`RedactedDecodes`). `PassesNumber`: after k passes exactly the matches of the first k
kinds are replaced, each with the number that counting gives it, and the counter is one more than their number (`NextPass`),
so five passes make `RedactPII`; `Numbered` is `NumberedInPasses`.

`SidecarProofs`: `LastCommitArrives` needs that matrices which are not installed are still on the way (`OnTheWay`): a thread is
about to call, a call waits for the mutex, or a reload has yet to read, or has read what is now committed. `IntentArrives`
needs that without crossing there is one reload in play, and tells its four stages apart (`OneReload`). `NothingForgotten`
needs that without overlap one thread at most is between reading and assigning beliefs, or creating an engine (`OneEngine`).

`SettingsStoreProofs`, with or without an override and for any sessions: `Typing`, which includes that no mask is ever stored
as a secret; `Loss`; `Agreement` and `PositiveThresholds`, which except the rows whose session was given a threshold of its
own; `PolicyInForce`. `Solitude` says that an operation nothing of its kind has overlapped is alone, so what its handler knows
at one location is true at the next; `ConfigKnown` and `PolicyKnown` say what that is. New rows may overlap one another but
not a save (`SeedsApart`), so each is inserted with the default that is still in force.

`SharedStateProofs` has three parts, one for each module of state that handlers share.

* Rate limiter: `SliceTyping`, `Bounded`, `RefusalsJustified`, for any headers and finite set of entries. An entry still in
  the window is in the slice of its header exactly when it arrived under that header, so counting a slice counts arrivals;
  what was admitted is a subset of them.
* Metrics: `CounterTyping`, `NoDoubleCount` (inductive by itself), `BlocksCovered`. For the last, the sum of the requests must
  exceed that of the blocks by at least the number of workers between their two additions (`Covered`), and the syncer's hand
  must be empty of requests where it could lose them (`EmptyHanded`).
* Keys and loops: `Typing`, `LoopsKnown`, `StayOut`. For the loops, `LoopInv` adds that a loop in the map is running under that
  key and is not cancelled, without which a cancelled loop could be forgotten twice. For revocations, `RevokedInv` adds that no
  cached verdict and no client between its query and its store vouches for a revoked key: `Store` is why the second half is
  needed.

### 4.1 Only model-checked

* Liveness, which is out of the prover's reach: `EveryRequestAnswered`, `EverythingFinishes`, `StoppedLoopsEnd`,
  `FileRestored`, `CountsArrive`, and the fairness half of `ServesSerially`.
* That the subsequences are what filters compute and a pass what replacing one match after the other computes: statements
  about recursive functions for every input, which need induction over data. TLC compares them on all bodies of the
  `exchange` run (`SubsequenceFilters`, `PassesFold`).

## 5. What is not modelled, and the plan

Not modelled:

* The numbers of the engines (`UpdatePerception`, `SelectActionEFE`, `UpdateL1Perception`, the sidecar's `update_perception`):
  exponentials and logarithms of floating-point numbers; on integers or rationals they would be other algorithms. What they
  decide is a free choice. With them goes the arithmetic of rehydration from the history (`db.go:444`).
* The decision of the policy: Rego text of the operator, evaluated by a library.
* `ClearAllSessionStates` (the deletion of `SessionCache`, for every key), the fallback without Redis, and the other
  two gateways of the Kubernetes deployment, which share Redis and PostgreSQL.
* The entity and forensic tables and `recordPayloadDetail`: written once per request, read by reports.
* The order of key validation and rate limit before the mutex, and the agent handler's fingerprint shortcut.
* The second replica of the sidecar that the Kubernetes deployment starts (`walkthrough.md:83`): each replica has engines of
  its own and every notification, which doubles every effect of `Sidecar`. The validation API on port 5001 keeps no state.
* Output: audit log, tracing, status and log endpoints, dashboards; and the mock provider, which is a test double.

Next, most important first:

1. `Sidecar` composed with `SessionCache`, for a session that is not resident when a reload comes.
2. Abstract specifications: a register per session for `SessionCache`, a bounded log for `TransactionLog`, and proofs that
   these implement them.
3. Two replicas of the sidecar, and of the gateway.

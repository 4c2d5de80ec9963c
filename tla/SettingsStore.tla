---------------------------- MODULE SettingsStore ----------------------------
(***************************************************************************)
(* The settings an operator saves while the gateway runs, and what of them *)
(* a restart brings back: the configuration (GatewayConfig, its file, the  *)
(* thresholds of the sessions' rows), the threshold of one session, and    *)
(* the Rego policy (its file and the prepared query).  Handlers run these  *)
(* operations without a common lock, both files are truncated before they  *)
(* are written, and the process may die between any two steps.             *)
(*                                                                         *)
(* A configuration has three fields that stand for the rest: a secret,     *)
(* which a client may submit masked, the base URL, which UPSTREAM_URL      *)
(* overrides at a start, and the threshold, whose zero value means absent. *)
(* A policy is a text that compiles or one that does not.  A write through *)
(* a handle that another save has truncated starts at offset zero, and the *)
(* decoder reads the first JSON value only, so the file counts as what was *)
(* written last.  The session a threshold is saved for may also be in the  *)
(* cache; that is left to SessionCache.                                    *)
(***************************************************************************)
EXTENDS Integers, FiniteSets

CONSTANTS
    Handler,     \* goroutines of the portal and of the gateway
    Secret,      \* genuine values of a secret field
    Mask,        \* what the portal shows, and sends back, in its place
    Url,         \* base URLs of a provider
    Override,    \* UPSTREAM_URL, or None
    Session,     \* sessions that may have a row of matrices
    Theta,       \* thresholds that can be configured, but for zero
    Standard,    \* the threshold that replaces an absent one
    Policy,      \* texts of a policy
    Valid,       \* those that compile
    None,        \* no prepared query, no row, no override
    Empty,       \* the content of a truncated file
    MaxSaves,    \* bound: saves a behaviour may contain
    MaxCrashes   \* bound: crashes a behaviour may contain

ASSUME SettingsAssumption ==
    /\ Mask \notin Secret
    /\ Theta \subseteq Int \ {0}
    /\ Standard \in Theta
    /\ Valid \subseteq Policy
    /\ {None, Empty} \cap Policy = {}
    /\ None \notin Theta \cup {0} \cup Url
    /\ Override \in Url \cup {None}
    /\ {MaxSaves, MaxCrashes} \subseteq Nat

Level == Theta \cup {0}
Field == {"secret", "url", "theta"}
Config == [secret: Secret, url: Url, theta: Level]
Seed == [session: Session, theta: Level]

ASSUME EmptyAssumption == Empty \notin Config

VARIABLES
    up,            \* the gateway serves
    memory,        \* GatewayConfig
    defaultTheta,  \* DefaultTheta, the threshold of rows to come
    configFile,    \* gateway_config.json
    rows,          \* threshold_theta of the sessions' rows
    policyFile,    \* tool_policy.rego
    compiled,      \* preparedRegoQuery
    pc,            \* per handler: its next step
    held,          \* per handler: the configuration, row or text of a policy it works on
    rest,          \* per handler: the fields of GatewayConfig it has yet to copy
    saves, crashes,
    own,           \* history: sessions for which a threshold was saved after all rows
                   \* were last written
    raced,         \* history: since the start operations of these kinds overlapped
    failed,        \* history: since the start a call failed
    cut            \* history: a crash or a failing write left the file truncated

rowVars == <<rows, own>>
configVars == <<memory, defaultTheta, configFile, rowVars>>
policyVars == <<policyFile, compiled>>
handlerVars == <<pc, held, rest>>
boundVars == <<saves, crashes>>
historyVars == <<raced, failed, cut>>
vars == <<up, configVars, policyVars, handlerVars, boundVars, historyVars>>

ConfigSteps ==
    {"assign", "fill", "default", "argument", "update", "create", "encode", "write"}
PolicySteps == {"put", "compile", "install"}
SeedSteps == {"seed"}

Idle == [h \in Handler |-> "idle"]

(* No handler is within an operation of these steps. *)
Quiet(steps) == \A h \in Handler : pc[h] \notin steps

(* initializeConfigDefaults: a zero value is replaced. *)
Filled(c) == IF c.theta = 0 THEN [c EXCEPT !.theta = Standard] ELSE c

(* loadConfig: UPSTREAM_URL takes the place of the base URL. *)
Loaded(c) ==
    IF Override = None THEN Filled(c) ELSE [Filled(c) EXCEPT !.url = Override]

(* UPDATE agent_profile_matrices SET threshold_theta = t, which changes all rows. *)
AllRows(t) == [s \in Session |-> IF rows[s] = None THEN None ELSE t]

Compiles(text) == text \in Valid

(* The gateway has just been started over these files. *)
Init ==
    /\ up = TRUE
    /\ configFile \in Config
    /\ memory = Loaded(configFile)
    /\ defaultTheta = memory.theta
    /\ rows \in [Session -> {None, memory.theta}]
    /\ own = {}
    /\ policyFile \in Policy
    /\ compiled = IF Compiles(policyFile) THEN policyFile ELSE None
    /\ pc = Idle
    /\ held = [h \in Handler |-> None]
    /\ rest = [h \in Handler |-> {}]
    /\ saves = 0 /\ crashes = 0
    /\ raced = {} /\ failed = FALSE /\ cut = FALSE

(* A handler starts an operation, which others in these steps race with,   *)
Begin(h, kind, steps, first, value) ==
    /\ up
    /\ pc[h] = "idle"
    /\ pc' = [pc EXCEPT ![h] = first]
    /\ held' = [held EXCEPT ![h] = value]
    /\ raced' = IF Quiet(steps) THEN raced ELSE raced \cup {kind}

BeginConfig(h, value) == Begin(h, "config", ConfigSteps \cup SeedSteps, "assign", value)
BeginSeed(h, value) == Begin(h, "config", ConfigSteps, "seed", value)
BeginPolicy(h, first, value) == Begin(h, "policy", PolicySteps, first, value)

(* goes on to its next step, *)
Goto(h, from, to) ==
    /\ pc[h] = from
    /\ pc' = [pc EXCEPT ![h] = to]

(* and answers. *)
Finish(h, from) ==
    /\ Goto(h, from, "idle")
    /\ held' = [held EXCEPT ![h] = None]

-----------------------------------------------------------------------------
(* handleAPIConfigSave *)

(* The body is decoded, and a masked secret replaced by the one in force. *)
ConfigSave(h) ==
    /\ saves < MaxSaves
    /\ saves' = saves + 1
    /\ \E s \in Secret \cup {Mask}, u \in Url, t \in Level :
          BeginConfig(h, [secret |-> IF s = Mask THEN memory.secret ELSE s,
                          url |-> u, theta |-> t])
    /\ rest' = [rest EXCEPT ![h] = Field]
    /\ UNCHANGED <<up, configVars, policyVars, crashes, failed, cut>>

(* GatewayConfig = newConfig copies many words, and nothing keeps another  *)
(* handler out meanwhile.                                                  *)
Assign(h) ==
    /\ \E f \in rest[h] :
          /\ memory' = [memory EXCEPT ![f] = held[h][f]]
          /\ rest' = [rest EXCEPT ![h] = @ \ {f}]
          /\ Goto(h, "assign", IF rest[h] = {f} THEN "fill" ELSE "assign")
    /\ UNCHANGED <<up, defaultTheta, configFile, rowVars, policyVars, held, boundVars,
                   historyVars>>

\* Mutant of Fill: the defaults go to the copy that was assigned.
FillCopy(h) ==
    /\ Goto(h, "fill", "default")
    /\ held' = [held EXCEPT ![h] = Filled(@)]
    /\ UNCHANGED <<up, configVars, policyVars, rest, boundVars, historyVars>>

Fill(h) ==
    /\ Goto(h, "fill", "default")
    /\ memory' = Filled(memory)
    /\ UNCHANGED <<up, defaultTheta, configFile, rowVars, policyVars, held, rest,
                   boundVars, historyVars>>

SetDefault(h) ==
    /\ Goto(h, "default", "argument")
    /\ defaultTheta' = memory.theta
    /\ UNCHANGED <<up, memory, configFile, rowVars, policyVars, held, rest, boundVars,
                   historyVars>>

(* The argument of the UPDATE is read before the statement is executed. *)
ReadArgument(h) ==
    /\ Goto(h, "argument", "update")
    /\ held' = [held EXCEPT ![h] = memory]
    /\ UNCHANGED <<up, configVars, policyVars, rest, boundVars, historyVars>>

(* If the UPDATE fails, carried out or not, that is only logged. *)
UpdateRows(h) ==
    /\ Goto(h, "update", "create")
    /\ \/ rows' = AllRows(held[h].theta) /\ own' = {} /\ failed' \in {failed, TRUE}
       \/ failed' = TRUE /\ UNCHANGED rowVars
    /\ held' = [held EXCEPT ![h] = None]
    /\ UNCHANGED <<up, memory, defaultTheta, configFile, policyVars, rest, boundVars,
                   raced, cut>>

\* Mutant of CreateFile: the file is truncated where the save gives up.
CreateFileEarly(h) ==
    /\ \/ Goto(h, "create", "encode") /\ UNCHANGED failed
       \/ Goto(h, "create", "idle") /\ failed' = TRUE
    /\ configFile' = Empty
    /\ UNCHANGED <<up, memory, defaultTheta, rowVars, policyVars, held, rest, boundVars,
                   raced, cut>>

(* os.Create truncates the file; where no path can be created, the answer  *)
(* is an error although memory and rows have changed.                      *)
CreateFile(h) ==
    /\ \/ /\ Goto(h, "create", "encode")
          /\ configFile' = Empty
          /\ UNCHANGED failed
       \/ /\ Goto(h, "create", "idle")
          /\ failed' = TRUE
          /\ UNCHANGED configFile
    /\ UNCHANGED <<up, memory, defaultTheta, rowVars, policyVars, held, rest, boundVars,
                   raced, cut>>

\* Mutant of EncodeConfig: saves wait for one another with the file truncated.
EncodeConfigWaits(h) ==
    /\ \A g \in Handler \ {h} : pc[g] \notin {"encode", "write"}
    /\ Goto(h, "encode", "write")
    /\ held' = [held EXCEPT ![h] = memory]
    /\ UNCHANGED <<up, configVars, policyVars, rest, boundVars, historyVars>>

(* Encode marshals the global configuration, not the one this request sent, *)
EncodeConfig(h) ==
    /\ Goto(h, "encode", "write")
    /\ held' = [held EXCEPT ![h] = memory]
    /\ UNCHANGED <<up, configVars, policyVars, rest, boundVars, historyVars>>

(* and writes it. *)
WriteConfig(h) ==
    /\ Finish(h, "write")
    /\ \/ configFile' = held[h] /\ UNCHANGED <<failed, cut>>
       \/ failed' = TRUE /\ cut' = TRUE /\ UNCHANGED configFile
    /\ UNCHANGED <<up, memory, defaultTheta, rowVars, policyVars, rest, boundVars, raced>>

-----------------------------------------------------------------------------
(* The rows of single sessions *)

(* handleAPIInferenceSettingsSave: the row of one session, if there is one, *)
(* gets any threshold, and nothing else is told of it.                      *)
SaveThreshold(s, t) ==
    /\ up
    /\ saves < MaxSaves
    /\ saves' = saves + 1
    /\ rows[s] # None
    /\ rows' = [rows EXCEPT ![s] = t]
    /\ own' = own \cup {s}
    /\ UNCHANGED <<up, memory, defaultTheta, configFile, policyVars, handlerVars,
                   crashes, historyVars>>

(* GetSessionMatrices finds no row and goes to insert one, which is to have *)
(* the default of this moment.                                              *)
SeedSession(h) ==
    /\ \E s \in Session :
          /\ rows[s] = None
          /\ BeginSeed(h, [session |-> s, theta |-> defaultTheta])
    /\ UNCHANGED <<up, configVars, policyVars, rest, boundVars, failed, cut>>

(* A row that is there by now stays; the INSERT may fail. *)
InsertRow(h) ==
    /\ Finish(h, "seed")
    /\ LET new == [rows EXCEPT ![held[h].session] = IF @ = None THEN held[h].theta ELSE @]
       IN  rows' \in {rows, new}
    /\ UNCHANGED <<up, memory, defaultTheta, configFile, own, policyVars, rest,
                   boundVars, historyVars>>

(* A session reset, and the end of the simulator for its sessions. *)
DeleteRow(s) ==
    /\ up
    /\ rows[s] # None
    /\ rows' = [rows EXCEPT ![s] = None]
    /\ own' = own \ {s}
    /\ UNCHANGED <<up, memory, defaultTheta, configFile, policyVars, handlerVars,
                   boundVars, historyVars>>

-----------------------------------------------------------------------------
(* handleAPIPolicy, CompileRegoPolicy and EvaluatePolicy *)

(* os.WriteFile truncates the file, *)
PolicySave(h) ==
    /\ saves < MaxSaves
    /\ saves' = saves + 1
    /\ \E p \in Policy : BeginPolicy(h, "put", p)
    /\ policyFile' = Empty
    /\ UNCHANGED <<up, configVars, compiled, rest, crashes, failed, cut>>

\* Mutant of PutPolicy: the query is not prepared again.
PutPolicyOnly(h) ==
    /\ Finish(h, "put")
    /\ policyFile' = held[h]
    /\ UNCHANGED <<up, configVars, compiled, rest, boundVars, historyVars>>

(* then writes it; only if that fails is the answer an error. *)
PutPolicy(h) ==
    /\ \/ /\ Goto(h, "put", "compile")
          /\ held' = [held EXCEPT ![h] = None]
          /\ policyFile' = held[h]
          /\ UNCHANGED failed
       \/ /\ Finish(h, "put")
          /\ failed' = TRUE
          /\ UNCHANGED policyFile
    /\ UNCHANGED <<up, configVars, compiled, rest, boundVars, raced, cut>>

(* The compiler reads what the file then holds, an empty module included;  *)
(* a text that does not compile is logged, and the answer to a save is a   *)
(* success.                                                                *)
ReadPolicy(h) ==
    /\ \/ /\ Compiles(policyFile)
          /\ Goto(h, "compile", "install")
          /\ held' = [held EXCEPT ![h] = policyFile]
       \/ ~Compiles(policyFile) /\ Finish(h, "compile")
    /\ UNCHANGED <<up, configVars, policyVars, rest, boundVars, historyVars>>

InstallPolicy(h) ==
    /\ Finish(h, "install")
    /\ compiled' = held[h]
    /\ UNCHANGED <<up, configVars, policyFile, rest, boundVars, historyVars>>

(* A request that finds no prepared query compiles the file itself; with a *)
(* query an evaluation changes nothing.                                    *)
EvaluatePolicy(h) ==
    /\ compiled = None
    /\ BeginPolicy(h, "compile", None)
    /\ UNCHANGED <<up, configVars, policyVars, rest, boundVars, failed, cut>>

-----------------------------------------------------------------------------
(* The process dies: its memory and its handlers are gone. *)
Crash ==
    /\ up
    /\ crashes < MaxCrashes
    /\ crashes' = crashes + 1
    /\ up' = FALSE
    /\ pc' = Idle
    /\ held' = [h \in Handler |-> None]
    /\ rest' = [h \in Handler |-> {}]
    /\ compiled' = None
    /\ cut' = (cut \/ configFile = Empty)
    /\ UNCHANGED <<configVars, policyFile, saves, raced, failed>>

\* Mutant of Start: the rows keep their thresholds.
StartKeepsRows ==
    /\ ~up
    /\ configFile # Empty
    /\ up' = TRUE
    /\ memory' = Loaded(configFile)
    /\ defaultTheta' = memory'.theta
    /\ failed' = FALSE /\ raced' = {}
    /\ compiled' = IF Compiles(policyFile) THEN policyFile ELSE None
    /\ UNCHANGED <<configFile, policyFile, rowVars, handlerVars, boundVars, cut>>

(* main: the configuration is loaded, or the start ends in log.Fatalf; the *)
(* thresholds of all rows are overwritten, those of single sessions too,   *)
(* or the failure is logged, which leaves them to what happened before; a  *)
(* policy that does not compile is only logged.                            *)
Start ==
    /\ ~up
    /\ configFile # Empty
    /\ up' = TRUE
    /\ memory' = Loaded(configFile)
    /\ defaultTheta' = memory'.theta
    /\ \/ /\ rows' = AllRows(memory'.theta) /\ own' = {}
          /\ failed' = FALSE /\ raced' = {}
       \/ /\ rows' \in {rows, AllRows(memory'.theta)} /\ UNCHANGED own
          /\ failed' = TRUE /\ raced' = raced \ {"policy"}
    /\ compiled' = IF Compiles(policyFile) THEN policyFile ELSE None
    /\ UNCHANGED <<configFile, policyFile, handlerVars, boundVars, cut>>

Save(h) ==
    \/ Assign(h) \/ Fill(h) \/ SetDefault(h) \/ ReadArgument(h) \/ UpdateRows(h)
    \/ CreateFile(h) \/ EncodeConfig(h) \/ WriteConfig(h)
    \/ InsertRow(h)
    \/ PutPolicy(h) \/ ReadPolicy(h) \/ InstallPolicy(h)

Next ==
    \/ \E h \in Handler :
          ConfigSave(h) \/ PolicySave(h) \/ SeedSession(h) \/ EvaluatePolicy(h) \/ Save(h)
    \/ \E s \in Session, t \in Level : SaveThreshold(s, t)
    \/ \E s \in Session : DeleteRow(s)
    \/ Crash
    \/ Start

Spec == Init /\ [][Next]_vars

(* A handler that has begun runs on while the gateway is up. *)
FairSpec == Spec /\ \A h \in Handler : WF_vars(Save(h))

-----------------------------------------------------------------------------
(* Values of the variables. *)
Step == {"idle"} \cup ConfigSteps \cup PolicySteps \cup SeedSteps

TypeOK ==
    /\ up \in BOOLEAN
    /\ memory \in Config
    /\ defaultTheta \in Level
    /\ configFile \in Config \cup {Empty}
    /\ rows \in [Session -> Level \cup {None}]
    /\ own \subseteq Session
    /\ policyFile \in Policy \cup {Empty}
    /\ compiled \in Policy \cup {None}
    /\ pc \in [Handler -> Step]
    /\ held \in [Handler -> Config \cup Seed \cup Policy \cup {None}]
    /\ rest \in [Handler -> SUBSET Field]
    /\ saves \in 0..MaxSaves
    /\ crashes \in 0..MaxCrashes
    /\ raced \subseteq {"config", "policy"}
    /\ failed \in BOOLEAN
    /\ cut \in BOOLEAN

(* A gateway whose saves did not overlap one another or a new row, and     *)
(* whose calls did not fail, decides by what is in its file, but for a     *)
(* base URL that UPSTREAM_URL stands in for; and all rows hold that        *)
(* threshold, but those for whose session another one was saved after all  *)
(* rows were last written.  That holds whatever crash and restart came     *)
(* before: the UPDATE of the start repairs a save that died between rows   *)
(* and file.                                                               *)
ConfigAgrees ==
    up /\ Quiet(ConfigSteps) /\ "config" \notin raced /\ ~failed =>
       /\ configFile # Empty => memory \in {Filled(configFile), Loaded(configFile)}
       /\ \A s \in Session \ own : rows[s] \in {None, memory.theta}
       /\ defaultTheta = memory.theta

(* A configuration never makes the threshold of a row zero, which blocks   *)
(* every surprise, unless one save wrote GatewayConfig between another's   *)
(* default and its UPDATE, through failing calls and crashes: only a zero  *)
(* that was saved for its session makes it so.                             *)
ZeroNeedsRace ==
    "config" \notin raced => defaultTheta # 0 /\ \A s \in Session \ own : rows[s] # 0

(* The configuration file is empty, so that the gateway cannot start       *)
(* again, only while a save is between Create and Write, or after a crash  *)
(* or a failing write there.                                               *)
LossNeedsCut ==
    configFile = Empty => cut \/ \E h \in Handler : pc[h] \in {"encode", "write"}

(* What requests are judged by is what a restart would compile: a policy   *)
(* file that compiles is in force when no save or compilation is under     *)
(* way, unless two of them overlapped.                                     *)
PolicyAgrees ==
    up /\ Quiet(PolicySteps) /\ "policy" \notin raced /\ Compiles(policyFile) =>
       compiled = policyFile

(* Every file that a save truncates is written again, unless the gateway   *)
(* dies or a write fails.                                                  *)
FileRestored == configFile = Empty ~> configFile # Empty \/ cut
=============================================================================

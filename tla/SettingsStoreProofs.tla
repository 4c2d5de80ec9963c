------------------------- MODULE SettingsStoreProofs -------------------------
(***************************************************************************)
(* Proofs about the settings: the types, and the four safety invariants of *)
(* the run, for any handlers, secrets, thresholds and policies and however *)
(* often settings are saved and the gateway dies.                          *)
(*                                                                         *)
(* An operation that nothing of its kind overlaps is alone, so what its    *)
(* handler knows at a location is still true at the next one; that is the  *)
(* inductive invariant.                                                    *)
(***************************************************************************)
EXTENDS SettingsStore, TLAPS

(* A handler holds what its step works on. *)
HeldOK ==
    \A h \in Handler :
       /\ pc[h] \in {"assign", "update", "write"} => held[h] \in Config
       /\ pc[h] \in {"put", "install"} => held[h] \in Policy
       /\ pc[h] = "seed" => held[h] \in Seed

Types == TypeOK /\ HeldOK

LEMMA FilledType ==
    ASSUME NEW c \in Config
    PROVE  Filled(c) \in Config /\ Filled(c).theta \in Theta
  BY SettingsAssumption DEF Filled, Config, Level

LEMMA LoadedType ==
    ASSUME NEW c \in Config
    PROVE  Loaded(c) \in Config /\ Loaded(c).theta \in Theta
<1>1. Filled(c) \in Config /\ Filled(c).theta \in Theta
  BY FilledType
<1>2. CASE Override = None
  BY <1>1, <1>2 DEF Loaded
<1>3. CASE Override \in Url
  BY <1>1, <1>3, SettingsAssumption DEF Loaded, Config
<1> QED
  BY <1>2, <1>3, SettingsAssumption

LEMMA AllRowsType ==
    ASSUME NEW t \in Level
    PROVE  AllRows(t) \in [Session -> Level \cup {None}]
  BY DEF AllRows

LEMMA InitTypes == Init => Types
<1> SUFFICES ASSUME Init PROVE Types
  OBVIOUS
<1>1. memory \in Config /\ memory.theta \in Level
  BY LoadedType DEF Init, Config
<1>2. compiled \in Policy \cup {None}
  BY DEF Init
<1>3. /\ pc \in [Handler -> Step]
      /\ held \in [Handler -> Config \cup Seed \cup Policy \cup {None}]
      /\ rest \in [Handler -> SUBSET Field]
  BY DEF Init, Idle, Step
<1>4. saves \in 0..MaxSaves /\ crashes \in 0..MaxCrashes
  BY SettingsAssumption DEF Init
<1>5. /\ up \in BOOLEAN /\ failed \in BOOLEAN /\ cut \in BOOLEAN
      /\ raced \subseteq {"config", "policy"}
  BY DEF Init
<1>6. rows \in [Session -> Level \cup {None}] /\ own \subseteq Session
  BY <1>1 DEF Init
<1>7. TypeOK
  BY <1>1, <1>2, <1>3, <1>4, <1>5, <1>6 DEF Init, TypeOK
<1>8. HeldOK
  BY DEF Init, HeldOK, Idle
<1> QED
  BY <1>7, <1>8 DEF Types

LEMMA NextTypes == Types /\ [Next]_vars => Types'
<1> SUFFICES ASSUME Types, [Next]_vars PROVE Types'
  OBVIOUS
<1> USE SettingsAssumption DEF Types, TypeOK, HeldOK, Step, ConfigSteps, PolicySteps, SeedSteps, Goto,
        Finish, configVars, rowVars, policyVars, handlerVars, boundVars, historyVars
<1>1. ASSUME NEW h \in Handler, ConfigSave(h) PROVE Types'
  <2>1. PICK s \in Secret \cup {Mask}, u \in Url, t \in Level :
           BeginConfig(h, [secret |-> IF s = Mask THEN memory.secret ELSE s,
                           url |-> u, theta |-> t])
    BY <1>1 DEF ConfigSave
  <2>2. [secret |-> IF s = Mask THEN memory.secret ELSE s, url |-> u, theta |-> t] \in Config
    BY DEF Config
  <2> QED
    BY <1>1, <2>1, <2>2 DEF ConfigSave, BeginConfig, Begin
<1>2. ASSUME NEW h \in Handler, PolicySave(h) PROVE Types'
  BY <1>2 DEF PolicySave, BeginPolicy, Begin
<1>3. ASSUME NEW h \in Handler, EvaluatePolicy(h) PROVE Types'
  BY <1>3 DEF EvaluatePolicy, BeginPolicy, Begin
<1>4. ASSUME NEW h \in Handler, Assign(h) PROVE Types'
  <2>1. PICK f \in rest[h] :
           /\ memory' = [memory EXCEPT ![f] = held[h][f]]
           /\ rest' = [rest EXCEPT ![h] = @ \ {f}]
           /\ Goto(h, "assign", IF rest[h] = {f} THEN "fill" ELSE "assign")
    BY <1>4 DEF Assign
  <2>2. f \in {"secret", "url", "theta"}
    BY DEF Field
  <2>3. held[h] \in Config
    BY <2>1
  <2>4. memory' \in Config
    BY <2>1, <2>2, <2>3 DEF Config
  <2> QED
    BY <1>4, <2>1, <2>4 DEF Assign
<1>5. ASSUME NEW h \in Handler, Fill(h) PROVE Types'
  BY <1>5, FilledType DEF Fill
<1>6. ASSUME NEW h \in Handler, SetDefault(h) PROVE Types'
  BY <1>6 DEF SetDefault, Config
<1>7. ASSUME NEW h \in Handler, ReadArgument(h) PROVE Types'
  BY <1>7 DEF ReadArgument
<1>8. ASSUME NEW h \in Handler, UpdateRows(h) PROVE Types'
  <2>1. held[h].theta \in Level
    BY <1>8 DEF UpdateRows, Config
  <2>2. rows' \in [Session -> Level \cup {None}] /\ own' \subseteq Session /\ failed' \in BOOLEAN
    BY <1>8, <2>1, AllRowsType DEF UpdateRows
  <2> QED
    BY <1>8, <2>2 DEF UpdateRows
<1>9. ASSUME NEW h \in Handler, CreateFile(h) PROVE Types'
  <2>1. /\ pc[h] = "create" /\ rest' = rest /\ held' = held
        /\ pc' \in {[pc EXCEPT ![h] = "encode"], [pc EXCEPT ![h] = "idle"]}
        /\ configFile' \in {configFile, Empty} /\ failed' \in BOOLEAN
    BY <1>9 DEF CreateFile
  <2>2. HeldOK'
    BY <2>1 DEF CreateFile
  <2> QED
    BY <1>9, <2>1, <2>2 DEF CreateFile
<1>10. ASSUME NEW h \in Handler, EncodeConfig(h) PROVE Types'
  BY <1>10 DEF EncodeConfig
<1>11. ASSUME NEW h \in Handler, WriteConfig(h) PROVE Types'
  BY <1>11 DEF WriteConfig
<1>12. ASSUME NEW h \in Handler, PutPolicy(h) PROVE Types'
  <2>1. held[h] \in Policy
    BY <1>12 DEF PutPolicy
  <2>2. policyFile' \in Policy \cup {Empty}
    BY <1>12, <2>1 DEF PutPolicy
  <2>3. CASE Finish(h, "put")
    BY <1>12, <2>2, <2>3 DEF PutPolicy
  <2>4. CASE ~Finish(h, "put")
    BY <1>12, <2>2, <2>4 DEF PutPolicy
  <2> QED
    BY <2>3, <2>4
<1>13. ASSUME NEW h \in Handler, ReadPolicy(h) PROVE Types'
  BY <1>13 DEF ReadPolicy, Compiles
<1>14. ASSUME NEW h \in Handler, InstallPolicy(h) PROVE Types'
  BY <1>14 DEF InstallPolicy
<1>15. CASE Crash
  <2>1. /\ pc' \in [Handler -> Step]
        /\ held' \in [Handler -> Config \cup Seed \cup Policy \cup {None}]
        /\ rest' \in [Handler -> SUBSET Field]
    BY <1>15 DEF Crash, Idle
  <2>2. crashes' \in 0..MaxCrashes /\ saves' \in 0..MaxSaves
    BY <1>15 DEF Crash
  <2>3. up' \in BOOLEAN /\ cut' \in BOOLEAN
    BY <1>15 DEF Crash
  <2>4. HeldOK'
    BY <1>15 DEF Crash, Idle
  <2> QED
    BY <1>15, <2>1, <2>2, <2>3, <2>4 DEF Crash
<1>16. CASE Start
  <2>1. memory' \in Config /\ memory'.theta \in Level
    BY <1>16, LoadedType DEF Start, Config
  <2>2. rows' \in [Session -> Level \cup {None}] /\ own' \subseteq Session
    BY <1>16, <2>1, AllRowsType DEF Start
  <2> QED
    BY <1>16, <2>1, <2>2 DEF Start, Compiles
<1>17. CASE UNCHANGED vars
  BY <1>17 DEF vars
<1>18. ASSUME NEW s \in Session, NEW t \in Level, SaveThreshold(s, t) PROVE Types'
  <2>1. rows' \in [Session -> Level \cup {None}] /\ own' \subseteq Session /\ saves' \in 0..MaxSaves
    BY <1>18 DEF SaveThreshold
  <2> QED
    BY <1>18, <2>1 DEF SaveThreshold
<1>19. ASSUME NEW h \in Handler, SeedSession(h) PROVE Types'
  <2>1. PICK s \in Session : BeginSeed(h, [session |-> s, theta |-> defaultTheta])
    BY <1>19 DEF SeedSession
  <2>2. [session |-> s, theta |-> defaultTheta] \in Seed
    BY DEF Seed
  <2> QED
    BY <1>19, <2>1, <2>2 DEF SeedSession, BeginSeed, Begin
<1>20. ASSUME NEW h \in Handler, InsertRow(h) PROVE Types'
  <2>1. held[h].session \in Session /\ held[h].theta \in Level
    BY <1>20 DEF InsertRow, Seed
  <2>2. rows' \in [Session -> Level \cup {None}]
    BY <1>20, <2>1 DEF InsertRow
  <2> QED
    BY <1>20, <2>2 DEF InsertRow
<1>21. ASSUME NEW s \in Session, DeleteRow(s) PROVE Types'
  <2>1. rows' \in [Session -> Level \cup {None}] /\ own' \subseteq Session
    BY <1>21 DEF DeleteRow
  <2> QED
    BY <1>21, <2>1 DEF DeleteRow
<1> QED
  BY <1>1, <1>2, <1>3, <1>4, <1>5, <1>6, <1>7, <1>8, <1>9, <1>10, <1>11, <1>12, <1>13, <1>14,
     <1>15, <1>16, <1>17, <1>18, <1>19, <1>20, <1>21 DEF Next, Save

(* Every variable stays in its type; in particular a mask never replaces a *)
(* secret in GatewayConfig or in its file (handleAPIConfigSave).           *)
THEOREM Typing == Spec => []TypeOK
<1>1. Spec => []Types
  BY InitTypes, NextTypes, PTL DEF Spec
<1> QED
  BY <1>1, PTL DEF Types

-----------------------------------------------------------------------------
(* The file of the configuration is empty only where a save or a crash has *)
(* left it so.                                                             *)
LEMMA NextLoss == Types /\ LossNeedsCut /\ [Next]_vars => LossNeedsCut'
<1> SUFFICES ASSUME Types, LossNeedsCut, [Next]_vars PROVE LossNeedsCut'
  OBVIOUS
<1> USE DEF Types, TypeOK, LossNeedsCut, Goto, Finish, configVars, policyVars, handlerVars,
        boundVars, historyVars
<1>1. ASSUME NEW h \in Handler, ConfigSave(h) \/ PolicySave(h) \/ EvaluatePolicy(h)
      PROVE  LossNeedsCut'
  BY <1>1 DEF ConfigSave, PolicySave, EvaluatePolicy, BeginConfig, BeginPolicy, Begin
<1>2. ASSUME NEW h \in Handler,
             Assign(h) \/ Fill(h) \/ SetDefault(h) \/ ReadArgument(h) \/ UpdateRows(h)
      PROVE  LossNeedsCut'
  BY <1>2 DEF Assign, Fill, SetDefault, ReadArgument, UpdateRows
<1>3. ASSUME NEW h \in Handler, CreateFile(h) PROVE LossNeedsCut'
  BY <1>3 DEF CreateFile
<1>4. ASSUME NEW h \in Handler, EncodeConfig(h) PROVE LossNeedsCut'
  BY <1>4 DEF EncodeConfig
<1>5. ASSUME NEW h \in Handler, WriteConfig(h) PROVE LossNeedsCut'
  <2>1. held[h] # Empty
    BY <1>5, EmptyAssumption DEF WriteConfig, HeldOK
  <2> QED
    BY <1>5, <2>1 DEF WriteConfig
<1>6. ASSUME NEW h \in Handler, PutPolicy(h) \/ ReadPolicy(h) \/ InstallPolicy(h)
      PROVE  LossNeedsCut'
  BY <1>6 DEF PutPolicy, ReadPolicy, InstallPolicy
<1>7. CASE Crash
  BY <1>7 DEF Crash
<1>8. CASE Start
  BY <1>8 DEF Start
<1>9. CASE UNCHANGED vars
  BY <1>9 DEF vars
<1>10. ASSUME NEW s \in Session, NEW t \in Level, SaveThreshold(s, t) \/ DeleteRow(s)
       PROVE  LossNeedsCut'
  BY <1>10 DEF SaveThreshold, DeleteRow
<1>11. ASSUME NEW h \in Handler, SeedSession(h) \/ InsertRow(h) PROVE LossNeedsCut'
  BY <1>11 DEF SeedSession, BeginSeed, Begin, InsertRow
<1> QED
  BY <1>1, <1>2, <1>3, <1>4, <1>5, <1>6, <1>7, <1>8, <1>9, <1>10, <1>11 DEF Next, Save, Level

(* The gateway can find an empty configuration file at a start only after  *)
(* a crash or a failing write between os.Create and the end of the write.  *)
THEOREM Loss == Spec => []LossNeedsCut
<1>1. Init => LossNeedsCut
  BY EmptyAssumption DEF Init, LossNeedsCut
<1> QED
  BY <1>1, InitTypes, NextTypes, NextLoss, PTL DEF Spec

-----------------------------------------------------------------------------
(* Operations that did not overlap: whoever is within one is alone,        *)
Alone(kind, steps) ==
    kind \notin raced => \A g, h \in Handler : pc[g] \in steps /\ pc[h] \in steps => g = h

(* no row is inserted while a configuration is saved, *)
SeedsApart ==
    "config" \notin raced =>
       \A g, h \in Handler : ~(pc[g] \in ConfigSteps /\ pc[h] \in SeedSteps)

(* and no handler survives a crash. *)
Down == ~up => Quiet(ConfigSteps \cup PolicySteps \cup SeedSteps)

Solitude ==
    Alone("config", ConfigSteps) /\ SeedsApart /\ Alone("policy", PolicySteps) /\ Down

LEMMA NextSolitude == Types /\ Solitude /\ [Next]_vars => Solitude'
<1> SUFFICES ASSUME Types, Solitude, [Next]_vars PROVE Solitude'
  OBVIOUS
<1> USE DEF Types, TypeOK, Solitude, Alone, SeedsApart, Down, Quiet, ConfigSteps, PolicySteps,
        SeedSteps, Goto, Finish, configVars, rowVars, policyVars, handlerVars, boundVars, historyVars
<1>1. ASSUME NEW h \in Handler, ConfigSave(h) PROVE Solitude'
  BY <1>1 DEF ConfigSave, BeginConfig, Begin
<1>2. ASSUME NEW h \in Handler, PolicySave(h) PROVE Solitude'
  BY <1>2 DEF PolicySave, BeginPolicy, Begin
<1>3. ASSUME NEW h \in Handler, EvaluatePolicy(h) PROVE Solitude'
  BY <1>3 DEF EvaluatePolicy, BeginPolicy, Begin
<1>4. ASSUME NEW h \in Handler, Assign(h) PROVE Solitude'
  BY <1>4 DEF Assign
<1>5. ASSUME NEW h \in Handler, Fill(h) \/ SetDefault(h) \/ ReadArgument(h) \/ UpdateRows(h)
      PROVE  Solitude'
  <2>1. CASE Fill(h) \/ SetDefault(h)
    BY <2>1 DEF Fill, SetDefault
  <2>2. CASE ReadArgument(h)
    BY <2>2 DEF ReadArgument
  <2>3. CASE UpdateRows(h)
    BY <2>3 DEF UpdateRows
  <2> QED
    BY <1>5, <2>1, <2>2, <2>3
<1>6. ASSUME NEW h \in Handler, CreateFile(h) \/ EncodeConfig(h) \/ WriteConfig(h)
      PROVE  Solitude'
  BY <1>6 DEF CreateFile, EncodeConfig, WriteConfig
<1>7. ASSUME NEW h \in Handler, PutPolicy(h) PROVE Solitude'
  BY <1>7 DEF PutPolicy
<1>8. ASSUME NEW h \in Handler, ReadPolicy(h) PROVE Solitude'
  BY <1>8 DEF ReadPolicy
<1>9. ASSUME NEW h \in Handler, InstallPolicy(h) PROVE Solitude'
  BY <1>9 DEF InstallPolicy
<1>10. CASE Crash
  BY <1>10 DEF Crash, Idle
<1>11. CASE Start
  BY <1>11 DEF Start
<1>12. CASE UNCHANGED vars
  BY <1>12 DEF vars
<1>13. ASSUME NEW s \in Session, NEW t \in Level, SaveThreshold(s, t) \/ DeleteRow(s)
       PROVE  Solitude'
  BY <1>13 DEF SaveThreshold, DeleteRow
<1>14. ASSUME NEW h \in Handler, SeedSession(h) PROVE Solitude'
  BY <1>14 DEF SeedSession, BeginSeed, Begin
<1>15. ASSUME NEW h \in Handler, InsertRow(h) PROVE Solitude'
  BY <1>15 DEF InsertRow
<1> QED
  BY <1>1, <1>2, <1>3, <1>4, <1>5, <1>6, <1>7, <1>8, <1>9, <1>10, <1>11, <1>12, <1>13, <1>14,
     <1>15 DEF Next, Save, Level

-----------------------------------------------------------------------------
(* What a policy's handler knows, and who will compile a file that is not  *)
(* in force.                                                               *)
PolicyKnown ==
    "policy" \notin raced =>
       /\ \A h \in Handler :
             /\ pc[h] = "put" => policyFile = Empty
             /\ pc[h] = "install" => held[h] = policyFile
       /\ up /\ Compiles(policyFile) /\ compiled # policyFile =>
             \E h \in Handler : pc[h] \in {"compile", "install"}

LEMMA NextPolicyKnown ==
    Types /\ Solitude /\ PolicyKnown /\ [Next]_vars => PolicyKnown'
<1> SUFFICES ASSUME Types, Solitude, PolicyKnown, [Next]_vars PROVE PolicyKnown'
  OBVIOUS
<1> USE SettingsAssumption DEF Types, TypeOK, PolicyKnown, Compiles, Goto, Finish, policyVars,
        handlerVars, boundVars, historyVars
<1>1. ASSUME NEW h \in Handler, ConfigSave(h) PROVE PolicyKnown'
  BY <1>1 DEF ConfigSave, BeginConfig, Begin
<1>2. ASSUME NEW h \in Handler, PolicySave(h) PROVE PolicyKnown'
  BY <1>2 DEF PolicySave, BeginPolicy, Begin, Quiet, PolicySteps
<1>3. ASSUME NEW h \in Handler, EvaluatePolicy(h) PROVE PolicyKnown'
  BY <1>3 DEF EvaluatePolicy, BeginPolicy, Begin, Quiet, PolicySteps
<1>4. ASSUME NEW h \in Handler, Assign(h) PROVE PolicyKnown'
  BY <1>4 DEF Assign
<1>5. ASSUME NEW h \in Handler, Fill(h) \/ SetDefault(h) \/ ReadArgument(h) \/ UpdateRows(h)
      PROVE  PolicyKnown'
  <2>1. CASE Fill(h)
    BY <2>1 DEF Fill
  <2>2. CASE SetDefault(h)
    BY <2>2 DEF SetDefault
  <2>3. CASE ReadArgument(h)
    BY <2>3 DEF ReadArgument
  <2>4. CASE UpdateRows(h)
    BY <2>4 DEF UpdateRows
  <2> QED
    BY <1>5, <2>1, <2>2, <2>3, <2>4
<1>6. ASSUME NEW h \in Handler, CreateFile(h) \/ EncodeConfig(h) \/ WriteConfig(h)
      PROVE  PolicyKnown'
  BY <1>6 DEF CreateFile, EncodeConfig, WriteConfig
<1>7. ASSUME NEW h \in Handler, PutPolicy(h) PROVE PolicyKnown'
  BY <1>7 DEF PutPolicy, Solitude, Alone, PolicySteps
<1>8. ASSUME NEW h \in Handler, ReadPolicy(h) PROVE PolicyKnown'
  BY <1>8 DEF ReadPolicy, Solitude, Alone, PolicySteps
<1>9. ASSUME NEW h \in Handler, InstallPolicy(h) PROVE PolicyKnown'
  BY <1>9 DEF InstallPolicy, Solitude, Alone, PolicySteps
<1>10. CASE Crash
  BY <1>10 DEF Crash, Idle
<1>11. CASE Start
  BY <1>11 DEF Start, Solitude, Down, Quiet, ConfigSteps, PolicySteps, SeedSteps
<1>12. CASE UNCHANGED vars
  BY <1>12 DEF vars
<1>13. ASSUME NEW s \in Session, NEW t \in Level, SaveThreshold(s, t) \/ DeleteRow(s)
       PROVE  PolicyKnown'
  BY <1>13 DEF SaveThreshold, DeleteRow
<1>14. ASSUME NEW h \in Handler, SeedSession(h) \/ InsertRow(h) PROVE PolicyKnown'
  BY <1>14 DEF SeedSession, BeginSeed, Begin, InsertRow
<1> QED
  BY <1>1, <1>2, <1>3, <1>4, <1>5, <1>6, <1>7, <1>8, <1>9, <1>10, <1>11, <1>12, <1>13, <1>14
     DEF Next, Save, Level

-----------------------------------------------------------------------------
(* What a configuration's handler knows at each location, and what holds   *)
(* between two saves.                                                      *)
AtRest ==
    /\ configFile # Empty => memory \in {Filled(configFile), Loaded(configFile)}
    /\ defaultTheta = memory.theta

(* The rows that no threshold was saved for. *)
RowsAgree == \A s \in Session \ own : rows[s] \in {None, memory.theta}

SaveKnows(h) ==
    /\ pc[h] \in ConfigSteps \ {"assign", "fill"} => memory.theta # 0
    /\ pc[h] \in ConfigSteps \ {"assign", "fill", "default"} => defaultTheta = memory.theta
    /\ pc[h] \in {"update", "write"} => held[h] = memory
    /\ pc[h] \in {"create", "encode", "write"} /\ ~failed => RowsAgree

ConfigKnown ==
    "config" \notin raced =>
       /\ \A h \in Handler : SaveKnows(h)
       /\ \A h \in Handler : pc[h] = "seed" => held[h].theta = defaultTheta
       /\ up /\ Quiet(ConfigSteps) /\ ~failed => AtRest /\ RowsAgree
       /\ defaultTheta # 0
       /\ \A s \in Session \ own : rows[s] # 0

LEMMA NextConfigKnown ==
    Types /\ Solitude /\ ConfigKnown /\ [Next]_vars => ConfigKnown'
<1> SUFFICES ASSUME Types, Solitude, ConfigKnown, [Next]_vars, "config" \notin raced'
             PROVE  ConfigKnown'
  BY DEF ConfigKnown
<1> USE SettingsAssumption DEF Types, TypeOK, ConfigKnown, SaveKnows, AtRest, RowsAgree, Quiet,
        ConfigSteps, Goto, Finish, configVars, rowVars, policyVars, handlerVars, boundVars, historyVars
<1>1. ASSUME NEW h \in Handler, ConfigSave(h) PROVE ConfigKnown'
  BY <1>1 DEF ConfigSave, BeginConfig, Begin
<1>2. ASSUME NEW h \in Handler, PolicySave(h) PROVE ConfigKnown'
  BY <1>2 DEF PolicySave, BeginPolicy, Begin
<1>3. ASSUME NEW h \in Handler, EvaluatePolicy(h) PROVE ConfigKnown'
  BY <1>3 DEF EvaluatePolicy, BeginPolicy, Begin
<1>4. ASSUME NEW h \in Handler, Assign(h) PROVE ConfigKnown'
  BY <1>4 DEF Assign, Solitude, Alone
<1>5. ASSUME NEW h \in Handler, Fill(h) PROVE ConfigKnown'
  <2>1. memory'.theta # 0
    BY <1>5, FilledType DEF Fill
  <2> QED
    BY <1>5, <2>1 DEF Fill, Solitude, Alone
<1>6. ASSUME NEW h \in Handler, SetDefault(h) PROVE ConfigKnown'
  BY <1>6 DEF SetDefault, Solitude, Alone, SeedsApart, SeedSteps
<1>7. ASSUME NEW h \in Handler, ReadArgument(h) PROVE ConfigKnown'
  BY <1>7 DEF ReadArgument, Solitude, Alone
<1>8. ASSUME NEW h \in Handler, UpdateRows(h) PROVE ConfigKnown'
  <2>1. /\ memory.theta # 0 /\ held[h] = memory /\ defaultTheta = memory.theta
        /\ pc' = [pc EXCEPT ![h] = "create"] /\ pc[h] = "update"
        /\ memory' = memory /\ defaultTheta' = defaultTheta /\ raced' = raced /\ up' = up
    BY <1>8 DEF UpdateRows
  <2>2. \A g \in Handler : g # h => pc[g] \notin ConfigSteps
    BY <2>1 DEF Solitude, Alone
  <2>3. \A g \in Handler : pc[g] # "seed"
    BY <2>1 DEF Solitude, SeedsApart, SeedSteps
  <2>4. CASE rows' = AllRows(held[h].theta) /\ own' = {}
    <3>1. \A s \in Session : rows'[s] \in {None, memory.theta}
      BY <2>1, <2>4 DEF AllRows
    <3> QED
      BY <2>1, <2>2, <2>3, <2>4, <3>1
  <2>5. CASE failed' = TRUE /\ UNCHANGED rowVars
    BY <2>1, <2>2, <2>3, <2>5
  <2> QED
    BY <1>8, <2>4, <2>5 DEF UpdateRows
<1>9. ASSUME NEW h \in Handler, CreateFile(h) PROVE ConfigKnown'
  BY <1>9 DEF CreateFile, Solitude, Alone
<1>10. ASSUME NEW h \in Handler, EncodeConfig(h) PROVE ConfigKnown'
  BY <1>10 DEF EncodeConfig, Solitude, Alone
<1>11. ASSUME NEW h \in Handler, WriteConfig(h) PROVE ConfigKnown'
  BY <1>11 DEF WriteConfig, Solitude, Alone, Filled
<1>12. ASSUME NEW h \in Handler, PutPolicy(h) PROVE ConfigKnown'
  BY <1>12 DEF PutPolicy
<1>13. ASSUME NEW h \in Handler, ReadPolicy(h) PROVE ConfigKnown'
  BY <1>13 DEF ReadPolicy
<1>14. ASSUME NEW h \in Handler, InstallPolicy(h) PROVE ConfigKnown'
  BY <1>14 DEF InstallPolicy
<1>15. CASE Crash
  BY <1>15 DEF Crash, Idle
<1>16. CASE Start
  <2>1. memory'.theta # 0
    BY <1>16, LoadedType DEF Start
  <2> QED
    BY <1>16, <2>1 DEF Start, AllRows, Solitude, Down, PolicySteps, SeedSteps
<1>17. CASE UNCHANGED vars
  BY <1>17 DEF vars
<1>18. ASSUME NEW s \in Session, NEW t \in Level, SaveThreshold(s, t) PROVE ConfigKnown'
  BY <1>18 DEF SaveThreshold
<1>19. ASSUME NEW h \in Handler, SeedSession(h) PROVE ConfigKnown'
  BY <1>19 DEF SeedSession, BeginSeed, Begin
<1>20. ASSUME NEW h \in Handler, InsertRow(h) PROVE ConfigKnown'
  BY <1>20 DEF InsertRow, Solitude, SeedsApart, SeedSteps
<1>21. ASSUME NEW s \in Session, DeleteRow(s) PROVE ConfigKnown'
  BY <1>21 DEF DeleteRow
<1> QED
  BY <1>1, <1>2, <1>3, <1>4, <1>5, <1>6, <1>7, <1>8, <1>9, <1>10, <1>11, <1>12, <1>13, <1>14,
     <1>15, <1>16, <1>17, <1>18, <1>19, <1>20, <1>21 DEF Next, Save

-----------------------------------------------------------------------------
IInv == Types /\ Solitude /\ PolicyKnown /\ ConfigKnown

LEMMA InitIInv == Init => IInv
<1> SUFFICES ASSUME Init PROVE IInv
  OBVIOUS
<1>1. Solitude
  BY DEF Init, Idle, Solitude, Alone, SeedsApart, Down, Quiet, ConfigSteps, PolicySteps, SeedSteps
<1>2. PolicyKnown
  BY DEF Init, Idle, PolicyKnown
<1>3. memory.theta # 0
  BY LoadedType, SettingsAssumption DEF Init
<1>4. ConfigKnown
  BY <1>3, SettingsAssumption
     DEF Init, Idle, ConfigKnown, SaveKnows, AtRest, RowsAgree, ConfigSteps
<1> QED
  BY InitTypes, <1>1, <1>2, <1>4 DEF IInv

LEMMA Inductive == Spec => []IInv
<1>1. IInv /\ [Next]_vars => IInv'
  BY NextTypes, NextSolitude, NextPolicyKnown, NextConfigKnown DEF IInv
<1> QED
  BY <1>1, InitIInv, PTL DEF Spec

(* Saves that overlapped neither one another nor a new row leave file,     *)
(* memory and the rows that no threshold was saved for in agreement,       *)
(* across every crash and restart (handleAPIConfigSave, loadConfig,        *)
(* handleAPIInferenceSettingsSave, GetSessionMatrices).                    *)
THEOREM Agreement == Spec => []ConfigAgrees
<1>1. IInv => ConfigAgrees
  BY DEF IInv, ConfigKnown, AtRest, RowsAgree, ConfigAgrees
<1> QED
  BY <1>1, Inductive, PTL

(* Without overlapping saves no row has a zero threshold but one for whose *)
(* session it was saved (initializeConfigDefaults, GetSessionMatrices,     *)
(* handleAPIInferenceSettingsSave).                                        *)
THEOREM PositiveThresholds == Spec => []ZeroNeedsRace
<1>1. IInv => ZeroNeedsRace
  BY DEF IInv, ConfigKnown, ZeroNeedsRace
<1> QED
  BY <1>1, Inductive, PTL

(* Without overlapping compilations the policy in force is the one a       *)
(* restart would compile (handleAPIPolicy, CompileRegoPolicy).             *)
THEOREM PolicyInForce == Spec => []PolicyAgrees
<1>1. IInv => PolicyAgrees
  BY DEF IInv, PolicyKnown, PolicyAgrees, Quiet, PolicySteps
<1> QED
  BY <1>1, Inductive, PTL
=============================================================================

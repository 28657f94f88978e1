------------------------ MODULE SdrReceiverNode_proofs ------------------------
(***************************************************************************)
(* Proofs about SdrReceiverNode for every set of keys and of judge inputs, *)
(* every profile table, every retry limit and interval and each maximum    *)
(* level.  What is said of competition mode is proved as an implication,   *)
(* since debug mode receives without a context.                            *)
(***************************************************************************)
EXTENDS NodeRefinement, MatchNode, TLAPS

USE RunModeAssumption, MaxLevelAssumption, RetryAssumption, ProfileAssumption,
    KeyAssumption, InputAssumption

-----------------------------------------------------------------------------
(* Facts about the helpers                                                 *)

\* Clamping to the highest level gives a level that is broken here.
LEMMA BrokenRange ==
    ASSUME NEW v \in Int
    PROVE  Broken(v) \in 1 .. MaxJamBreakLevel /\ Broken(v) \in Levels
BY DEF Broken, Clamp, Levels

\* A level that is broken here is its own clamping.
LEMMA BrokenSame ==
    ASSUME NEW v \in 1 .. MaxJamBreakLevel
    PROVE  Broken(v) = v
BY DEF Broken, Clamp, Levels

\* Jam targets and levels correspond; INFO has no level.
LEMMA TargetLevels ==
    /\ \A l \in Levels : /\ JamTarget[l] \in Targets /\ JamTarget[l] # "INFO"
                         /\ LevelOf(JamTarget[l]) = l
    /\ \A t \in Targets : LevelOf(t) \in 0 .. 3 /\ (LevelOf(t) = 0 <=> t = "INFO")
<1>1. ASSUME NEW l \in Levels
      PROVE  JamTarget[l] \in Targets /\ JamTarget[l] # "INFO" /\ LevelOf(JamTarget[l]) = l
  <2>1. l = 1 \/ l = 2 \/ l = 3
    BY <1>1 DEF Levels
  <2> QED BY <2>1 DEF JamTarget, Targets, LevelOf
<1>2. ASSUME NEW t \in Targets
      PROVE  LevelOf(t) \in 0 .. 3 /\ (LevelOf(t) = 0 <=> t = "INFO")
  BY <1>2 DEF Targets, LevelOf
<1> QED BY <1>1, <1>2

\* Renewing a record keeps its type; it forgets a publication only when the
\* key is to be published again.
LEMMA RenewedType ==
    ASSUME NEW r \in KeyRecords, NEW k \in Keys
    PROVE  /\ Renewed(r, k) \in KeyRecords
           /\ 0 < KeyRetryLimit /\ ~ ShouldPublish(Renewed(r, k)) => Renewed(r, k) = r
BY DEF Renewed, ShouldPublish, KeyRecords

-----------------------------------------------------------------------------
(* Type correctness                                                        *)

\* Choosing a profile keeps the types of what it writes.
LEMMA ApplyProfileType ==
    ASSUME TypeOK, NEW team \in Teams, NEW target \in Targets, NEW under,
           ApplyProfile(team, target, under)
    PROVE  /\ tune' \in [team : Teams, target : Targets]
           /\ rescue' \in Rescues
           /\ active_profile' \in Profiles \cup {NoProfile}
           /\ tune'.team = team
BY DEF ApplyProfile, TypeOK, HasProfile, RescueFor, Rescues

LEMMA CallbackType == TypeOK /\ Callback => TypeOK'
<1> SUFFICES ASSUME TypeOK, Callback PROVE TypeOK'
  OBVIOUS
<1>1. ctx' \in JudgeContexts
  <2> USE DEF TypeOK, Stored, TeamFromSelfId, Teams, JudgeContexts
  <2>1. ASSUME NEW id \in SelfIds, NEW color \in SelfColors, NEW level \in JamLevels,
               ContextCallback(id, color, level)
        PROVE  ctx' \in JudgeContexts
    BY <2>1 DEF ContextCallback, ContextTeam
  <2>2. ASSUME NEW level \in JamLevels, RadarInfoCallback(level)
        PROVE  ctx' \in JudgeContexts
    BY <2>2 DEF RadarInfoCallback
  <2>3. ASSUME NEW id \in SelfIds, SelfIdCallback(id)
        PROVE  ctx' \in JudgeContexts
    BY <2>3 DEF SelfIdCallback
  <2> QED BY <2>1, <2>2, <2>3 DEF Callback
<1> QED BY <1>1 DEF Callback, ContextCallback, RadarInfoCallback, SelfIdCallback, Stored,
                    control, tuning, TypeOK

\* The branches that tune: all that is left to each is its phase and level.
LEMMA ControlWithLevelType ==
    ASSUME TypeOK, NEW target \in Targets, NEW under, ControlWithLevel(target, under),
           phase' \in Phases, submitted_key_level' \in 0 .. 3
    PROVE  TypeOK'
<1>1. ctx.team \in Teams
  BY DEF TypeOK, JudgeContexts
<1>2. ApplyProfile(ctx.team, target, under)
  BY DEF ControlWithLevel
<1>3. encrypt_lvl' \in Levels
  BY DEF ControlWithLevel, ValidLevel, Levels
<1>4. ready' \in BOOLEAN
  BY DEF ControlWithLevel, CanTune, HasProfile
<1> QED BY <1>1, <1>2, <1>3, <1>4, ApplyProfileType DEF ControlWithLevel, Control, TypeOK

LEMMA ControlType == TypeOK /\ ControlStep => TypeOK'
<1> SUFFICES ASSUME TypeOK, ControlStep PROVE TypeOK'
  OBVIOUS
<1>1. CASE ControlWithoutIdentity
  BY <1>1 DEF ControlWithoutIdentity, Control, tuning, TypeOK, Phases
<1>2. CASE ControlWithoutLevel
  <2>1. ctx.team \in Teams
    BY DEF TypeOK, JudgeContexts
  <2> QED BY <1>2, <2>1 DEF ControlWithoutLevel, Control, TypeOK, Phases
<1>3. CASE ControlInInfo
  <2>1. "INFO" \in Targets /\ "InfoDecode" \in Phases
    BY DEF Targets, Phases
  <2> QED BY <1>3, <2>1, ControlWithLevelType DEF ControlInInfo, TypeOK
<1>4. CASE ControlWaiting
  <2>1. Broken(submitted_key_level) \in Levels
    BY BrokenRange DEF TypeOK
  <2> QED BY <1>4, <2>1, TargetLevels, ControlWithLevelType DEF ControlWaiting, TypeOK
<1>5. CASE ControlJam
  <2>1. NamedLevel \in Levels
    BY BrokenRange DEF NamedLevel, ValidLevel, Levels
  <2>2. submitted_key_level' \in 0 .. 3 /\ phase' \in Phases
    BY <1>5 DEF ControlJam, TypeOK, Phases
  <2>3. ControlWithLevel(JamTarget[NamedLevel], NamedLevel)
    BY <1>5 DEF ControlJam
  <2> QED BY <2>1, <2>2, <2>3, TargetLevels, ControlWithLevelType
<1> QED BY <1>1, <1>2, <1>3, <1>4, <1>5 DEF ControlStep

\* What a reception leaves in the device.
LEMMA DeviceType ==
    ASSUME TypeOK, Receive
    PROVE  device' \in [team : Teams \cup {"none"}, target : Targets \cup {"none"},
                        rescue : Rescues, profile : Profiles \cup {NoProfile}]
BY DEF Receive, TypeOK

LEMMA PublishType ==
    ASSUME TypeOK, NEW key \in Keys, PublishKey(LevelOf(tune.target), key)
    PROVE  /\ key_record' \in [Levels -> KeyRecords]
           /\ jam_code' \in [level : 0 .. 3, team : Teams, key : Keys \cup {NoKey}]
           /\ submitted_key_level' \in Levels
<1> DEFINE level == LevelOf(tune.target)
<1>1. level \in Levels /\ level \in 0 .. 3
  BY TargetLevels DEF TypeOK, PublishKey, Levels
<1>2. Renewed(key_record[level], key) \in KeyRecords
  BY <1>1, RenewedType DEF TypeOK
<1>3. Counted(Renewed(key_record[level], key)) \in KeyRecords
  BY <1>2, RetryAssumption DEF KeyRecords, Counted
<1>4. key_record' \in [Levels -> KeyRecords]
  BY <1>3 DEF PublishKey, TypeOK, KeyRecords
<1> QED BY <1>1, <1>4 DEF PublishKey, TypeOK

LEMMA ReceiveType == TypeOK /\ ReceiveStep => TypeOK'
<1> SUFFICES ASSUME TypeOK, ReceiveStep PROVE TypeOK'
  OBVIOUS
<1>1. CASE ReceiveNothing
  BY <1>1, DeviceType DEF ReceiveNothing, Receive, tuning, TypeOK
<1>2. ASSUME NEW key \in Keys, ReceiveKeyAgain(key) PROVE TypeOK'
  <2> DEFINE level == LevelOf(tune.target)
  <2>1. level \in Levels
    BY <1>2, TargetLevels DEF TypeOK, ReceiveKeyAgain, Levels
  <2>2. key_record' \in [Levels -> KeyRecords]
    BY <1>2, <2>1, RenewedType DEF ReceiveKeyAgain, TypeOK, KeyRecords
  <2> QED BY <1>2, <2>2, DeviceType DEF ReceiveKeyAgain, Receive, tuning, TypeOK, KeyRecords
<1>3. ASSUME NEW key \in Keys, ReceiveKey(key) PROVE TypeOK'
  <2>1. PublishKey(LevelOf(tune.target), key) /\ Receive
    BY <1>3 DEF ReceiveKey, PublishKey
  <2>2. submitted_key_level' \in 0 .. 3 /\ phase' \in Phases
    BY <1>3, <2>1, PublishType DEF ReceiveKey, Phases, Levels
  <2> QED BY <1>3, <2>1, <2>2, PublishType, DeviceType DEF ReceiveKey, Receive, tuning, TypeOK
<1>4. ASSUME NEW key \in Keys, ReceiveFinalKey(key) PROVE TypeOK'
  <2>1. PublishKey(LevelOf(tune.target), key) /\ Receive
    BY <1>4 DEF ReceiveFinalKey, PublishKey
  <2>2. ApplyProfile(tune.team, "INFO", LevelOf(tune.target))
    BY <1>4 DEF ReceiveFinalKey
  <2>3. tune.team \in Teams /\ "INFO" \in Targets
    BY DEF TypeOK, Targets
  <2>4. submitted_key_level' \in 0 .. 3 /\ phase' \in Phases
    BY <1>4, <2>1, PublishType DEF ReceiveFinalKey, Phases, Levels
  <2> QED BY <1>4, <2>1, <2>2, <2>3, <2>4, PublishType, DeviceType, ApplyProfileType
          DEF ReceiveFinalKey, Receive, TypeOK
<1> QED BY <1>1, <1>2, <1>3, <1>4 DEF ReceiveStep

LEMMA TickType == TypeOK /\ Tick => TypeOK'
<1> SUFFICES ASSUME TypeOK, Tick PROVE TypeOK'
  OBVIOUS
<1>1. \A l \in Levels : key_record[l] \in KeyRecords
  BY DEF TypeOK, KeyRecords
<1>2. ASSUME NEW r \in KeyRecords
      PROVE  [r EXCEPT !.age = IF @ < KeyRetryInterval THEN @ + 1 ELSE @] \in KeyRecords
  BY <1>2 DEF KeyRecords
<1>3. key_record' \in [Levels -> KeyRecords]
  BY <1>1, <1>2 DEF Tick
<1> QED BY <1>3 DEF Tick, control, tuning, TypeOK

LEMMA InitType == Init => TypeOK
<1> SUFFICES ASSUME Init PROVE TypeOK
  OBVIOUS
<1>1. [key |-> NoKey, count |-> 0, age |-> KeyRetryInterval] \in KeyRecords
  BY DEF KeyRecords
<1>2. key_record \in [Levels -> KeyRecords]
  BY <1>1 DEF Init
<1>3. device \in [team : Teams \cup {"none"}, target : Targets \cup {"none"},
                  rescue : Rescues, profile : Profiles \cup {NoProfile}]
  BY DEF Init, Rescues
<1>4. jam_code \in [level : 0 .. 3, team : Teams, key : Keys \cup {NoKey}]
  BY DEF Init, Teams
<1>5. ctx \in JudgeContexts
  BY DEF Init, Teams, JudgeContexts
<1>6. ready \in BOOLEAN /\ final_key_submitted \in BOOLEAN
  BY DEF Init
<1>7. /\ rescue \in Rescues /\ active_profile \in Profiles \cup {NoProfile}
      /\ phase \in Phases /\ tune \in [team : Teams, target : Targets]
      /\ encrypt_lvl \in Levels /\ submitted_key_level \in 0 .. 3
  BY DEF Init, Rescues, Phases, Levels
<1> QED BY <1>2, <1>3, <1>4, <1>5, <1>6, <1>7 DEF TypeOK

\* Every variable keeps its type in every reachable state.
THEOREM TypeCorrect == Spec => []TypeOK
<1>1. TypeOK /\ [Next]_vars => TypeOK'
  <2> SUFFICES ASSUME TypeOK, [Next]_vars PROVE TypeOK'
    OBVIOUS
  <2>1. CASE UNCHANGED vars
    BY <2>1 DEF TypeOK, vars, control, tuning
  <2> QED BY <2>1, CallbackType, ControlType, ReceiveType, TickType DEF Next
<1> QED BY <1>1, InitType, PTL DEF Spec

-----------------------------------------------------------------------------
(***************************************************************************)
(* Safety.  In competition mode the node receives only what its phase says *)
(* (Tuned), which is what keeps a final key final; and a record counts a   *)
(* publication only while the retry limit allows one (CountWithinLimit),   *)
(* which is why renewing a record never forgets that a level's key is out. *)
(***************************************************************************)
CountWithinLimit == \A l \in Levels : key_record[l].count > 0 => 0 < KeyRetryLimit

Tuned ==
    ready =>
        /\ final_key_submitted => tune.target = "INFO"
        /\ ~ final_key_submitted =>
              tune.target # "INFO" /\ LevelOf(tune.target) <= MaxJamBreakLevel

IInv ==
    /\ TypeOK
    /\ CountWithinLimit
    /\ RunMode = "competition" => Tuned /\ InfoOnlyAfterFinalKey /\ WaitOnlyAfterKey

LEMMA InitInv == Init => IInv
<1> SUFFICES ASSUME Init PROVE IInv
  OBVIOUS
<1>1. CountWithinLimit
  BY DEF Init, CountWithinLimit
<1> QED BY <1>1, InitType DEF Init, IInv, Tuned, InfoOnlyAfterFinalKey, WaitOnlyAfterKey

\* A step that keeps records, submissions and phase, and does not make the
\* node ready, keeps the invariant.
LEMMA KeepsInv ==
    ASSUME IInv, TypeOK', key_record' = key_record, final_key_submitted' = final_key_submitted,
           submitted_key_level' = submitted_key_level, phase' \in {phase, "WaitingContext"},
           RunMode = "competition" => ~ ready' \/ UNCHANGED << ready, tune >>
    PROVE  IInv'
<1>1. CountWithinLimit'
  BY DEF IInv, CountWithinLimit
<1>2. ASSUME RunMode = "competition"
      PROVE  (Tuned /\ InfoOnlyAfterFinalKey /\ WaitOnlyAfterKey)'
  BY <1>2 DEF IInv, Tuned, InfoOnlyAfterFinalKey, WaitOnlyAfterKey
<1> QED BY <1>1, <1>2 DEF IInv

\* A branch that tunes makes the node ready for its target only.
LEMMA ControlWithLevelTunes ==
    ASSUME TypeOK, NEW target, NEW under, ControlWithLevel(target, under)
    PROVE  /\ UNCHANGED << key_record, final_key_submitted >>
           /\ ready' => tune'.target = target
BY DEF ControlWithLevel, Control, ApplyProfile

LEMMA ControlInv == IInv /\ ControlStep => IInv'
<1> SUFFICES ASSUME IInv, ControlStep PROVE IInv'
  OBVIOUS
<1>1. TypeOK /\ TypeOK'
  BY ControlType DEF IInv
<1>2. CASE ControlWithoutIdentity
  BY <1>1, <1>2, KeepsInv DEF ControlWithoutIdentity, Control
<1>3. CASE ControlWithoutLevel
  BY <1>1, <1>3, KeepsInv DEF ControlWithoutLevel, Control
<1>4. CASE ControlInInfo
  <2>1. /\ UNCHANGED << key_record, final_key_submitted, submitted_key_level >>
        /\ ready' => tune'.target = "INFO"
    BY <1>1, <1>4, ControlWithLevelTunes DEF ControlInInfo
  <2>2. phase' = "InfoDecode" /\ InfoPhase
    BY <1>4 DEF ControlInInfo
  <2> QED BY <1>1, <2>1, <2>2 DEF IInv, CountWithinLimit, Tuned, InfoOnlyAfterFinalKey,
                                  WaitOnlyAfterKey, InfoPhase
<1>5. CASE ControlWaiting
  <2> DEFINE level == Broken(submitted_key_level)
  <2>1. level \in 1 .. MaxJamBreakLevel /\ level \in Levels
    BY <1>1, BrokenRange DEF TypeOK
  <2>2. /\ UNCHANGED << key_record, final_key_submitted, submitted_key_level, phase >>
        /\ ready' => tune'.target = JamTarget[level]
        /\ ~ final_key_submitted
    BY <1>1, <1>5, ControlWithLevelTunes DEF ControlWaiting, InfoPhase
  <2>3. Tuned'
    BY <2>1, <2>2, TargetLevels DEF Tuned
  <2> QED BY <1>1, <2>2, <2>3 DEF IInv, CountWithinLimit, InfoOnlyAfterFinalKey,
                                  WaitOnlyAfterKey
<1>6. CASE ControlJam
  <2>1. NamedLevel \in 1 .. MaxJamBreakLevel /\ NamedLevel \in Levels
    BY BrokenRange DEF NamedLevel, ValidLevel, Levels
  <2>2. /\ UNCHANGED << key_record, final_key_submitted >>
        /\ ready' => tune'.target = JamTarget[NamedLevel]
        /\ ~ final_key_submitted
    BY <1>1, <1>6, ControlWithLevelTunes DEF ControlJam, InfoPhase
  <2>3. Tuned'
    BY <2>1, <2>2, TargetLevels DEF Tuned
  <2>4. phase' = "JamDecode" /\ submitted_key_level' \in {0, submitted_key_level}
    BY <1>6 DEF ControlJam
  <2> QED BY <1>1, <2>2, <2>3, <2>4 DEF IInv, CountWithinLimit, InfoOnlyAfterFinalKey,
                                        WaitOnlyAfterKey
<1> QED BY <1>2, <1>3, <1>4, <1>5, <1>6 DEF ControlStep

\* What every publication does to the records: only the level's own changes,
\* it counts one more, and the limit allows it.
LEMMA PublishCounts ==
    ASSUME TypeOK, NEW key \in Keys, PublishKey(LevelOf(tune.target), key)
    PROVE  LET level == LevelOf(tune.target) IN
           /\ level \in Levels
           /\ key_record'[level].count > 0 /\ 0 < KeyRetryLimit
           /\ \A l \in Levels \ {level} : key_record'[l] = key_record[l]
           /\ submitted_key_level' = level /\ ~ ready'
<1> DEFINE level == LevelOf(tune.target)
<1>1. level \in Levels
  BY TargetLevels DEF TypeOK, PublishKey, Levels
<1>2. Renewed(key_record[level], key) \in KeyRecords
  BY <1>1, RenewedType DEF TypeOK
<1>3. Renewed(key_record[level], key).count \in Nat
  BY <1>2 DEF KeyRecords
<1> QED BY <1>1, <1>3 DEF PublishKey, Counted, ShouldPublish, Receive, TypeOK

LEMMA ReceiveInv == IInv /\ ReceiveStep => IInv'
<1> SUFFICES ASSUME IInv, ReceiveStep PROVE IInv'
  OBVIOUS
<1>1. TypeOK /\ TypeOK'
  BY ReceiveType DEF IInv
<1>2. CASE ReceiveNothing
  BY <1>1, <1>2, KeepsInv DEF ReceiveNothing, Receive
<1>3. ASSUME NEW key \in Keys, ReceiveKeyAgain(key) PROVE IInv'
  <2> DEFINE level == LevelOf(tune.target)
  <2>1. level \in Levels
    BY <1>1, <1>3, TargetLevels DEF TypeOK, ReceiveKeyAgain, Levels
  <2>2. key_record[level] \in KeyRecords
    BY <1>1, <2>1 DEF TypeOK
  <2>3. CASE 0 < KeyRetryLimit
    <3>1. Renewed(key_record[level], key) = key_record[level]
      BY <1>3, <2>2, <2>3, RenewedType DEF ReceiveKeyAgain
    <3>2. key_record' = key_record
      BY <1>1, <1>3, <3>1 DEF ReceiveKeyAgain, TypeOK
    <3> QED BY <1>1, <1>3, <3>2, KeepsInv DEF ReceiveKeyAgain, Receive
  <2>4. CASE ~ (0 < KeyRetryLimit)
    <3>1. \A l \in Levels : key_record[l].count = 0
      BY <1>1, <2>4 DEF IInv, CountWithinLimit, TypeOK, KeyRecords
    <3>2. Renewed(key_record[level], key).count = 0
      BY <2>1, <3>1 DEF Renewed
    <3>3. \A l \in Levels : key_record'[l].count = 0
      BY <1>1, <1>3, <2>1, <3>1, <3>2 DEF ReceiveKeyAgain, TypeOK
    <3>4. /\ UNCHANGED << phase, submitted_key_level, final_key_submitted >>
          /\ ~ ready'
      BY <1>3 DEF ReceiveKeyAgain, Receive
    <3> QED BY <1>1, <3>1, <3>3, <3>4 DEF IInv, CountWithinLimit, Tuned,
               InfoOnlyAfterFinalKey, WaitOnlyAfterKey, TypeOK, Levels
  <2> QED BY <2>3, <2>4
<1>4. ASSUME NEW key \in Keys, ReceiveKey(key) PROVE IInv'
  <2> DEFINE level == LevelOf(tune.target)
  <2>1. PublishKey(level, key) /\ level < MaxJamBreakLevel /\ ready
    BY <1>4 DEF ReceiveKey, PublishKey, Receive
  <2>2. CountWithinLimit'
    BY <1>1, <2>1, PublishCounts DEF CountWithinLimit
  <2>3. ASSUME RunMode = "competition"
        PROVE  (Tuned /\ InfoOnlyAfterFinalKey /\ WaitOnlyAfterKey)'
    <3>1. ~ final_key_submitted /\ ~ final_key_submitted'
      BY <1>1, <1>4, <2>1, <2>3, PublishCounts, TargetLevels
         DEF IInv, Tuned, ReceiveKey, TypeOK, Levels
    <3>2. phase' = "WaitLevelUpdate"
      BY <1>4 DEF ReceiveKey
    <3> QED BY <1>1, <2>1, <3>1, <3>2, PublishCounts
            DEF Tuned, InfoOnlyAfterFinalKey, WaitOnlyAfterKey, Levels
  <2> QED BY <1>1, <2>2, <2>3 DEF IInv
<1>5. ASSUME NEW key \in Keys, ReceiveFinalKey(key) PROVE IInv'
  <2> DEFINE level == LevelOf(tune.target)
  <2>1. PublishKey(level, key) /\ level >= MaxJamBreakLevel /\ ready
    BY <1>5 DEF ReceiveFinalKey, PublishKey, Receive
  <2>2. CountWithinLimit'
    BY <1>1, <2>1, PublishCounts DEF CountWithinLimit
  <2>3. ASSUME RunMode = "competition"
        PROVE  (Tuned /\ InfoOnlyAfterFinalKey /\ WaitOnlyAfterKey)'
    <3>1. level = MaxJamBreakLevel
      BY <1>1, <2>1, <2>3, PublishCounts, TargetLevels DEF IInv, Tuned, TypeOK, Levels
    <3>2. phase' = "InfoDecode" /\ final_key_submitted'
      BY <1>5 DEF ReceiveFinalKey
    <3> QED BY <1>1, <2>1, <3>1, <3>2, PublishCounts
            DEF Tuned, InfoOnlyAfterFinalKey, WaitOnlyAfterKey
  <2> QED BY <1>1, <2>2, <2>3 DEF IInv
<1> QED BY <1>2, <1>3, <1>4, <1>5 DEF ReceiveStep

\* Time and the judge's topics leave everything the invariant speaks of alone.
LEMMA TickCounts ==
    ASSUME TypeOK, Tick
    PROVE  \A l \in Levels : key_record'[l].count = key_record[l].count
BY DEF Tick, TypeOK, KeyRecords

LEMMA OtherInv == IInv /\ (Callback \/ Tick \/ UNCHANGED vars) => IInv'
<1> SUFFICES ASSUME IInv, Callback \/ Tick \/ UNCHANGED vars PROVE IInv'
  OBVIOUS
<1>1. CASE Callback
  <2>1. TypeOK'
    BY <1>1, CallbackType DEF IInv
  <2> QED BY <1>1, <2>1, KeepsInv DEF Callback, ContextCallback, RadarInfoCallback,
             SelfIdCallback, Stored, control, tuning
<1>2. CASE Tick
  <2>1. TypeOK /\ TypeOK'
    BY <1>2, TickType DEF IInv
  <2>2. \A l \in Levels : key_record'[l].count = key_record[l].count
    BY <1>2, <2>1, TickCounts
  <2>3. UNCHANGED << phase, submitted_key_level, final_key_submitted, ready, tune >>
    BY <1>2 DEF Tick, control, tuning
  <2> QED BY <2>1, <2>2, <2>3 DEF IInv, CountWithinLimit, Tuned, InfoOnlyAfterFinalKey,
             WaitOnlyAfterKey, TypeOK, Levels
<1>3. CASE UNCHANGED vars
  <2>1. TypeOK'
    BY <1>3 DEF IInv, TypeOK, vars, control, tuning
  <2> QED BY <1>3, <2>1, KeepsInv DEF vars, control, tuning
<1> QED BY <1>1, <1>2, <1>3

\* The invariant holds in every reachable state.
THEOREM Safe == Spec => []IInv
<1>1. IInv /\ [Next]_vars => IInv'
  BY ControlInv, ReceiveInv, OtherInv DEF Next
<1> QED BY <1>1, InitInv, PTL DEF Spec

\* A node in competition mode decodes INFO only after the final key, and is
\* never moved back to a jam level.
THEOREM InfoCorrect == Spec => [](RunMode = "competition" => InfoOnlyAfterFinalKey)
<1>1. IInv => (RunMode = "competition" => InfoOnlyAfterFinalKey)
  BY DEF IInv
<1> QED BY <1>1, Safe, PTL

\* A level-up is awaited only for a level whose key is out.
THEOREM WaitCorrect == Spec => [](RunMode = "competition" => WaitOnlyAfterKey)
<1>1. IInv => (RunMode = "competition" => WaitOnlyAfterKey)
  BY DEF IInv
<1> QED BY <1>1, Safe, PTL
-----------------------------------------------------------------------------
(***************************************************************************)
(* In competition mode: what the node is tuned to at each reception        *)
(* (AtReception), and from that its profiles, its team, the levels of its  *)
(* keys, and that it keeps the contract.                                   *)
(***************************************************************************)

\* A profile key depends on the level below only for INFO.
LEMMA JamProfileKey ==
    ASSUME NEW target \in Targets \ {"INFO"}, NEW m, NEW n
    PROVE  TargetProfileKey(target, m) = TargetProfileKey(target, n)
BY DEF TargetProfileKey

\* The node receives for the latest context: its team, its level, with the
\* profile of that, and for the phase it is in.
AtReception ==
    ready =>
        /\ tune.team = ctx.team
        /\ ValidLevel /\ encrypt_lvl = ctx.jam_level
        /\ RequireProfile =>
              /\ active_profile \in Profiles
              /\ active_profile = << tune.team, TargetProfileKey(tune.target, MaxJamBreakLevel) >>
        /\ ~ final_key_submitted =>
              /\ phase \in {"JamDecode", "WaitLevelUpdate"}
              /\ phase = "JamDecode" => tune.target = JamTarget[NamedLevel]
              /\ phase = "WaitLevelUpdate" =>
                    tune.target = JamTarget[submitted_key_level] /\ NamedLevel <= submitted_key_level

NodeInv ==
    /\ IInv
    /\ RunMode = "competition" =>
          AtReception /\ (RequireProfile => ReceivesOnlyWithProfile)

\* A node that has just started.
LEMMA InitNodeInv == Init => NodeInv
BY InitInv DEF Init, NodeInv, AtReception, ReceivesOnlyWithProfile

\* What a branch that tunes leaves behind when the node may receive.
LEMMA ControlWithLevelPrepares ==
    ASSUME TypeOK, RunMode = "competition", NEW target \in Targets, NEW under,
           ControlWithLevel(target, under), ready'
    PROVE  /\ tune' = [team |-> ctx.team, target |-> target]
           /\ ValidLevel /\ encrypt_lvl' = ctx.jam_level /\ UNCHANGED ctx
           /\ RequireProfile => /\ active_profile' \in Profiles
                                /\ active_profile' = << ctx.team, TargetProfileKey(target, under) >>
           /\ UNCHANGED << final_key_submitted, device >>
BY DEF ControlWithLevel, Control, ApplyProfile, CanTune, HasProfile

\* Only update() prepares a reception, and only competition mode waits for a
\* context.
LEMMA ControlPrepares ==
    ASSUME NodeInv, ControlStep, RunMode = "competition", ready'
    PROVE  AtReception'
<1>1. IInv /\ TypeOK
  BY DEF NodeInv, IInv
<1>2. /\ ~ ControlWithoutIdentity
      /\ ~ ControlWithoutLevel
  BY DEF ControlWithoutIdentity, ControlWithoutLevel
<1>3. CASE ControlInInfo
  <2> DEFINE under == Broken(IF submitted_key_level > 0 THEN submitted_key_level ELSE NamedLevel)
  <2>1. final_key_submitted /\ submitted_key_level = MaxJamBreakLevel
    BY <1>1, <1>3 DEF IInv, ControlInInfo, InfoPhase, InfoOnlyAfterFinalKey
  <2>2. under = MaxJamBreakLevel
    BY <2>1, BrokenSame DEF Levels
  <2>3. ControlWithLevel("INFO", under) /\ "INFO" \in Targets
    BY <1>3 DEF ControlInInfo, Targets
  <2> HIDE DEF under
  <2>4. /\ tune' = [team |-> ctx.team, target |-> "INFO"]
        /\ ValidLevel /\ encrypt_lvl' = ctx.jam_level /\ UNCHANGED ctx
        /\ RequireProfile =>
              /\ active_profile' \in Profiles
              /\ active_profile' = << ctx.team, TargetProfileKey("INFO", MaxJamBreakLevel) >>
        /\ final_key_submitted'
    BY <1>1, <2>1, <2>2, <2>3, ControlWithLevelPrepares
  <2> QED BY <2>4 DEF AtReception, ValidLevel
<1>4. CASE ControlWaiting
  <2> DEFINE level == Broken(submitted_key_level)
  <2>1. submitted_key_level \in 1 .. (MaxJamBreakLevel - 1)
    BY <1>1, <1>4 DEF IInv, ControlWaiting, WaitOnlyAfterKey
  <2>2. level = submitted_key_level /\ level \in Levels
    BY <2>1, BrokenSame DEF Levels
  <2>3. ControlWithLevel(JamTarget[level], level)
    BY <1>4 DEF ControlWaiting
  <2>4. /\ UNCHANGED << phase, submitted_key_level >> /\ phase = "WaitLevelUpdate"
        /\ ~ LevelHasRisen
    BY <1>4 DEF ControlWaiting
  <2> HIDE DEF level
  <2>5. JamTarget[level] \in Targets \ {"INFO"}
    BY <2>2, TargetLevels
  <2>6. /\ tune' = [team |-> ctx.team, target |-> JamTarget[level]]
        /\ ValidLevel /\ encrypt_lvl' = ctx.jam_level /\ UNCHANGED ctx
        /\ RequireProfile =>
              /\ active_profile' \in Profiles
              /\ active_profile' = << ctx.team, TargetProfileKey(JamTarget[level], level) >>
    BY <1>1, <2>3, <2>5, ControlWithLevelPrepares
  <2>7. TargetProfileKey(JamTarget[level], level) = TargetProfileKey(JamTarget[level], MaxJamBreakLevel)
    BY <2>5, JamProfileKey
  <2>8. NamedLevel <= submitted_key_level /\ NamedLevel' = NamedLevel
    BY <2>1, <2>4, <2>6 DEF NamedLevel, Broken, Clamp, ValidLevel, LevelHasRisen, Levels
  <2> QED BY <2>2, <2>4, <2>6, <2>7, <2>8 DEF AtReception, ValidLevel
<1>5. CASE ControlJam
  <2>1. NamedLevel \in Levels
    BY BrokenRange DEF NamedLevel, ValidLevel, Levels
  <2>2. ControlWithLevel(JamTarget[NamedLevel], NamedLevel) /\ phase' = "JamDecode"
    BY <1>5 DEF ControlJam
  <2>3. JamTarget[NamedLevel] \in Targets \ {"INFO"}
    BY <2>1, TargetLevels
  <2>4. /\ tune' = [team |-> ctx.team, target |-> JamTarget[NamedLevel]]
        /\ ValidLevel /\ encrypt_lvl' = ctx.jam_level /\ UNCHANGED ctx
        /\ RequireProfile =>
              /\ active_profile' \in Profiles
              /\ active_profile' = << ctx.team, TargetProfileKey(JamTarget[NamedLevel], NamedLevel) >>
    BY <1>1, <2>2, <2>3, ControlWithLevelPrepares
  <2>5. TargetProfileKey(JamTarget[NamedLevel], NamedLevel)
          = TargetProfileKey(JamTarget[NamedLevel], MaxJamBreakLevel)
    BY <2>3, JamProfileKey
  <2>6. NamedLevel' = NamedLevel
    BY <2>4 DEF NamedLevel, ValidLevel
  <2> QED BY <2>2, <2>4, <2>5, <2>6 DEF AtReception, ValidLevel
<1> QED BY <1>2, <1>3, <1>4, <1>5 DEF ControlStep

\* A decision touches no hardware; only the reception after it does.
LEMMA ControlKeepsDevice ==
    ASSUME ControlStep
    PROVE  UNCHANGED device
BY DEF ControlStep, ControlWithoutIdentity, ControlWithoutLevel, ControlInInfo,
       ControlWaiting, ControlJam, ControlWithLevel, Control

\* Every reception is one of Receive, which only notes the configuration.
LEMMA ReceiveIsReceive ==
    ASSUME ReceiveStep
    PROVE  Receive
BY DEF ReceiveStep, ReceiveNothing, ReceiveKeyAgain, ReceiveKey, ReceiveFinalKey, PublishKey

\* What was prepared for the reception is what the device receives with.
LEMMA ReceivedWithProfile ==
    ASSUME NodeInv, Receive, RunMode = "competition", RequireProfile
    PROVE  ReceivesOnlyWithProfile'
<1>1. /\ active_profile \in Profiles
      /\ active_profile = << tune.team, TargetProfileKey(tune.target, MaxJamBreakLevel) >>
  BY DEF Receive, NodeInv, AtReception
<1>2. device' = [team |-> tune.team, target |-> tune.target, rescue |-> rescue,
                 profile |-> active_profile]
  BY DEF Receive
<1>3. tune.target # "INFO" =>
         TargetProfileKey(tune.target, MaxJamBreakLevel) = TargetProfileKey(tune.target, 0)
  BY JamProfileKey DEF NodeInv, IInv, TypeOK
<1> QED BY <1>1, <1>2, <1>3 DEF ReceivesOnlyWithProfile

\* Every step of the node keeps the invariant.
LEMMA NextNodeInv ==
    ASSUME NodeInv, [Next]_vars
    PROVE  NodeInv'
<1>1. IInv'
  BY ControlInv, ReceiveInv, OtherInv DEF Next, NodeInv
<1>2. SUFFICES ASSUME RunMode = "competition"
               PROVE  AtReception' /\ (RequireProfile => ReceivesOnlyWithProfile')
  BY <1>1 DEF NodeInv
<1>3. CASE ControlStep
  <2>1. AtReception'
    BY <1>2, <1>3, ControlPrepares DEF AtReception
  <2> QED BY <1>2, <1>3, <2>1, ControlKeepsDevice DEF NodeInv, ReceivesOnlyWithProfile
<1>4. CASE ReceiveStep
  BY <1>2, <1>4, ReceiveIsReceive, ReceivedWithProfile DEF AtReception, Receive
<1>5. CASE Callback
  <2>1. ~ ready' /\ UNCHANGED device
    BY <1>5 DEF Callback, ContextCallback, RadarInfoCallback, SelfIdCallback, Stored
  <2> QED BY <1>2, <2>1 DEF NodeInv, AtReception, ReceivesOnlyWithProfile
<1>6. CASE Tick \/ UNCHANGED vars
  <2>1. UNCHANGED << ctx, control, tuning, ready, device >>
    BY <1>6 DEF Tick, vars
  <2> QED BY <1>2, <2>1
          DEF NodeInv, AtReception, ReceivesOnlyWithProfile, control, tuning, ValidLevel, NamedLevel
<1> QED BY <1>3, <1>4, <1>5, <1>6 DEF Next

\* The inductive invariant of the node: between a decision and its reception team,
\* level and profile are those of the latest context.
THEOREM NodeSafe == Spec => []NodeInv
<1>1. NodeInv /\ [Next]_vars => NodeInv'
  BY NextNodeInv
<1> QED BY <1>1, InitNodeInv, PTL DEF Spec

\* A node that requires profiles receives nothing without the profile of
\* exactly that team and target, although a missing one stops an update half
\* way and the result is ignored after the final key.
THEOREM ProfileCorrect ==
    Spec => [](RunMode = "competition" /\ RequireProfile => ReceivesOnlyWithProfile)
<1>1. NodeInv => (RunMode = "competition" /\ RequireProfile => ReceivesOnlyWithProfile)
  BY DEF NodeInv
<1> QED BY <1>1, NodeSafe, PTL

\* What is received is received from the team of the latest context.
THEOREM TeamCorrect == Spec => [](RunMode = "competition" => ReceivesCurrentTeam)
<1>1. NodeInv => (RunMode = "competition" => ReceivesCurrentTeam)
  BY DEF NodeInv, AtReception, ReceivesCurrentTeam
<1> QED BY <1>1, NodeSafe, PTL

-----------------------------------------------------------------------------
(* Publications                                                            *)

\* A key is published only while the final one is missing, for the level the
\* phase works on.
LEMMA PublishedLevel ==
    ASSUME NodeInv, RunMode = "competition", ready, LevelOf(tune.target) # 0
    PROVE  /\ ~ final_key_submitted
           /\ phase \in {"JamDecode", "WaitLevelUpdate"}
           /\ phase = "JamDecode" => LevelOf(tune.target) = NamedLevel
           /\ phase = "WaitLevelUpdate" => /\ LevelOf(tune.target) = submitted_key_level
                                           /\ NamedLevel <= submitted_key_level
<1>1. ~ final_key_submitted
  BY TargetLevels DEF NodeInv, IInv, Tuned, TypeOK
<1>2. NamedLevel \in Levels
  BY BrokenRange DEF NamedLevel, ValidLevel, Levels
<1>3. phase = "WaitLevelUpdate" => submitted_key_level \in Levels
  BY DEF NodeInv, IInv, WaitOnlyAfterKey, Levels
<1> QED BY <1>1, <1>2, <1>3, TargetLevels DEF NodeInv, AtReception

\* A count rises only where a key is published.
LEMMA CountRises ==
    ASSUME TypeOK, [Next]_vars, NEW l \in Levels,
           key_record'[l].count > key_record[l].count
    PROVE  \E key \in Keys : PublishKey(LevelOf(tune.target), key) /\ l = LevelOf(tune.target)
<1>1. key_record' # key_record
  BY DEF TypeOK, KeyRecords
<1>2. ~ Callback /\ ~ ControlStep /\ ~ UNCHANGED vars
  BY <1>1 DEF Callback, ContextCallback, RadarInfoCallback, SelfIdCallback, Stored, ControlStep,
              ControlWithoutIdentity, ControlWithoutLevel, ControlInInfo, ControlWaiting,
              ControlJam, ControlWithLevel, Control, vars
<1>3. ~ Tick
  BY TickCounts DEF TypeOK, KeyRecords
<1>4. ~ ReceiveNothing
  BY <1>1 DEF ReceiveNothing
<1>5. ASSUME NEW key \in Keys, ReceiveKeyAgain(key) PROVE FALSE
  <2> DEFINE level == LevelOf(tune.target)
  <2>1. level \in Levels /\ key_record[level] \in KeyRecords
    BY <1>5, TargetLevels DEF TypeOK, ReceiveKeyAgain, Levels
  <2>2. key_record' = [key_record EXCEPT ![level] = Renewed(key_record[level], key)]
    BY <1>5 DEF ReceiveKeyAgain
  <2>3. /\ Renewed(key_record[level], key).count \in Nat
        /\ Renewed(key_record[level], key).count <= key_record[level].count
    BY <2>1 DEF Renewed, KeyRecords
  <2> HIDE DEF level
  <2>4. key_record'[l].count \in Nat /\ key_record'[l].count <= key_record[l].count
    <3>1. key_record[l].count \in Nat /\ key_record \in [Levels -> KeyRecords]
      BY DEF TypeOK, KeyRecords
    <3>2. CASE l = level
      BY <2>1, <2>2, <2>3, <3>1, <3>2
    <3>3. CASE l # level
      BY <2>1, <2>2, <3>1, <3>3
    <3> QED BY <3>2, <3>3
  <2> QED BY <2>4 DEF TypeOK, KeyRecords
<1>6. ASSUME NEW key \in Keys, ReceiveKey(key) \/ ReceiveFinalKey(key)
      PROVE  PublishKey(LevelOf(tune.target), key) /\ l = LevelOf(tune.target)
  <2>1. PublishKey(LevelOf(tune.target), key)
    BY <1>6 DEF ReceiveKey, ReceiveFinalKey
  <2>2. l = LevelOf(tune.target)
    BY <2>1, PublishCounts DEF TypeOK, KeyRecords
  <2> QED BY <2>1, <2>2
<1> QED BY <1>2, <1>3, <1>4, <1>5, <1>6 DEF Next, ReceiveStep

\* A key goes out only for the level the judge names, or one a level-up is
\* awaited for.
THEOREM KeyNamed == RunMode = "competition" => (Spec => KeyOnlyForNamedLevel)
<1> SUFFICES ASSUME RunMode = "competition" PROVE Spec => KeyOnlyForNamedLevel
  OBVIOUS
<1>1. ASSUME NodeInv, [Next]_vars, NEW l \in Levels,
             key_record'[l].count > key_record[l].count
      PROVE  \/ l = NamedLevel
             \/ phase = "WaitLevelUpdate" /\ l = submitted_key_level /\ NamedLevel <= l
  <2>1. PICK key \in Keys : PublishKey(LevelOf(tune.target), key) /\ l = LevelOf(tune.target)
    BY <1>1, CountRises DEF NodeInv, IInv
  <2>2. ready /\ LevelOf(tune.target) # 0
    BY <2>1 DEF PublishKey, Receive
  <2> QED BY <1>1, <2>1, <2>2, PublishedLevel
<1> DEFINE Named == \A l \in Levels : key_record'[l].count > key_record[l].count =>
                       \/ l = NamedLevel
                       \/ phase = "WaitLevelUpdate" /\ l = submitted_key_level /\ NamedLevel <= l
<1>2. NodeInv /\ [Next]_vars => [Named]_vars
  BY <1>1
<1> QED BY <1>2, NodeSafe, PTL DEF Spec, KeyOnlyForNamedLevel

\* After the final key the node, which then is tuned to INFO whenever it
\* receives, has none to publish.
LEMMA NothingAfterFinal ==
    ASSUME NodeInv, RunMode = "competition", final_key_submitted, NEW key \in Keys
    PROVE  ~ PublishKey(LevelOf(tune.target), key)
BY PublishedLevel DEF PublishKey, Receive

\* Only a publication changes the JamCode on the topic.
LEMMA JamCodeChanges ==
    ASSUME [Next]_vars, jam_code' # jam_code
    PROVE  \E key \in Keys : PublishKey(LevelOf(tune.target), key)
<1>1. ~ Callback /\ ~ ControlStep /\ ~ Tick /\ ~ UNCHANGED vars
  BY DEF Callback, ContextCallback, RadarInfoCallback, SelfIdCallback, Stored, ControlStep,
         ControlWithoutIdentity, ControlWithoutLevel, ControlInInfo, ControlWaiting,
         ControlJam, ControlWithLevel, Control, Tick, vars
<1> QED BY <1>1 DEF Next, ReceiveStep, ReceiveNothing, ReceiveKeyAgain, ReceiveKey,
                    ReceiveFinalKey

\* final_key_submitted is never reset.
LEMMA FinalStaysFinal ==
    ASSUME [Next]_vars, final_key_submitted
    PROVE  final_key_submitted'
BY DEF Next, Callback, ContextCallback, RadarInfoCallback, SelfIdCallback, Stored, ControlStep,
       ControlWithoutIdentity, ControlWithoutLevel, ControlInInfo, ControlWaiting,
       ControlJam, ControlWithLevel, ReceiveStep, ReceiveNothing, ReceiveKeyAgain, ReceiveKey,
       ReceiveFinalKey, Tick, control, vars

\* The final key is the last one, whatever is lost, missing or heard later.
THEOREM FinalIsFinal == RunMode = "competition" => (Spec => NoKeyAfterFinal)
<1> SUFFICES ASSUME RunMode = "competition" PROVE Spec => NoKeyAfterFinal
  OBVIOUS
<1> DEFINE Quiet == final_key_submitted =>
                      /\ final_key_submitted' /\ jam_code' = jam_code
                      /\ \A l \in Levels : key_record'[l].count <= key_record[l].count
<1>1. ASSUME NodeInv, [Next]_vars, final_key_submitted
      PROVE  /\ final_key_submitted' /\ jam_code' = jam_code
             /\ \A l \in Levels : key_record'[l].count <= key_record[l].count
  <2>1. TypeOK /\ TypeOK'
    BY <1>1, NextNodeInv DEF NodeInv, IInv
  <2>2. \A l \in Levels : key_record[l].count \in Nat /\ key_record'[l].count \in Nat
    BY <2>1 DEF TypeOK, KeyRecords
  <2>3. \A l \in Levels : ~ (key_record'[l].count > key_record[l].count)
    BY <1>1, <2>1, CountRises, NothingAfterFinal
  <2> QED BY <1>1, <2>2, <2>3, FinalStaysFinal, JamCodeChanges, NothingAfterFinal
<1>2. NodeInv /\ [Next]_vars => [Quiet]_vars
  BY <1>1
<1> QED BY <1>2, NodeSafe, PTL DEF Spec, NoKeyAfterFinal

-----------------------------------------------------------------------------
(* The contract                                                            *)

\* The levels sent depend on the counts of the records alone.
LEMMA SentSame ==
    ASSUME \A l \in Levels : key_record'[l].count = key_record[l].count
    PROVE  SentLevels' = SentLevels
BY DEF SentLevels

\* Callbacks, the clock and a reception without a publication leave the
\* handshake alone.
LEMMA OtherStutters ==
    ASSUME NodeInv, Callback \/ Tick \/ UNCHANGED vars \/ ReceiveNothing
    PROVE  UNCHANGED Handshake!hvars
<1>1. UNCHANGED << phase, encrypt_lvl, submitted_key_level >>
  BY DEF Callback, ContextCallback, RadarInfoCallback, SelfIdCallback, Stored, Tick,
         ReceiveNothing, Receive, control, vars
<1>2. \A l \in Levels : key_record'[l].count = key_record[l].count
  BY TickCounts DEF Callback, ContextCallback, RadarInfoCallback, SelfIdCallback, Stored,
         ReceiveNothing, vars, NodeInv, IInv
<1> QED BY <1>1, <1>2, SentSame DEF Handshake!hvars, WorkedOn, PhaseOf

\* A key heard again and held back is no step of the handshake.
LEMMA KeyAgainStutters ==
    ASSUME NodeInv, NEW key \in Keys, ReceiveKeyAgain(key)
    PROVE  UNCHANGED Handshake!hvars
<1> DEFINE level == LevelOf(tune.target)
<1>1. TypeOK /\ CountWithinLimit
  BY DEF NodeInv, IInv
<1>2. level \in Levels /\ key_record[level] \in KeyRecords /\ key_record \in [Levels -> KeyRecords]
  BY <1>1, TargetLevels DEF TypeOK, ReceiveKeyAgain, Levels
<1>3. /\ key_record' = [key_record EXCEPT ![level] = Renewed(key_record[level], key)]
      /\ ~ ShouldPublish(Renewed(key_record[level], key))
      /\ UNCHANGED << phase, encrypt_lvl, submitted_key_level >>
  BY DEF ReceiveKeyAgain, Receive
<1> HIDE DEF level
<1>4. Renewed(key_record[level], key).count = key_record[level].count
  <2>1. CASE 0 < KeyRetryLimit
    BY <1>2, <1>3, <2>1, RenewedType
  <2>2. CASE ~ (0 < KeyRetryLimit)
    BY <1>1, <1>2, <2>2, RetryAssumption DEF CountWithinLimit, KeyRecords, Renewed
  <2> QED BY <2>1, <2>2
<1>5. \A l \in Levels : key_record'[l].count = key_record[l].count
  BY <1>2, <1>3, <1>4
<1> QED BY <1>3, <1>5, SentSame DEF Handshake!hvars, WorkedOn, PhaseOf

\* A published key is the handshake's Publish.
LEMMA PublishRefines ==
    ASSUME NodeInv, RunMode = "competition", NEW key \in Keys,
           ReceiveKey(key) \/ ReceiveFinalKey(key)
    PROVE  Handshake!HNext
<1> DEFINE level == LevelOf(tune.target)
<1>1. TypeOK /\ PublishKey(level, key) /\ ready /\ level # 0 /\ encrypt_lvl' = encrypt_lvl
  BY DEF NodeInv, IInv, ReceiveKey, ReceiveFinalKey, PublishKey, Receive
<1>2. /\ level \in Levels /\ key_record'[level].count > 0
      /\ \A l \in Levels \ {level} : key_record'[l] = key_record[l]
      /\ submitted_key_level' = level
  BY <1>1, PublishCounts
<1>3. /\ phase \in {"JamDecode", "WaitLevelUpdate"} /\ WorkedOn = level
      /\ level <= MaxJamBreakLevel
  <2>1. /\ phase \in {"JamDecode", "WaitLevelUpdate"} /\ ~ final_key_submitted
        /\ phase = "JamDecode" => level = NamedLevel
        /\ phase = "WaitLevelUpdate" => level = submitted_key_level
    BY <1>1, PublishedLevel
  <2>2. NamedLevel = Broken(encrypt_lvl)
    BY <1>1 DEF NodeInv, AtReception, NamedLevel
  <2>3. level <= MaxJamBreakLevel
    BY <1>1, <2>1 DEF NodeInv, IInv, Tuned
  <2> QED BY <2>1, <2>2, <2>3 DEF WorkedOn
<1>4. /\ level = MaxJamBreakLevel => phase' = "InfoDecode"
      /\ level # MaxJamBreakLevel => phase' = "WaitLevelUpdate"
  BY <1>2, <1>3 DEF ReceiveKey, ReceiveFinalKey, Levels
<1> HIDE DEF level
<1>5. SentLevels' = SentLevels \cup {level}
  BY <1>2 DEF SentLevels
<1>6. WorkedOn' = level
  BY <1>2, <1>4 DEF WorkedOn
<1>7. /\ PhaseOf(phase) # "info"
      /\ PhaseOf(phase)' = IF level = MaxJamBreakLevel THEN "info" ELSE "wait"
  BY <1>3, <1>4 DEF PhaseOf
<1> QED BY <1>1, <1>3, <1>5, <1>6, <1>7 DEF Handshake!HNext, Handshake!Publish

\* A decision is Suspend, Hear or Resume, or changes nothing of it.
LEMMA ControlRefines ==
    ASSUME NodeInv, RunMode = "competition", ControlStep
    PROVE  Handshake!HNext \/ UNCHANGED Handshake!hvars
<1>1. TypeOK /\ InfoOnlyAfterFinalKey /\ WaitOnlyAfterKey
  BY DEF NodeInv, IInv
<1>2. SentLevels' = SentLevels
  BY SentSame DEF ControlStep, ControlWithoutIdentity, ControlWithoutLevel, ControlInInfo,
         ControlWaiting, ControlJam, ControlWithLevel, Control
<1>3. CASE ControlWithoutIdentity \/ ControlWithoutLevel
  <2>1. phase' = "WaitingContext"
    BY <1>3 DEF ControlWithoutIdentity, ControlWithoutLevel
  <2>2. PhaseOf(phase)' = "idle" /\ WorkedOn' = 0
    BY <2>1 DEF PhaseOf, WorkedOn
  <2> QED BY <1>2, <2>2 DEF Handshake!HNext, Handshake!Suspend
<1>4. CASE ControlInInfo
  <2>1. /\ final_key_submitted /\ phase' = "InfoDecode"
        /\ submitted_key_level' = submitted_key_level
        /\ phase \in {"InfoDecode", "WaitingContext"} /\ submitted_key_level = MaxJamBreakLevel
        /\ key_record[MaxJamBreakLevel].count > 0
    BY <1>1, <1>4 DEF ControlInInfo, InfoPhase, InfoOnlyAfterFinalKey
  <2>2. PhaseOf(phase)' = "info" /\ WorkedOn' = MaxJamBreakLevel
    BY <2>1 DEF PhaseOf, WorkedOn
  <2>3. CASE phase = "InfoDecode"
    <3>1. PhaseOf(phase) = "info" /\ WorkedOn = MaxJamBreakLevel
      BY <2>1, <2>3 DEF PhaseOf, WorkedOn
    <3> QED BY <1>2, <2>2, <3>1 DEF Handshake!hvars
  <2>4. CASE phase = "WaitingContext"
    <3>1. PhaseOf(phase) = "idle" /\ MaxJamBreakLevel \in SentLevels
      BY <2>1, <2>4 DEF PhaseOf, SentLevels
    <3> QED BY <1>2, <2>2, <3>1 DEF Handshake!HNext, Handshake!Resume
  <2> QED BY <2>1, <2>3, <2>4
<1>5. CASE ControlWaiting
  <2>1. phase = "WaitLevelUpdate" /\ UNCHANGED << phase, submitted_key_level >>
    BY <1>5 DEF ControlWaiting
  <2> QED BY <1>2, <2>1 DEF Handshake!hvars, WorkedOn, PhaseOf
<1>6. CASE ControlJam
  <2>1. phase' = "JamDecode" /\ phase # "InfoDecode" /\ ValidLevel /\ encrypt_lvl' = ctx.jam_level
    BY <1>6 DEF ControlJam, ControlWithLevel, InfoPhase
  <2>2. WorkedOn' = NamedLevel /\ NamedLevel \in 1 .. MaxJamBreakLevel
    BY <2>1, BrokenRange DEF WorkedOn, NamedLevel, ValidLevel, Levels
  <2>3. PhaseOf(phase)' = "jam" /\ PhaseOf(phase) # "info"
    BY <1>1, <2>1 DEF PhaseOf, TypeOK, Phases
  <2>4. Handshake!Hear(NamedLevel)
    BY <1>2, <2>2, <2>3 DEF Handshake!Hear
  <2> QED BY <2>2, <2>4 DEF Handshake!HNext
<1> QED BY <1>3, <1>4, <1>5, <1>6 DEF ControlStep

\* In competition mode every step of the C++ node is a step of the contract's
\* handshake or leaves it alone: with any judge inputs and missing profiles.
THEOREM NodeKeepsContract == RunMode = "competition" => (Spec => RefinesHandshake)
<1> SUFFICES ASSUME RunMode = "competition" PROVE Spec => RefinesHandshake
  OBVIOUS
<1>1. Init => Handshake!HInit
  BY DEF Init, Handshake!HInit, WorkedOn, PhaseOf, SentLevels
<1>2. NodeInv /\ [Next]_vars => [Handshake!HNext]_(Handshake!hvars)
  BY OtherStutters, KeyAgainStutters, PublishRefines, ControlRefines DEF Next, ReceiveStep
<1> QED BY <1>1, <1>2, NodeSafe, PTL DEF Spec, RefinesHandshake, Handshake!HSpec

(***************************************************************************)
(* The C++ node with its judge, for every set of keys, every profile table *)
(* and each retry limit, maximum level and number of losses: it works      *)
(* nowhere ahead of the judge.  The judge only ever raises its level, so   *)
(* a context that is late names a level that is too low, never one that is *)
(* too high.                                                               *)
(***************************************************************************)
-----------------------------------------------------------------------------
(* The judge's topics in a match carry levels of their own                 *)

\* A callback that stores a well-typed context keeps what is known of the node.
LEMMA StoredKeeps ==
    ASSUME NodeInv, Stored, ctx' \in JudgeContexts
    PROVE  NodeInv'
<1>1. UNCHANGED << tune, rescue, active_profile, phase, encrypt_lvl, submitted_key_level,
                   final_key_submitted, key_record, jam_code, ready, device >> /\ ~ ready'
  BY DEF Stored, control, tuning
<1>2. IInv /\ TypeOK /\ TypeOK'
  BY <1>1 DEF NodeInv, IInv, TypeOK
<1>3. IInv'
  BY <1>1, <1>2, KeepsInv
<1>4. AtReception' /\ (ReceivesOnlyWithProfile => ReceivesOnlyWithProfile')
  BY <1>1 DEF AtReception, ReceivesOnlyWithProfile
<1> QED BY <1>3, <1>4 DEF NodeInv

\* The node's own steps in a match are steps of its specification.
LEMMA NodeSteps ==
    ASSUME Decides \/ DecodesKey \/ Receives \/ DeliverJamCode \/ LoseJamCode \/ Clock
    PROVE  [Next]_vars
BY DEF Decides, DecodesKey, Receives, DeliverJamCode, LoseJamCode, Clock, Next, ReceiveStep

-----------------------------------------------------------------------------
(* The invariant: contexts, submissions and the final key stay behind      *)

Behind ==
    /\ judge_level \in Levels
    /\ ctx.jam_level <= judge_level
    /\ final_key_submitted => MaxJamBreakLevel <= judge_level

MatchInv == NodeInv /\ Behind /\ NeverAheadOfJudge

\* The invariant includes the types.
LEMMA NodeTyped == NodeInv => TypeOK
BY DEF NodeInv, IInv

\* What the node is ready to receive is what its phase works on, and that is
\* a level from a context or one whose key is out.
LEMMA ReadyIsBehind ==
    NodeInv /\ RunMode = "competition" /\ Behind /\ submitted_key_level <= judge_level /\ ready
       => /\ LevelOf(tune.target) <= judge_level
          /\ tune.target = "INFO" => MaxJamBreakLevel <= judge_level
<1> SUFFICES ASSUME NodeInv, RunMode = "competition", Behind,
                    submitted_key_level <= judge_level, ready
             PROVE  /\ LevelOf(tune.target) <= judge_level
                    /\ tune.target = "INFO" => MaxJamBreakLevel <= judge_level
  OBVIOUS
<1>1. TypeOK /\ Tuned /\ WaitOnlyAfterKey /\ AtReception /\ tune.target \in Targets
  BY DEF NodeInv, IInv, TypeOK
<1>2. CASE final_key_submitted
  <2>1. tune.target = "INFO"
    BY <1>1, <1>2 DEF Tuned
  <2> QED BY <1>2, <2>1 DEF Behind, LevelOf, Levels
<1>3. CASE ~ final_key_submitted
  <2>1. tune.target # "INFO"
    BY <1>1, <1>3 DEF Tuned
  <2>2. CASE phase = "JamDecode"
    <3>1. tune.target = JamTarget[NamedLevel] /\ ValidLevel
      BY <1>1, <1>3, <2>2 DEF AtReception
    <3>2. NamedLevel \in Levels /\ NamedLevel <= ctx.jam_level
      BY <3>1 DEF NamedLevel, ValidLevel, Broken, Clamp, Levels
    <3>3. LevelOf(tune.target) = NamedLevel
      BY <3>1, <3>2, TargetLevels
    <3> QED BY <2>1, <3>1, <3>2, <3>3 DEF Behind, ValidLevel, Levels
  <2>3. CASE phase = "WaitLevelUpdate"
    <3>1. tune.target = JamTarget[submitted_key_level] /\ submitted_key_level \in Levels
      BY <1>1, <1>3, <2>3 DEF AtReception, WaitOnlyAfterKey, Levels
    <3>2. LevelOf(tune.target) = submitted_key_level
      BY <3>1, TargetLevels
    <3> QED BY <2>1, <3>2
  <2> QED BY <1>1, <1>3, <2>2, <2>3 DEF AtReception
<1> QED BY <1>2, <1>3

\* At the start of a match the judge is at level 1 and nothing is out.
LEMMA InitMatch == MatchInit => MatchInv
<1> SUFFICES ASSUME MatchInit PROVE MatchInv
  OBVIOUS
<1>1. NodeInv
  BY InitNodeInv DEF MatchInit
<1> QED BY <1>1 DEF MatchInit, Init, MatchInv, Behind, NeverAheadOfJudge, Levels

\* Contexts name the judge's level, one it has left, or none.
LEMMA ContextsBehind ==
    ASSUME MatchInv, JudgeContext \/ UnusableContext \/ LaggingRadarInfo
    PROVE  MatchInv'
<1>1. TypeOK /\ judge_level \in Levels /\ judge_level' = judge_level
  BY NodeTyped DEF MatchInv, Behind, JudgeContext, UnusableContext, LaggingRadarInfo, match
<1>2. Stored /\ ctx' \in JudgeContexts /\ ctx'.jam_level <= judge_level
  <2>1. CASE JudgeContext
    <3>1. Stored /\ ctx' = [received |-> TRUE, self_id |-> 9, team |-> "RED", jam_level |-> judge_level]
      BY <2>1 DEF JudgeContext, ContextCallback, ContextTeam, OurStation
    <3> QED BY <1>1, <3>1 DEF JudgeContexts, Teams, Levels
  <2>2. CASE UnusableContext
    <3>1. PICK id \in {0, 9}, level \in {0, judge_level} :
             Stored /\ ctx' = [received |-> TRUE, self_id |-> id, team |-> "RED", jam_level |-> level]
      BY <2>2 DEF UnusableContext, ContextCallback, ContextTeam, OurStation
    <3> QED BY <1>1, <3>1 DEF JudgeContexts, Teams, Levels
  <2>3. CASE LaggingRadarInfo
    <3>1. PICK level \in 1 .. judge_level :
             Stored /\ ctx' = [received |-> TRUE, self_id |-> ctx.self_id, team |-> ctx.team,
                               jam_level |-> level]
      BY <2>3 DEF LaggingRadarInfo, RadarInfoCallback
    <3> QED BY <1>1, <3>1 DEF TypeOK, JudgeContexts, Levels
  <2> QED BY <2>1, <2>2, <2>3
<1>3. NodeInv'
  BY <1>2, StoredKeeps DEF MatchInv
<1>4. /\ UNCHANGED << submitted_key_level, jam_code, final_key_submitted >> /\ ~ ready'
  BY <1>2 DEF Stored, control
<1> QED BY <1>1, <1>2, <1>3, <1>4 DEF MatchInv, Behind, NeverAheadOfJudge

\* A key is heard only on the judge's carrier, and submitted as that level's.
LEMMA DecodingBehind ==
    ASSUME MatchInv, DecodesKey
    PROVE  /\ UNCHANGED << judge_level, ctx >>
           /\ submitted_key_level' <= judge_level /\ jam_code'.level <= judge_level
           /\ final_key_submitted' => MaxJamBreakLevel <= judge_level
           /\ ~ ready'
<1>1. judge_level \in Levels /\ LevelOf(tune.target) = judge_level
  BY DEF MatchInv, Behind, DecodesKey
<1>2. PICK key \in Keys : ReceiveKey(key) \/ ReceiveFinalKey(key) \/ ReceiveKeyAgain(key)
  BY DEF DecodesKey
<1>3. UNCHANGED judge_level
  BY DEF DecodesKey, match
<1>4. CASE ReceiveKeyAgain(key)
  BY <1>3, <1>4 DEF ReceiveKeyAgain, Receive, MatchInv, Behind, NeverAheadOfJudge
<1>5. CASE ReceiveKey(key)
  <2>1. PublishKey(judge_level, key) /\ final_key_submitted' = final_key_submitted
    BY <1>1, <1>5 DEF ReceiveKey
  <2> QED BY <1>1, <1>3, <2>1 DEF PublishKey, Receive, MatchInv, Behind, Levels
<1>6. CASE ReceiveFinalKey(key)
  <2>1. PublishKey(judge_level, key) /\ MaxJamBreakLevel <= judge_level
    BY <1>1, <1>6 DEF ReceiveFinalKey, Levels
  <2> QED BY <1>1, <1>3, <2>1 DEF PublishKey, Receive, Levels
<1> QED BY <1>2, <1>4, <1>5, <1>6

\* The remaining steps submit nothing new, and the judge's level only rises.
LEMMA OthersBehind ==
    ASSUME MatchInv,
           Decides \/ Receives \/ DeliverJamCode \/ LoseJamCode \/ Clock \/ UNCHANGED matchVars
    PROVE  /\ judge_level' \in Levels /\ judge_level <= judge_level'
           /\ UNCHANGED << ctx, jam_code, final_key_submitted >>
           /\ submitted_key_level' \in {0, submitted_key_level}
<1>1. judge_level \in Levels
  BY DEF MatchInv, Behind
<1>2. CASE Decides
  BY <1>1, <1>2 DEF Decides, match, ControlStep, ControlWithoutIdentity, ControlWithoutLevel,
     ControlInInfo, ControlWaiting, ControlJam, ControlWithLevel, Control, Levels
<1>3. CASE Receives
  BY <1>1, <1>3 DEF Receives, match, ReceiveNothing, Receive, Levels
<1>4. CASE DeliverJamCode \/ LoseJamCode \/ UNCHANGED matchVars
  BY <1>1, <1>4 DEF DeliverJamCode, LoseJamCode, matchVars, vars, control, Levels
<1>5. CASE Clock
  BY <1>1, <1>5 DEF Clock, match, Tick, control, Levels
<1> QED BY <1>2, <1>3, <1>4, <1>5

\* Every step of the closed loop keeps the node behind the judge.
LEMMA MatchInductive ==
    ASSUME MatchInv, [MatchNext]_matchVars, RunMode = "competition"
    PROVE  MatchInv'
<1>1. CASE JudgeContext \/ UnusableContext \/ LaggingRadarInfo
  BY <1>1, ContextsBehind
<1>2. CASE ~ (JudgeContext \/ UnusableContext \/ LaggingRadarInfo)
  <2>1. [Next]_vars
    BY <1>2, NodeSteps DEF MatchNext, matchVars
  <2>2. NodeInv' /\ TypeOK
    BY <2>1, NextNodeInv, NodeTyped DEF MatchInv
  <2>3. /\ Behind'
        /\ submitted_key_level' <= judge_level' /\ jam_code'.level <= judge_level'
    <3>1. CASE DecodesKey
      BY <3>1, DecodingBehind DEF MatchInv, Behind
    <3>2. CASE ~ DecodesKey
      <4>1. /\ judge_level' \in Levels /\ judge_level <= judge_level'
            /\ UNCHANGED << ctx, jam_code, final_key_submitted >>
            /\ submitted_key_level' \in {0, submitted_key_level}
        BY <1>2, <3>2, OthersBehind DEF MatchNext
      <4>2. /\ ctx.jam_level \in Int /\ jam_code.level \in Int /\ submitted_key_level \in Int
            /\ judge_level \in Int
        BY <2>2 DEF TypeOK, JudgeContexts, MatchInv, Behind, Levels
      <4> QED BY <4>1, <4>2 DEF MatchInv, Behind, NeverAheadOfJudge, Levels
    <3> QED BY <3>1, <3>2
  <2>4. NeverAheadOfJudge'
    <3>1. (NodeInv /\ RunMode = "competition" /\ Behind /\ submitted_key_level <= judge_level /\ ready
             => /\ LevelOf(tune.target) <= judge_level
                /\ tune.target = "INFO" => MaxJamBreakLevel <= judge_level)'
      BY ReadyIsBehind, PTL
    <3> QED BY <2>2, <2>3, <3>1 DEF NeverAheadOfJudge
  <2> QED BY <2>2, <2>3, <2>4 DEF MatchInv
<1> QED BY <1>1, <1>2

\* In competition mode the node neither submits a key of a level nor prepares
\* to receive on one that the judge has not reached, and turns to INFO only
\* when the judge is at the highest: whatever is lost, late or unusable.
THEOREM NodeFollowsJudge == RunMode = "competition" => (MatchSpec => []NeverAheadOfJudge)
<1> SUFFICES ASSUME RunMode = "competition" PROVE MatchSpec => []NeverAheadOfJudge
  OBVIOUS
<1>1. MatchInv /\ [MatchNext]_matchVars => MatchInv'
  BY MatchInductive
<1>2. MatchInv => NeverAheadOfJudge
  BY DEF MatchInv
<1> QED BY <1>1, <1>2, InitMatch, PTL DEF MatchSpec
=============================================================================

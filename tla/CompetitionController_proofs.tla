-------------------- MODULE CompetitionController_proofs --------------------
(***************************************************************************)
(* Proofs about CompetitionController for every choice of its constants:   *)
(* any set of keys and of contexts, any interval, any retry limit and each *)
(* of the three maximum levels.                                            *)
(***************************************************************************)
EXTENDS ControllerRefinement, RateLimit, MatchLoop, TLAPS

USE MaxLevelAssumption, IntervalAssumption, RetryAssumption,
    CountCapAssumption, KeyAssumption, EventAssumption, ContextAssumption

-----------------------------------------------------------------------------
(* Facts about the helpers                                                 *)

\* A context gives one of the two colours or none at all.
LEMMA OwnTeamType ==
    ASSUME NEW c
    PROVE  OwnTeamFromContext(c) \in Teams \cup {None}
BY DEF OwnTeamFromContext, Teams, None

\* A published record is never empty: the count stays within its cap and
\* above zero, and the clock restarts.
LEMMA RecordAfterType ==
    ASSUME NEW r \in [key : Keys \cup {NoKey}, count : 0 .. CountCap,
                      age : 0 .. KeyPublishMinInterval],
           NEW k \in Keys
    PROVE  /\ RecordAfter(r, k) \in [key : Keys \cup {NoKey}, count : 0 .. CountCap,
                                     age : 0 .. KeyPublishMinInterval]
           /\ RecordAfter(r, k).count > 0
           /\ RecordAfter(r, k).key = k
<1>1. Smaller(r.count + 1, CountCap) \in 0 .. CountCap
  BY DEF Smaller
<1>2. Smaller(r.count + 1, CountCap) > 0
  BY DEF Smaller
<1> QED BY <1>1, <1>2 DEF RecordAfter

\* Ageing a record keeps its key and its count.
LEMMA AgedType ==
    ASSUME NEW r \in [key : Keys \cup {NoKey}, count : 0 .. CountCap,
                      age : 0 .. KeyPublishMinInterval]
    PROVE  /\ Aged(r) \in [key : Keys \cup {NoKey}, count : 0 .. CountCap,
                           age : 0 .. KeyPublishMinInterval]
           /\ Aged(r).count = r.count
           /\ Aged(r).key = r.key
           /\ Aged(r).age >= r.age \/ r.count = 0
BY DEF Aged, Smaller

\* The level a context is clipped to is one the receiver may break.
LEMMA ClippedLevel ==
    ASSUME NEW l \in Levels
    PROVE  Smaller(l, MaxJamBreakLevel) \in 1 .. MaxJamBreakLevel
BY DEF Smaller, Levels

\* Jam states and jam targets are told apart by their level.
LEMMA JamTables ==
    /\ \A l \in Levels : JamState[l] \in JamStates /\ JamTarget[l] \in Targets
    /\ \A l, m \in Levels : JamState[l] = JamState[m] => l = m
    /\ \A l \in Levels : JamState[l] # "INFO" /\ JamState[l] # "WAIT_CONTEXT"
                          /\ JamState[l] \notin WaitStates
BY DEF JamState, JamTarget, JamStates, Targets, Levels, WaitStates

-----------------------------------------------------------------------------
(* Type correctness                                                        *)

LEMMA InitType == Init => TypeOK
BY DEF Init, TypeOK, States, EmptyRecord, None

LEMMA ContextType ==
    ASSUME TypeOK, NEW c \in Contexts, UpdateContext(c)
    PROVE  TypeOK'
<1> USE DEF TypeOK
<1>1. CASE ContextWithoutTeam(c)
  BY <1>1 DEF ContextWithoutTeam, States
<1>2. ASSUME AdoptTeam(c)
      PROVE  /\ latest_context' \in Contexts \cup {NoContext}
             /\ own_team' \in Teams /\ rx_team' \in Teams
             /\ completed_level' = completed_level
             /\ published_keys' = published_keys
  BY <1>2, OwnTeamType DEF AdoptTeam, OpponentTeam, Teams
<1>3. CASE ContextWithInvalidLevel(c)
  BY <1>2, <1>3 DEF ContextWithInvalidLevel, SendTeam
<1>4. CASE ContextInInfo(c)
  BY <1>2, <1>4 DEF ContextInInfo, SendTeam, SendTarget, Targets
<1>5. CASE ContextWithLevel(c)
  <2> DEFINE level == Smaller(c.jam_level, MaxJamBreakLevel)
  <2>1. level \in 1 .. MaxJamBreakLevel /\ level \in Levels
    BY <1>5, ClippedLevel DEF ContextWithLevel, Levels
  <2>2. state' \in States
    BY <1>5, <2>1, JamTables DEF ContextWithLevel, WaitStateForNextLevel, States, WaitStates
  <2>3. desired_target' \in Targets /\ receiver' \in [team : Teams, target : Targets]
    BY <1>2, <1>5, <2>1, JamTables DEF ContextWithLevel, SendTeam, SendTarget
  <2> QED BY <1>2, <1>5, <2>1, <2>2, <2>3 DEF ContextWithLevel, Levels
<1> QED BY <1>1, <1>3, <1>4, <1>5 DEF UpdateContext

LEMMA KeyType ==
    ASSUME TypeOK, NEW lvl \in EventLevels, NEW key \in Keys, HandleJamKey(lvl, key)
    PROVE  TypeOK'
<1> USE DEF TypeOK
<1> DEFINE level == EventLevel(lvl)
<1>1. level \in 0 .. 3
  BY DEF EventLevel, Levels
<1>2. published_keys' \in [0 .. 3 -> [key : Keys \cup {NoKey}, count : 0 .. CountCap,
                                      age : 0 .. KeyPublishMinInterval]]
  BY <1>1, RecordAfterType DEF HandleJamKey
<1>3. completed_level' \in 0 .. 3
  BY <1>1 DEF HandleJamKey, Larger
<1>4. state' \in States /\ desired_target' \in Targets \cup {None}
  BY DEF HandleJamKey, WaitStateForNextLevel, States, WaitStates, Targets
<1>5. receiver' \in [team : Teams, target : Targets]
  BY DEF HandleJamKey, SendTarget, Targets
<1> QED BY <1>2, <1>3, <1>4, <1>5 DEF HandleJamKey

LEMMA TickType == TypeOK /\ Tick => TypeOK'
<1> SUFFICES ASSUME TypeOK, Tick PROVE TypeOK'
  OBVIOUS
<1>1. published_keys' \in [0 .. 3 -> [key : Keys \cup {NoKey}, count : 0 .. CountCap,
                                      age : 0 .. KeyPublishMinInterval]]
  BY AgedType DEF Tick, TypeOK
<1> QED BY <1>1 DEF Tick, TypeOK

\* Every variable keeps its type in every reachable state.
THEOREM TypeCorrect == Spec => []TypeOK
<1>1. TypeOK /\ [Next]_vars => TypeOK'
  <2> SUFFICES ASSUME TypeOK, [Next]_vars PROVE TypeOK'
    OBVIOUS
  <2>1. CASE UNCHANGED vars
    BY <2>1 DEF TypeOK, vars, controllerVars
  <2> QED BY <2>1, ContextType, KeyType, TickType DEF Next
<1> QED BY <1>1, InitType, PTL DEF Spec

-----------------------------------------------------------------------------
(***************************************************************************)
(* Safety.  The four invariants the runs check are inductive together once *)
(* the level is known to be clipped: INFO's target needs ReceiverInSync,   *)
(* its key record needs CompletedIsHighestPublished, and a wait phase      *)
(* needs the level the last context left.                                  *)
(***************************************************************************)
IInv ==
    /\ TypeOK
    /\ active_level <= MaxJamBreakLevel /\ completed_level <= MaxJamBreakLevel
    /\ InfoOnlyAfterFinalKey
    /\ PhaseMatchesKeys
    /\ ReceiverInSync
    /\ CompletedIsHighestPublished

LEMMA InitSafe == Init => IInv
<1> SUFFICES ASSUME Init PROVE IInv
  OBVIOUS
<1> USE DEF Init
<1>1. TypeOK
  BY InitType
<1>2. active_level <= MaxJamBreakLevel /\ completed_level <= MaxJamBreakLevel
  BY DEF Levels
<1>3. PhaseMatchesKeys
  BY JamTables DEF PhaseMatchesKeys, WaitStates
<1>4. InfoOnlyAfterFinalKey
  BY DEF InfoOnlyAfterFinalKey
<1>5. ReceiverInSync
  BY DEF ReceiverInSync, JamStates, None
<1>6. CompletedIsHighestPublished
  BY DEF CompletedIsHighestPublished, HasPublishedLevel, EmptyRecord, Levels
<1> QED BY <1>1, <1>2, <1>3, <1>4, <1>5, <1>6 DEF IInv

\* A context changes neither the records nor completed_level, so only the
\* phase, the level and the receiver have to be followed.
LEMMA ContextSafe ==
    ASSUME IInv, NEW c \in Contexts, UpdateContext(c)
    PROVE  IInv'
<1> USE DEF IInv, HasPublishedLevel
<1>1. TypeOK'
  BY ContextType
<1>2. CompletedIsHighestPublished' /\ published_keys' = published_keys
                                   /\ completed_level' = completed_level
  BY DEF CompletedIsHighestPublished, UpdateContext, ContextWithoutTeam, AdoptTeam,
         ContextWithInvalidLevel, ContextInInfo, ContextWithLevel
<1>3. CASE ContextWithoutTeam(c)
  <2>1. PhaseMatchesKeys'
    BY <1>3, JamTables DEF PhaseMatchesKeys, ContextWithoutTeam, WaitStates
  <2>2. InfoOnlyAfterFinalKey'
    BY <1>3 DEF InfoOnlyAfterFinalKey, ContextWithoutTeam
  <2>3. ReceiverInSync'
    BY <1>3 DEF ReceiverInSync, ContextWithoutTeam, JamStates
  <2> QED BY <1>1, <1>2, <1>3, <2>1, <2>2, <2>3 DEF ContextWithoutTeam
<1>4. CASE ContextWithInvalidLevel(c)
  <2>1. rx_team' \in Teams /\ receiver'.team = SendTeam(rx_team')
                           /\ receiver'.target = receiver.target
    BY <1>4, OwnTeamType DEF ContextWithInvalidLevel, AdoptTeam, OpponentTeam, Teams, TypeOK
  <2>2. receiver'.team = rx_team'
    BY <2>1 DEF SendTeam, ReceiverInSync, Teams, None
  <2>3. ReceiverInSync'
    BY <1>4, <2>1, <2>2 DEF ReceiverInSync, ContextWithInvalidLevel, None
  <2>4. PhaseMatchesKeys' /\ InfoOnlyAfterFinalKey'
    BY <1>2, <1>4, <2>1 DEF PhaseMatchesKeys, InfoOnlyAfterFinalKey, ContextWithInvalidLevel,
                            WaitStateForNextLevel
  <2> QED BY <1>1, <1>2, <1>4, <2>3, <2>4 DEF ContextWithInvalidLevel
<1>5. CASE ContextInInfo(c)
  <2>1. /\ receiver'.team = SendTeam(rx_team') /\ receiver'.target = SendTarget("INFO")
        /\ state' = "INFO" /\ desired_target' = "INFO" /\ active_level' = active_level
    BY <1>5 DEF ContextInInfo
  <2>2. receiver'.team = rx_team' /\ receiver'.target = "INFO"
    BY <1>5, <2>1, OwnTeamType
    DEF SendTeam, SendTarget, ReceiverInSync, ContextInInfo, AdoptTeam, OpponentTeam,
        Teams, None
  <2>3. ReceiverInSync'
    BY <2>1, <2>2 DEF ReceiverInSync, JamStates
  <2>4. PhaseMatchesKeys'
    BY <2>1, JamTables DEF PhaseMatchesKeys, WaitStates
  <2>5. InfoOnlyAfterFinalKey'
    BY <1>2, <1>5, <2>1, <2>2 DEF InfoOnlyAfterFinalKey, ContextInInfo
  <2> QED BY <1>1, <1>2, <2>1, <2>3, <2>4, <2>5
<1>6. CASE ContextWithLevel(c)
  <2> DEFINE level == Smaller(c.jam_level, MaxJamBreakLevel)
  <2>1. level \in 1 .. MaxJamBreakLevel /\ level \in Levels
    BY <1>6, ClippedLevel DEF ContextWithLevel, Levels
  <2>2. /\ active_level' = level /\ desired_target' = JamTarget[level]
        /\ receiver'.team = SendTeam(rx_team')
        /\ receiver'.target = SendTarget(JamTarget[level])
        /\ state' = IF HasPublishedLevel(level) /\ level < MaxJamBreakLevel
                    THEN WaitStateForNextLevel(level) ELSE JamState[level]
    BY <1>6 DEF ContextWithLevel
  <2> HIDE DEF level
  <2>3. receiver'.team = rx_team' /\ receiver'.target = JamTarget[level]
    BY <1>6, <2>1, <2>2, OwnTeamType, JamTables
    DEF SendTeam, SendTarget, ReceiverInSync, ContextWithLevel, AdoptTeam, OpponentTeam,
        Teams, Targets, None
  <2>4. ReceiverInSync'
    BY <2>2, <2>3 DEF ReceiverInSync
  <2>5. CASE HasPublishedLevel(level) /\ level < MaxJamBreakLevel
    <3>1. state' = WaitStateForNextLevel(level)
      BY <2>2, <2>5
    <3>2. state' \in WaitStates
      BY <3>1 DEF WaitStateForNextLevel, WaitStates
    <3>3. PhaseMatchesKeys'
      <4>1. \A l \in Levels : state' # JamState[l]
        BY <3>2, JamTables
      <4>2. active_level' \in 1 .. (MaxJamBreakLevel - 1)
        BY <2>1, <2>2, <2>5 DEF Levels
      <4>3. HasPublishedLevel(active_level)' /\ state' = WaitStateForNextLevel(active_level')
        BY <1>2, <2>2, <2>5, <3>1
      <4> QED BY <4>1, <4>2, <4>3 DEF PhaseMatchesKeys, WaitStateForNextLevel
    <3>4. InfoOnlyAfterFinalKey'
      BY <3>2 DEF InfoOnlyAfterFinalKey, WaitStates
    <3> QED BY <1>1, <1>2, <2>1, <2>2, <2>4, <3>3, <3>4 DEF Levels
  <2>6. CASE ~ (HasPublishedLevel(level) /\ level < MaxJamBreakLevel)
    <3>1. state' = JamState[level]
      BY <2>2, <2>6
    <3>2. PhaseMatchesKeys'
      BY <1>2, <2>1, <2>2, <2>6, <3>1, JamTables DEF PhaseMatchesKeys
    <3>3. InfoOnlyAfterFinalKey'
      BY <2>1, <3>1, JamTables DEF InfoOnlyAfterFinalKey
    <3> QED BY <1>1, <1>2, <2>1, <2>2, <2>4, <3>2, <3>3 DEF Levels
  <2> QED BY <2>5, <2>6
<1> QED BY <1>3, <1>4, <1>5, <1>6 DEF UpdateContext

\* An accepted key belongs to the active level, whose record it fills.
LEMMA KeySafe ==
    ASSUME IInv, NEW lvl \in EventLevels, NEW key \in Keys,
           KeyCanArrive(lvl), HandleJamKey(lvl, key)
    PROVE  IInv'
<1> USE DEF IInv, HasPublishedLevel
<1> DEFINE level == EventLevel(lvl)
<1>1. TypeOK'
  BY KeyType
<1>2. /\ level = active_level /\ active_level \in 1 .. MaxJamBreakLevel
      /\ state # "INFO" /\ active_level' = active_level /\ rx_team' = rx_team
      /\ published_keys' = [published_keys EXCEPT ![level] =
                              RecordAfter(published_keys[level], key)]
      /\ completed_level' = Larger(completed_level, level)
  BY DEF HandleJamKey, KeyAccepted, KeyCanArrive, EventLevel, Levels, TypeOK
<1>3. level \in Levels /\ level \in 0 .. 3
  BY <1>2 DEF Levels
<1>4. /\ published_keys'[level].count > 0
      /\ \A l \in 0 .. 3 \ {level} : published_keys'[l] = published_keys[l]
  BY <1>2, <1>3, RecordAfterType DEF TypeOK
<1> HIDE DEF level
<1>5. CompletedIsHighestPublished'
  <2>1. CASE completed_level <= level
    BY <1>2, <1>3, <1>4, <2>1 DEF CompletedIsHighestPublished, Larger, TypeOK, Levels
  <2>2. CASE completed_level > level
    BY <1>2, <1>3, <1>4, <2>2 DEF CompletedIsHighestPublished, Larger, TypeOK, Levels
  <2> QED BY <1>3, <2>1, <2>2 DEF TypeOK, Levels
<1>6. completed_level' <= MaxJamBreakLevel
  BY <1>2, <1>3 DEF Larger, TypeOK, Levels
<1>7. CASE level >= MaxJamBreakLevel
  <2>1. level = MaxJamBreakLevel
    BY <1>2, <1>7 DEF Levels
  <2>2. /\ state' = "INFO" /\ desired_target' = "INFO"
        /\ receiver'.team = receiver.team /\ receiver'.target = SendTarget("INFO")
    BY <1>7 DEF HandleJamKey, TypeOK, level
  <2>3. receiver'.target = "INFO"
    BY <2>2 DEF SendTarget, ReceiverInSync, None
  <2>4. ReceiverInSync'
    BY <1>2, <2>2, <2>3 DEF ReceiverInSync, JamStates
  <2>5. PhaseMatchesKeys'
    BY <2>2, JamTables DEF PhaseMatchesKeys, WaitStates
  <2>6. completed_level' = MaxJamBreakLevel
    BY <1>2, <1>3, <2>1 DEF Larger, TypeOK, Levels
  <2>7. InfoOnlyAfterFinalKey'
    BY <1>2, <1>4, <2>1, <2>3, <2>6 DEF InfoOnlyAfterFinalKey
  <2> QED BY <1>6, <1>1, <1>2, <1>5, <2>4, <2>5, <2>7
<1>8. CASE ~ (level >= MaxJamBreakLevel)
  <2>1. level \in 1 .. (MaxJamBreakLevel - 1)
    BY <1>2, <1>8 DEF Levels
  <2>2. /\ state' = WaitStateForNextLevel(level)
        /\ desired_target' = desired_target /\ receiver' = receiver
    BY <1>8 DEF HandleJamKey, level
  <2>3. state' \in WaitStates
    BY <2>2 DEF WaitStateForNextLevel, WaitStates
  <2>4. ReceiverInSync'
    BY <1>2, <2>2, <2>3 DEF ReceiverInSync, JamStates, WaitStates
  <2>5. PhaseMatchesKeys'
    BY <1>2, <1>4, <2>1, <2>2, <2>3, JamTables DEF PhaseMatchesKeys, WaitStateForNextLevel
  <2>6. InfoOnlyAfterFinalKey'
    BY <2>3 DEF InfoOnlyAfterFinalKey, WaitStates
  <2> QED BY <1>6, <1>1, <1>2, <1>5, <2>4, <2>5, <2>6
<1> QED BY <1>7, <1>8

\* Time only ages records.
LEMMA TickSafe == IInv /\ Tick => IInv'
<1> SUFFICES ASSUME IInv, Tick PROVE IInv'
  OBVIOUS
<1> USE DEF IInv, HasPublishedLevel
<1>1. TypeOK'
  BY TickType
<1>2. \A l \in 0 .. 3 : published_keys'[l].count = published_keys[l].count
  BY AgedType DEF Tick, TypeOK
<1>3. /\ state' = state /\ rx_team' = rx_team /\ active_level' = active_level
      /\ completed_level' = completed_level /\ desired_target' = desired_target
      /\ receiver' = receiver
  BY DEF Tick
<1>4. InfoOnlyAfterFinalKey' /\ ReceiverInSync'
  BY <1>2, <1>3 DEF InfoOnlyAfterFinalKey, ReceiverInSync, Levels
<1>5. PhaseMatchesKeys'
  BY <1>2, <1>3 DEF PhaseMatchesKeys, Levels, WaitStateForNextLevel, TypeOK
<1>6. CompletedIsHighestPublished'
  BY <1>2, <1>3 DEF CompletedIsHighestPublished, Levels, TypeOK
<1> QED BY <1>1, <1>3, <1>4, <1>5, <1>6

LEMMA StutterSafe == IInv /\ UNCHANGED vars => IInv'
BY DEF IInv, vars, controllerVars, TypeOK, InfoOnlyAfterFinalKey, PhaseMatchesKeys,
       ReceiverInSync, CompletedIsHighestPublished, HasPublishedLevel, WaitStateForNextLevel

\* The inductive invariant holds in every reachable state.
THEOREM Safe == Spec => []IInv
<1>1. IInv /\ [Next]_vars => IInv'
  <2> SUFFICES ASSUME IInv, [Next]_vars PROVE IInv'
    OBVIOUS
  <2> QED BY ContextSafe, KeySafe, TickSafe, StutterSafe DEF Next
<1> QED BY <1>1, InitSafe, PTL DEF Spec

\* INFO decoding starts only after the highest level's key went out, and the
\* receiver is then tuned to INFO.
THEOREM InfoCorrect == Spec => []InfoOnlyAfterFinalKey
<1>1. IInv => InfoOnlyAfterFinalKey
  BY DEF IInv
<1> QED BY <1>1, Safe, PTL

\* Phases and key records agree.
THEOREM PhaseCorrect == Spec => []PhaseMatchesKeys
<1>1. IInv => PhaseMatchesKeys
  BY DEF IInv
<1> QED BY <1>1, Safe, PTL

\* Sending only changes never lets the receiver drift from the controller.
THEOREM ReceiverCorrect == Spec => []ReceiverInSync
<1>1. IInv => ReceiverInSync
  BY DEF IInv
<1> QED BY <1>1, Safe, PTL

\* completed_level is the highest level with a published key, never a higher
\* or an older one.
THEOREM CompletedCorrect == Spec => []CompletedIsHighestPublished
<1>1. IInv => CompletedIsHighestPublished
  BY DEF IInv
<1> QED BY <1>1, Safe, PTL

-----------------------------------------------------------------------------
(***************************************************************************)
(* Action properties and the contract                                      *)
(***************************************************************************)

\* INFO is left only by a context no colour can be read from.
THEOREM InfoSticky == Spec => InfoLeftOnlyByLostIdentity
<1>1. ASSUME IInv, [Next]_vars, state = "INFO", state' # "INFO"
      PROVE  state' = "WAIT_CONTEXT" /\ OwnTeamFromContext(latest_context') = None
  <2> USE <1>1
  <2>1. PICK c \in Contexts : UpdateContext(c)
    BY DEF Next, HandleJamKey, KeyAccepted, Tick, vars, controllerVars
  <2>2. ContextWithoutTeam(c)
    BY <2>1 DEF UpdateContext, ContextWithInvalidLevel, ContextInInfo, ContextWithLevel,
                IInv, InfoOnlyAfterFinalKey, TypeOK, Levels
  <2> QED BY <2>2 DEF ContextWithoutTeam
<1>2. IInv /\ [Next]_vars =>
        [state = "INFO" /\ state' # "INFO" =>
            state' = "WAIT_CONTEXT" /\ OwnTeamFromContext(latest_context') = None]_vars
  BY <1>1
<1> QED BY <1>2, Safe, PTL DEF Spec, InfoLeftOnlyByLostIdentity

\* A record nothing was published for is new.
UncountedIsNew == \A l \in 0 .. 3 : published_keys[l].count = 0 => published_keys[l].age = 0

LEMMA UncountedStaysNew ==
    ASSUME IInv, UncountedIsNew, [Next]_vars
    PROVE  UncountedIsNew'
<1>1. CASE UNCHANGED published_keys
  BY <1>1 DEF UncountedIsNew
<1>2. ASSUME NEW lvl \in EventLevels, NEW key \in Keys, HandleJamKey(lvl, key)
      PROVE  UncountedIsNew'
  <2> DEFINE level == EventLevel(lvl)
  <2>1. published_keys' = [published_keys EXCEPT ![level] = RecordAfter(published_keys[level], key)]
    BY <1>2 DEF HandleJamKey
  <2>2. RecordAfter(published_keys[level], key).age = 0
    BY DEF RecordAfter
  <2> HIDE DEF level
  <2> QED BY <2>1, <2>2 DEF UncountedIsNew, IInv, TypeOK
<1>3. CASE Tick
  <2>1. \A l \in 0 .. 3 : /\ Aged(published_keys[l]).count = published_keys[l].count
                          /\ published_keys[l].count = 0 => Aged(published_keys[l]).age = 0
    BY AgedType DEF IInv, TypeOK, Aged
  <2> QED BY <1>3, <2>1 DEF Tick, UncountedIsNew
<1> QED BY <1>1, <1>2, <1>3 DEF Next, UpdateContext, ContextWithoutTeam, ContextWithInvalidLevel,
       ContextInInfo, ContextWithLevel, AdoptTeam, vars, controllerVars

\* A record is renewed only for the level the judge's context named, by a key
\* that came while keys were wanted, and only one at a time.
THEOREM KeyActive == Spec => KeyOnlyForActiveLevel
<1> DEFINE Renews(l) == \/ published_keys'[l].age < published_keys[l].age
                        \/ published_keys'[l].key # published_keys[l].key
           ForActive(l) == /\ l = active_level /\ l \in 1 .. MaxJamBreakLevel
                           /\ state # "INFO" /\ rx_team # None
                           /\ \A m \in 0 .. 3 \ {l} : published_keys'[m] = published_keys[m]
<1>1. ASSUME IInv, UncountedIsNew, [Next]_vars, NEW l \in 0 .. 3, Renews(l)
      PROVE  ForActive(l)
  <2>1. \A m \in 0 .. 3 : published_keys[m].age \in Nat
    BY <1>1 DEF IInv, TypeOK
  <2>2. published_keys' # published_keys
    BY <1>1, <2>1
  <2>3. ~ Tick
    <3>1. SUFFICES ASSUME Tick PROVE FALSE
      OBVIOUS
    <3>2. published_keys'[l] = Aged(published_keys[l])
      BY <3>1 DEF Tick
    <3>3. /\ Aged(published_keys[l]).key = published_keys[l].key
          /\ Aged(published_keys[l]).age \in Nat
          /\ Aged(published_keys[l]).age >= published_keys[l].age \/ published_keys[l].count = 0
      BY <1>1, AgedType DEF IInv, TypeOK
    <3> QED BY <1>1, <2>1, <3>2, <3>3 DEF UncountedIsNew
  <2>4. PICK lvl \in EventLevels, key \in Keys : KeyCanArrive(lvl) /\ HandleJamKey(lvl, key)
    BY <1>1, <2>2, <2>3 DEF Next, UpdateContext, ContextWithoutTeam, ContextWithInvalidLevel,
       ContextInInfo, ContextWithLevel, AdoptTeam, vars, controllerVars
  <2> DEFINE level == EventLevel(lvl)
  <2>5. /\ level = active_level /\ active_level \in 1 .. MaxJamBreakLevel
        /\ state # "INFO" /\ rx_team # None
        /\ published_keys' = [published_keys EXCEPT ![level] =
                                RecordAfter(published_keys[level], key)]
    BY <1>1, <2>4 DEF IInv, HandleJamKey, KeyAccepted, KeyCanArrive, EventLevel, Levels, TypeOK
  <2> HIDE DEF level
  <2>6. \A m \in 0 .. 3 \ {level} : published_keys'[m] = published_keys[m]
    BY <1>1, <2>5 DEF IInv, TypeOK
  <2>7. l = level
    BY <1>1, <2>1, <2>6
  <2> QED BY <2>5, <2>6, <2>7
<1>2. Init => UncountedIsNew
  BY DEF Init, UncountedIsNew, EmptyRecord
<1>3. IInv /\ UncountedIsNew /\ [Next]_vars => UncountedIsNew'
  BY UncountedStaysNew
<1>4. IInv /\ UncountedIsNew /\ [Next]_vars =>
        [\A l \in 0 .. 3 : published_keys'[l].age < published_keys[l].age
                            \/ published_keys'[l].key # published_keys[l].key =>
            /\ l = active_level /\ l \in 1 .. MaxJamBreakLevel
            /\ state # "INFO" /\ rx_team # None
            /\ \A m \in 0 .. 3 \ {l} : published_keys'[m] = published_keys[m]]_vars
  BY <1>1
<1> QED BY <1>2, <1>3, <1>4, Safe, PTL DEF Spec, KeyOnlyForActiveLevel

\* The set of levels with a published key moves only with a published key.
LEMMA SentSame ==
    ASSUME \A l \in 0 .. 3 : published_keys'[l].count = published_keys[l].count
    PROVE  SentLevels' = SentLevels
BY DEF SentLevels, HasPublishedLevel, Levels

\* A context is heard by the handshake, suspends it, or does not concern it.
LEMMA ContextRefines ==
    ASSUME IInv, NEW c \in Contexts, UpdateContext(c)
    PROVE  [Handshake!HNext]_(Handshake!hvars)
<1> USE DEF IInv
<1>1. published_keys' = published_keys /\ SentLevels' = SentLevels
  BY SentSame DEF UpdateContext, ContextWithoutTeam, AdoptTeam, ContextWithInvalidLevel,
                  ContextInInfo, ContextWithLevel
<1>2. CASE ContextWithoutTeam(c)
  <2>1. PhaseOf(state)' = "idle" /\ active_level' = active_level
    BY <1>2 DEF ContextWithoutTeam, PhaseOf
  <2> QED BY <1>1, <2>1 DEF Handshake!HNext, Handshake!Suspend
<1>3. CASE ContextWithInvalidLevel(c) \/ ContextInInfo(c)
  <2>1. PhaseOf(state)' = PhaseOf(state) /\ active_level' = active_level
    BY <1>3 DEF ContextWithInvalidLevel, ContextInInfo, PhaseOf
  <2> QED BY <1>1, <2>1 DEF Handshake!hvars
<1>4. CASE ContextWithLevel(c)
  <2> DEFINE level == Smaller(c.jam_level, MaxJamBreakLevel)
  <2>1. level \in 1 .. MaxJamBreakLevel /\ level \in Levels
    BY <1>4, ClippedLevel DEF ContextWithLevel, Levels
  <2>2. /\ active_level' = level
        /\ state' = IF HasPublishedLevel(level) /\ level < MaxJamBreakLevel
                    THEN WaitStateForNextLevel(level) ELSE JamState[level]
    BY <1>4 DEF ContextWithLevel
  <2>3. state # "INFO"
    BY <1>4 DEF ContextWithLevel, InfoOnlyAfterFinalKey, Levels
  <2> HIDE DEF level
  <2>4. HasPublishedLevel(level) <=> level \in SentLevels
    BY <2>1 DEF SentLevels
  <2>5. PhaseOf(state) # "info"
    BY <2>3 DEF PhaseOf
  <2>6. PhaseOf(WaitStateForNextLevel(level)) = "wait"
    BY DEF PhaseOf, WaitStateForNextLevel, JamStates
  <2>7. PhaseOf(JamState[level]) = "jam"
    BY <2>1, JamTables DEF PhaseOf
  <2>8. PhaseOf(state)' = IF level \in SentLevels /\ level < MaxJamBreakLevel
                          THEN "wait" ELSE "jam"
    <3>1. PhaseOf(state)' = PhaseOf(state')
      BY DEF PhaseOf
    <3> QED BY <2>2, <2>4, <2>6, <2>7, <3>1
  <2>9. Handshake!Hear(level)
    BY <1>1, <2>2, <2>5, <2>8 DEF Handshake!Hear
  <2> QED BY <2>1, <2>9 DEF Handshake!HNext
<1> QED BY <1>2, <1>3, <1>4 DEF UpdateContext

\* An accepted key is the handshake's Publish.
LEMMA KeyRefines ==
    ASSUME IInv, NEW lvl \in EventLevels, NEW key \in Keys,
           KeyCanArrive(lvl), HandleJamKey(lvl, key)
    PROVE  Handshake!HNext
<1> USE DEF IInv
<1> DEFINE level == EventLevel(lvl)
<1>1. /\ level = active_level /\ active_level \in 1 .. MaxJamBreakLevel
      /\ state # "INFO" /\ active_level' = active_level
      /\ published_keys' = [published_keys EXCEPT ![level] =
                              RecordAfter(published_keys[level], key)]
  BY DEF HandleJamKey, KeyAccepted, KeyCanArrive, EventLevel, Levels, TypeOK
<1>2. state' = IF level >= MaxJamBreakLevel THEN "INFO" ELSE WaitStateForNextLevel(level)
  BY DEF HandleJamKey
<1>3. level \in Levels /\ level \in 0 .. 3
  BY <1>1 DEF Levels
<1> HIDE DEF level
<1>4. /\ published_keys'[level].count > 0
      /\ \A l \in 0 .. 3 \ {level} : published_keys'[l] = published_keys[l]
  BY <1>1, <1>3, RecordAfterType DEF TypeOK
<1>5. SentLevels' = SentLevels \cup {active_level}
  BY <1>1, <1>3, <1>4 DEF SentLevels, HasPublishedLevel, Levels
<1>6. PhaseOf(state)' = IF active_level = MaxJamBreakLevel THEN "info" ELSE "wait"
  <2>1. PhaseOf(state)' = PhaseOf(state')
    BY DEF PhaseOf
  <2>2. PhaseOf("INFO") = "info" /\ PhaseOf(WaitStateForNextLevel(level)) = "wait"
    BY DEF PhaseOf, WaitStateForNextLevel, JamStates
  <2>3. level >= MaxJamBreakLevel <=> active_level = MaxJamBreakLevel
    BY <1>1 DEF Levels
  <2> QED BY <1>2, <2>1, <2>2, <2>3
<1>7. PhaseOf(state) # "info" /\ active_level # 0
  BY <1>1 DEF PhaseOf, Levels
<1> QED BY <1>1, <1>5, <1>6, <1>7 DEF Handshake!HNext, Handshake!Publish

\* Every step of the controller is a step of the contract's handshake, or
\* leaves the handshake alone.
THEOREM KeepsContract == Spec => RefinesHandshake
<1>1. Init => Handshake!HInit
  BY DEF Init, Handshake!HInit, PhaseOf, SentLevels, HasPublishedLevel, EmptyRecord, Levels
<1>2. IInv /\ [Next]_vars => [Handshake!HNext]_(Handshake!hvars)
  <2> SUFFICES ASSUME IInv, [Next]_vars
               PROVE  [Handshake!HNext]_(Handshake!hvars)
    OBVIOUS
  <2>1. CASE Tick
    <3>1. SentLevels' = SentLevels
      BY <2>1, AgedType, SentSame DEF Tick, IInv, TypeOK
    <3> QED BY <2>1, <3>1 DEF Tick, Handshake!hvars, PhaseOf
  <2>2. CASE UNCHANGED vars
    BY <2>2 DEF vars, controllerVars, Handshake!hvars, PhaseOf, SentLevels, HasPublishedLevel
  <2> QED BY <2>1, <2>2, ContextRefines, KeyRefines DEF Next
<1> QED BY <1>1, <1>2, Safe, PTL DEF Spec, RefinesHandshake, Handshake!HSpec

-----------------------------------------------------------------------------
(***************************************************************************)
(* The rate of publications.  A level's record is that of the key that     *)
(* went out there last, with the time since then; every other key of the   *)
(* level that went out within the interval did so no later.                *)
(***************************************************************************)
Dated ==
    /\ since \in [Levels -> [Keys -> 0 .. KeyPublishMinInterval]]
    /\ \A l \in Levels : published_keys[l].key \in Keys =>
          /\ published_keys[l].count > 0
          /\ since[l][published_keys[l].key] = published_keys[l].age
    /\ \A l \in Levels, k \in Keys : since[l][k] < KeyPublishMinInterval =>
          /\ published_keys[l].key \in Keys
          /\ published_keys[l].age <= since[l][k]

RateInv == IInv /\ Dated

\* The history only watches.
LEMMA RateSteps == [RateNext]_rateVars => [Next]_vars
BY DEF RateNext, Next, rateVars

\* Before the first publication the history is empty.
LEMMA InitRate == RateInit => RateInv
<1> SUFFICES ASSUME RateInit PROVE RateInv
  OBVIOUS
<1>1. IInv
  BY InitSafe DEF RateInit
<1>2. Dated
  BY DEF RateInit, Init, Dated, EmptyRecord, Levels
<1> QED BY <1>1, <1>2 DEF RateInv

\* A publication starts the clock of its key, and its record.
LEMMA KeyDated ==
    ASSUME RateInv, NEW lvl \in EventLevels, NEW key \in Keys,
           KeyCanArrive(lvl), HandleJamKey(lvl, key),
           since' = [since EXCEPT ![EventLevel(lvl)][key] = 0]
    PROVE  Dated'
<1> DEFINE level == EventLevel(lvl)
<1>1. level \in Levels
  BY DEF RateInv, IInv, HandleJamKey, KeyAccepted, KeyCanArrive, EventLevel, TypeOK, Levels
<1>2. /\ published_keys' = [published_keys EXCEPT ![level] = RecordAfter(published_keys[level], key)]
      /\ since' = [since EXCEPT ![level][key] = 0]
  BY DEF HandleJamKey
<1>3. TypeOK /\ Dated
  BY DEF RateInv, IInv
<1> HIDE DEF level
<1>4. /\ published_keys'[level].key = key /\ published_keys'[level].count > 0
      /\ published_keys'[level].age = 0
      /\ \A l \in Levels \ {level} : published_keys'[l] = published_keys[l]
  BY <1>1, <1>2, <1>3, RecordAfterType DEF TypeOK, RecordAfter, Levels
<1>5. /\ since' \in [Levels -> [Keys -> 0 .. KeyPublishMinInterval]]
      /\ since'[level][key] = 0
      /\ \A l \in Levels \ {level} : since'[l] = since[l]
      /\ \A k \in Keys \ {key} : since'[level][k] = since[level][k]
  <2>1. since[level] \in [Keys -> 0 .. KeyPublishMinInterval] /\ 0 \in 0 .. KeyPublishMinInterval
    BY <1>1, <1>3 DEF Dated
  <2> DEFINE dated == [since[level] EXCEPT ![key] = 0]
  <2>2. dated \in [Keys -> 0 .. KeyPublishMinInterval] /\ dated[key] = 0
        /\ \A k \in Keys \ {key} : dated[k] = since[level][k]
    BY <2>1
  <2>3. since' = [since EXCEPT ![level] = dated]
    BY <1>2
  <2> HIDE DEF dated
  <2>4. since'[level] = dated /\ \A l \in Levels \ {level} : since'[l] = since[l]
    BY <1>1, <1>3, <2>3 DEF Dated
  <2>5. since' \in [Levels -> [Keys -> 0 .. KeyPublishMinInterval]]
    BY <1>3, <2>2, <2>3 DEF Dated
  <2> QED BY <2>2, <2>4, <2>5
<1>6. \A l \in Levels, k \in Keys : since'[l][k] \in 0 .. KeyPublishMinInterval
  BY <1>5
<1> QED BY <1>1, <1>3, <1>4, <1>5, <1>6 DEF Dated

\* Time ages history and record alike, up to the interval.
LEMMA TickDated ==
    ASSUME RateInv, Tick,
           since' = [l \in Levels |-> [k \in Keys |->
                        Smaller(since[l][k] + 1, KeyPublishMinInterval)]]
    PROVE  Dated'
<1>1. TypeOK /\ Dated
  BY DEF RateInv, IInv
<1>2. \A l \in Levels, k \in Keys :
         /\ since[l][k] \in 0 .. KeyPublishMinInterval
         /\ since'[l][k] = Smaller(since[l][k] + 1, KeyPublishMinInterval)
  BY <1>1 DEF Dated
<1>3. since' \in [Levels -> [Keys -> 0 .. KeyPublishMinInterval]]
  BY <1>2 DEF Smaller
<1>4. \A l \in Levels :
         /\ published_keys[l].age \in 0 .. KeyPublishMinInterval
         /\ published_keys'[l].key = published_keys[l].key
         /\ published_keys'[l].count = published_keys[l].count
         /\ published_keys[l].count > 0 =>
               published_keys'[l].age = Smaller(published_keys[l].age + 1, KeyPublishMinInterval)
  BY <1>1 DEF Tick, Aged, TypeOK, Levels
<1>5. ASSUME NEW l \in Levels, published_keys'[l].key \in Keys
      PROVE  /\ published_keys'[l].count > 0
             /\ since'[l][published_keys'[l].key] = published_keys'[l].age
  BY <1>1, <1>2, <1>4, <1>5 DEF Dated
<1>6. ASSUME NEW l \in Levels, NEW k \in Keys, since'[l][k] < KeyPublishMinInterval
      PROVE  published_keys'[l].key \in Keys /\ published_keys'[l].age <= since'[l][k]
  <2>1. since[l][k] < KeyPublishMinInterval /\ since'[l][k] = since[l][k] + 1
    BY <1>2, <1>6 DEF Smaller
  <2>2. published_keys[l].key \in Keys /\ published_keys[l].age <= since[l][k]
        /\ published_keys[l].count > 0
    BY <1>1, <2>1 DEF Dated
  <2> QED BY <1>2, <1>4, <2>1, <2>2 DEF Smaller
<1> QED BY <1>3, <1>5, <1>6 DEF Dated

\* No other step touches either.
LEMMA RateInductive == RateInv /\ [RateNext]_rateVars => RateInv'
<1> SUFFICES ASSUME RateInv, [RateNext]_rateVars PROVE RateInv'
  OBVIOUS
<1>1. IInv'
  BY RateSteps, ContextSafe, KeySafe, TickSafe, StutterSafe DEF Next, RateInv
<1>2. CASE (\E c \in Contexts : UpdateContext(c) /\ UNCHANGED since) \/ UNCHANGED rateVars
  <2>1. published_keys' = published_keys /\ since' = since
    BY <1>2 DEF UpdateContext, ContextWithoutTeam, AdoptTeam, ContextWithInvalidLevel,
                ContextInInfo, ContextWithLevel, rateVars, vars, controllerVars
  <2> QED BY <1>1, <2>1 DEF RateInv, Dated
<1> QED BY <1>1, <1>2, KeyDated, TickDated DEF RateNext, RateInv

\* What every publication of a key finds: enough time, or another key's record.
LEMMA EarlyAfterAnother ==
    ASSUME RateInv, [RateNext]_rateVars, NEW l \in Levels, NEW k \in Keys,
           Publishes(l, k), since[l][k] < KeyPublishMinInterval
    PROVE  \E other \in Keys \ {k} : since[l][other] <= since[l][k]
<1>1. PICK lvl \in EventLevels : KeyCanArrive(lvl) /\ \E key \in Keys : HandleJamKey(lvl, key)
  <2>1. CASE (\E c \in Contexts : UpdateContext(c) /\ UNCHANGED since) \/ UNCHANGED rateVars
    BY <2>1 DEF Publishes, UpdateContext, ContextWithoutTeam, AdoptTeam,
                ContextWithInvalidLevel, ContextInInfo, ContextWithLevel, rateVars, vars,
                controllerVars
  <2>2. CASE Tick
    <3>1. l \in 0 .. 3 /\ published_keys[l].age \in 0 .. KeyPublishMinInterval
          /\ published_keys'[l] = Aged(published_keys[l])
      BY <2>2 DEF Tick, RateInv, IInv, TypeOK, Levels
    <3>2. published_keys[l].count > 0
      BY DEF RateInv, Dated
    <3>3. published_keys'[l].age > 0
      BY <2>2, <3>1, <3>2 DEF Tick, Aged, Smaller, RateInv, IInv, TypeOK
    <3> QED BY <3>3 DEF Publishes
  <2> QED BY <2>1, <2>2 DEF RateNext
<1>2. PICK key \in Keys : HandleJamKey(lvl, key)
  BY <1>1
<1>3. EventLevel(lvl) \in Levels
  BY <1>1, <1>2 DEF RateInv, IInv, HandleJamKey, KeyAccepted, KeyCanArrive, EventLevel,
                    TypeOK, Levels
<1>4. EventLevel(lvl) = l /\ key = k /\ KeyAccepted(l, k)
  BY <1>2, <1>3, RecordAfterType
     DEF HandleJamKey, Publishes, RateInv, IInv, TypeOK, RecordAfter, Levels
<1> DEFINE last == published_keys[l].key
<1>5. last \in Keys /\ since[l][last] = published_keys[l].age /\ since[l][last] <= since[l][k]
  BY DEF RateInv, Dated
<1>6. last # k
  BY <1>4, <1>5 DEF KeyAccepted, RetryAllowed, RateInv, IInv, TypeOK, Levels
<1> QED BY <1>5, <1>6

\* A key that goes out again within the interval was followed, in between, by
\* another key of its level: the rate limit of the record holds, and only the
\* replaced record lets it be passed.
THEOREM EarlyRepeats == RateSpec => EarlyRepeatOnlyAfterAnotherKey
<1>1. RateInv /\ [RateNext]_rateVars =>
        [\A l \in Levels, k \in Keys :
            Publishes(l, k) /\ since[l][k] < KeyPublishMinInterval =>
               \E other \in Keys \ {k} : since[l][other] <= since[l][k]]_rateVars
  BY EarlyAfterAnother
<1> QED BY <1>1, InitRate, RateInductive, PTL DEF RateSpec, EarlyRepeatOnlyAfterAnotherKey

\* The documented rate does hold as long as only one key can be decoded.
THEOREM OneKeyKeepsRate ==
    (\A k, other \in Keys : k = other) => (RateSpec => SameKeyOncePerInterval)
<1> SUFFICES ASSUME \A k, other \in Keys : k = other
             PROVE  RateSpec => SameKeyOncePerInterval
  OBVIOUS
<1>1. ASSUME RateInv, [RateNext]_rateVars, NEW l \in Levels, NEW k \in Keys, Publishes(l, k)
      PROVE  since[l][k] >= KeyPublishMinInterval
  <2>1. since[l][k] \in 0 .. KeyPublishMinInterval
    BY <1>1 DEF RateInv, Dated
  <2>2. ~ (since[l][k] < KeyPublishMinInterval)
    BY <1>1, EarlyAfterAnother
  <2> QED BY <2>1, <2>2
<1>2. RateInv /\ [RateNext]_rateVars =>
        [\A l \in Levels, k \in Keys :
            Publishes(l, k) => since[l][k] >= KeyPublishMinInterval]_rateVars
  BY <1>1
<1> QED BY <1>2, InitRate, RateInductive, PTL DEF RateSpec, SameKeyOncePerInterval

(***************************************************************************)
(* In a match the controller never runs ahead of the judge, for any        *)
(* contexts, any delay of the fallback topics and any loss of JamCodes.    *)
(***************************************************************************)
USE ColorAssumption

\* A context moves the level only to the one it names.
LEMMA ContextLevel ==
    ASSUME NEW c, UpdateContext(c)
    PROVE  \/ active_level' = active_level
           \/ c.jam_level \in Levels /\ active_level' = Smaller(c.jam_level, MaxJamBreakLevel)
BY DEF UpdateContext, ContextWithoutTeam, ContextWithInvalidLevel, ContextInInfo, ContextWithLevel

\* Both forms of radar_info say the judge's level.
LEMMA RadarInfoLevel ==
    ASSUME NEW l \in Levels
    PROVE  \A raw \in {l * 8, l * 8 + 32} : raw \in Nat /\ RadarInfoToLevel(raw) = l
<1>1. l = 1 \/ l = 2 \/ l = 3
  BY DEF Levels
<1> QED BY <1>1 DEF RadarInfoToLevel

\* What the fallback topics remember is never ahead of the judge either.
NotAhead(level) == level \in Nat /\ level <= judge_level

MatchInv ==
    /\ judge_level \in Levels
    /\ NotAhead(active_level)
    /\ fallback \in [self_id : Int, self_color : Int, raw : Nat, jam_level : Nat]
    /\ NotAhead(fallback.jam_level) /\ NotAhead(RadarInfoToLevel(fallback.raw))

LEMMA InitMatchInv == MatchInit => MatchInv
BY DEF MatchInit, Init, SourcesInit, MatchInv, NotAhead, Levels, RadarInfoToLevel

\* A context whose level is not ahead of the judge keeps the controller there.
LEMMA ContextNotAhead ==
    ASSUME MatchInv, NEW c, UpdateContext(c), c.jam_level \in Levels => NotAhead(c.jam_level)
    PROVE  NotAhead(active_level')
BY ContextLevel DEF MatchInv, NotAhead, Smaller, Levels

\* The same for a message on a fallback topic.
LEMMA FallbackNotAhead ==
    ASSUME MatchInv, NEW f \in [self_id : Int, self_color : Int, raw : Nat, jam_level : Nat],
           NotAhead(f.jam_level), NotAhead(RadarInfoToLevel(f.raw)), fallback' = f,
           UpdateContext(FallbackContext(f)) \/ UNCHANGED vars, judge_level' = judge_level
    PROVE  MatchInv'
<1>1. NotAhead(FallbackContext(f).jam_level)
  BY DEF FallbackContext
<1>2. NotAhead(active_level')
  <2>1. CASE UpdateContext(FallbackContext(f))
    BY <1>1, <2>1, ContextNotAhead
  <2>2. CASE UNCHANGED vars
    BY <2>2 DEF vars, controllerVars, MatchInv
  <2> QED BY <2>1, <2>2
<1> QED BY <1>2 DEF MatchInv, NotAhead

LEMMA NextMatchInv ==
    ASSUME MatchInv, [MatchNext]_matchVars
    PROVE  MatchInv'
<1>1. ASSUME UNCHANGED << active_level, fallback >>,
             judge_level' \in Levels, judge_level' >= judge_level
      PROVE  MatchInv'
  BY <1>1 DEF MatchInv, NotAhead, Levels
<1>2. ASSUME NEW c, UpdateContext(c), NotAhead(active_level'), UNCHANGED << fallback, judge_level >>
      PROVE  MatchInv'
  BY <1>2 DEF MatchInv, NotAhead
<1>3. CASE JudgeContext
  <2>1. PICK c \in Contexts : NamesLevel(c) /\ OnRadarContext(c)
    BY <1>3 DEF JudgeContext
  <2>2. NotAhead(c.jam_level)
    BY <2>1 DEF NamesLevel, MatchInv, NotAhead, Levels
  <2>3. UpdateContext(c) /\ UNCHANGED << fallback, judge_level >>
    BY <1>3, <2>1 DEF JudgeContext, OnRadarContext
  <2> QED BY <1>2, <2>2, <2>3, ContextNotAhead
<1>4. CASE UnusableContext
  <2>1. active_level' = active_level /\ UNCHANGED << fallback, judge_level >>
    BY <1>4 DEF UnusableContext, OnRadarContext, ContextWithoutTeam, ContextWithInvalidLevel
  <2> QED BY <1>1, <2>1 DEF MatchInv, Levels
<1>5. CASE RadarInfo
  <2> DEFINE raw == judge_level * 8 + 32
             f   == [fallback EXCEPT !.raw = raw, !.jam_level = RadarInfoToLevel(raw)]
  <2>1. raw \in Nat /\ RadarInfoToLevel(raw) = judge_level /\ judge_level \in Nat
    BY RadarInfoLevel DEF MatchInv, Levels
  <2>2. /\ fallback' = f /\ judge_level' = judge_level
        /\ UpdateContext(FallbackContext(f)) \/ UNCHANGED vars
    BY <1>5 DEF RadarInfo, OnRadarInfo, PublishFallback, LevelToRadarInfo
  <2> HIDE DEF raw
  <2>3. /\ f \in [self_id : Int, self_color : Int, raw : Nat, jam_level : Nat]
        /\ f.jam_level = judge_level /\ f.raw = raw
    BY <2>1 DEF MatchInv
  <2> HIDE DEF f
  <2>4. NotAhead(f.jam_level) /\ NotAhead(RadarInfoToLevel(f.raw))
    BY <2>1, <2>3 DEF NotAhead
  <2> QED BY <2>2, <2>3, <2>4, FallbackNotAhead
<1>6. CASE MatchInfo
  <2>1. PICK color \in MatchColors :
           \/ OnMatchInfo(color)
           \/ OnMatchInfoWithContext(0, color, judge_level * 8)
    BY <1>6 DEF MatchInfo, LevelToRadarInfo, MatchInv, Levels
  <2>2. judge_level' = judge_level
    BY <1>6 DEF MatchInfo
  <2>3. CASE OnMatchInfo(color)
    <3> DEFINE f == [fallback EXCEPT !.self_id = 0, !.self_color = color]
    <3>1. fallback' = f /\ (UpdateContext(FallbackContext(f)) \/ UNCHANGED vars)
      BY <2>3 DEF OnMatchInfo, PublishFallback
    <3>2. color \in Int
      BY ColorAssumption
    <3>3. /\ f \in [self_id : Int, self_color : Int, raw : Nat, jam_level : Nat]
          /\ f.jam_level = fallback.jam_level /\ f.raw = fallback.raw
      <4> DEFINE g == [fallback EXCEPT !.self_id = 0]
      <4>1. /\ g \in [self_id : Int, self_color : Int, raw : Nat, jam_level : Nat]
            /\ g.jam_level = fallback.jam_level /\ g.raw = fallback.raw
        BY DEF MatchInv
      <4>2. f = [g EXCEPT !.self_color = color]
        OBVIOUS
      <4> HIDE DEF f, g
      <4> QED BY <3>2, <4>1, <4>2
    <3> HIDE DEF f
    <3>4. NotAhead(f.jam_level) /\ NotAhead(RadarInfoToLevel(f.raw))
      BY <3>3 DEF MatchInv
    <3> QED BY <2>2, <3>1, <3>3, <3>4, FallbackNotAhead
  <2>4. CASE OnMatchInfoWithContext(0, color, judge_level * 8)
    <3> DEFINE raw == judge_level * 8
               f   == [self_id |-> 0, self_color |-> color, raw |-> raw,
                       jam_level |-> RadarInfoToLevel(raw)]
    <3>1. raw \in Nat /\ RadarInfoToLevel(raw) = judge_level /\ judge_level \in Nat
      BY RadarInfoLevel DEF MatchInv, Levels
    <3>2. fallback' = f /\ UpdateContext(FallbackContext(f))
      BY <2>4 DEF OnMatchInfoWithContext
    <3> HIDE DEF raw
    <3>3. /\ f \in [self_id : Int, self_color : Int, raw : Nat, jam_level : Nat]
          /\ f.jam_level = judge_level /\ f.raw = raw
      BY <3>1
    <3> HIDE DEF f
    <3>4. NotAhead(f.jam_level) /\ NotAhead(RadarInfoToLevel(f.raw))
      BY <3>1, <3>3 DEF NotAhead
    <3> QED BY <2>2, <3>2, <3>3, <3>4, FallbackNotAhead
  <2> QED BY <2>1, <2>3, <2>4
<1>7. CASE DecodeKey
  <2>1. UNCHANGED << active_level, fallback, judge_level >>
    BY <1>7 DEF DecodeKey, HandleJamKey
  <2> QED BY <1>1, <2>1 DEF MatchInv, Levels
<1>8. CASE DeliverJamCode \/ LoseJamCode
  <2>1. UNCHANGED << active_level, fallback >>
    BY <1>8 DEF DeliverJamCode, LoseJamCode, vars, controllerVars
  <2>2. judge_level' \in Levels /\ judge_level' >= judge_level
    BY <1>8 DEF DeliverJamCode, LoseJamCode, MatchInv, Levels
  <2> QED BY <1>1, <2>1, <2>2
<1>9. CASE Clock \/ UNCHANGED matchVars
  <2>1. UNCHANGED << active_level, fallback, judge_level >>
    BY <1>9 DEF Clock, Tick, matchVars, vars, controllerVars
  <2> QED BY <1>1, <2>1 DEF MatchInv, Levels
<1> QED BY <1>3, <1>4, <1>5, <1>6, <1>7, <1>8, <1>9 DEF MatchNext

\* Whatever JamCodes are lost, repeated or late and however old the level a
\* fallback topic completes its context with, the controller works on no
\* level the judge has not reached.
THEOREM LevelFollowsJudge == MatchSpec => []NeverAheadOfJudge
<1>1. MatchInv /\ [MatchNext]_matchVars => MatchInv'
  BY NextMatchInv
<1>2. MatchInv => NeverAheadOfJudge
  BY DEF MatchInv, NotAhead, NeverAheadOfJudge
<1> QED BY <1>1, <1>2, InitMatchInv, PTL DEF MatchSpec
=============================================================================

------------------------ MODULE WrapperThreads_proofs ------------------------
(***************************************************************************)
(* Whatever the two threads of the wrapper do between each other's         *)
(* accesses, no key goes out ahead of the judge.                           *)
(***************************************************************************)
EXTENDS WrapperThreads, TLAPS

USE MaxLevelAssumption, CountCapAssumption, EventAssumption

KeyRecord == [key : Keys \cup {NoKey} \cup 0 .. 3, count : Nat, age : Int]
RosPlaces == {"idle", "noTeam", "readPhase", "writeLevel", "writeWait", "writeJam",
              "writeDesired", "setTeam", "setTarget"}
RxPlaces  == {"config", "configTeam", "gate", "emit", "checkLevel", "checkPhase", "record",
              "phase", "desired", "publish", "retune"}
RosThread == [pc : RosPlaces, level : 0 .. 3, team : Teams \cup {None},
              target : Targets \cup {None}]
RxThread  == [pc : RxPlaces, tuned : Targets \cup {None}, origin : 0 .. 3, level : 0 .. 3,
              retune : BOOLEAN]

ThreadTypes ==
    /\ judge_level \in Levels
    /\ active_level \in 0 .. 3
    /\ published_keys \in [0 .. 3 -> KeyRecord]
    /\ receiver \in [team : Teams, target : Targets]
    /\ ros \in RosThread
    /\ rx \in RxThread

NotAhead(level) == level <= judge_level /\ level <= MaxJamBreakLevel

\* A level one of the threads carries along was the judge's when it was read,
\* and the judge never goes back.
RosNotAhead == ros.pc # "idle" => ros.level \in Levels /\ NotAhead(ros.level)
RxNotAhead  == rx.pc \in {"checkPhase", "record", "phase"} => NotAhead(rx.level)

\* The phase is written after the record.
PhaseAfterRecord == rx.pc = "phase" => HasPublishedLevel(rx.level)

ThreadInv ==
    /\ ThreadTypes
    /\ NotAhead(active_level)
    /\ RosNotAhead /\ RxNotAhead
    /\ PhaseAfterRecord
    /\ NoLevelAheadOfJudge

LEMMA InitThreadInv == ThreadInit => ThreadInv
<1> SUFFICES ASSUME ThreadInit PROVE ThreadInv
  OBVIOUS
<1> USE DEF ThreadInit, Init, RosIdle, RxStart, None, Levels
<1>1. published_keys \in [0 .. 3 -> KeyRecord] /\ \A l \in 0 .. 3 : published_keys[l].count = 0
  BY DEF KeyRecord, EmptyRecord
<1>2. ThreadTypes
  BY <1>1 DEF ThreadTypes, RosThread, RxThread, RosPlaces, RxPlaces
<1> QED
  BY <1>1, <1>2 DEF ThreadInv, ThreadTypes, NotAhead, RosNotAhead, RxNotAhead, PhaseAfterRecord,
                    NoLevelAheadOfJudge, HasPublishedLevel

\* A step of the ROS thread, or of the world, writes no key record and starts
\* no INFO phase: what it may disturb is named here.
LEMMA KeysUntouched ==
    ASSUME ThreadInv, ThreadTypes', NotAhead(active_level)', RosNotAhead',
           UNCHANGED << published_keys, rx >>, judge_level' >= judge_level,
           state' = state \/ state' # "INFO"
    PROVE  ThreadInv'
<1>1. judge_level \in Nat /\ judge_level' \in Nat /\ rx' = rx /\ rx.level \in 0 .. 3
  BY DEF ThreadInv, ThreadTypes, RxThread, Levels
<1>2. \A l \in Levels : HasPublishedLevel(l)' = HasPublishedLevel(l)
  BY DEF HasPublishedLevel
<1>3. NoLevelAheadOfJudge'
  <2>1. \A l \in Levels : HasPublishedLevel(l)' => l <= judge_level'
    BY <1>1, <1>2 DEF ThreadInv, NoLevelAheadOfJudge, Levels
  <2>2. (state = "INFO")' => HasPublishedLevel(MaxJamBreakLevel)'
    BY <1>2 DEF ThreadInv, NoLevelAheadOfJudge
  <2> QED BY <2>1, <2>2 DEF NoLevelAheadOfJudge
<1>4. RxNotAhead'
  BY <1>1 DEF ThreadInv, RxNotAhead, NotAhead, Levels
<1>5. PhaseAfterRecord'
  BY <1>1 DEF ThreadInv, PhaseAfterRecord, HasPublishedLevel
<1> QED BY <1>3, <1>4, <1>5 DEF ThreadInv

\* A step of the receiver thread that only moves the thread.
LEMMA RxMoves ==
    ASSUME ThreadInv, rx' \in RxThread, rx'.pc # "phase",
           rx'.pc \in {"checkPhase", "record"} => NotAhead(rx'.level),
           UNCHANGED << active_level, published_keys, ros, judge_level >>,
           receiver' \in [team : Teams, target : Targets],
           state' = state \/ state' # "INFO" \/ HasPublishedLevel(MaxJamBreakLevel)
    PROVE  ThreadInv'
BY DEF ThreadInv, ThreadTypes, NotAhead, RosNotAhead, RxNotAhead, PhaseAfterRecord,
       NoLevelAheadOfJudge, HasPublishedLevel

\* The step to another place keeps what the thread carries along.
LEMMA RxGoes ==
    ASSUME rx \in RxThread, NEW p \in RxPlaces, RxGo(p)
    PROVE  rx' \in RxThread /\ rx'.pc = p /\ rx'.level = rx.level
BY DEF RxThread, RxGo

LEMMA RxReturns ==
    ASSUME RxAgain
    PROVE  rx' \in RxThread /\ rx'.pc = "config"
BY DEF RxThread, RxPlaces, RxAgain, RxStart

\* A context is taken with the judge's level, and only that level is written.
LEMMA RosStepKeepsInv ==
    ASSUME ThreadInv, (\E c \in Contexts : RosContext(c)) \/ RosStep
    PROVE  ThreadInv'
<1> USE DEF RosAt
<1>0. ThreadTypes /\ ros \in RosThread /\ NotAhead(active_level) /\ RosNotAhead
  BY DEF ThreadInv, ThreadTypes
<1>1. ASSUME UNCHANGED << active_level, published_keys, receiver, rx, judge_level >>,
             state' = state \/ state' # "INFO",
             ros' \in RosThread, RosNotAhead'
      PROVE  ThreadInv'
  <2>1. ThreadTypes' /\ NotAhead(active_level)'
    BY <1>0, <1>1 DEF ThreadTypes, NotAhead
  <2> QED BY <1>1, <2>1, KeysUntouched DEF ThreadTypes, Levels
<1>2. CASE \E c \in Contexts : RosContext(c)
  <2>1. PICK c \in Contexts : RosContext(c)
    BY <1>2
  <2>2. ros'.level \in Levels /\ NotAhead(ros'.level) /\ judge_level' = judge_level
    BY <1>0, <2>1 DEF RosContext, ThreadTypes, Smaller, NotAhead, Levels
  <2>3. ros' \in RosThread
    BY <1>0, <2>1, <2>2 DEF RosContext, RosThread, RosPlaces, Teams, OpponentTeam, Levels
  <2> QED BY <1>1, <2>1, <2>2, <2>3 DEF RosContext, RosNotAhead, NotAhead
<1>3. CASE RosNoTeam
  <2>1. ros' \in RosThread /\ ros'.pc = "idle"
    BY <1>3 DEF RosNoTeam, RosIdle, RosThread, RosPlaces
  <2> QED BY <1>1, <1>3, <2>1 DEF RosNoTeam, RosNotAhead
<1>4. CASE RosReadPhase
  <2>1. ros.level \in Levels
    BY <1>0, <1>4 DEF RosReadPhase, RosNotAhead
  <2>2. JamTarget[ros.level] \in Targets
    BY <2>1 DEF JamTarget, Levels, Targets
  <2>3. ros' \in RosThread /\ ros'.level = ros.level
    BY <1>0, <1>4, <2>2 DEF RosReadPhase, RosThread, RosPlaces, Targets
  <2> QED BY <1>0, <1>1, <1>4, <2>1, <2>3
          DEF RosReadPhase, RosNotAhead, NotAhead, vars, controllerVars
<1>5. CASE RosWriteLevel
  <2>1. ros.level \in Levels /\ NotAhead(ros.level)
    BY <1>0, <1>5 DEF RosWriteLevel, RosNotAhead
  <2>2. ros' \in RosThread /\ ros'.level = ros.level
    BY <1>0, <1>5 DEF RosWriteLevel, RosThread, RosPlaces
  <2>3. NotAhead(active_level)' /\ RosNotAhead'
    BY <1>5, <2>1, <2>2 DEF RosWriteLevel, RosNotAhead, NotAhead
  <2>4. ThreadTypes'
    BY <1>0, <1>5, <2>1, <2>2 DEF RosWriteLevel, ThreadTypes, Levels
  <2> QED BY <1>5, <2>3, <2>4, KeysUntouched DEF RosWriteLevel, ThreadTypes, Levels
<1>6. CASE RosWriteState
  <2>1. ros' \in RosThread /\ ros'.level = ros.level
    BY <1>0, <1>6 DEF RosWriteState, RosThread, RosPlaces
  <2>2. ros.level \in Levels /\ NotAhead(ros.level)
    BY <1>0, <1>6 DEF RosWriteState, RosNotAhead
  <2>3. state' # "INFO"
    BY <1>6, <2>2 DEF RosWriteState, WaitStateForNextLevel, JamState, Levels
  <2> QED BY <1>1, <1>6, <2>1, <2>2, <2>3 DEF RosWriteState, RosNotAhead, NotAhead
<1>7. CASE RosWriteDesired
  <2>1. ros' \in RosThread /\ ros'.level = ros.level
    BY <1>0, <1>7 DEF RosWriteDesired, RosThread, RosPlaces
  <2> QED BY <1>0, <1>1, <1>7, <2>1 DEF RosWriteDesired, RosNotAhead, NotAhead
<1>8. CASE RosSetTeam \/ RosSetTarget
  <2>1. RosSetTeam => ros' \in RosThread /\ RosNotAhead'
    <3> HAVE RosSetTeam
    <3>1. ros' \in RosThread /\ ros'.level = ros.level
      BY <1>0 DEF RosSetTeam, RosThread, RosPlaces
    <3> QED BY <1>0, <3>1 DEF RosSetTeam, RosNotAhead, NotAhead
  <2>2. RosSetTarget => ros' \in RosThread /\ RosNotAhead'
    <3> HAVE RosSetTarget
    <3>1. ros' \in RosThread /\ ros'.pc = "idle"
      BY DEF RosSetTarget, RosIdle, RosThread, RosPlaces
    <3> QED BY <3>1 DEF RosNotAhead
  <2>3. receiver' \in [team : Teams, target : Targets]
    <3>1. /\ receiver \in [team : Teams, target : Targets]
          /\ ros.team # None => ros.team \in Teams
          /\ ros.target # None => ros.target \in Targets
      BY <1>0 DEF ThreadTypes, RosThread
    <3> QED BY <1>8, <3>1 DEF RosSetTeam, RosSetTarget
  <2>4. /\ UNCHANGED << active_level, published_keys, rx, judge_level, state >>
    BY <1>8 DEF RosSetTeam, RosSetTarget, controllerVars
  <2>5. ros' \in RosThread /\ RosNotAhead'
    BY <1>8, <2>1, <2>2
  <2>6. ThreadTypes' /\ NotAhead(active_level)'
    BY <1>0, <2>3, <2>4, <2>5 DEF ThreadTypes, NotAhead
  <2> QED BY <2>4, <2>5, <2>6, KeysUntouched DEF ThreadTypes, Levels
<1> QED BY <1>2, <1>3, <1>4, <1>5, <1>6, <1>7, <1>8 DEF RosStep

\* The level of a key is the controller's active level when it is checked; the
\* record is written before the phase that depends on it.
LEMMA RxStepKeepsInv ==
    ASSUME ThreadInv, RxStep
    PROVE  ThreadInv'
<1> USE DEF RxAt
<1>0. /\ ThreadTypes /\ rx \in RxThread /\ receiver \in [team : Teams, target : Targets]
      /\ NotAhead(active_level) /\ RxNotAhead
  BY DEF ThreadInv, ThreadTypes
<1>1. ASSUME RxAgain, UNCHANGED << active_level, published_keys, ros, judge_level, state >>,
             receiver' \in [team : Teams, target : Targets]
      PROVE  ThreadInv'
  BY <1>1, RxReturns, RxMoves
<1>2. CASE RxConfigTarget
  <2>1. rx' \in RxThread /\ rx'.pc = "configTeam"
    BY <1>0, <1>2 DEF RxConfigTarget, RxThread, RxPlaces
  <2> QED BY <1>0, <1>2, <2>1, RxMoves DEF RxConfigTarget, vars, controllerVars
<1>3. CASE RxDecode
  <2>1. rx' \in RxThread /\ rx'.pc = "gate"
    <3>1. rx' = [rx EXCEPT !.pc = "gate", !.origin = judge_level] /\ judge_level \in 0 .. 3
      BY <1>0, <1>3 DEF RxDecode, ThreadTypes, Levels
    <3> QED BY <1>0, <3>1 DEF RxThread, RxPlaces
  <2> QED BY <1>0, <1>3, <2>1, RxMoves DEF RxDecode, vars, controllerVars
<1>4. CASE RxNothing
  BY <1>0, <1>1, <1>4 DEF RxNothing, vars, controllerVars
<1>5. CASE \E strong \in BOOLEAN : RxGate(strong)
  <2>1. /\ RxGo("emit") \/ RxAgain
        /\ UNCHANGED << active_level, published_keys, ros, judge_level, state, receiver >>
    BY <1>5 DEF RxGate, vars, controllerVars
  <2>2. CASE RxGo("emit")
    BY <1>0, <2>1, <2>2, RxGoes, RxMoves DEF RxPlaces
  <2> QED BY <1>0, <1>1, <2>1, <2>2
<1>6. CASE RxEmit
  <2>1. rx' \in RxThread /\ rx'.pc = "checkLevel"
    <3>1. PICK encrypt_lvl \in EventLevels :
             rx' = [rx EXCEPT !.pc = "checkLevel",
                              !.level = IF LevelOf(receiver.target) # 0
                                        THEN LevelOf(receiver.target) ELSE encrypt_lvl]
      BY <1>6 DEF RxEmit
    <3> DEFINE level == IF LevelOf(receiver.target) # 0 THEN LevelOf(receiver.target) ELSE encrypt_lvl
    <3>2. level \in 0 .. 3 /\ rx' = [rx EXCEPT !.pc = "checkLevel", !.level = level]
      BY <3>1 DEF LevelOf
    <3> HIDE DEF level
    <3> QED BY <1>0, <3>2 DEF RxThread, RxPlaces
  <2> QED BY <1>0, <1>6, <2>1, RxMoves DEF RxEmit, vars, controllerVars
<1>7. CASE RxCheckLevel
  <2>1. UNCHANGED << active_level, published_keys, ros, judge_level, state, receiver >>
    BY <1>7 DEF RxCheckLevel, vars, controllerVars
  <2>2. CASE RxAgain
    BY <1>0, <1>1, <2>1, <2>2
  <2>3. CASE rx' = [rx EXCEPT !.pc = "checkPhase", !.level = active_level]
    <3>1. rx' \in RxThread /\ rx'.pc = "checkPhase" /\ rx'.level = active_level
      BY <1>0, <2>3 DEF RxThread, RxPlaces, ThreadTypes
    <3> QED BY <1>0, <2>1, <3>1, RxMoves DEF NotAhead
  <2> QED BY <1>7, <2>2, <2>3 DEF RxCheckLevel
<1>8. CASE RxCheckPhase
  <2>1. /\ RxGo("record") \/ RxAgain
        /\ UNCHANGED << active_level, published_keys, ros, judge_level, state, receiver >>
        /\ NotAhead(rx.level)
    BY <1>0, <1>8 DEF RxCheckPhase, RxNotAhead, vars, controllerVars
  <2>2. CASE RxGo("record")
    <3>1. rx' \in RxThread /\ rx'.pc = "record" /\ rx'.level = rx.level
      BY <1>0, <2>2, RxGoes DEF RxPlaces
    <3> QED BY <1>0, <2>1, <3>1, RxMoves DEF NotAhead
  <2> QED BY <1>0, <1>1, <2>1, <2>2
<1>9. CASE RxRecord
  <2> DEFINE record == RecordAfter(published_keys[rx.level], rx.origin)
  <2>1. /\ published_keys' = [published_keys EXCEPT ![rx.level] = record]
        /\ RxGo("phase")
        /\ UNCHANGED << active_level, judge_level, ros, state, receiver >>
    BY <1>9 DEF RxRecord
  <2>2. rx' \in RxThread /\ rx'.pc = "phase" /\ rx'.level = rx.level
    BY <1>0, <2>1, RxGoes DEF RxPlaces
  <2>3. NotAhead(rx.level) /\ rx.level \in 0 .. 3 /\ rx.origin \in 0 .. 3
    BY <1>0, <1>9 DEF RxRecord, RxNotAhead, RxThread
  <2>4. record \in KeyRecord /\ record.count > 0
    <3>1. published_keys[rx.level].count \in Nat
      BY <1>0, <2>3 DEF ThreadTypes, KeyRecord
    <3> QED BY <2>3, <3>1 DEF RecordAfter, KeyRecord, Smaller
  <2> HIDE DEF record
  <2>5. ThreadTypes'
    BY <1>0, <2>1, <2>2, <2>3, <2>4 DEF ThreadTypes
  <2>6. /\ published_keys'[rx.level].count > 0
        /\ \A l \in (0 .. 3) \ {rx.level} : published_keys'[l] = published_keys[l]
    BY <1>0, <2>1, <2>3, <2>4 DEF ThreadTypes
  <2>7. NoLevelAheadOfJudge'
    <3>1. \A l \in Levels : HasPublishedLevel(l) => l <= judge_level
      BY DEF ThreadInv, NoLevelAheadOfJudge
    <3>2. \A l \in Levels : HasPublishedLevel(l)' => l <= judge_level'
      BY <2>1, <2>3, <2>6, <3>1 DEF HasPublishedLevel, NotAhead, Levels
    <3>3. (state = "INFO")' => HasPublishedLevel(MaxJamBreakLevel)'
      BY <2>1, <2>6 DEF ThreadInv, NoLevelAheadOfJudge, HasPublishedLevel, Levels
    <3> QED BY <3>2, <3>3 DEF NoLevelAheadOfJudge
  <2> QED BY <1>0, <2>1, <2>2, <2>3, <2>5, <2>6, <2>7
          DEF ThreadInv, NotAhead, RosNotAhead, RxNotAhead, PhaseAfterRecord, HasPublishedLevel
<1>10. CASE RxPhase
  <2>1. NotAhead(rx.level) /\ HasPublishedLevel(rx.level) /\ rx.level \in 0 .. 3
    BY <1>0, <1>10 DEF RxPhase, RxNotAhead, ThreadInv, PhaseAfterRecord, RxThread
  <2>2. state' # "INFO" \/ HasPublishedLevel(MaxJamBreakLevel)
    BY <1>10, <2>1 DEF RxPhase, WaitStateForNextLevel, NotAhead, Levels
  <2>3. RxGo("desired") \/ RxGo("publish")
    BY <1>10 DEF RxPhase
  <2>4. rx' \in RxThread /\ rx'.pc \in {"desired", "publish"}
    BY <1>0, <2>3, RxGoes DEF RxPlaces
  <2> QED BY <1>0, <1>10, <2>2, <2>4, RxMoves DEF RxPhase
<1>11. CASE RxDesired
  <2>1. rx' \in RxThread /\ rx'.pc = "publish"
    BY <1>0, <1>11 DEF RxDesired, RxThread, RxPlaces
  <2> QED BY <1>0, <1>11, <2>1, RxMoves DEF RxDesired
<1>12. CASE RxPublish
  <2>1. rx' \in RxThread /\ rx'.pc = "retune"
    BY <1>0, <1>12, RxGoes DEF RxPublish, RxPlaces
  <2> QED BY <1>0, <1>12, <2>1, RxMoves DEF RxPublish, vars, controllerVars
<1>13. CASE RxRetune
  <2>1. receiver' \in [team : Teams, target : Targets]
    BY <1>0, <1>13 DEF RxRetune, Targets
  <2> QED BY <1>1, <1>13, <2>1 DEF RxRetune, controllerVars
<1> QED BY <1>2, <1>3, <1>4, <1>5, <1>6, <1>7, <1>8, <1>9, <1>10, <1>11, <1>12, <1>13 DEF RxStep

LEMMA NextThreadInv ==
    ASSUME ThreadInv, [ThreadNext]_threadVars
    PROVE  ThreadInv'
<1>1. CASE (\E c \in Contexts : RosContext(c)) \/ RosStep
  BY <1>1, RosStepKeepsInv
<1>2. CASE RxStep
  BY <1>2, RxStepKeepsInv
<1>3. CASE JudgeRaisesLevel
  <2>1. /\ UNCHANGED << active_level, published_keys, receiver, ros, rx, state >>
        /\ judge_level' = judge_level + 1 /\ judge_level' \in Levels
    BY <1>3 DEF JudgeRaisesLevel, vars, controllerVars, ThreadInv, ThreadTypes, Levels
  <2>2. ThreadTypes' /\ NotAhead(active_level)' /\ RosNotAhead'
    BY <2>1 DEF ThreadInv, ThreadTypes, NotAhead, RosNotAhead, Levels
  <2> QED BY <2>1, <2>2, KeysUntouched DEF ThreadInv, ThreadTypes, Levels
<1>4. CASE Time
  <2>1. /\ UNCHANGED << active_level, receiver, ros, rx, state, judge_level >>
        /\ published_keys' = [l \in 0 .. 3 |-> Aged(published_keys[l])]
    BY <1>4 DEF Time, Tick
  <2>2. \A l \in 0 .. 3 : /\ Aged(published_keys[l]) \in KeyRecord
                          /\ Aged(published_keys[l]).count = published_keys[l].count
    BY IntervalAssumption DEF ThreadInv, ThreadTypes, KeyRecord, Aged, Smaller
  <2>3. \A l \in 0 .. 3 : HasPublishedLevel(l)' = HasPublishedLevel(l)
    BY <2>1, <2>2 DEF HasPublishedLevel
  <2>4. ThreadTypes'
    BY <2>1, <2>2 DEF ThreadInv, ThreadTypes
  <2>5. NoLevelAheadOfJudge' /\ PhaseAfterRecord'
    BY <2>1, <2>3 DEF ThreadInv, ThreadTypes, RxThread, NoLevelAheadOfJudge, PhaseAfterRecord, Levels
  <2> QED BY <2>1, <2>4, <2>5 DEF ThreadInv, NotAhead, RosNotAhead, RxNotAhead
<1>5. CASE UNCHANGED threadVars
  BY <1>5 DEF threadVars, vars, controllerVars, ThreadInv, ThreadTypes, NotAhead, RosNotAhead,
              RxNotAhead, PhaseAfterRecord, NoLevelAheadOfJudge, HasPublishedLevel
<1> QED BY <1>1, <1>2, <1>3, <1>4, <1>5 DEF ThreadNext

\* However the two threads interleave, and wherever the target moves between
\* the samples and the tag, no key goes out for a level the judge has not
\* named, and INFO begins only with a recorded final key.
THEOREM ThreadsFollowJudge == ThreadSpec => []NoLevelAheadOfJudge
<1>1. ThreadInv /\ [ThreadNext]_threadVars => ThreadInv'
  BY NextThreadInv
<1>2. ThreadInv => NoLevelAheadOfJudge
  BY DEF ThreadInv
<1> QED BY <1>1, <1>2, InitThreadInv, PTL DEF ThreadSpec
=============================================================================

---------------------------- MODULE WrapperThreads ----------------------------
(***************************************************************************)
(* The two threads of the Python wrapper, one access of shared state per   *)
(* step.  The ROS executor thread runs receiver_node._accept_context; the  *)
(* receiver thread runs the v67 main loop, whose patched                   *)
(* validate_and_parse calls receiver_node._on_jam_key.  They share the     *)
(* CompetitionController, which has no lock, and the core's TUNE_CFG,      *)
(* which the adapter writes under a lock the core never takes.             *)
(*                                                                         *)
(* The judge and the opponent are external: the key of level l is written  *)
(* l, and the judge goes one level up once it has been given that key.     *)
(***************************************************************************)
EXTENDS CompetitionController

VARIABLES
    ros,         \* the ROS thread: its place and what it carries along
    rx,          \* the receiver thread, likewise
    given,       \* levels whose own key went out in a JamCode
    judge_level

threadVars == << vars, ros, rx, given, judge_level >>

RosIdle == [pc |-> "idle", level |-> 0, team |-> None, target |-> None]
RxStart == [pc |-> "config", tuned |-> None, origin |-> 0, level |-> 0, retune |-> FALSE]

RosAt(p) == ros.pc = p
RxAt(p)  == rx.pc = p

\* The receiver thread moves on / returns to the top of the main loop.
RxGo(p)  == rx' = [rx EXCEPT !.pc = p]
RxAgain  == rx' = RxStart

LevelOf(target) ==
    IF target = "L1" THEN 1 ELSE IF target = "L2" THEN 2 ELSE IF target = "L3" THEN 3 ELSE 0

(***************************************************************************)
(* ROS thread: update_context, then _apply_controller_decision             *)
(***************************************************************************)
\* latest_context and the two team fields are written before anything the
\* other thread writes is read.
RosContext(c) ==
    /\ RosAt("idle")
    /\ c.jam_level = judge_level
    /\ latest_context' = c
    /\ LET own  == OwnTeamFromContext(c)
           team == IF own = None THEN rx_team ELSE OpponentTeam(own)
       IN /\ own_team' = IF own = None THEN own_team ELSE own
          /\ rx_team' = team
          /\ ros' = [pc     |-> IF own = None THEN "noTeam" ELSE "readPhase",
                     level  |-> Smaller(c.jam_level, MaxJamBreakLevel),
                     team   |-> IF team # rx_team THEN team ELSE None,
                     target |-> None]
    /\ UNCHANGED << state, active_level, completed_level, desired_target,
                    published_keys, receiver, rx, given, judge_level >>

RosNoTeam ==
    /\ RosAt("noTeam")
    /\ state' = "WAIT_CONTEXT"
    /\ ros' = RosIdle
    /\ UNCHANGED << own_team, rx_team, active_level, completed_level, desired_target,
                    latest_context, published_keys, receiver, rx, given, judge_level >>

\* self.state == INFO is tested here, and acted on some steps later.
RosReadPhase ==
    /\ RosAt("readPhase")
    /\ ros' = IF state = "INFO" /\ completed_level >= MaxJamBreakLevel
              THEN [ros EXCEPT !.pc = "writeDesired", !.target = "INFO"]
              ELSE [ros EXCEPT !.pc = "writeLevel", !.target = JamTarget[ros.level]]
    /\ UNCHANGED << vars, rx, given, judge_level >>

RosWriteLevel ==
    /\ RosAt("writeLevel")
    /\ active_level' = ros.level
    /\ ros' = [ros EXCEPT !.pc = IF HasPublishedLevel(ros.level) /\ ros.level < MaxJamBreakLevel
                                 THEN "writeWait" ELSE "writeJam"]
    /\ UNCHANGED << state, own_team, rx_team, completed_level, desired_target,
                    latest_context, published_keys, receiver, rx, given, judge_level >>

RosWriteState ==
    /\ \/ RosAt("writeWait") /\ state' = WaitStateForNextLevel(ros.level)
       \/ RosAt("writeJam") /\ state' = JamState[ros.level]
    /\ ros' = [ros EXCEPT !.pc = "writeDesired"]
    /\ UNCHANGED << own_team, rx_team, active_level, completed_level, desired_target,
                    latest_context, published_keys, receiver, rx, given, judge_level >>

\* _set_desired_target keeps only a change.
RosWriteDesired ==
    /\ RosAt("writeDesired")
    /\ desired_target' = ros.target
    /\ ros' = [ros EXCEPT !.pc = "setTeam",
                          !.target = IF ros.target = desired_target THEN None ELSE ros.target]
    /\ UNCHANGED << state, own_team, rx_team, active_level, completed_level,
                    latest_context, published_keys, receiver, rx, given, judge_level >>

\* adapter.set_team and adapter.set_target take the lock separately.
RosSetTeam ==
    /\ RosAt("setTeam")
    /\ receiver' = IF ros.team # None THEN [receiver EXCEPT !.team = ros.team] ELSE receiver
    /\ ros' = [ros EXCEPT !.pc = "setTarget"]
    /\ UNCHANGED << controllerVars, rx, given, judge_level >>

RosSetTarget ==
    /\ RosAt("setTarget")
    /\ receiver' = IF ros.target # None THEN [receiver EXCEPT !.target = ros.target] ELSE receiver
    /\ ros' = RosIdle
    /\ UNCHANGED << controllerVars, rx, given, judge_level >>

RosStep == RosNoTeam \/ RosReadPhase \/ RosWriteLevel \/ RosWriteState
           \/ RosWriteDesired \/ RosSetTeam \/ RosSetTarget

(***************************************************************************)
(* Receiver thread: main() of the core                                     *)
(***************************************************************************)
\* apply_sdr_config reads TARGET, then TEAM; a changed configuration empties
\* the bit pools, so every frame below comes from the configuration read here.
RxConfigTarget ==
    /\ RxAt("config")
    /\ rx' = [rx EXCEPT !.pc = "configTeam", !.tuned = receiver.target]
    /\ UNCHANGED << vars, ros, given, judge_level >>

\* sdr.rx() and fast_demod: the opponent transmits the current level's key.
RxDecode ==
    /\ RxAt("configTeam")
    /\ receiver.team = rx_team /\ LevelOf(rx.tuned) = judge_level
    /\ rx' = [rx EXCEPT !.pc = "gate", !.origin = judge_level]
    /\ UNCHANGED << vars, ros, given, judge_level >>

RxNothing ==
    /\ RxAt("configTeam")
    /\ RxAgain
    /\ UNCHANGED << vars, ros, given, judge_level >>

\* jam_rf_gate_status looks at TARGET again: a frame passes unless a strong
\* classification names another level than the one tuned to by now.
RxGate(strong) ==
    /\ RxAt("gate")
    /\ IF LevelOf(receiver.target) # 0 /\ (strong => LevelOf(receiver.target) = rx.origin)
       THEN RxGo("emit") ELSE RxAgain
    /\ UNCHANGED << vars, ros, given, judge_level >>

\* _emit_parse_event tags the key with the level of the target of the moment,
\* or with the encryption level last heard of when that is no jam target.
RxEmit ==
    /\ RxAt("emit")
    /\ \E encrypt_lvl \in EventLevels :
          rx' = [rx EXCEPT !.pc = "checkLevel",
                           !.level = IF LevelOf(receiver.target) # 0
                                     THEN LevelOf(receiver.target) ELSE encrypt_lvl]
    /\ UNCHANGED << vars, ros, given, judge_level >>

RxCheckLevel ==
    /\ RxAt("checkLevel")
    /\ LET level == EventLevel(rx.level) IN
       IF rx_team # None /\ latest_context # NoContext /\ level = active_level
       THEN rx' = [rx EXCEPT !.pc = "checkPhase", !.level = level]
       ELSE RxAgain
    /\ UNCHANGED << vars, ros, given, judge_level >>

\* Mutant: the first key of a level wins.
RxFirstKeyWins ==
    /\ RxAt("checkPhase")
    /\ IF state # "INFO" /\ published_keys[rx.level].count = 0
       THEN RxGo("record") ELSE RxAgain
    /\ UNCHANGED << vars, ros, given, judge_level >>

RxCheckPhase ==
    /\ RxAt("checkPhase")
    /\ IF /\ state # "INFO"
          /\ published_keys[rx.level].key = rx.origin => RetryAllowed(published_keys[rx.level])
       THEN RxGo("record") ELSE RxAgain
    /\ UNCHANGED << vars, ros, given, judge_level >>

\* Only this thread writes the records and completed_level.
RxRecord ==
    /\ RxAt("record")
    /\ published_keys' = [published_keys EXCEPT ![rx.level] =
                             RecordAfter(published_keys[rx.level], rx.origin)]
    /\ completed_level' = Larger(completed_level, rx.level)
    /\ RxGo("phase")
    /\ UNCHANGED << state, own_team, rx_team, active_level, desired_target,
                    latest_context, receiver, ros, given, judge_level >>

\* Mutant: INFO one level early.
RxPhaseEarly ==
    /\ RxAt("phase")
    /\ IF rx.level + 1 >= MaxJamBreakLevel
       THEN state' = "INFO" /\ RxGo("desired")
       ELSE state' = WaitStateForNextLevel(rx.level) /\ RxGo("publish")
    /\ UNCHANGED << own_team, rx_team, active_level, completed_level, desired_target,
                    latest_context, published_keys, receiver, ros, given, judge_level >>

RxPhase ==
    /\ RxAt("phase")
    /\ IF rx.level >= MaxJamBreakLevel
       THEN state' = "INFO" /\ RxGo("desired")
       ELSE state' = WaitStateForNextLevel(rx.level) /\ RxGo("publish")
    /\ UNCHANGED << own_team, rx_team, active_level, completed_level, desired_target,
                    latest_context, published_keys, receiver, ros, given, judge_level >>

RxDesired ==
    /\ RxAt("desired")
    /\ desired_target' = "INFO"
    /\ rx' = [rx EXCEPT !.pc = "publish", !.retune = desired_target # "INFO"]
    /\ UNCHANGED << state, own_team, rx_team, active_level, completed_level,
                    latest_context, published_keys, receiver, ros, given, judge_level >>

\* The decision is made; now the JamCode goes out, and only then the target moves.
RxPublish ==
    /\ RxAt("publish")
    /\ given' = IF rx.level = rx.origin THEN given \cup {rx.level} ELSE given
    /\ RxGo("retune")
    /\ UNCHANGED << vars, ros, judge_level >>

\* Mutant: the changed target is not passed on.
RxNoRetune ==
    /\ RxAt("retune")
    /\ RxAgain
    /\ UNCHANGED << vars, ros, given, judge_level >>

RxRetune ==
    /\ RxAt("retune")
    /\ receiver' = IF rx.retune THEN [receiver EXCEPT !.target = "INFO"] ELSE receiver
    /\ RxAgain
    /\ UNCHANGED << controllerVars, ros, given, judge_level >>

RxStep == RxConfigTarget \/ RxDecode \/ RxNothing \/ (\E strong \in BOOLEAN : RxGate(strong))
          \/ RxEmit \/ RxCheckLevel \/ RxCheckPhase \/ RxRecord \/ RxPhase \/ RxDesired
          \/ RxPublish \/ RxRetune

(***************************************************************************)
(* Environment                                                             *)
(***************************************************************************)
JudgeRaisesLevel ==
    /\ judge_level < 3
    /\ judge_level \in given
    /\ judge_level' = judge_level + 1
    /\ UNCHANGED << vars, ros, rx, given >>

Time == Tick /\ UNCHANGED << ros, rx, given, judge_level >>

ThreadInit == Init /\ ros = RosIdle /\ rx = RxStart
              /\ given = {} /\ judge_level = 1

ThreadNext == (\E c \in Contexts : RosContext(c)) \/ RosStep \/ RxStep
              \/ JudgeRaisesLevel \/ Time

\* Both threads run, usable contexts keep coming, time passes, the judge answers
\* the key it waits for, and frames keep being decodable.
ThreadFairness ==
    /\ SF_threadVars(\E c \in Contexts : OwnTeamFromContext(c) # None /\ RosContext(c))
    /\ WF_threadVars(RosStep) /\ WF_threadVars(RxStep)
    /\ SF_threadVars(RxDecode)
    /\ WF_threadVars(JudgeRaisesLevel) /\ WF_threadVars(Time)

ThreadSpec == ThreadInit /\ [][ThreadNext]_threadVars /\ ThreadFairness

(***************************************************************************)
(* Properties                                                              *)
(***************************************************************************)

\* No interleaving lets a key go out for a level the judge has not named yet,
\* or INFO start without a recorded final key.
NoLevelAheadOfJudge ==
    /\ \A l \in Levels : HasPublishedLevel(l) => l <= judge_level
    /\ state = "INFO" => HasPublishedLevel(MaxJamBreakLevel)

\* A key recorded under a level it does not belong to (the level was read off
\* TUNE_CFG after the samples were taken) is replaced by the right one, below
\* the highest level: the ladder never stops on a wrong key.
WrongKeyIsReplaced ==
    \A l \in 1 .. (MaxJamBreakLevel - 1) :
       HasPublishedLevel(l) ~> published_keys[l].key = l

IdentityLost == latest_context # NoContext /\ OwnTeamFromContext(latest_context) = None

\* As long as the identity holds, no interleaving keeps the receiver off INFO
\* for good: the target a race takes away comes back with the next key.
InfoTunedWhileIdentified == <>IdentityLost \/ []<>(receiver.target = "INFO")

\* "level == max_jam_break_level: after the key is published, INFO directly"
\* (architecture document, line 148): also after an identity was lost for a
\* while, the receiver comes back to INFO over and over.
InfoIsTunedAgain == []<>(receiver.target = "INFO")

\* The phase INFO is a promise that the highest level's own key went out.
FinalKeyIsGenuine ==
    state = "INFO" => published_keys[MaxJamBreakLevel].key = MaxJamBreakLevel
=============================================================================

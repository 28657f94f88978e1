---------------------------- MODULE SdrReceiverNode ----------------------------
(***************************************************************************)
(* The C++ receiver node (sdr_receiver_node.cpp) with auto_context_control *)
(* on.  Everything runs on the executor's one thread: the callbacks of the *)
(* judge topics only store the context; the timer's update() first decides *)
(* from it what to tune to (Control...) and, if it may, receives a buffer  *)
(* and handles the key found in it (Receive...).  Callbacks come between   *)
(* two updates, never inside one.                                          *)
(*                                                                         *)
(* Left out: logging and status texts (wait_level_update_since only        *)
(* decides when such a text is written), the frames other than keys, and   *)
(* the keyboard, which competition mode turns off.                         *)
(***************************************************************************)
EXTENDS Integers

CONSTANTS
    RunMode,           \* run_mode: "competition" or "debug"
    MaxJamBreakLevel,  \* state_.max_jam_break_level
    KeyRetryLimit,     \* key_retry_limit: publications of one key
    KeyRetryInterval,  \* key_retry_interval_ms, in clock ticks
    RequireProfile,    \* require_profile
    Profiles,          \* <<team, profile key>> pairs the profile file holds
    Keys,              \* printable 6-byte keys that may be decoded
    NoKey,
    SelfIds, SelfColors, JamLevels   \* what the judge topics may carry

Levels == 1 .. 3
Teams  == {"RED", "BLUE"}
JamTarget   == << "L1", "L2", "L3" >>
Targets     == {"INFO", "L1", "L2", "L3"}
Rescues     == {"None", "L2", "L3"}
Phases      == {"WaitingContext", "JamDecode", "WaitLevelUpdate", "InfoDecode"}
ProfileKeys == {"JAM_L1_KEY", "JAM_L2_KEY", "JAM_L3_KEY",
                "INFO_UNDER_L1", "INFO_UNDER_L2", "INFO_UNDER_L3"}
NoProfile   == << "none", "none" >>

ASSUME RunModeAssumption  == RunMode \in {"competition", "debug"}
ASSUME MaxLevelAssumption == MaxJamBreakLevel \in Levels
ASSUME RetryAssumption    == KeyRetryLimit \in Int /\ KeyRetryInterval \in Nat \ {0}
ASSUME ProfileAssumption  == RequireProfile \in BOOLEAN
                             /\ Profiles \subseteq Teams \X ProfileKeys
ASSUME KeyAssumption      == NoKey \notin Keys
ASSUME InputAssumption    == /\ SelfIds \subseteq 0 .. 255
                             /\ SelfColors \subseteq Int /\ JamLevels \subseteq 0 .. 255

VARIABLES
    ctx,        \* state_.judge_context
    tune,       \* tune_: team and target
    rescue,     \* info_l2_rescue / info_l3_rescue
    active_profile,
    phase,
    encrypt_lvl,
    submitted_key_level,
    final_key_submitted,
    key_record, \* last_key_ascii_, key_publish_count_, key_last_publish_
    jam_code,   \* the last JamCode on /sdr/jam_code
    ready,      \* update() is between its decision and its reception
    device      \* the configuration of the last reception

control == << phase, encrypt_lvl, submitted_key_level, final_key_submitted >>
tuning  == << tune, rescue, active_profile >>
vars == << ctx, control, tuning, key_record, jam_code, ready, device >>

(***************************************************************************)
(* Pure helpers                                                            *)
(***************************************************************************)
Clamp(v, lo, hi) == IF v < lo THEN lo ELSE IF v > hi THEN hi ELSE v
Broken(level)    == Clamp(level, 1, MaxJamBreakLevel)

ValidSelfId(id) == id \in 1 .. 99 \/ id \in 101 .. 199

TeamFromSelfId(id) == IF id \in 101 .. 199 THEN "BLUE" ELSE "RED"

\* The colour field of RadarContext overrides the robot id.
ContextTeam(id, color) ==
    IF color = 0 THEN "BLUE" ELSE IF color = 2 THEN "RED" ELSE TeamFromSelfId(id)

LevelOf(target) ==
    IF target = "L1" THEN 1 ELSE IF target = "L2" THEN 2 ELSE IF target = "L3" THEN 3 ELSE 0

TargetProfileKey(target, under) ==
    IF target = "INFO"
    THEN << "INFO_UNDER_L1", "INFO_UNDER_L2", "INFO_UNDER_L3" >>[Clamp(under, 1, 3)]
    ELSE << "JAM_L1_KEY", "JAM_L2_KEY", "JAM_L3_KEY" >>[LevelOf(target)]

RescueFor(target, under) ==
    IF target = "INFO" /\ under = 3 THEN "L3"
    ELSE IF target = "INFO" /\ under = 2 THEN "L2" ELSE "None"

ValidLevel == ctx.jam_level \in Levels

(***************************************************************************)
(* The judge topics                                                        *)
(***************************************************************************)
Stored ==
    /\ ~ ready
    /\ UNCHANGED << control, tuning, key_record, jam_code, ready, device >>

ContextCallback(id, color, level) ==
    /\ Stored
    /\ ctx' = [received |-> TRUE, self_id |-> id, team |-> ContextTeam(id, color),
               jam_level |-> level]

RadarInfoCallback(level) ==
    /\ level \in 0 .. 3
    /\ Stored
    /\ ctx' = [received |-> TRUE, self_id |-> ctx.self_id, team |-> ctx.team,
               jam_level |-> level]

SelfIdCallback(id) ==
    /\ Stored
    /\ ctx' = [received |-> TRUE, self_id |-> id, team |-> TeamFromSelfId(id),
               jam_level |-> ctx.jam_level]

(***************************************************************************)
(* apply_profile_for_target: a missing profile that is required stops the  *)
(* update and leaves target and rescue mode as they were.                  *)
(***************************************************************************)
\* Mutant: the entry's team is not compared.
HasProfileOfAnyTeam(team, target, under) ==
    RunMode = "competition"
    /\ \E t \in Teams : << t, TargetProfileKey(target, under) >> \in Profiles

HasProfile(team, target, under) ==
    RunMode = "competition" /\ << team, TargetProfileKey(target, under) >> \in Profiles

\* Mutant: require_profile is not looked at.
TuneAnyway(team, target, under) == TRUE

CanTune(team, target, under) == HasProfile(team, target, under) \/ ~ RequireProfile

\* Mutant: a target that is tuned already is taken for no change at all.
ApplyOnlyNewTarget(team, target, under) ==
    /\ tune' = [team   |-> IF target = tune.target THEN tune.team ELSE team,
                target |-> IF CanTune(team, target, under) THEN target ELSE tune.target]
    /\ rescue' = IF CanTune(team, target, under) THEN RescueFor(target, under) ELSE rescue
    /\ active_profile' = IF HasProfile(team, target, under)
                         THEN << team, TargetProfileKey(target, under) >>
                         ELSE NoProfile

ApplyProfile(team, target, under) ==
    /\ tune' = [team   |-> team,
                target |-> IF CanTune(team, target, under) THEN target ELSE tune.target]
    /\ rescue' = IF CanTune(team, target, under) THEN RescueFor(target, under) ELSE rescue
    /\ active_profile' = IF HasProfile(team, target, under)
                         THEN << team, TargetProfileKey(target, under) >>
                         ELSE NoProfile

(***************************************************************************)
(* apply_context_control                                                   *)
(***************************************************************************)
ContextUsable == ctx.received /\ ValidSelfId(ctx.self_id)

Control ==
    /\ ~ ready
    /\ UNCHANGED << ctx, key_record, jam_code, device >>

\* Debug mode goes on receiving with whatever it is tuned to.
ControlWithoutIdentity ==
    /\ Control
    /\ ~ ContextUsable
    /\ phase' = "WaitingContext"
    /\ ready' = (RunMode = "debug")
    /\ UNCHANGED << tuning, encrypt_lvl, submitted_key_level, final_key_submitted >>

ControlWithoutLevel ==
    /\ Control
    /\ ContextUsable /\ ~ ValidLevel /\ RunMode = "competition"
    /\ phase' = "WaitingContext"
    /\ ready' = FALSE
    /\ tune' = [tune EXCEPT !.team = ctx.team]
    /\ UNCHANGED << rescue, active_profile, encrypt_lvl, submitted_key_level,
                    final_key_submitted >>

\* Mutant: reception goes on although the profile could not be applied.
ControlReadyAnyway(target, under) ==
    /\ Control
    /\ ContextUsable /\ (ValidLevel \/ RunMode = "debug")
    /\ encrypt_lvl' = IF ValidLevel THEN ctx.jam_level ELSE 1
    /\ ApplyProfile(ctx.team, target, under)
    /\ ready' = TRUE
    /\ UNCHANGED final_key_submitted

\* What the remaining branches share; debug mode takes a missing level for 1.
ControlWithLevel(target, under) ==
    /\ Control
    /\ ContextUsable /\ (ValidLevel \/ RunMode = "debug")
    /\ encrypt_lvl' = IF ValidLevel THEN ctx.jam_level ELSE 1
    /\ ApplyProfile(ctx.team, target, under)
    /\ ready' = CanTune(ctx.team, target, under)
    /\ UNCHANGED final_key_submitted

NamedLevel == Broken(IF ValidLevel THEN ctx.jam_level ELSE 1)

\* Mutant: a lost context makes the node forget that it was done with keys.
InfoPhaseByPhase == phase = "InfoDecode"

InfoPhase == final_key_submitted \/ phase = "InfoDecode"

\* Mutant: once the context was lost the phase does not come back to INFO.
ControlInInfoByPhase ==
    LET under == Broken(IF submitted_key_level > 0 THEN submitted_key_level ELSE NamedLevel) IN
    /\ phase = "InfoDecode"
    /\ ControlWithLevel("INFO", under)
    /\ phase' = "InfoDecode"
    /\ UNCHANGED submitted_key_level

ControlInInfo ==
    LET under == Broken(IF submitted_key_level > 0 THEN submitted_key_level ELSE NamedLevel) IN
    /\ InfoPhase
    /\ ControlWithLevel("INFO", under)
    /\ phase' = "InfoDecode"
    /\ UNCHANGED submitted_key_level

\* Mutant: the level must rise by more than one.
LevelHasRisenTwice == ValidLevel /\ ctx.jam_level > submitted_key_level + 1

LevelHasRisen == ValidLevel /\ ctx.jam_level > submitted_key_level

\* Still waiting for a higher level: stay on the submitted one.
ControlWaiting ==
    LET level == Broken(submitted_key_level) IN
    /\ ~ InfoPhase
    /\ phase = "WaitLevelUpdate" /\ ~ LevelHasRisen
    /\ ControlWithLevel(JamTarget[level], level)
    /\ UNCHANGED << phase, submitted_key_level >>

ControlJam ==
    /\ ~ InfoPhase
    /\ phase = "WaitLevelUpdate" => LevelHasRisen
    /\ ControlWithLevel(JamTarget[NamedLevel], NamedLevel)
    /\ phase' = "JamDecode"
    /\ submitted_key_level' = IF phase = "WaitLevelUpdate" THEN 0 ELSE submitted_key_level

(***************************************************************************)
(* The rest of update(): configure the device, receive, handle a key       *)
(***************************************************************************)
\* should_publish_key: a key other than the last one of its level starts anew.
Renewed(record, key) ==
    IF record.key = key THEN record
    ELSE [key |-> key, count |-> 0, age |-> KeyRetryInterval]

ShouldPublish(record) ==
    /\ record.count < KeyRetryLimit
    /\ record.age >= KeyRetryInterval

Receive ==
    /\ ready
    /\ ready' = FALSE
    /\ device' = [team |-> tune.team, target |-> tune.target, rescue |-> rescue,
                  profile |-> active_profile]
    /\ UNCHANGED << ctx, encrypt_lvl >>

ReceiveNothing ==
    /\ Receive
    /\ UNCHANGED << phase, submitted_key_level, final_key_submitted, tuning,
                    key_record, jam_code >>

\* A key that is not (or no longer) published leaves only its record.
ReceiveKeyAgain(key) ==
    LET level  == LevelOf(tune.target)
        record == Renewed(key_record[level], key)
    IN /\ Receive
       /\ level # 0
       /\ ~ ShouldPublish(record)
       /\ key_record' = [key_record EXCEPT ![level] = record]
       /\ UNCHANGED << phase, submitted_key_level, final_key_submitted, tuning, jam_code >>

\* Mutant: publications are not counted.
NotCounted(record) == [key |-> record.key, count |-> record.count, age |-> 0]

Counted(record) == [key |-> record.key, count |-> record.count + 1, age |-> 0]

\* Mutant: the level to come is taken for the submitted one.
PublishForNextLevel(level, key) ==
    LET record == Renewed(key_record[level], key) IN
    /\ Receive
    /\ level # 0
    /\ ShouldPublish(record)
    /\ key_record' = [key_record EXCEPT ![level] = Counted(record)]
    /\ jam_code' = [level |-> level, team |-> tune.team, key |-> key]
    /\ submitted_key_level' = level + 1

PublishKey(level, key) ==
    LET record == Renewed(key_record[level], key) IN
    /\ Receive
    /\ level # 0
    /\ ShouldPublish(record)
    /\ key_record' = [key_record EXCEPT ![level] = Counted(record)]
    /\ jam_code' = [level |-> level, team |-> tune.team, key |-> key]
    /\ submitted_key_level' = level

\* Mutant: a level-up is awaited after the highest level, too.
ReceiveKeyUpToMax(key) ==
    LET level == LevelOf(tune.target) IN
    /\ level <= MaxJamBreakLevel
    /\ PublishKey(level, key)
    /\ phase' = "WaitLevelUpdate"
    /\ UNCHANGED << tuning, final_key_submitted >>

ReceiveKey(key) ==
    LET level == LevelOf(tune.target) IN
    /\ level < MaxJamBreakLevel
    /\ PublishKey(level, key)
    /\ phase' = "WaitLevelUpdate"
    /\ UNCHANGED << tuning, final_key_submitted >>

\* The result of apply_profile_for_target is not looked at here.
ReceiveFinalKey(key) ==
    LET level == LevelOf(tune.target) IN
    /\ level >= MaxJamBreakLevel
    /\ PublishKey(level, key)
    /\ final_key_submitted' = TRUE
    /\ phase' = "InfoDecode"
    /\ ApplyProfile(tune.team, "INFO", level)

(***************************************************************************)
(* steady_clock: an age matters only up to the interval.                   *)
(***************************************************************************)
Tick ==
    /\ \E l \in Levels : key_record[l].age < KeyRetryInterval
    /\ key_record' = [l \in Levels |-> [key_record[l] EXCEPT !.age =
                         IF @ < KeyRetryInterval THEN @ + 1 ELSE @]]
    /\ UNCHANGED << ctx, control, tuning, jam_code, ready, device >>

(***************************************************************************)
(* The node starts with the team and target of its parameters.             *)
(***************************************************************************)
Init ==
    /\ ctx = [received |-> FALSE, self_id |-> 0, team |-> "RED", jam_level |-> 0]
    /\ tune \in [team : Teams, target : Targets]
    /\ rescue = "None" /\ active_profile = NoProfile
    /\ phase = "WaitingContext"
    /\ encrypt_lvl = 1 /\ submitted_key_level = 0 /\ final_key_submitted = FALSE
    /\ key_record = [l \in Levels |-> [key |-> NoKey, count |-> 0, age |-> KeyRetryInterval]]
    /\ jam_code = [level |-> 0, team |-> "RED", key |-> NoKey]
    /\ ready = FALSE
    /\ device = [team |-> "none", target |-> "none", rescue |-> "None", profile |-> NoProfile]

Callback ==
    \/ \E id \in SelfIds, color \in SelfColors, level \in JamLevels :
          ContextCallback(id, color, level)
    \/ \E level \in JamLevels : RadarInfoCallback(level)
    \/ \E id \in SelfIds : SelfIdCallback(id)

ControlStep == ControlWithoutIdentity \/ ControlWithoutLevel \/ ControlInInfo
               \/ ControlWaiting \/ ControlJam

ReceiveStep ==
    \/ ReceiveNothing
    \/ \E key \in Keys : ReceiveKeyAgain(key) \/ ReceiveKey(key) \/ ReceiveFinalKey(key)

Next == Callback \/ ControlStep \/ ReceiveStep \/ Tick

Spec == Init /\ [][Next]_vars

(***************************************************************************)
(* Properties                                                              *)
(***************************************************************************)

JudgeContexts == [received : BOOLEAN, self_id : 0 .. 255, team : Teams, jam_level : 0 .. 255]
KeyRecords    == [key : Keys \cup {NoKey}, count : Nat, age : 0 .. KeyRetryInterval]

\* Every variable holds a value of its type; CompetitionInit, which the enum
\* also has, never outlives an update.
TypeOK ==
    /\ ctx \in JudgeContexts
    /\ tune \in [team : Teams, target : Targets]
    /\ rescue \in Rescues /\ active_profile \in Profiles \cup {NoProfile}
    /\ phase \in Phases
    /\ encrypt_lvl \in Levels /\ submitted_key_level \in 0 .. 3
    /\ final_key_submitted \in BOOLEAN
    /\ key_record \in [Levels -> KeyRecords]
    /\ jam_code \in [level : 0 .. 3, team : Teams, key : Keys \cup {NoKey}]
    /\ ready \in BOOLEAN
    /\ device \in [team : Teams \cup {"none"}, target : Targets \cup {"none"},
                   rescue : Rescues, profile : Profiles \cup {NoProfile}]

\* INFO decoding starts only when the key of the highest level has been
\* published, and afterwards the node is either decoding INFO or waiting for
\* a usable context: it never goes back to a jam level, not even when the
\* judge names a lower level or the context was lost in between.
InfoOnlyAfterFinalKey ==
    /\ phase = "InfoDecode" => final_key_submitted
    /\ final_key_submitted =>
          /\ phase \in {"InfoDecode", "WaitingContext"}
          /\ submitted_key_level = MaxJamBreakLevel
          /\ key_record[MaxJamBreakLevel].count > 0

\* A level-up is awaited only for a level below the highest whose key is out,
\* and a submitted level always has a published key behind it, also after a
\* context blip has moved the phase back to JamDecode.
WaitOnlyAfterKey ==
    /\ submitted_key_level # 0 => key_record[submitted_key_level].count > 0
    /\ phase = "WaitLevelUpdate" => submitted_key_level \in 1 .. (MaxJamBreakLevel - 1)

\* "A missing profile of the current slot, front end, team and target keeps
\* the node waiting; no other profile is loaded silently" (interface contract,
\* section 7): whatever is received is received with the profile of exactly
\* that team and target.
ReceivesOnlyWithProfile ==
    device.target # "none" =>
        /\ device.profile \in Profiles
        /\ device.profile[1] = device.team
        /\ device.target # "INFO" =>
              device.profile[2] = TargetProfileKey(device.target, 0)
        /\ device.target = "INFO" =>
              device.profile[2] = TargetProfileKey("INFO", MaxJamBreakLevel)

\* The team whose signal is received is the one of the latest context, even
\* when it flips between two updates.
ReceivesCurrentTeam == ready => tune.team = ctx.team

\* A key goes out only for the level the judge names, clipped to the highest
\* one, or, while a level-up is awaited, for a level the judge is not above.
KeyOnlyForNamedLevel ==
    [][\A l \in Levels : key_record'[l].count > key_record[l].count =>
          \/ l = NamedLevel
          \/ phase = "WaitLevelUpdate" /\ l = submitted_key_level /\ NamedLevel <= l]_vars

\* After the final key no further key is published, whatever is lost, missing
\* or heard later.
NoKeyAfterFinal ==
    [][final_key_submitted =>
          /\ final_key_submitted' /\ jam_code' = jam_code
          /\ \A l \in Levels : key_record'[l].count <= key_record[l].count]_vars

\* "team is the decoded RF/opponent team, not our own team" (JamCode.msg, line
\* 7), said of every JamCode while the robot id stays valid and of one side.
JamCodeTeamIsOpponent ==
    [][jam_code' # jam_code => jam_code'.team # TeamFromSelfId(ctx.self_id)]_vars
=============================================================================

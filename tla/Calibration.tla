------------------------------ MODULE Calibration ------------------------------
(***************************************************************************)
(* The C++ receiver in debug mode: the keyboard (keyboard.cpp), the        *)
(* settings it moves (sdr_controller.cpp) and the calibration that tries   *)
(* one profile after the other (calibration.cpp).  One update() of the     *)
(* node is a round of five steps on one thread, and it is the unit of time *)
(* here.  What a buffer contained counts only as a score; frequencies and  *)
(* filters are reduced to what selects them.                               *)
(***************************************************************************)
EXTENDS Integers, Sequences, FiniteSets

CONSTANTS
    Teams,                            \* the sides, RED and BLUE
    L2Quick, L2Full, L3Quick, L3Full, \* labels of the profiles of a queue
    L2Direct, L3Direct,               \* labels of the presets of keys 7 and 8
    TopK,                             \* validate_top_k
    SeedDwell, ValidateDwell,         \* CAL_DWELL_SEC, CAL_VALIDATE_DWELL_SEC
    StaleTime, FailoverGap,           \* CRC16_STALE_SEC, 0.5 s
    GainMin, GainMax, InitialGain,    \* RX_GAIN_MIN, RX_GAIN_MAX, manual_rx_gains
    L2Offsets, L3Offsets,             \* sizes of the tables of rescue offsets
    JamTargets,                       \* the jam targets keys 2 to 4 select
    MaxScore                          \* scores are 0 .. MaxScore here

Tables == {L2Quick, L2Full, L3Quick, L3Full}
Labels == {L2Direct, L3Direct} \cup UNION {{labels[i] : i \in DOMAIN labels} : labels \in Tables}
Profiles == [rescue : {"L2", "L3"}, label : Labels]

\* A table is a product of different offsets and different gains, and a label
\* names both.
ASSUME TableAssumption ==
    \A labels \in Tables :
        /\ labels \in Seq(Labels) /\ labels # << >>
        /\ \A i, j \in DOMAIN labels : labels[i] = labels[j] => i = j
ASSUME TimeAssumption  == /\ SeedDwell \in Nat /\ ValidateDwell \in Nat
                          /\ StaleTime \in Nat /\ FailoverGap \in Nat
ASSUME SizeAssumption  == /\ TopK \in Nat \ {0} /\ MaxScore \in Nat
                          /\ L2Offsets \in Nat \ {0} /\ L3Offsets \in Nat \ {0}
ASSUME GainAssumption  == /\ GainMin \in Nat \ {0} /\ GainMax \in Nat
                          /\ InitialGain \in GainMin .. GainMax
ASSUME JamAssumption   == JamTargets \subseteq {"L1", "L2", "L3"}

Targets == {"INFO"} \cup JamTargets
Rescues == {"None", "L2", "L3"}
Stages  == {"idle", "seed", "validate"}

Profile(rescue, label) == [rescue |-> rescue, label |-> label]
NoProfile == Profile("None", "none")

VARIABLES
    at,            \* the step of update() to come
    tune,          \* team and target
    rescue,        \* info_l2_rescue, info_l3_rescue
    offset_index,  \* info_l2_rescue_offset_index, info_l3_rescue_offset_index
    manual_gain,   \* manual_rx_gains
    cal_profile,   \* NoProfile when it has no value
    cal,           \* active, stage, queue, index, results, seed_results, elapsed
    failover_age,  \* time since last_failover
    crc_age,       \* time since last_crc16_time
    cfg_key,       \* last_cfg_key_; <<>> when dirty
    stats          \* score, what the device is set to, and (for the properties
                   \* only) the trial and the profile it was counted in

settings == << tune, rescue, offset_index, manual_gain >>
vars == << at, settings, cal_profile, cal, failover_age, crc_age, cfg_key, stats >>

LongestDwell == IF SeedDwell > ValidateDwell THEN SeedDwell ELSE ValidateDwell

Older(n, cap) == IF n < cap THEN n + 1 ELSE n

(***************************************************************************)
(* Queues and rankings                                                     *)
(***************************************************************************)
Trials(rsc, labels) == [i \in DOMAIN labels |-> Profile(rsc, labels[i])]

BuildQueue(full) ==
    (IF rescue # "L3" THEN Trials("L2", IF full THEN L2Full ELSE L2Quick) ELSE << >>)
    \o (IF rescue # "L2" THEN Trials("L3", IF full THEN L3Full ELSE L3Quick) ELSE << >>)

\* Mutant: the comparison is turned round.
RankFromWorst(results, i) ==
    Cardinality({j \in DOMAIN results :
        \/ results[j].score < results[i].score
        \/ results[j].score = results[i].score /\ j <= i})

\* Results by falling score; std::sort may order equal ones as it likes, here
\* they keep the order they came in.
Rank(results, i) ==
    Cardinality({j \in DOMAIN results :
        \/ results[j].score > results[i].score
        \/ results[j].score = results[i].score /\ j <= i})

Ranked(results) ==
    [r \in DOMAIN results |-> results[CHOOSE i \in DOMAIN results : Rank(results, i) = r]]

BestOf(results) ==
    LET n == IF Len(results) < TopK THEN Len(results) ELSE TopK
    IN [r \in 1 .. n |-> Ranked(results)[r].profile]

SortedResults == Ranked(IF cal.results # << >> THEN cal.results ELSE cal.seed_results)

(***************************************************************************)
(* What the radio is set to                                                *)
(***************************************************************************)
RescueMode ==
    IF tune.target # "INFO" THEN "None"
    ELSE IF cal_profile # NoProfile THEN cal_profile.rescue ELSE rescue

OnProfile == tune.target = "INFO" /\ cal_profile # NoProfile

\* A calibration profile brings its own offset and gain, L2 rescue its own
\* gain: both are 0 here.
EffectiveParams ==
    [team    |-> tune.team,
     target  |-> tune.target,
     mode    |-> RescueMode,
     profile |-> IF OnProfile THEN cal_profile ELSE NoProfile,
     offset  |-> IF OnProfile \/ RescueMode = "None" THEN 0 ELSE offset_index[RescueMode],
     gain    |-> IF OnProfile \/ RescueMode = "L2" THEN 0 ELSE manual_gain[tune.target]]

(***************************************************************************)
(* Keyboard                                                                *)
(***************************************************************************)
Key ==
    /\ at = "keyboard"
    /\ at' = "configure"
    /\ UNCHANGED << crc_age, stats >>

MarkDirty == cfg_key' = << >>

\* clear_calibration_override(true); the results stay.
ClearCalibration ==
    /\ cal_profile' = NoProfile
    /\ cal' = [cal EXCEPT !.active = FALSE, !.queue = << >>, !.index = 0, !.stage = "idle"]

SelectTuneTarget(team, target, rsc) ==
    /\ ClearCalibration
    /\ tune' = [team |-> team, target |-> target]
    /\ rescue' = rsc
    /\ MarkDirty
    /\ UNCHANGED << manual_gain, failover_age >>

NoKey == Key /\ UNCHANGED << settings, cal_profile, cal, failover_age, cfg_key >>

KeyTeam ==
    \E team \in Teams : Key /\ SelectTuneTarget(team, "INFO", "None") /\ UNCHANGED offset_index

KeyTarget ==
    \E target \in Targets :
       Key /\ SelectTuneTarget(tune.team, target, "None") /\ UNCHANGED offset_index

KeyRescue ==
    \E rsc \in {"L2", "L3"} :
       Key /\ SelectTuneTarget(tune.team, "INFO", rsc) /\ UNCHANGED offset_index

\* m: is_info_rescue(Target::Info) looks at the profile first, whatever the target.
KeyToggleRescue ==
    LET on == IF cal_profile # NoProfile THEN TRUE ELSE rescue # "None" IN
    /\ Key
    /\ SelectTuneTarget(tune.team, "INFO", IF on THEN "None" ELSE "L3")
    /\ UNCHANGED offset_index

\* [ and ]: the override is gone before the mode is looked at.
KeyCycleOffset ==
    LET rsc  == IF rescue = "None" THEN "L3" ELSE rescue
        size == IF rsc = "L2" THEN L2Offsets ELSE L3Offsets
    IN \E delta \in {1, -1} :
       /\ Key
       /\ SelectTuneTarget(tune.team, "INFO", rsc)
       /\ offset_index' = [offset_index EXCEPT
              ![rsc] = ((@ - 1 + delta + size) % size) + 1]

\* Mutant: no upper bound.
ClampFromBelow(gain) == IF gain < GainMin THEN GainMin ELSE gain

Clamp(gain) ==
    IF gain < GainMin THEN GainMin ELSE IF gain > GainMax THEN GainMax ELSE gain

KeyGain ==
    \E gain \in {manual_gain[tune.target] + 1, manual_gain[tune.target] - 1} :
       /\ Key
       /\ ClearCalibration
       /\ manual_gain' = [manual_gain EXCEPT ![tune.target] = Clamp(gain)]
       /\ MarkDirty
       /\ UNCHANGED << tune, rescue, offset_index, failover_age >>

\* 7 and 8
KeyDirectProfile ==
    \E preset \in {Profile("L2", L2Direct), Profile("L3", L3Direct)} :
       /\ Key
       /\ cal_profile' = preset
       /\ cal' = [cal EXCEPT !.active = FALSE, !.queue = << >>, !.index = 0, !.stage = "idle"]
       /\ tune' = [tune EXCEPT !.target = "INFO"]
       /\ rescue' = preset.rescue
       /\ failover_age' = 0
       /\ MarkDirty
       /\ UNCHANGED << offset_index, manual_gain >>

KeyCancel ==
    /\ cal.active
    /\ Key
    /\ ClearCalibration
    /\ MarkDirty
    /\ UNCHANGED << settings, failover_age >>

(***************************************************************************)
(* The calibration                                                         *)
(***************************************************************************)
\* Mutant: the device is not told to configure itself anew.
TryUnmarked(c) ==
    /\ cal' = [c EXCEPT !.index = @ + 1, !.elapsed = 0]
    /\ cal_profile' = c.queue[c.index + 1]
    /\ rescue' = c.queue[c.index + 1].rescue
    /\ UNCHANGED cfg_key

Try(c) ==
    /\ cal' = [c EXCEPT !.index = @ + 1, !.elapsed = 0]
    /\ cal_profile' = c.queue[c.index + 1]
    /\ rescue' = c.queue[c.index + 1].rescue
    /\ MarkDirty

\* Mutant: the second round stays a seed round.
ValidationAgain(c) ==
    [c EXCEPT !.seed_results = c.results, !.results = << >>,
              !.queue = BestOf(c.results), !.index = 0]

Validation(c) ==
    [c EXCEPT !.seed_results = c.results, !.results = << >>,
              !.queue = BestOf(c.results), !.index = 0, !.stage = "validate"]

\* rescue is left to the next update().
Finish(c) ==
    /\ cal' = [c EXCEPT !.active = FALSE, !.stage = "idle"]
    /\ cal_profile' = IF c.results # << >> THEN Ranked(c.results)[1].profile
                      ELSE IF c.seed_results # << >> THEN Ranked(c.seed_results)[1].profile
                      ELSE NoProfile
    /\ MarkDirty
    /\ UNCHANGED rescue

\* start_next_calibration_profile, index counting the trials begun
StartNext(c) ==
    IF c.index < Len(c.queue) THEN Try(c)
    ELSE IF c.stage = "seed" /\ c.results # << >> THEN Try(Validation(c))
    ELSE Finish([c EXCEPT !.index = @ + 1])

KeyCalibrate ==
    /\ ~ cal.active
    /\ Key
    /\ \E full \in BOOLEAN :
          Try([active |-> TRUE, stage |-> "seed", queue |-> BuildQueue(full), index |-> 0,
               results |-> << >>, seed_results |-> << >>, elapsed |-> 0])
    /\ UNCHANGED << tune, offset_index, manual_gain, failover_age >>

(***************************************************************************)
(* The rest of update()                                                    *)
(***************************************************************************)
\* apply_context_control without auto_context_control: with encrypt_lvl at its
\* initial 1, the rescue mode on INFO follows the calibration profile.
FollowProfile ==
    IF tune.target = "INFO" /\ cal_profile # NoProfile THEN cal_profile.rescue ELSE rescue

SyncRescue ==
    /\ at = "configure"
    /\ at' = "apply"
    /\ rescue' = FollowProfile
    /\ UNCHANGED << tune, offset_index, manual_gain, cal_profile, cal, failover_age,
                    crc_age, cfg_key, stats >>

\* apply_sdr_config: off INFO there is neither rescue nor profile; a changed
\* configuration resets the statistics.
ApplyConfig ==
    /\ at = "apply"
    /\ at' = "receive"
    /\ rescue' = IF tune.target = "INFO" THEN rescue ELSE "None"
    /\ cal_profile' = IF tune.target = "INFO" THEN cal_profile ELSE NoProfile
    /\ LET params == EffectiveParams IN
       IF cfg_key = << params >>
       THEN UNCHANGED << cfg_key, stats, crc_age >>
       ELSE /\ cfg_key' = << params >>
            /\ stats' = [score |-> 0, heard |-> {}, device |-> params]
            /\ crc_age' = StaleTime
    /\ UNCHANGED << tune, offset_index, manual_gain, cal, failover_age >>

\* receive() and fast_demod(): a buffer holds a valid frame or not, and the
\* score, a weighted sum of good and bad counts, may go up or down with it.
ReceiveBuffer ==
    /\ at = "receive"
    /\ at' = "calibrate"
    /\ \E valid \in BOOLEAN, score \in 0 .. MaxScore :
          /\ stats' = [stats EXCEPT
                 !.score = score,
                 !.heard = @ \cup {<< cal.stage, cal.index, stats.device.profile >>}]
          /\ crc_age' = IF valid THEN 0 ELSE Older(crc_age, StaleTime)
    /\ cal' = [cal EXCEPT !.elapsed = Older(@, LongestDwell)]
    /\ failover_age' = Older(failover_age, FailoverGap)
    /\ UNCHANGED << settings, cal_profile, cfg_key >>

Dwell == IF cal.stage = "validate" THEN ValidateDwell ELSE SeedDwell

Calibrate ==
    /\ at = "calibrate"
    /\ at' = "failover"
    /\ UNCHANGED << tune, offset_index, manual_gain, failover_age, crc_age, stats >>

CalibrateWaits ==
    /\ ~ cal.active \/ (cal_profile # NoProfile /\ cal.elapsed < Dwell)
    /\ Calibrate
    /\ UNCHANGED << rescue, cal_profile, cal, cfg_key >>

\* The profile was taken away because the target is not INFO: the trial is
\* passed over.
CalibrateSkips ==
    /\ cal.active /\ cal_profile = NoProfile
    /\ Calibrate
    /\ StartNext(cal)

\* Mutant: the result is kept under the trial to come.
ResultOfNext ==
    [profile |-> cal.queue[IF cal.index < Len(cal.queue) THEN cal.index + 1 ELSE cal.index],
     score |-> stats.score, heard |-> stats.heard]

Result == [profile |-> cal_profile, score |-> stats.score, heard |-> stats.heard]

CalibrateRecords ==
    /\ cal.active /\ cal_profile # NoProfile /\ cal.elapsed >= Dwell
    /\ Calibrate
    /\ StartNext([cal EXCEPT !.results = Append(@, Result)])

(***************************************************************************)
(* maybe_failover_cal_profile                                              *)
(***************************************************************************)
Stale == /\ ~ cal.active /\ cal_profile # NoProfile
         /\ crc_age >= StaleTime /\ failover_age >= FailoverGap

\* Mutant: the result that ranks after the current one.
AlternativesBelow ==
    {i \in DOMAIN SortedResults :
        \E j \in 1 .. (i - 1) : SortedResults[j].profile = cal_profile}

Alternatives == {i \in DOMAIN SortedResults : SortedResults[i].profile # cal_profile}

Failover ==
    /\ at = "failover"
    /\ at' = "keyboard"
    /\ Stale
    /\ \E i \in Alternatives :
          /\ \A j \in Alternatives : i <= j
          /\ cal_profile' = SortedResults[i].profile
          /\ rescue' = SortedResults[i].profile.rescue
    /\ failover_age' = 0
    /\ MarkDirty
    /\ UNCHANGED << tune, offset_index, manual_gain, cal, crc_age, stats >>

NoFailover ==
    /\ at = "failover"
    /\ at' = "keyboard"
    /\ ~ Stale \/ Alternatives = {}
    /\ UNCHANGED << settings, cal_profile, cal, failover_age, crc_age, cfg_key, stats >>

Init ==
    /\ at = "keyboard"
    /\ tune \in [team : Teams, target : Targets]
    /\ rescue = "None"
    /\ offset_index = [rsc \in {"L2", "L3"} |-> 1]
    /\ manual_gain = [t \in Targets |-> InitialGain]
    /\ cal_profile = NoProfile
    /\ cal = [active |-> FALSE, stage |-> "idle", queue |-> << >>, index |-> 0,
              results |-> << >>, seed_results |-> << >>, elapsed |-> 0]
    /\ failover_age = FailoverGap
    /\ crc_age = StaleTime
    /\ cfg_key = << >>
    /\ stats = [score |-> 0, heard |-> {}, device |-> EffectiveParams]

Keyboard == NoKey \/ KeyTeam \/ KeyTarget \/ KeyRescue \/ KeyToggleRescue \/ KeyCycleOffset
            \/ KeyGain \/ KeyDirectProfile \/ KeyCancel \/ KeyCalibrate

UpdateStep == SyncRescue \/ ApplyConfig \/ ReceiveBuffer \/ CalibrateWaits
              \/ CalibrateSkips \/ CalibrateRecords \/ Failover \/ NoFailover

Next == Keyboard \/ UpdateStep

\* The timer keeps calling update(); a key may or may not be pressed.
Spec == Init /\ [][Next]_vars /\ WF_vars(Next)

(***************************************************************************)
(* Properties                                                              *)
(***************************************************************************)
\* Everything keeps its kind; the gains stay inside the device's range and the
\* offset indices inside their tables.
TypeOK ==
    /\ at \in {"keyboard", "configure", "apply", "receive", "calibrate", "failover"}
    /\ tune \in [team : Teams, target : Targets]
    /\ rescue \in Rescues
    /\ offset_index \in [{"L2", "L3"} -> Nat]
    /\ offset_index["L2"] \in 1 .. L2Offsets /\ offset_index["L3"] \in 1 .. L3Offsets
    /\ manual_gain \in [Targets -> GainMin .. GainMax]
    /\ cal_profile \in Profiles \cup {NoProfile}
    /\ cal.active \in BOOLEAN /\ cal.stage \in Stages
    /\ cal.index \in Nat
    /\ failover_age \in 0 .. FailoverGap /\ crc_age \in 0 .. StaleTime

\* A running calibration has exactly one result, in the queue's order, for
\* each trial it has ended, and none when it was started off INFO, where
\* apply_sdr_config takes every profile away again: no key, no skipped trial
\* and no second round leaves a result of another queue behind.
ResultsFollowQueue ==
    cal.active =>
        IF tune.target = "INFO"
        THEN /\ Len(cal.results) = cal.index - 1
             /\ \A i \in DOMAIN cal.results : cal.results[i].profile = cal.queue[i]
             /\ cal_profile = cal.queue[cal.index]
        ELSE cal.results = << >> /\ cal.stage = "seed"

\* A result counts only what was received in its own trial, with the radio set
\* to its profile.  The trial changes at the end of one update() and the counters
\* are reset in the next, and the last trial of the first round may be repeated
\* as the first trial of the second.
ResultsAreOwn ==
    cal.active =>
        \A i \in DOMAIN cal.results :
            cal.results[i].heard = {<< cal.stage, i, cal.results[i].profile >>}

\* The second round tries no profile that did worse in the first round than
\* one it leaves out.
ValidatesTheBest ==
    cal.stage = "validate" =>
        \A i, j \in DOMAIN cal.seed_results :
            LET kept == {cal.queue[k] : k \in DOMAIN cal.queue} IN
            cal.seed_results[i].profile \in kept /\ cal.seed_results[j].profile \notin kept
                => cal.seed_results[i].score >= cal.seed_results[j].score

\* Failover only ever goes to one of the two best results: the third is out of
\* its reach, however long nothing is heard, also when a preset is left with
\* the results of a calibration that was cancelled.
FailoverToBestTwo ==
    [][at = "failover" /\ cal_profile' # cal_profile =>
          cal_profile' \in {SortedResults[i].profile : i \in DOMAIN SortedResults \cap {1, 2}}]_vars

\* Every calibration ends, by itself or because a key cancels it, on whatever
\* carrier it was started.
CalibrationEnds == cal.active ~> ~ cal.active
=============================================================================

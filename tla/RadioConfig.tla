----------------------------- MODULE RadioConfig -----------------------------
(***************************************************************************)
(* What the radio of the v67 core is tuned to.  The wrapper's adapter      *)
(* changes the core's module globals (`config`) and clears LAST_SDR_CFG;   *)
(* the core's thread reads them one by one without the adapter's lock,     *)
(* compares what they call for with LAST_SDR_CFG in every turn of its      *)
(* loop, then resets its counters and sets the radio, then demodulates a   *)
(* block.  A frequency is an offset from the team's carrier; filters are   *)
(* names.                                                                  *)
(***************************************************************************)
EXTENDS Integers, Sequences

CONSTANTS
    RadarParams,      \* target -> [gain, rf_bw], RADAR_PARAMS
    ManualGains,      \* target -> gain, MANUAL_RX_GAINS
    RescueRadios,     \* rescue mode -> [offset, gain, rf_bw], the core's own
    FallbackProfiles, \* rescue mode -> sequence of profiles
    GainMin, GainMax

ASSUME RadarParamsAssumption == "INFO" \in DOMAIN RadarParams

NoProfile == [rescue |-> "none"]
NoKey     == << >>
NoGain    == -1
NoBw      == 0
Plain(name) == [name |-> name, notch |-> FALSE]

VARIABLES
    config,         \* TUNE_CFG, RADAR_PARAMS' frequencies and STATE
    key,            \* LAST_SDR_CFG
    radio,          \* what the hardware was set to
    core,           \* where the core's loop is
    pending,        \* what it found when it began to read, then what it is to apply
    stats,          \* STATS, reset with every new configuration
    fallback_index

coreVars == << config, key, radio, core, pending, stats, fallback_index >>

Counters == {"ac_raw", "ac", "sof", "crc8", "crc16", "crc16_fail"}
NoFrames == [c \in Counters |-> 0]

InitialConfig ==
    [team |-> "RED", target |-> "INFO", profile |-> NoProfile, rescue |-> "",
     manual_gain |-> ManualGains,
     freq |-> [team \in {"RED", "BLUE"} |-> [t \in DOMAIN RadarParams |-> 0]]]

(***************************************************************************)
(* The core: what a configuration calls for                                *)
(***************************************************************************)
ActiveProfile(c) == IF c.target = "INFO" THEN c.profile ELSE NoProfile

RescueMode(c) ==
    IF ActiveProfile(c) # NoProfile THEN c.profile.rescue
    ELSE IF c.target = "INFO" THEN c.rescue ELSE ""

TeamSigned(offset, team) == IF team = "BLUE" THEN -offset ELSE offset

\* get_effective_radio_params
Effective(c) ==
    LET freq   == c.freq[c.team][c.target]
        entry  == RadarParams[c.target]
        mode   == RescueMode(c)
        manual == c.manual_gain[c.target]
        At(offset, gain, rf_bw, label) ==
            [lo |-> freq + TeamSigned(offset, c.team), shift |-> TeamSigned(offset, c.team),
             gain |-> gain, rf_bw |-> rf_bw, mode |-> label]
    IN  IF ActiveProfile(c) # NoProfile
        THEN At(c.profile.offset, c.profile.gain, c.profile.rf_bw, c.profile.label)
        ELSE IF mode # ""
        THEN At(RescueRadios[mode].offset,
                IF mode = "L2" THEN RescueRadios[mode].gain ELSE manual,
                IF entry.rf_bw > RescueRadios[mode].rf_bw THEN entry.rf_bw
                                                          ELSE RescueRadios[mode].rf_bw,
                Plain(mode))
        ELSE At(0, manual, entry.rf_bw, Plain("normal"))

Key(c) == << c.team, c.target, RescueMode(c), Effective(c) >>

Filter(c) ==
    IF ActiveProfile(c) # NoProfile THEN c.profile.filter
    ELSE CASE RescueMode(c) = "L2" -> Plain("hist248")
           [] RescueMode(c) = "L3" -> Plain("l3cur")
           [] OTHER -> Plain("normal")

Clamp(gain) ==
    IF gain < GainMin THEN GainMin ELSE IF gain > GainMax THEN GainMax ELSE gain

(***************************************************************************)
(* The adapter: each operation as a function of the configuration          *)
(***************************************************************************)
Aliases == [JAM_L1_KEY |-> "L1", JAM_L2_KEY |-> "L2", JAM_L3_KEY |-> "L3",
            INFO_UNDER_L1 |-> "INFO", INFO_UNDER_L2 |-> "INFO", INFO_UNDER_L3 |-> "INFO"]

NormalizeTarget(target) == IF target \in DOMAIN Aliases THEN Aliases[target] ELSE target

SetTeam(c, team) == [c EXCEPT !.team = team]

\* set_target with the core's select_tune_target
SetTarget(c, target, rescue) ==
    [c EXCEPT !.profile = NoProfile, !.target = NormalizeTarget(target),
              !.rescue = IF NormalizeTarget(target) = "INFO" THEN rescue ELSE ""]

SetManualGain(c, target, gain) ==
    [c EXCEPT !.manual_gain[NormalizeTarget(target)] = Clamp(gain)]

\* apply_frequency_offset moves the carrier itself, the same way for both teams.
ApplyFrequencyOffset(c, team, target, hz) ==
    IF hz = 0 THEN c ELSE [c EXCEPT !.freq[team][NormalizeTarget(target)] = hz]

InfoVariants == {"normal", "loose3", "loose4", "loose10", "wide_loose3", "wide_loose10",
                 "tight_loose3", "tight_loose10", "weak_soft", "wide_weak_soft",
                 "tight_weak_soft"}

RescueFilters == [L2 |-> << "hist248", "hist255", "wide263" >>, L3 |-> << "l3tight", "l3cur" >>]

FilterOrDefault(rescue, filter) ==
    IF filter.name # "" THEN filter
    ELSE Plain(IF rescue = "" THEN "normal" ELSE RescueFilters[rescue][1])

KnownFilter(rescue, filter) ==
    LET f == FilterOrDefault(rescue, filter)
    IN  IF rescue = "" THEN f.name \in InfoVariants
        ELSE ~ f.notch /\ \E i \in 1 .. Len(RescueFilters[rescue]) : f.name = RescueFilters[rescue][i]

\* The label of a rescue profile does not tell its filter.
RadioProfile(p) ==
    LET f == FilterOrDefault(p.rescue, p.filter)
    IN  [rescue |-> p.rescue, offset |-> p.offset,
         gain   |-> IF p.gain = NoGain THEN RadarParams["INFO"].gain ELSE p.gain,
         rf_bw  |-> IF p.rf_bw = NoBw THEN RadarParams["INFO"].rf_bw ELSE p.rf_bw,
         filter |-> f, label |-> IF p.rescue = "" THEN f ELSE Plain("wrapper")]

\* Mutant: the carrier stays where apply_frequency_offset moved it.
AddRadioProfile(c, p) ==
    LET named == [c EXCEPT !.team = p.team, !.target = "INFO"]
    IN  IF KnownFilter(p.rescue, p.filter)
        THEN [named EXCEPT !.profile = RadioProfile(p), !.rescue = p.rescue]
        ELSE named

\* Team, target and carrier are set before an unknown filter is noticed.
SetRadioProfile(c, p) ==
    LET named   == [c EXCEPT !.team = p.team, !.target = "INFO", !.freq[p.team]["INFO"] = 0]
        profile == RadioProfile(p)
    IN  IF ~ KnownFilter(p.rescue, p.filter) THEN named
        ELSE [named EXCEPT !.profile = profile, !.rescue = p.rescue,
                           !.manual_gain["INFO"] = IF p.rescue = "" THEN profile.gain ELSE @]

MarkDirty == key' = NoKey

(***************************************************************************)
(* The core's thread                                                       *)
(***************************************************************************)
CoreInit(c) ==
    /\ config = c /\ key = NoKey /\ radio = NoProfile
    /\ core = "config" /\ pending = NoKey /\ stats = NoFrames /\ fallback_index = 0

\* What may be read of settings that are changed from a to b meanwhile.
Mixtures(a, b) ==
    [team : {a.team, b.team}, target : {a.target, b.target}, profile : {a.profile, b.profile},
     rescue : {a.rescue, b.rescue}, manual_gain : {a.manual_gain, b.manual_gain},
     freq : {a.freq, b.freq}]

StartRead ==
    /\ core = "config" /\ core' = "read"
    /\ pending' = config
    /\ UNCHANGED << config, key, radio, stats, fallback_index >>

\* A jam target has no profile: the core clears whatever is set by now.
ProfileDropped(seen) ==
    IF seen.target = "INFO" THEN config
    ELSE [config EXCEPT !.profile = NoProfile, !.rescue = ""]

\* Team and target are read once; all else is read for the rescue mode and
\* then again for the radio's parameters.
FinishRead ==
    /\ core = "read"
    /\ \E seen \in Mixtures(pending, config) :
       \E again \in Mixtures(seen, config) :
          LET called == << seen.team, seen.target, RescueMode(seen), Effective(again) >>
          IN  /\ again.team = seen.team /\ again.target = seen.target
              /\ config' = ProfileDropped(seen)
              /\ IF called = key
                 THEN core' = "demod" /\ pending' = NoKey
                 ELSE core' = "apply" /\ pending' = called
    /\ UNCHANGED << key, radio, stats, fallback_index >>

Tuned(p) == [lo |-> p.lo, rf_bw |-> p.rf_bw, gain |-> Clamp(p.gain)]

\* Mutant: the counters run on.
ApplyConfigOnly ==
    /\ core = "apply"
    /\ radio' = Tuned(pending[4])
    /\ key' = pending /\ pending' = NoKey /\ core' = "demod"
    /\ UNCHANGED << config, stats, fallback_index >>

ApplyConfig ==
    /\ core = "apply"
    /\ stats' = NoFrames
    /\ radio' = Tuned(pending[4])
    /\ key' = pending /\ pending' = NoKey /\ core' = "demod"
    /\ UNCHANGED << config, fallback_index >>

\* A block may hold several frames.
Demodulate(found) ==
    /\ core = "demod" /\ core' = "failover"
    /\ stats' = [c \in Counters |-> stats[c] + found[c]]
    /\ UNCHANGED << radio, pending, fallback_index >>

\* maybe_failover_cal_profile without results of a calibration, which
\* competition mode cannot start: a rescue profile that has been set for 1.5
\* seconds and had no CRC16 for three is replaced by the next of the core's
\* own.  It looks at the age of the last configuration applied, which may be
\* one before.
Failover ==
    /\ core = "failover" /\ core' = "config"
    /\ config.profile # NoProfile /\ config.profile.rescue # ""
    /\ LET profiles == FallbackProfiles[config.profile.rescue]
       IN  /\ config' = [config EXCEPT !.profile = profiles[(fallback_index % Len(profiles)) + 1]]
           /\ fallback_index' = (fallback_index + 1) % Len(profiles)
    /\ MarkDirty
    /\ UNCHANGED << radio, pending, stats >>

NoFailover ==
    /\ core = "failover" /\ core' = "config"
    /\ UNCHANGED << config, key, radio, pending, stats, fallback_index >>
=============================================================================

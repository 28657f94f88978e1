----------------------------- MODULE SweepToMatch -----------------------------
(***************************************************************************)
(* How a match comes by its INFO profile: a probe suggests a sweep, the    *)
(* sweep measures candidates on the core and writes down the best, and the *)
(* receiver node of the match loads that and applies it when it enters     *)
(* INFO.  Each is a process of its own; in the last two a core thread      *)
(* takes up configurations while another thread sets them.                 *)
(***************************************************************************)
EXTENDS RadioConfig, WeakInfoProbe, ProfileImport

CONSTANTS
    Plans,        \* the arguments of the three processes, and max_yields, a bound:
                  \* so many blocks of the sweep hold anything
    UnknownFilters, \* names that no filter has
    ProbeMetrics, \* what a probe may score a capture with
    Yields        \* what a block may be found to hold

\* What the programs work with, their arguments parsed.  A row names a
\* bandwidth in whole kilohertz and a profile of none is unreadable: the radio
\* has no bandwidth that small.
Bandwidths == {hz \in Int : hz >= KHz}

Filters ==
    [name : InfoVariants \cup {"hist248", "hist255", "wide263", "l3tight", "l3cur"}
            \cup UnknownFilters,
     notch : BOOLEAN]

SweepArgs(args) ==
    /\ args.profiles \in Seq({"", "L2", "L3"})
    /\ args.gains \in Seq(Int) /\ args.rf_bws \in Seq(Bandwidths) /\ args.offsets \in Seq(Int)
    /\ args.filters \in Seq(Filters)
    /\ \A rescue \in ToSet(args.profiles) \ {""} : args.rescue_filters[rescue] \in Seq(Filters)
    /\ args.gain_max \in Int /\ args.limit \in Int

\* The probe refuses a filter it does not know, and suggests nothing unless it
\* measured something, for which it needs one of everything.
ProbeArgs(args) ==
    /\ args.gains \in Seq(Int) /\ args.rf_bws \in Seq(Bandwidths) /\ args.offsets \in Seq(Int)
    /\ args.filters \in Seq([name : InfoVariants, notch : BOOLEAN])
    /\ << >> \notin {args.rf_bws, args.offsets, args.filters}
    /\ args.limit \in Int

ASSUME PlansAssumption ==
    \A p \in Plans :
        /\ p.probing \in BOOLEAN /\ p.json \in BOOLEAN
        /\ p.team \in {"RED", "BLUE"} /\ p.rx_team \in {"RED", "BLUE"}
        /\ IF p.probing THEN ProbeArgs(p.probe) ELSE SweepArgs(p.args)
ASSUME FiltersAssumption == Absent \notin Filters
ASSUME ProbeMetricsAssumption == ProbeMetrics \subseteq [score : Int, errors : Nat]
ASSUME YieldsAssumption == Yields \subseteq [Counters -> Nat]

VARIABLES
    plan,
    stage,          \* the process that runs
    probe_rows, probed,
    candidates,     \* of the sweep
    measuring,      \* where its main thread is
    start,          \* the first snapshot
    rows,
    yields,
    heard,          \* frames found in the present candidate's own settings
    failed_over,    \* the core replaced the profile since it was set
    profile_config,
    measured,       \* the radio and filter the best row was measured with
    phase           \* the controller's

sweepVars == << measuring, start, rows, yields, heard >>
vars == << coreVars, plan, stage, probe_rows, probed, candidates, sweepVars, failed_over,
           profile_config, measured, phase >>

NoRow == [idx |-> 0]

(***************************************************************************)
(* The probe                                                               *)
(***************************************************************************)
Probe ==
    /\ stage = "probe"
    /\ LET n == Len(probe_rows) + 1
           tried == ProbeCandidates(plan.probe)
       IN  /\ n <= Len(tried)
           /\ \E m \in ProbeMetrics :
                probe_rows' = Append(probe_rows, ProbeRow(tried[n], n, m.score, m.errors))
    /\ UNCHANGED << coreVars, plan, stage, probed, candidates, sweepVars, failed_over,
                    profile_config, measured, phase >>

SuggestSweep ==
    /\ stage = "probe" /\ Len(probe_rows) = Len(ProbeCandidates(plan.probe))
    /\ stage' = "sweep"
    /\ candidates' = Candidates(SuggestedSweep(probe_rows))
    /\ probed' = RankedRows(probe_rows)[1] /\ probe_rows' = << >>
    /\ UNCHANGED << coreVars, plan, sweepVars, failed_over, profile_config, measured, phase >>

(***************************************************************************)
(* The sweep                                                               *)
(***************************************************************************)
Candidate == candidates[Len(rows) + 1]
SweepOver == Len(rows) = Len(candidates)

Requested(candidate, team) ==
    [team |-> team, rescue |-> candidate.rescue, filter |-> candidate.filter,
     rf_bw |-> candidate.rf_bw, offset |-> candidate.offset, gain |-> candidate.gain]

\* An unknown filter ends the sweep without any output.
SetCandidate ==
    /\ stage = "sweep" /\ measuring = "set" /\ ~ SweepOver
    /\ config' = SetRadioProfile(config, Requested(Candidate, plan.team))
    /\ IF KnownFilter(Candidate.rescue, Candidate.filter)
       THEN MarkDirty /\ measuring' = "settle" /\ UNCHANGED stage
       ELSE stage' = "failed" /\ UNCHANGED << key, measuring >>
    /\ failed_over' = FALSE /\ heard' = NoFrames
    /\ UNCHANGED << radio, core, pending, stats, fallback_index, plan, probe_rows, probed,
                    candidates, start, rows, yields, profile_config, measured, phase >>

StartSnapshot ==
    /\ stage = "sweep" /\ measuring = "settle"
    /\ measuring' = "dwell" /\ start' = stats
    /\ UNCHANGED << coreVars, plan, stage, probe_rows, probed, candidates, rows, yields, heard,
                    failed_over, profile_config, measured, phase >>

\* Settling and dwelling take far longer than a turn of the core's loop, so
\* by now it has taken up what is configured.
EndSnapshot ==
    /\ stage = "sweep" /\ measuring = "dwell" /\ key = Key(config)
    /\ measuring' = "set" /\ start' = NoFrames /\ heard' = NoFrames
    /\ rows' = Append(rows,
         [row |-> Row(Candidate), stats |-> Delta(stats, start), heard |-> heard,
          failed_over |-> failed_over, team |-> config.team, radio |-> radio,
          used |-> Filter(config)])
    /\ UNCHANGED << coreVars, plan, stage, probe_rows, probed, candidates, yields,
                    failed_over, profile_config, measured, phase >>

OwnSettings ==
    /\ ~ failed_over /\ measuring # "set"
    /\ radio = Tuned(Effective(config))

Hear(found) ==
    heard' = IF OwnSettings THEN [c \in Counters |-> heard[c] + found[c]] ELSE heard

DemodulateInSweep ==
    /\ stage = "sweep"
    /\ \E found \in Yields \cup {NoFrames} :
         /\ found # NoFrames => yields < plan.max_yields
         /\ yields' = IF found = NoFrames THEN yields ELSE yields + 1
         /\ Demodulate(found) /\ Hear(found)
    /\ UNCHANGED << config, key, plan, stage, probe_rows, probed, candidates, measuring, start,
                    rows, failed_over, profile_config, measured, phase >>

(***************************************************************************)
(* The match                                                               *)
(***************************************************************************)
\* _apply_initial_receiver_settings
InitialSettings(p) ==
    LET c1     == IF p.team = "" THEN InitialConfig ELSE SetTeam(InitialConfig, p.team)
        aim    == IF p.target = "" THEN c1.target ELSE p.target
        c2     == ApplyFrequencyOffset(c1, c1.team, aim, p.offset)
        asked  == p.rf_bw > 0 \/ p.filter.name # "" \/ p.gain >= 0 \/ p.offset # 0
        c3     == IF p.target = "" THEN c2
                  ELSE IF p.target = "INFO" /\ asked
                  THEN SetRadioProfile(c2, [p EXCEPT !.team = c1.team])
                  ELSE SetTarget(c2, p.target, p.rescue)
    IN  IF p.gain >= 0 THEN SetManualGain(c3, aim, p.gain) ELSE c3

LoadProfileConfig(row, team) ==
    LoadAdaptiveProfile(IF plan.json THEN BestRowJson(row, team) ELSE BestProfileYaml(row, team))

\* The sweep's process ends and, some time later, the node starts.
StartMatch ==
    /\ stage = "sweep" /\ measuring = "set" /\ SweepOver
    /\ stage' = "match"
    /\ \E best \in BestRows(rows) :
         /\ profile_config' = LoadProfileConfig(best.row, best.team)
         /\ measured' = [team |-> best.team, radio |-> best.radio, filter |-> best.used,
                         failed_over |-> best.failed_over]
    /\ config' = InitialSettings(plan.initial)
    /\ key' = NoKey /\ radio' = NoProfile /\ core' = "config" /\ pending' = NoKey
    /\ stats' = NoFrames /\ fallback_index' = 0
    /\ start' = NoFrames /\ rows' = << >> /\ yields' = 0 /\ heard' = NoFrames
    /\ failed_over' = FALSE /\ phase' = "start"
    /\ UNCHANGED << plan, probe_rows, probed, candidates, measuring >>

\* The first context with an identity names the opponent's team.
TeamContext ==
    /\ stage = "match" /\ phase = "start" /\ phase' = "team"
    /\ config' = SetTeam(config, plan.rx_team)
    /\ MarkDirty
    /\ UNCHANGED << radio, core, pending, stats, fallback_index, plan, stage, probe_rows,
                    probed, candidates, sweepVars, failed_over, profile_config, measured >>

\* A context on the ROS thread names a jam level, at the start or when the
\* identity had been lost.
JamContext ==
    /\ stage = "match" /\ phase \in {"team", "info"} /\ phase' = "jam"
    /\ config' = SetTarget(config, "JAM_L1_KEY", "")
    /\ MarkDirty /\ failed_over' = FALSE
    /\ UNCHANGED << radio, core, pending, stats, fallback_index, plan, stage, probe_rows,
                    probed, candidates, sweepVars, profile_config, measured >>

\* _apply_info_profile: the team is the one that is received, whatever the
\* profile's own.
ApplyInfoProfile(c) ==
    IF profile_config = NoConfig THEN SetTarget(c, "INFO", "")
    ELSE SetRadioProfile(c, [profile_config EXCEPT !.team = plan.rx_team])

\* The key of the last level, handled on the core's thread while it demodulates.
FinalKey ==
    /\ stage = "match" /\ phase = "jam" /\ phase' = "info"
    /\ Demodulate(NoFrames)
    /\ config' = ApplyInfoProfile(config)
    /\ MarkDirty /\ failed_over' = FALSE
    /\ UNCHANGED << plan, stage, probe_rows, probed, candidates, sweepVars, profile_config,
                    measured >>

DemodulateInMatch ==
    /\ stage = "match" /\ Demodulate(NoFrames)
    /\ UNCHANGED << config, key, plan, stage, probe_rows, probed, candidates, sweepVars,
                    failed_over, profile_config, measured, phase >>

(***************************************************************************)
(* The core in either process, and the specification                       *)
(***************************************************************************)
CoreRuns ==
    /\ stage \in {"sweep", "match"}
    /\ StartRead \/ FinishRead \/ ApplyConfig \/ NoFailover
    /\ UNCHANGED << plan, stage, probe_rows, probed, candidates, sweepVars, failed_over,
                    profile_config, measured, phase >>

CoreFailsOver ==
    /\ stage \in {"sweep", "match"} /\ Failover
    /\ failed_over' = TRUE
    /\ UNCHANGED << plan, stage, probe_rows, probed, candidates, sweepVars, profile_config,
                    measured, phase >>

Init ==
    /\ plan \in Plans
    /\ CoreInit(InitialConfig)
    /\ stage = IF plan.probing THEN "probe" ELSE "sweep"
    /\ candidates = IF plan.probing THEN << >> ELSE Candidates(plan.args)
    /\ probe_rows = << >> /\ probed = NoRow
    /\ measuring = "set" /\ start = NoFrames /\ rows = << >> /\ yields = 0
    /\ heard = NoFrames /\ failed_over = FALSE
    /\ profile_config = NoConfig /\ measured = NoProfile
    /\ phase = "start"

Next ==
    \/ Probe \/ SuggestSweep
    \/ SetCandidate \/ StartSnapshot \/ EndSnapshot \/ DemodulateInSweep
    \/ StartMatch \/ TeamContext \/ JamContext \/ FinalKey \/ DemodulateInMatch
    \/ CoreRuns \/ CoreFailsOver

Spec == Init /\ [][Next]_vars

(***************************************************************************)
(* Properties                                                              *)
(***************************************************************************)

\* A row never counts more frames than the core found while it was in that
\* candidate's settings, although the counters belong to the core, which
\* takes up a candidate and resets them at a time of its own.  Rows of a
\* rescue profile that the core replaced meanwhile are excepted.
RowsCountOwnFrames ==
    \A i \in 1 .. Len(rows) :
        ~ rows[i].failed_over => \A c \in Counters : rows[i].stats[c] <= rows[i].heard[c]

Successes == Counters \ {"crc16_fail"}
Silent(s) == \A c \in Successes : s[c] = 0

Dominates(s, t) ==
    /\ \A c \in Successes : s[c] >= t[c]
    /\ s.crc16_fail <= t.crc16_fail
    /\ \/ \E c \in {"sof", "crc8", "crc16", "crc16_fail"} : s[c] # t[c]
       \/ Silent(t) /\ ~ Silent(s)

\* The row reported as the best is not one that another beats in every
\* respect, raw hits of the access code included: they set a row apart from
\* one that heard nothing, and only from that.  A single CRC16 ranks below headers that keep coming and above a
\* trickle of CRC16, so rows with exactly one are excepted.
RankRespectsDominance ==
    \A best \in BestRows(rows), row \in ToSet(rows) :
        1 \notin {best.stats.crc16, row.stats.crc16} => ~ Dominates(row.stats, best.stats)

Near(a, b) == a - b < KHz /\ b - a < KHz

\* The sweep a probe suggests accepts all its arguments and measures the
\* radio settings, to the kilohertz, that scored best; for BLUE only if they
\* are on the carrier, since the sweep mirrors offsets and the probe does not.
SuggestionCoversBest ==
    probed # NoRow =>
        /\ stage # "failed"
        /\ (stage = "sweep" /\ SweepOver /\ (plan.team = "RED" \/ probed.tuned.lo = 0)) =>
             \E tried \in ToSet(rows) :
                /\ tried.row.gain = probed.tuned.gain
                /\ Near(tried.radio.lo, probed.tuned.lo)
                /\ Near(tried.radio.rf_bw, probed.tuned.rf_bw)

\* In INFO the match's radio is set as it was when the sweep's best row was
\* measured, to the kilohertz and mirrored for the other team, and filters
\* the same, whatever the initial settings and however often INFO is left and
\* entered again; excepted are profiles the core replaced.
BestProfileReachesMatch ==
    (/\ phase = "info" /\ core = "demod" /\ key = Key(config)
     /\ ~ failed_over /\ ~ measured.failed_over) =>
        /\ Near(TeamSigned(radio.lo, plan.rx_team),
                TeamSigned(measured.radio.lo, measured.team))
        /\ Near(radio.rf_bw, measured.radio.rf_bw)
        /\ radio.gain = measured.radio.gain
        /\ Filter(config) = measured.filter
=============================================================================

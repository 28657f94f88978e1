----------------------------- MODULE ProfileSweep -----------------------------
(***************************************************************************)
(* adaptive_profile_sweep.py: the candidates of a sweep, what is recorded  *)
(* of one, and which is reported as the best.  Bandwidths and offsets are  *)
(* in Hz, KHz of which make a kilohertz; the numerical score only breaks   *)
(* ties and is left open.                                                  *)
(***************************************************************************)
EXTENDS Integers, Sequences, FiniteSets, SequencesExt

CONSTANTS
    KHz,
    HardwareGainMax, \* PLUTO_RX_HARDWARE_GAIN_MAX
    Dwell,           \* --dwell-sec
    Absent           \* a field a file does not have

ASSUME DwellAssumption == Dwell \in Nat
ASSUME UnitsAssumption == KHz \in Nat \ {0} /\ HardwareGainMax \in Int
ASSUME AbsentAssumption == Absent \notin Int \cup {"L2", "L3"}

Smaller(a, b) == IF a <= b THEN a ELSE b

\* int(hz / 1000): towards zero.
ToKHz(hz) == IF hz >= 0 THEN hz \div KHz ELSE -((-hz) \div KHz)

(***************************************************************************)
(* Candidates                                                              *)
(***************************************************************************)
AppendNew(seq, x) == IF Contains(seq, x) THEN seq ELSE Append(seq, x)

GainCandidates(args, max) ==
    FoldLeft(AppendNew, << >>, [i \in 1 .. Len(args.gains) |-> Smaller(args.gains[i], max)])

DefaultFilter(rescue) ==
    IF rescue = "" THEN "normal" ELSE IF rescue = "L2" THEN "hist248" ELSE "l3tight"

\* Each profile has a list of its own; an empty one stands for the default.
FilterCandidates(args, rescue) ==
    LET listed == IF rescue = "" THEN args.filters ELSE args.rescue_filters[rescue]
    IN  IF listed # << >> THEN listed
        ELSE << [name |-> DefaultFilter(rescue), notch |-> FALSE] >>

ForEach(seq, Items(_)) == FlattenSeq([i \in 1 .. Len(seq) |-> Items(seq[i])])

Limited(all, limit) == IF limit > 0 THEN SubSeq(all, 1, Smaller(limit, Len(all))) ELSE all

Candidates(args) ==
    LET max == Smaller(args.gain_max, HardwareGainMax)
        all == ForEach(args.profiles, LAMBDA rescue :
               ForEach(FilterCandidates(args, rescue), LAMBDA filter :
               ForEach(args.rf_bws, LAMBDA rf_bw :
               ForEach(args.offsets, LAMBDA offset :
               ForEach(GainCandidates(args, max), LAMBDA gain :
                   << [rescue |-> rescue, filter |-> filter, rf_bw |-> rf_bw,
                       offset |-> offset, gain |-> gain] >>)))))
    IN  Limited(all, args.limit)

(***************************************************************************)
(* Rows and their rank                                                     *)
(***************************************************************************)
\* _numeric_delta: what the counters gained, nothing if they were reset.
Delta(end, start) ==
    [c \in DOMAIN end |-> IF end[c] > start[c] THEN end[c] - start[c] ELSE 0]

\* The classes of _score_stats, by their rank in _sort_key.
Lock == 5
CRC8Stable == 4
CRC16Weak == 3
SofOnly == 2
AcOnly == 1
NoLock == 0

\* Mutant: hits that were not admitted do not count.
ClassRankOfAdmitted(s) ==
    IF s.crc16 >= 2 /\ 100 * s.crc16 >= 15 * Dwell THEN Lock
    ELSE IF s.crc16 = 1 THEN CRC16Weak
    ELSE IF s.crc8 > 0 /\ 100 * s.crc8 >= 40 * Dwell THEN CRC8Stable
    ELSE IF s.sof > 0 THEN SofOnly
    ELSE IF s.ac > 0 THEN AcOnly ELSE NoLock

ClassRank(s) ==
    IF s.crc16 >= 2 /\ 100 * s.crc16 >= 15 * Dwell THEN Lock
    ELSE IF s.crc16 = 1 THEN CRC16Weak
    ELSE IF s.crc8 > 0 /\ 100 * s.crc8 >= 40 * Dwell THEN CRC8Stable
    ELSE IF s.sof > 0 THEN SofOnly
    ELSE IF s.ac > 0 \/ s.ac_raw > 0 THEN AcOnly ELSE NoLock

SortKey(s) == << ClassRank(s), s.crc16, s.crc8, s.sof, -s.crc16_fail >>

Above(a, b) ==
    \E i \in 1 .. Len(a) : a[i] > b[i] /\ \A j \in 1 .. i - 1 : a[j] = b[j]

BestRows(rows) ==
    {row \in ToSet(rows) :
        ~ \E other \in ToSet(rows) : Above(SortKey(other.stats), SortKey(row.stats))}

\* _measure_candidate: a row names its settings in whole kilohertz; the
\* counts it also holds are kept beside them here.
Row(candidate) ==
    [rescue |-> candidate.rescue, filter |-> candidate.filter, gain |-> candidate.gain,
     rf_bw_khz |-> ToKHz(candidate.rf_bw), offset_khz |-> ToKHz(candidate.offset)]

(***************************************************************************)
(* What _write_outputs leaves for the receiver                             *)
(***************************************************************************)
ProfileName(rescue) ==
    IF rescue = "" THEN "INFO" ELSE IF rescue = "L2" THEN "INFO_L2" ELSE "INFO_L3"
RescueName(rescue)  == IF rescue = "" THEN "normal" ELSE rescue

Common(row, team) ==
    [team |-> team, profile |-> ProfileName(row.rescue), rescue |-> RescueName(row.rescue),
     filter |-> row.filter, gain |-> row.gain,
     rf_bw_hz |-> Absent, freq_offset_hz |-> Absent, rf_bw_khz |-> Absent, offset_khz |-> Absent]

\* best_profile.yaml
BestProfileYaml(row, team) ==
    [Common(row, team) EXCEPT !.rf_bw_hz = row.rf_bw_khz * KHz,
                              !.freq_offset_hz = row.offset_khz * KHz]

\* "best" of adaptive_profile_sweep.json is the row itself.
BestRowJson(row, team) ==
    [Common(row, team) EXCEPT !.rf_bw_khz = row.rf_bw_khz, !.offset_khz = row.offset_khz]
=============================================================================

---------------------------- MODULE WeakInfoProbe ----------------------------
(***************************************************************************)
(* weak_info_probe.py: tunes the bare radio through gains, bandwidths,     *)
(* offsets and filters, scores a capture at each, and writes a command     *)
(* line for adaptive_profile_sweep.py that narrows it to what scored best. *)
(* A row's scores are left open; the ties that score, hard errors and the  *)
(* correlation decide are reduced to the first two.                        *)
(***************************************************************************)
EXTENDS ProfileSweep

ProbeGains(args) ==
    IF args.gains = << >> THEN << HardwareGainMax >> ELSE GainCandidates(args, HardwareGainMax)

ProbeCandidates(args) ==
    LET all == ForEach(ProbeGains(args), LAMBDA gain :
               ForEach(args.rf_bws, LAMBDA rf_bw :
               ForEach(args.offsets, LAMBDA offset :
               ForEach(args.filters, LAMBDA filter :
                   << [gain |-> gain, rf_bw |-> rf_bw, offset |-> offset,
                       filter |-> filter] >>))))
    IN  Limited(all, args.limit)

\* _apply_candidate_sdr: the offset is added for either team.
ProbeTuned(c) == [lo |-> c.offset, rf_bw |-> c.rf_bw, gain |-> c.gain]

ProbeRow(c, idx, score, hard_min_errors) ==
    [idx |-> idx, gain |-> c.gain, rf_bw_khz |-> ToKHz(c.rf_bw), offset_khz |-> ToKHz(c.offset),
     filter |-> c.filter, score |-> score, hard_min_errors |-> hard_min_errors,
     tuned |-> ProbeTuned(c)]

\* No errors at all count as 64, the value of a row that was not measured.
ProbeSortKey(row) ==
    << row.score, IF row.hard_min_errors = 0 THEN -64 ELSE -row.hard_min_errors, -row.idx >>

\* The elements of S in order.  (The library's SortSeq has no definition that
\* a proof could use.)
Ordered(S, Before(_, _)) ==
    [i \in 1 .. Cardinality(S) |->
        CHOOSE x \in S : Cardinality({y \in S : Before(y, x)}) = i - 1]

RankedRows(rows) ==
    Ordered(ToSet(rows), LAMBDA a, b : Above(ProbeSortKey(a), ProbeSortKey(b)))

\* Mutant: a form of the filter that the adapter does not have.
FilterForSweepTypo(row) ==
    IF row.hard_min_errors \in 4 .. 12 /\ row.filter.name = "tight_loose3"
    THEN [row.filter EXCEPT !.name = "loose10_tight"] ELSE row.filter

\* _sweep_filter_from_probe and the "_notch" added to its name.
FilterForSweep(row) ==
    LET loosened == [normal |-> "loose10", loose3 |-> "loose10",
                     wide_loose3 |-> "wide_loose10", tight_loose3 |-> "tight_loose10"]
    IN  IF row.hard_min_errors \in 4 .. 12 /\ row.filter.name \in DOMAIN loosened
        THEN [row.filter EXCEPT !.name = loosened[@]] ELSE row.filter

\* suggested_adaptive_profile_sweep.sh
SuggestedSweep(rows) ==
    LET ranked == RankedRows(rows)
        top    == SubSeq(ranked, 1, Smaller(4, Len(ranked)))
        Sorted(S) == Ordered(S, <)
    IN  [profiles |-> << "" >>,
         gains    |-> Sorted({row.gain : row \in ToSet(top)}),
         rf_bws   |-> Sorted({row.rf_bw_khz * KHz : row \in ToSet(top)}),
         offsets  |-> Sorted({row.offset_khz * KHz : row \in ToSet(top)}),
         filters  |-> FoldLeft(AppendNew, << >>,
                               [i \in 1 .. Len(top) |-> FilterForSweep(top[i])]),
         gain_max |-> HardwareGainMax, limit |-> 0]
=============================================================================

------------------------- MODULE SweepCandidates_proofs -------------------------
(***************************************************************************)
(* What the nested loops of the sweep and of the probe try, for arguments  *)
(* of any length, and that the sweep which a probe suggests tries what     *)
(* scored best.  Each loop is taken on its own, as the elements its body   *)
(* adds for each item; the ranking is known by its elements and its order. *)
(***************************************************************************)
EXTENDS SweepToMatch, SequenceLemmas, TLAPS

(***************************************************************************)
(* What the candidates of a sweep are                                      *)
(***************************************************************************)
Rescues == {"", "L2", "L3"}
GoodCandidates ==
    [rescue : Rescues, filter : Filters, rf_bw : Bandwidths, offset : Int, gain : Int]

\* One of the nested loops, whose body adds a sequence for every item, and the
\* innermost one, whose body adds one candidate.
Loop(seq, body)      == FlattenSeq([i \in 1 .. Len(seq) |-> body[seq[i]]])
InnerLoop(seq, body) == FlattenSeq([i \in 1 .. Len(seq) |-> << body[seq[i]] >>])

\* What the body adds for every item, and no more.
LEMMA LoopElements ==
    ASSUME NEW S, NEW A, NEW seq \in Seq(A), NEW body, \A x \in A : body[x] \in Seq(S)
    PROVE  /\ Loop(seq, body) \in Seq(S)
           /\ \A y : y \in ToSet(Loop(seq, body)) <=> \E x \in ToSet(seq) : y \in ToSet(body[x])
<1> DEFINE each == [i \in 1 .. Len(seq) |-> body[seq[i]]]
<1>0. Len(seq) \in Nat /\ \A i \in 1 .. Len(seq) : seq[i] \in A
  OBVIOUS
<1>1. each \in Seq(Seq(S)) /\ Len(each) = Len(seq) /\ \A i \in 1 .. Len(seq) : each[i] = body[seq[i]]
  BY <1>0
<1>2. Loop(seq, body) = FlattenSeq(each)
  BY Zenon DEF Loop
<1> HIDE DEF each
<1>3. /\ Loop(seq, body) \in Seq(S)
      /\ ToSet(Loop(seq, body)) = UNION {ToSet(each[i]) : i \in 1 .. Len(seq)}
  BY <1>1, <1>2, FlattenElements
<1>4. ASSUME NEW y
      PROVE  y \in ToSet(Loop(seq, body)) <=> \E i \in 1 .. Len(seq) : y \in ToSet(body[seq[i]])
  BY <1>1, <1>3
<1>5. ToSet(seq) = {seq[i] : i \in 1 .. Len(seq)}
  BY DEF ToSet
<1> QED BY <1>3, <1>4, <1>5

\* The innermost loop adds exactly one candidate for every item.
LEMMA InnerLoopElements ==
    ASSUME NEW S, NEW A, NEW seq \in Seq(A), NEW body, \A x \in A : body[x] \in S
    PROVE  /\ InnerLoop(seq, body) \in Seq(S)
           /\ \A y : y \in ToSet(InnerLoop(seq, body)) <=> \E x \in ToSet(seq) : y = body[x]
<1> DEFINE one == [x \in A |-> << body[x] >>]
<1>1. \A x \in A : one[x] = << body[x] >> /\ one[x] \in Seq(S) /\ ToSet(one[x]) = {body[x]}
  BY DEF ToSet
<1> HIDE DEF one
<1>2. [i \in 1 .. Len(seq) |-> << body[seq[i]] >>] = [i \in 1 .. Len(seq) |-> one[seq[i]]]
  <2>1. \A i \in 1 .. Len(seq) : seq[i] \in A
    OBVIOUS
  <2> QED BY <1>1, <2>1
<1>3. InnerLoop(seq, body) = Loop(seq, one)
  BY <1>2, Zenon DEF InnerLoop, Loop
<1>4. \A x \in A : one[x] \in Seq(S)
  BY <1>1
<1>5. /\ Loop(seq, one) \in Seq(S)
      /\ \A y : y \in ToSet(Loop(seq, one)) <=> \E x \in ToSet(seq) : y \in ToSet(one[x])
  BY <1>4, LoopElements
<1>6. ASSUME NEW x \in ToSet(seq) PROVE \A y : y \in ToSet(one[x]) <=> y = body[x]
  <2>1. x \in A
    BY DEF ToSet
  <2> QED BY <1>1, <2>1
<1>7. ASSUME NEW y PROVE y \in ToSet(Loop(seq, one)) <=> \E x \in ToSet(seq) : y = body[x]
  BY <1>5, <1>6
<1> QED BY <1>3, <1>5, <1>7

\* A limit leaves a beginning.
LEMMA LimitedElements ==
    ASSUME NEW S, NEW all \in Seq(S), NEW limit \in Int
    PROVE  /\ Limited(all, limit) \in Seq(S)
           /\ limit <= 0 => Limited(all, limit) = all
           /\ all # << >> => Limited(all, limit) # << >>
<1>1. CASE limit <= 0
  BY <1>1 DEF Limited
<1>2. CASE limit > 0
  <2> DEFINE n == Smaller(limit, Len(all))
  <2>1. n \in 0 .. Len(all) /\ (Len(all) > 0 => n > 0)
    BY <1>2 DEF Smaller
  <2>2. Limited(all, limit) = SubSeq(all, 1, n)
    BY <1>2 DEF Limited
  <2> HIDE DEF n
  <2>3. SubSeq(all, 1, n) \in Seq(S) /\ Len(SubSeq(all, 1, n)) = n
    BY <2>1
  <2>4. all # << >> => Len(all) > 0
    OBVIOUS
  <2>5. n > 0 => SubSeq(all, 1, n) # << >>
    BY <2>1, <2>3
  <2> QED BY <1>2, <2>1, <2>2, <2>3, <2>4, <2>5
<1> QED BY <1>1, <1>2

\* Folding AppendNew keeps the elements of a sequence.
Once(seq) == FoldLeft(AppendNew, << >>, seq)

\* _gain_candidates: a gain that is clamped to one already listed is left out,
\* so nothing is lost.
LEMMA OnceElements ==
    ASSUME NEW S, NEW seq \in Seq(S)
    PROVE  Once(seq) \in Seq(S) /\ ToSet(Once(seq)) = ToSet(seq)
<1> DEFINE n == Len(seq)
           g == CHOOSE g : AddsNew(g, seq, n)
<1>1. n \in Nat /\ DOMAIN seq = 1 .. n
  OBVIOUS
<1>2. Once(seq) = g[1 .. n]
  BY <1>1, Zenon DEF Once, FoldLeft, MapThenFoldSet, AppendNew, AddsNew
<1>3. AddsNew(g, seq, n)
  BY <1>1, AddsNewExists
<1> HIDE DEF g
<1> QED BY <1>2, <1>3, AddsNewElements

Candidate5(rescue, filter, rf_bw, offset, gain) ==
    [rescue |-> rescue, filter |-> filter, rf_bw |-> rf_bw, offset |-> offset, gain |-> gain]

\* The loops of Candidates, from the innermost.
OverGains(gains, rescue, filter, rf_bw, offset) ==
    FlattenSeq([i \in 1 .. Len(gains) |-> << Candidate5(rescue, filter, rf_bw, offset, gains[i]) >>])
OverOffsets(gains, args, rescue, filter, rf_bw) ==
    FlattenSeq([i \in 1 .. Len(args.offsets) |->
                   OverGains(gains, rescue, filter, rf_bw, args.offsets[i])])
OverRfBws(gains, args, rescue, filter) ==
    FlattenSeq([i \in 1 .. Len(args.rf_bws) |->
                   OverOffsets(gains, args, rescue, filter, args.rf_bws[i])])
OverFilters(gains, args, rescue) ==
    FlattenSeq([i \in 1 .. Len(FilterCandidates(args, rescue)) |->
                   OverRfBws(gains, args, rescue, FilterCandidates(args, rescue)[i])])
OverProfiles(gains, args) ==
    FlattenSeq([i \in 1 .. Len(args.profiles) |-> OverFilters(gains, args, args.profiles[i])])

SweepGains(args) == GainCandidates(args, Smaller(args.gain_max, HardwareGainMax))

\* The candidates are the named loops, one inside the other, up to the limit.
LEMMA CandidatesAreLoops ==
    ASSUME NEW args
    PROVE  Candidates(args) = Limited(OverProfiles(SweepGains(args), args), args.limit)
BY Zenon DEF Candidates, ForEach, OverProfiles, OverFilters, OverRfBws, OverOffsets, OverGains,
       Candidate5, SweepGains

\* for gain in gains
LEMMA GainsLoop ==
    ASSUME NEW gains \in Seq(Int), NEW rescue \in Rescues, NEW filter \in Filters,
           NEW rf_bw \in Bandwidths, NEW offset \in Int
    PROVE  /\ OverGains(gains, rescue, filter, rf_bw, offset) \in Seq(GoodCandidates)
           /\ \A x : x \in ToSet(OverGains(gains, rescue, filter, rf_bw, offset)) <=>
                 \E gain \in ToSet(gains) : x = Candidate5(rescue, filter, rf_bw, offset, gain)
<1> DEFINE body == [gain \in Int |-> Candidate5(rescue, filter, rf_bw, offset, gain)]
<1>1. \A gain \in Int : body[gain] \in GoodCandidates
  BY DEF GoodCandidates, Candidate5
<1>2. \A gain \in Int : body[gain] = Candidate5(rescue, filter, rf_bw, offset, gain)
  OBVIOUS
<1> HIDE DEF body
<1>3. OverGains(gains, rescue, filter, rf_bw, offset)
        = InnerLoop(gains, body)
  <2>1. \A i \in 1 .. Len(gains) : gains[i] \in Int
    OBVIOUS
  <2>2. [i \in 1 .. Len(gains) |-> << body[gains[i]] >>]
          = [i \in 1 .. Len(gains) |-> << Candidate5(rescue, filter, rf_bw, offset, gains[i]) >>]
    BY <1>2, <2>1
  <2> QED BY <2>2, Zenon DEF OverGains, InnerLoop
<1>4. /\ OverGains(gains, rescue, filter, rf_bw, offset) \in Seq(GoodCandidates)
      /\ \A x : x \in ToSet(OverGains(gains, rescue, filter, rf_bw, offset)) <=>
               \E gain \in ToSet(gains) : x = body[gain]
  BY <1>1, <1>3, InnerLoopElements
<1>5. ToSet(gains) \subseteq Int
  BY DEF ToSet
<1> QED BY <1>2, <1>4, <1>5

\* for offset in offsets
LEMMA OffsetsLoop ==
    ASSUME NEW gains \in Seq(Int), NEW args, SweepArgs(args), NEW rescue \in Rescues,
           NEW filter \in Filters, NEW rf_bw \in Bandwidths
    PROVE  /\ OverOffsets(gains, args, rescue, filter, rf_bw) \in Seq(GoodCandidates)
           /\ \A x : x \in ToSet(OverOffsets(gains, args, rescue, filter, rf_bw)) <=>
                 \E offset \in ToSet(args.offsets) :
                     x \in ToSet(OverGains(gains, rescue, filter, rf_bw, offset))
<1> DEFINE seq == args.offsets
           body == [x \in Int |-> OverGains(gains, rescue, filter, rf_bw, x)]
<1>0. seq \in Seq(Int)
  BY DEF SweepArgs
<1>1. \A x \in Int : body[x] \in Seq(GoodCandidates)
                     /\ body[x] = OverGains(gains, rescue, filter, rf_bw, x)
  BY GainsLoop
<1> HIDE DEF body, seq
<1>2. [i \in 1 .. Len(seq) |-> body[seq[i]]]
        = [i \in 1 .. Len(seq) |-> OverGains(gains, rescue, filter, rf_bw, seq[i])]
  <2>1. \A i \in 1 .. Len(seq) : seq[i] \in Int
    BY <1>0
  <2> QED BY <1>1, <2>1
<1>3. OverOffsets(gains, args, rescue, filter, rf_bw) = Loop(seq, body)
  BY <1>2, Zenon DEF OverOffsets, Loop, seq
<1>4. \A x \in Int : body[x] \in Seq(GoodCandidates)
  BY <1>1
<1>5. /\ OverOffsets(gains, args, rescue, filter, rf_bw) \in Seq(GoodCandidates)
      /\ \A x : x \in ToSet(OverOffsets(gains, args, rescue, filter, rf_bw)) <=> \E y \in ToSet(seq) : x \in ToSet(body[y])
  BY <1>0, <1>3, <1>4, LoopElements
<1>6. \A y \in ToSet(seq) : body[y] = OverGains(gains, rescue, filter, rf_bw, y)
  BY <1>0, <1>1 DEF ToSet
<1> QED BY <1>5, <1>6 DEF seq

\* for rf_bw in rf bandwidths
LEMMA RfBwsLoop ==
    ASSUME NEW gains \in Seq(Int), NEW args, SweepArgs(args), NEW rescue \in Rescues,
           NEW filter \in Filters
    PROVE  /\ OverRfBws(gains, args, rescue, filter) \in Seq(GoodCandidates)
           /\ \A x : x \in ToSet(OverRfBws(gains, args, rescue, filter)) <=>
                 \E rf_bw \in ToSet(args.rf_bws) :
                     x \in ToSet(OverOffsets(gains, args, rescue, filter, rf_bw))
<1> DEFINE seq == args.rf_bws
           body == [x \in Bandwidths |-> OverOffsets(gains, args, rescue, filter, x)]
<1>0. seq \in Seq(Bandwidths)
  BY DEF SweepArgs
<1>1. \A x \in Bandwidths : body[x] \in Seq(GoodCandidates)
                            /\ body[x] = OverOffsets(gains, args, rescue, filter, x)
  BY OffsetsLoop
<1> HIDE DEF body, seq
<1>2. [i \in 1 .. Len(seq) |-> body[seq[i]]]
        = [i \in 1 .. Len(seq) |-> OverOffsets(gains, args, rescue, filter, seq[i])]
  <2>1. \A i \in 1 .. Len(seq) : seq[i] \in Bandwidths
    BY <1>0
  <2> QED BY <1>1, <2>1
<1>3. OverRfBws(gains, args, rescue, filter) = Loop(seq, body)
  BY <1>2, Zenon DEF OverRfBws, Loop, seq
<1>4. \A x \in Bandwidths : body[x] \in Seq(GoodCandidates)
  BY <1>1
<1>5. /\ OverRfBws(gains, args, rescue, filter) \in Seq(GoodCandidates)
      /\ \A x : x \in ToSet(OverRfBws(gains, args, rescue, filter)) <=> \E y \in ToSet(seq) : x \in ToSet(body[y])
  BY <1>0, <1>3, <1>4, LoopElements
<1>6. \A y \in ToSet(seq) : body[y] = OverOffsets(gains, args, rescue, filter, y)
  BY <1>0, <1>1 DEF ToSet
<1> QED BY <1>5, <1>6 DEF seq

\* A profile's own list of filters, or its default.
LEMMA FiltersListed ==
    ASSUME NEW args, SweepArgs(args), NEW rescue \in ToSet(args.profiles)
    PROVE  FilterCandidates(args, rescue) \in Seq(Filters)
<1> DEFINE listed == IF rescue = "" THEN args.filters ELSE args.rescue_filters[rescue]
           default == [name |-> DefaultFilter(rescue), notch |-> FALSE]
<1>1. listed \in Seq(Filters)
  BY DEF SweepArgs
<1>2. default \in Filters
  BY DEF Filters, DefaultFilter, InfoVariants
<1>3. FilterCandidates(args, rescue) = IF listed # << >> THEN listed ELSE << default >>
  BY Zenon DEF FilterCandidates
<1> HIDE DEF listed, default
<1> QED BY <1>1, <1>2, <1>3

\* for filter in the filters of the profile
LEMMA FiltersLoop ==
    ASSUME NEW gains \in Seq(Int), NEW args, SweepArgs(args), NEW rescue \in ToSet(args.profiles)
    PROVE  /\ OverFilters(gains, args, rescue) \in Seq(GoodCandidates)
           /\ \A x : x \in ToSet(OverFilters(gains, args, rescue)) <=>
                 \E filter \in ToSet(FilterCandidates(args, rescue)) :
                     x \in ToSet(OverRfBws(gains, args, rescue, filter))
<1> DEFINE seq == FilterCandidates(args, rescue)
           body == [x \in Filters |-> OverRfBws(gains, args, rescue, x)]
<1>0. seq \in Seq(Filters)
  BY FiltersListed
<1>r. rescue \in Rescues
  BY ToSetIs DEF SweepArgs, Rescues
<1>1. \A x \in Filters : body[x] \in Seq(GoodCandidates)
                         /\ body[x] = OverRfBws(gains, args, rescue, x)
  BY <1>r, RfBwsLoop
<1> HIDE DEF body, seq
<1>2. [i \in 1 .. Len(seq) |-> body[seq[i]]]
        = [i \in 1 .. Len(seq) |-> OverRfBws(gains, args, rescue, seq[i])]
  <2>1. \A i \in 1 .. Len(seq) : seq[i] \in Filters
    BY <1>0
  <2> QED BY <1>1, <2>1
<1>3. OverFilters(gains, args, rescue) = Loop(seq, body)
  BY <1>2, Zenon DEF OverFilters, Loop, seq
<1>4. \A x \in Filters : body[x] \in Seq(GoodCandidates)
  BY <1>1
<1>5. /\ OverFilters(gains, args, rescue) \in Seq(GoodCandidates)
      /\ \A x : x \in ToSet(OverFilters(gains, args, rescue)) <=> \E y \in ToSet(seq) : x \in ToSet(body[y])
  BY <1>0, <1>3, <1>4, LoopElements
<1>6. \A y \in ToSet(seq) : body[y] = OverRfBws(gains, args, rescue, y)
  BY <1>0, <1>1 DEF ToSet
<1> QED BY <1>5, <1>6 DEF seq

\* for profile in profiles
LEMMA ProfilesLoop ==
    ASSUME NEW gains \in Seq(Int), NEW args, SweepArgs(args)
    PROVE  /\ OverProfiles(gains, args) \in Seq(GoodCandidates)
           /\ \A x : x \in ToSet(OverProfiles(gains, args)) <=>
                 \E rescue \in ToSet(args.profiles) : x \in ToSet(OverFilters(gains, args, rescue))
<1> DEFINE seq == args.profiles
           each == ToSet(seq)
           body == [x \in each |-> OverFilters(gains, args, x)]
<1>0. seq \in Seq(each)
  <2>1. seq \in Seq(Rescues)
    BY DEF SweepArgs, Rescues
  <2> HIDE DEF seq
  <2>2. \A i \in 1 .. Len(seq) : seq[i] \in each
    BY <2>1, ToSetIs
  <2> QED BY <2>1, <2>2
<1>1. \A x \in each : body[x] \in Seq(GoodCandidates)
                         /\ body[x] = OverFilters(gains, args, x)
  BY FiltersLoop
<1> HIDE DEF body, seq, each
<1>2. [i \in 1 .. Len(seq) |-> body[seq[i]]] = [i \in 1 .. Len(seq) |-> OverFilters(gains, args, seq[i])]
  <2>1. \A i \in 1 .. Len(seq) : seq[i] \in each
    BY <1>0
  <2> QED BY <1>1, <2>1
<1>3. OverProfiles(gains, args) = Loop(seq, body)
  BY <1>2, Zenon DEF OverProfiles, Loop, seq
<1>4. \A x \in each : body[x] \in Seq(GoodCandidates)
  BY <1>1
<1>5. /\ OverProfiles(gains, args) \in Seq(GoodCandidates)
      /\ \A x : x \in ToSet(OverProfiles(gains, args)) <=> \E y \in ToSet(seq) : x \in ToSet(body[y])
  BY <1>0, <1>3, <1>4, LoopElements
<1>6. \A y \in ToSet(seq) : body[y] = OverFilters(gains, args, y)
  BY <1>1 DEF each
<1> QED BY <1>5, <1>6 DEF seq

\* Gains that were asked for, no higher than allowed.
LEMMA GainsClamped ==
    ASSUME NEW args, args.gains \in Seq(Int), NEW max \in Int
    PROVE  /\ GainCandidates(args, max) \in Seq(Int)
           /\ \A x : x \in ToSet(GainCandidates(args, max)) <=>
                  \E i \in 1 .. Len(args.gains) : x = Smaller(args.gains[i], max)
<1> DEFINE seq == [i \in 1 .. Len(args.gains) |-> Smaller(args.gains[i], max)]
<1>1. /\ Len(args.gains) \in Nat
      /\ \A i \in 1 .. Len(args.gains) : Smaller(args.gains[i], max) \in Int
  BY DEF Smaller
<1>2. /\ seq \in Seq(Int) /\ Len(seq) = Len(args.gains)
      /\ \A i \in 1 .. Len(args.gains) : seq[i] = Smaller(args.gains[i], max)
  BY <1>1
<1>3. GainCandidates(args, max) = Once(seq)
  BY Zenon DEF GainCandidates, Once
<1> HIDE DEF seq
<1>4. /\ GainCandidates(args, max) \in Seq(Int)
      /\ ToSet(GainCandidates(args, max)) = ToSet(seq)
  BY <1>2, <1>3, OnceElements
<1>5. \A x : x \in ToSet(seq) <=> \E i \in 1 .. Len(seq) : x = seq[i]
  BY <1>2, ToSetIs
<1>6. ASSUME NEW x
      PROVE  x \in ToSet(seq) <=> \E i \in 1 .. Len(args.gains) : x = Smaller(args.gains[i], max)
  BY <1>2, <1>5
<1> QED BY <1>4, <1>6

\* The gains a sweep tries, clamped to the hardware, are numbers.
LEMMA SweepGainsInts ==
    ASSUME NEW args, SweepArgs(args)
    PROVE  SweepGains(args) \in Seq(Int)
<1>1. Smaller(args.gain_max, HardwareGainMax) \in Int
  BY UnitsAssumption DEF SweepArgs, Smaller
<1> QED BY <1>1, GainsClamped DEF SweepGains, SweepArgs

\* What a sweep tries is made of its arguments.
LEMMA CandidatesGood ==
    ASSUME NEW args, SweepArgs(args)
    PROVE  Candidates(args) \in Seq(GoodCandidates)
<1>1. OverProfiles(SweepGains(args), args) \in Seq(GoodCandidates)
  BY SweepGainsInts, ProfilesLoop
<1>2. args.limit \in Int
  BY DEF SweepArgs
<1> HIDE DEF GoodCandidates
<1> QED BY <1>1, <1>2, LimitedElements, CandidatesAreLoops

\* Without a limit it tries everything that can be made of them, and no more.
THEOREM CandidatesComplete ==
    ASSUME NEW args, SweepArgs(args), args.limit <= 0
    PROVE  \A c : c \in ToSet(Candidates(args)) <=>
              \E rescue \in ToSet(args.profiles) :
              \E filter \in ToSet(FilterCandidates(args, rescue)) :
              \E rf_bw \in ToSet(args.rf_bws), offset \in ToSet(args.offsets),
                 gain \in ToSet(SweepGains(args)) :
                    c = Candidate5(rescue, filter, rf_bw, offset, gain)
<1> DEFINE gains == SweepGains(args)
<1>0. gains \in Seq(Int)
  BY SweepGainsInts
<1> HIDE DEF gains
<1>1. args.limit \in Int /\ OverProfiles(gains, args) \in Seq(GoodCandidates)
  BY <1>0, ProfilesLoop DEF SweepArgs
<1>2. Candidates(args) = OverProfiles(gains, args)
  <2> HIDE DEF GoodCandidates
  <2> QED BY <1>1, LimitedElements, CandidatesAreLoops DEF gains
<1>3. /\ ToSet(args.profiles) \subseteq Rescues
      /\ ToSet(args.rf_bws) \subseteq Bandwidths /\ ToSet(args.offsets) \subseteq Int
  BY ToSetIs DEF SweepArgs, Rescues
<1>4. \A rescue \in ToSet(args.profiles) : ToSet(FilterCandidates(args, rescue)) \subseteq Filters
  BY FiltersListed, ToSetIs
<1>5. ASSUME NEW c, NEW rescue \in Rescues, NEW filter \in Filters, NEW rf_bw \in Bandwidths
      PROVE  c \in ToSet(OverOffsets(gains, args, rescue, filter, rf_bw)) <=>
                \E offset \in ToSet(args.offsets), gain \in ToSet(gains) :
                    c = Candidate5(rescue, filter, rf_bw, offset, gain)
  <2>1. c \in ToSet(OverOffsets(gains, args, rescue, filter, rf_bw)) <=>
           \E offset \in ToSet(args.offsets) :
              c \in ToSet(OverGains(gains, rescue, filter, rf_bw, offset))
    BY <1>0, OffsetsLoop
  <2>2. \A offset \in ToSet(args.offsets) :
           c \in ToSet(OverGains(gains, rescue, filter, rf_bw, offset)) <=>
              \E gain \in ToSet(gains) : c = Candidate5(rescue, filter, rf_bw, offset, gain)
    BY <1>0, <1>3, GainsLoop
  <2> QED BY <2>1, <2>2
<1>6. ASSUME NEW c, NEW rescue \in Rescues, NEW filter \in Filters
      PROVE  c \in ToSet(OverRfBws(gains, args, rescue, filter)) <=>
                \E rf_bw \in ToSet(args.rf_bws), offset \in ToSet(args.offsets),
                   gain \in ToSet(gains) :
                    c = Candidate5(rescue, filter, rf_bw, offset, gain)
  <2>1. c \in ToSet(OverRfBws(gains, args, rescue, filter)) <=>
           \E rf_bw \in ToSet(args.rf_bws) :
              c \in ToSet(OverOffsets(gains, args, rescue, filter, rf_bw))
    BY <1>0, RfBwsLoop
  <2> QED BY <2>1, <1>3, <1>5
<1>7. ASSUME NEW c, NEW rescue \in ToSet(args.profiles)
      PROVE  c \in ToSet(OverFilters(gains, args, rescue)) <=>
                \E filter \in ToSet(FilterCandidates(args, rescue)) :
                \E rf_bw \in ToSet(args.rf_bws), offset \in ToSet(args.offsets),
                   gain \in ToSet(gains) :
                    c = Candidate5(rescue, filter, rf_bw, offset, gain)
  <2>1. c \in ToSet(OverFilters(gains, args, rescue)) <=>
           \E filter \in ToSet(FilterCandidates(args, rescue)) :
              c \in ToSet(OverRfBws(gains, args, rescue, filter))
    BY <1>0, FiltersLoop
  <2>2. rescue \in Rescues /\ ToSet(FilterCandidates(args, rescue)) \subseteq Filters
    BY <1>3, <1>4
  <2> QED BY <2>1, <2>2, <1>6
<1>8. ASSUME NEW c
      PROVE  c \in ToSet(OverProfiles(gains, args)) <=>
                \E rescue \in ToSet(args.profiles) :
                \E filter \in ToSet(FilterCandidates(args, rescue)) :
                \E rf_bw \in ToSet(args.rf_bws), offset \in ToSet(args.offsets),
                   gain \in ToSet(gains) :
                    c = Candidate5(rescue, filter, rf_bw, offset, gain)
  <2>1. c \in ToSet(OverProfiles(gains, args)) <=>
           \E rescue \in ToSet(args.profiles) : c \in ToSet(OverFilters(gains, args, rescue))
    BY <1>0, ProfilesLoop
  <2> QED BY <2>1, <1>3, <1>7
<1> QED BY <1>2, <1>8 DEF gains

(***************************************************************************)
(* What a probe tries, and what it suggests                                *)
(***************************************************************************)
ProbeFilters == [name : InfoVariants, notch : BOOLEAN]
ProbeCandidateSet ==
    [gain : {g \in Int : g <= HardwareGainMax}, rf_bw : Bandwidths, offset : Int,
     filter : ProbeFilters]

ProbeCandidate4(gain, rf_bw, offset, filter) ==
    [gain |-> gain, rf_bw |-> rf_bw, offset |-> offset, filter |-> filter]

\* The loops of ProbeCandidates, from the innermost.
OverProbeFilters(args, gain, rf_bw, offset) ==
    FlattenSeq([i \in 1 .. Len(args.filters) |->
                   << ProbeCandidate4(gain, rf_bw, offset, args.filters[i]) >>])
OverProbeOffsets(args, gain, rf_bw) ==
    FlattenSeq([i \in 1 .. Len(args.offsets) |->
                   OverProbeFilters(args, gain, rf_bw, args.offsets[i])])
OverProbeRfBws(args, gain) ==
    FlattenSeq([i \in 1 .. Len(args.rf_bws) |-> OverProbeOffsets(args, gain, args.rf_bws[i])])
OverProbeGains(args) ==
    FlattenSeq([i \in 1 .. Len(ProbeGains(args)) |-> OverProbeRfBws(args, ProbeGains(args)[i])])

\* The probe's candidates are the named loops, up to the limit.
LEMMA ProbeCandidatesAreLoops ==
    ASSUME NEW args
    PROVE  ProbeCandidates(args) = Limited(OverProbeGains(args), args.limit)
BY Zenon DEF ProbeCandidates, ForEach, OverProbeGains, OverProbeRfBws, OverProbeOffsets,
       OverProbeFilters, ProbeCandidate4

\* A sequence that has an element is not empty.
LEMMA NotEmpty ==
    ASSUME NEW S, NEW s \in Seq(S)
    PROVE  ToSet(s) # {} <=> s # << >>
<1>1. s = << >> <=> Len(s) = 0
  OBVIOUS
<1>2. Len(s) \in Nat
  OBVIOUS
<1>3. \A x : x \in ToSet(s) <=> \E i \in 1 .. Len(s) : x = s[i]
  BY ToSetIs
<1>4. s # << >> => s[1] \in ToSet(s)
  BY <1>1, <1>2, <1>3
<1> QED BY <1>1, <1>3, <1>4

ProbeGainSet == {g \in Int : g <= HardwareGainMax}

\* A probe always has a gain to try, none above the hardware maximum.
LEMMA ProbeGainsAllowed ==
    ASSUME NEW args, ProbeArgs(args)
    PROVE  ProbeGains(args) \in Seq(ProbeGainSet) /\ ToSet(ProbeGains(args)) # {}
<1>1. HardwareGainMax \in Int
  BY UnitsAssumption
<1>2. CASE args.gains = << >>
  <2>1. ProbeGains(args) = << HardwareGainMax >>
    BY <1>2 DEF ProbeGains
  <2>2. HardwareGainMax \in ProbeGainSet
    BY <1>1 DEF ProbeGainSet
  <2>3. << HardwareGainMax >> \in Seq(ProbeGainSet) /\ << HardwareGainMax >> # << >>
    BY <2>2
  <2> QED BY <2>1, <2>3, NotEmpty
<1>3. CASE args.gains # << >>
  <2> DEFINE gains == GainCandidates(args, HardwareGainMax)
  <2>0. args.gains \in Seq(Int)
    BY DEF ProbeArgs
  <2>1. /\ gains \in Seq(Int)
        /\ \A x : x \in ToSet(gains) <=>
              \E i \in 1 .. Len(args.gains) : x = Smaller(args.gains[i], HardwareGainMax)
    BY <1>1, <2>0, GainsClamped
  <2>2. ProbeGains(args) = gains
    BY <1>3 DEF ProbeGains
  <2> HIDE DEF gains
  <2>3. \A i \in 1 .. Len(args.gains) : Smaller(args.gains[i], HardwareGainMax) \in ProbeGainSet
    BY <1>1, <2>0 DEF Smaller, ProbeGainSet
  <2>4. \A i \in 1 .. Len(gains) : gains[i] \in ProbeGainSet
    <3>1. \A i \in 1 .. Len(gains) : gains[i] \in ToSet(gains)
      BY <2>1, ToSetIs
    <3> QED BY <2>1, <2>3, <3>1
  <2>5. gains \in Seq(ProbeGainSet)
    BY <2>1, <2>4
  <2>6. ToSet(gains) # {}
    <3>1. 1 \in 1 .. Len(args.gains)
      BY <1>3, <2>0
    <3> QED BY <2>1, <3>1
  <2> QED BY <2>2, <2>5, <2>6
<1> QED BY <1>2, <1>3

\* for filter in the filters of the probe, of which there is at least one
LEMMA ProbeFiltersLoop ==
    ASSUME NEW args, ProbeArgs(args), NEW gain \in ProbeGainSet, NEW rf_bw \in Bandwidths,
           NEW offset \in Int
    PROVE  /\ OverProbeFilters(args, gain, rf_bw, offset) \in Seq(ProbeCandidateSet)
           /\ ToSet(OverProbeFilters(args, gain, rf_bw, offset)) # {}
<1> DEFINE seq == args.filters
           body == [x \in ProbeFilters |-> ProbeCandidate4(gain, rf_bw, offset, x)]
<1>0. seq \in Seq(ProbeFilters) /\ seq # << >>
  BY DEF ProbeArgs, ProbeFilters
<1>1. \A x \in ProbeFilters : body[x] \in ProbeCandidateSet
  BY DEF ProbeCandidateSet, ProbeCandidate4, ProbeGainSet
<1>2. \A x \in ProbeFilters : body[x] = ProbeCandidate4(gain, rf_bw, offset, x)
  OBVIOUS
<1> HIDE DEF body, seq
<1>3. OverProbeFilters(args, gain, rf_bw, offset) = InnerLoop(seq, body)
  <2>1. \A i \in 1 .. Len(seq) : seq[i] \in ProbeFilters
    BY <1>0
  <2>2. [i \in 1 .. Len(seq) |-> << body[seq[i]] >>]
          = [i \in 1 .. Len(seq) |-> << ProbeCandidate4(gain, rf_bw, offset, seq[i]) >>]
    BY <1>2, <2>1
  <2> QED BY <2>2, Zenon DEF OverProbeFilters, InnerLoop, seq
<1>4. ToSet(seq) # {}
  BY <1>0, NotEmpty
<1> HIDE DEF ProbeCandidateSet
<1>5. /\ InnerLoop(seq, body) \in Seq(ProbeCandidateSet)
      /\ \A y : y \in ToSet(InnerLoop(seq, body)) <=> \E x \in ToSet(seq) : y = body[x]
  BY <1>0, <1>1, InnerLoopElements
<1> QED BY <1>3, <1>4, <1>5

\* A loop over something whose body adds something adds something.
LEMMA LoopNotEmpty ==
    ASSUME NEW S, NEW A, NEW seq \in Seq(A), seq # << >>, NEW body,
           \A x \in A : body[x] \in Seq(S), \A x \in A : ToSet(body[x]) # {}
    PROVE  Loop(seq, body) \in Seq(S) /\ ToSet(Loop(seq, body)) # {}
<1>1. /\ Loop(seq, body) \in Seq(S)
      /\ \A y : y \in ToSet(Loop(seq, body)) <=> \E x \in ToSet(seq) : y \in ToSet(body[x])
  BY LoopElements
<1>2. PICK x \in ToSet(seq) : x \in A
  BY NotEmpty, ToSetIs
<1>3. PICK y : y \in ToSet(body[x])
  BY <1>2
<1> QED BY <1>1, <1>2, <1>3

\* for offset in the offsets of the probe
LEMMA ProbeOffsetsLoop ==
    ASSUME NEW args, ProbeArgs(args), NEW gain \in ProbeGainSet, NEW rf_bw \in Bandwidths
    PROVE  /\ OverProbeOffsets(args, gain, rf_bw) \in Seq(ProbeCandidateSet)
           /\ ToSet(OverProbeOffsets(args, gain, rf_bw)) # {}
<1> DEFINE seq == args.offsets
           body == [x \in Int |-> OverProbeFilters(args, gain, rf_bw, x)]
<1>0. seq \in Seq(Int) /\ seq # << >>
  BY DEF ProbeArgs
<1>1. \A x \in Int : body[x] \in Seq(ProbeCandidateSet)
  BY ProbeFiltersLoop
<1>2. \A x \in Int : ToSet(body[x]) # {}
  BY ProbeFiltersLoop
<1>3. \A x \in Int : body[x] = OverProbeFilters(args, gain, rf_bw, x)
  OBVIOUS
<1> HIDE DEF body, seq
<1>4. OverProbeOffsets(args, gain, rf_bw) = Loop(seq, body)
  <2>1. \A i \in 1 .. Len(seq) : seq[i] \in Int
    BY <1>0
  <2>2. [i \in 1 .. Len(seq) |-> body[seq[i]]]
          = [i \in 1 .. Len(seq) |-> OverProbeFilters(args, gain, rf_bw, seq[i])]
    BY <1>3, <2>1
  <2> QED BY <2>2, Zenon DEF OverProbeOffsets, Loop, seq
<1> QED BY <1>0, <1>1, <1>2, <1>4, LoopNotEmpty

\* for rf_bw in the bandwidths of the probe
LEMMA ProbeRfBwsLoop ==
    ASSUME NEW args, ProbeArgs(args), NEW gain \in ProbeGainSet
    PROVE  /\ OverProbeRfBws(args, gain) \in Seq(ProbeCandidateSet)
           /\ ToSet(OverProbeRfBws(args, gain)) # {}
<1> DEFINE seq == args.rf_bws
           body == [x \in Bandwidths |-> OverProbeOffsets(args, gain, x)]
<1>0. seq \in Seq(Bandwidths) /\ seq # << >>
  BY DEF ProbeArgs
<1>1. \A x \in Bandwidths : body[x] \in Seq(ProbeCandidateSet)
  BY ProbeOffsetsLoop
<1>2. \A x \in Bandwidths : ToSet(body[x]) # {}
  BY ProbeOffsetsLoop
<1>3. \A x \in Bandwidths : body[x] = OverProbeOffsets(args, gain, x)
  OBVIOUS
<1> HIDE DEF body, seq
<1>4. OverProbeRfBws(args, gain) = Loop(seq, body)
  <2>1. \A i \in 1 .. Len(seq) : seq[i] \in Bandwidths
    BY <1>0
  <2>2. [i \in 1 .. Len(seq) |-> body[seq[i]]]
          = [i \in 1 .. Len(seq) |-> OverProbeOffsets(args, gain, seq[i])]
    BY <1>3, <2>1
  <2> QED BY <2>2, Zenon DEF OverProbeRfBws, Loop, seq
<1> QED BY <1>0, <1>1, <1>2, <1>4, LoopNotEmpty

\* A probe tries something, with gains the radio has and filters it knows.
LEMMA ProbeCandidatesGood ==
    ASSUME NEW args, ProbeArgs(args)
    PROVE  ProbeCandidates(args) \in Seq(ProbeCandidateSet) /\ ProbeCandidates(args) # << >>
<1> DEFINE seq == ProbeGains(args)
           body == [x \in ProbeGainSet |-> OverProbeRfBws(args, x)]
<1>0. seq \in Seq(ProbeGainSet) /\ ToSet(seq) # {}
  BY ProbeGainsAllowed
<1>1. \A x \in ProbeGainSet : body[x] \in Seq(ProbeCandidateSet)
  BY ProbeRfBwsLoop
<1>2. \A x \in ProbeGainSet : ToSet(body[x]) # {}
  BY ProbeRfBwsLoop
<1>3. \A x \in ProbeGainSet : body[x] = OverProbeRfBws(args, x)
  OBVIOUS
<1> HIDE DEF body, seq
<1>4. OverProbeGains(args) = Loop(seq, body)
  <2>1. \A i \in 1 .. Len(seq) : seq[i] \in ProbeGainSet
    BY <1>0
  <2>2. [i \in 1 .. Len(seq) |-> body[seq[i]]]
          = [i \in 1 .. Len(seq) |-> OverProbeRfBws(args, seq[i])]
    BY <1>3, <2>1
  <2> QED BY <2>2, Zenon DEF OverProbeGains, Loop, seq
<1>5. seq # << >>
  BY <1>0, NotEmpty
<1> HIDE DEF ProbeCandidateSet
<1>6. OverProbeGains(args) \in Seq(ProbeCandidateSet) /\ ToSet(OverProbeGains(args)) # {}
  BY <1>0, <1>1, <1>2, <1>4, <1>5, LoopNotEmpty
<1>7. OverProbeGains(args) # << >> /\ args.limit \in Int
  BY <1>6, NotEmpty DEF ProbeArgs
<1> QED BY <1>6, <1>7, LimitedElements, ProbeCandidatesAreLoops

\* int(hz / 1000) loses less than a kilohertz, and nothing of a whole one.
LEMMA WholeKHz ==
    /\ \A hz \in Int : ToKHz(hz) \in Int /\ Near(ToKHz(hz) * KHz, hz)
                                         /\ Near(hz, ToKHz(hz) * KHz)
    /\ \A hz \in Bandwidths : ToKHz(hz) \in Nat \ {0}
<1>1. KHz \in Nat \ {0}
  BY UnitsAssumption
<1>2. ASSUME NEW a \in Nat
      PROVE  /\ a \div KHz \in Nat /\ (a \div KHz) * KHz \in Nat
             /\ (a \div KHz) * KHz <= a /\ a < (a \div KHz) * KHz + KHz
             /\ a >= KHz => a \div KHz # 0
  <2> DEFINE q == a \div KHz
  <2>1. q \in Int /\ a = KHz * q + (a % KHz) /\ a % KHz \in 0 .. KHz - 1
    BY <1>1
  <2> HIDE DEF q
  <2>2. q >= 0
    <3> SUFFICES ASSUME q < 0 PROVE FALSE
      BY <2>1
    <3>1. KHz * q <= -KHz
      BY <1>1, <2>1
    <3> QED BY <1>1, <2>1, <3>1
  <2>3. q * KHz = KHz * q /\ q * KHz \in Nat
    BY <1>1, <2>1, <2>2
  <2>4. q * KHz <= a /\ a < q * KHz + KHz
    BY <1>1, <2>1, <2>3
  <2>5. q = 0 => q * KHz = 0
    BY <1>1
  <2>6. a >= KHz => q # 0
    BY <1>1, <2>4, <2>5
  <2>7. q \in Nat
    BY <2>1, <2>2
  <2> QED BY <2>3, <2>4, <2>6, <2>7 DEF q
<1>3. ASSUME NEW hz \in Int
      PROVE  ToKHz(hz) \in Int /\ Near(ToKHz(hz) * KHz, hz) /\ Near(hz, ToKHz(hz) * KHz)
  <2>1. CASE hz >= 0
    <3> DEFINE q == hz \div KHz
               w == q * KHz
    <3>1. ToKHz(hz) = q
      BY <2>1 DEF ToKHz
    <3>2. q \in Nat /\ w \in Nat /\ w <= hz /\ hz < w + KHz
      BY <1>2, <2>1
    <3> HIDE DEF q, w
    <3>3. Near(w, hz) /\ Near(hz, w)
      BY <1>1, <3>2 DEF Near
    <3> QED BY <3>1, <3>2, <3>3 DEF w
  <2>2. CASE ~ (hz >= 0)
    <3> DEFINE q == (-hz) \div KHz
               w == q * KHz
    <3>1. ToKHz(hz) = -q
      BY <2>2 DEF ToKHz
    <3>0. -hz \in Nat
      BY <2>2
    <3>2. q \in Nat /\ w \in Nat /\ w <= -hz /\ -hz < w + KHz
      BY <1>2, <3>0
    <3>3. (-q) * KHz = -w
      BY <1>1, <3>2
    <3> HIDE DEF q, w
    <3>4. Near(-w, hz) /\ Near(hz, -w)
      BY <1>1, <3>2 DEF Near
    <3> QED BY <3>1, <3>2, <3>3, <3>4
  <2> QED BY <2>1, <2>2
<1>4. ASSUME NEW hz \in Bandwidths PROVE ToKHz(hz) \in Nat \ {0}
  <2>1. hz \in Nat /\ hz >= KHz /\ hz >= 0
    BY <1>1 DEF Bandwidths
  <2>2. ToKHz(hz) = hz \div KHz
    BY <2>1 DEF ToKHz
  <2> QED BY <1>2, <2>1, <2>2
<1> QED BY <1>3, <1>4

\* A set of numbers, in order, loses none.
Rising(S) == Ordered(S, <)

\* sorted() of a set of numbers lists just these numbers.
LEMMA RisingElements ==
    ASSUME NEW S, IsFiniteSet(S), S \subseteq Int
    PROVE  Rising(S) \in Seq(S) /\ ToSet(Rising(S)) = S
<1> DEFINE R == {p \in S \X S : p[1] < p[2]}
           w == Rising(S)
<1>1. \A x, y \in S : << x, y >> \in R <=> x < y
  OBVIOUS
<1> HIDE DEF R
<1>2. Orders(R, S)
  BY <1>1 DEF Orders
<1>3. ASSUME NEW x \in S PROVE {y \in S : y < x} = Earlier(S, R, x)
  BY <1>1 DEF Earlier
<1>a. \A i \in 1 .. Cardinality(S) : \E x \in S : Cardinality(Earlier(S, R, x)) = i - 1
  BY ONLY IsFiniteSet(S), <1>2, OrderPlaces
<1>5. w = [i \in 1 .. Cardinality(S) |-> w[i]]
  BY DEF Rising, Ordered
<1>4. ASSUME NEW i \in 1 .. Cardinality(S)
      PROVE  w[i] \in S /\ Cardinality(Earlier(S, R, w[i])) = i - 1
  <2>2. w[i] = CHOOSE x \in S : Cardinality({y \in S : y < x}) = i - 1
    BY DEF Rising, Ordered
  <2> HIDE DEF w
  <2>1. \E x \in S : Cardinality({y \in S : y < x}) = i - 1
    <3>1. PICK x \in S : Cardinality(Earlier(S, R, x)) = i - 1
      BY <1>a
    <3>2. Cardinality({y \in S : y < x}) = i - 1
      BY <1>3, <3>1
    <3> QED BY <3>2
  <2>3. w[i] \in S /\ Cardinality({y \in S : y < w[i]}) = i - 1
    BY ONLY <2>1, <2>2, Zenon
  <2> QED BY <1>3, <2>3
<1> HIDE DEF w
<1>6. w \in Seq(S) /\ ToSet(w) = S
  BY <1>2, <1>4, <1>5, InOrder
<1> QED BY <1>6 DEF w

(***************************************************************************)
(* The rows of a probe                                                     *)
(***************************************************************************)
ProbeRows ==
    [idx : Nat \ {0}, gain : ProbeGainSet, rf_bw_khz : Nat \ {0}, offset_khz : Int,
     filter : ProbeFilters, score : Int, hard_min_errors : Nat,
     tuned : [lo : Int, rf_bw : Bandwidths, gain : ProbeGainSet]]

\* A row names in kilohertz what was tuned.
ProbeRowRight(row) ==
    /\ row \in ProbeRows
    /\ row.gain = row.tuned.gain
    /\ row.rf_bw_khz = ToKHz(row.tuned.rf_bw) /\ row.offset_khz = ToKHz(row.tuned.lo)

\* A row of the probe says what its candidate was tuned to, in kilohertz.
LEMMA ProbeRowIsRight ==
    ASSUME NEW c \in ProbeCandidateSet, NEW idx \in Nat \ {0}, NEW m \in ProbeMetrics
    PROVE  ProbeRowRight(ProbeRow(c, idx, m.score, m.errors))
<1>1. m.score \in Int /\ m.errors \in Nat
  BY ProbeMetricsAssumption
<1>2. c.gain \in ProbeGainSet /\ c.rf_bw \in Bandwidths /\ c.offset \in Int /\ c.filter \in ProbeFilters
  BY DEF ProbeCandidateSet, ProbeGainSet
<1>3. ToKHz(c.rf_bw) \in Nat \ {0} /\ ToKHz(c.offset) \in Int
  BY <1>2, WholeKHz
<1>4. ProbeTuned(c) \in [lo : Int, rf_bw : Bandwidths, gain : ProbeGainSet]
      /\ ProbeTuned(c).lo = c.offset /\ ProbeTuned(c).rf_bw = c.rf_bw /\ ProbeTuned(c).gain = c.gain
  BY <1>2 DEF ProbeTuned
<1> QED BY <1>1, <1>2, <1>3, <1>4 DEF ProbeRowRight, ProbeRow, ProbeRows

\* What makes the order of rows an order: no two have the same index.
LEMMA ProbeKeysOrder ==
    ASSUME NEW S, \A r \in S : r \in ProbeRows, \A r, t \in S : r.idx = t.idx => r = t,
           NEW R, \A x, y \in S : << x, y >> \in R <=> Above(ProbeSortKey(x), ProbeSortKey(y))
    PROVE  Orders(R, S)
<1> DEFINE key1(r) == ProbeSortKey(r)[1]
           key2(r) == ProbeSortKey(r)[2]
           key3(r) == ProbeSortKey(r)[3]
<1>1. ASSUME NEW r \in S
      PROVE  /\ Len(ProbeSortKey(r)) = 3
             /\ key1(r) \in Int /\ key2(r) \in Int /\ key3(r) = -r.idx /\ r.idx \in Nat
  <2>1. r.score \in Int /\ r.hard_min_errors \in Nat /\ r.idx \in Nat
    BY DEF ProbeRows
  <2> QED BY <2>1 DEF ProbeSortKey
<1> HIDE DEF key1, key2, key3
<1>2. ASSUME NEW x \in S, NEW y \in S
      PROVE  << x, y >> \in R <=> \/ key1(x) > key1(y)
                                  \/ key1(x) = key1(y) /\ key2(x) > key2(y)
                                  \/ key1(x) = key1(y) /\ key2(x) = key2(y) /\ key3(x) > key3(y)
  <2> DEFINE a == ProbeSortKey(x)
             b == ProbeSortKey(y)
  <2>1. << x, y >> \in R <=> \E i \in 1 .. 3 : a[i] > b[i] /\ \A j \in 1 .. i - 1 : a[j] = b[j]
    BY <1>1 DEF Above
  <2>2. /\ a[1] = key1(x) /\ a[2] = key2(x) /\ a[3] = key3(x)
        /\ b[1] = key1(y) /\ b[2] = key2(y) /\ b[3] = key3(y)
    BY DEF key1, key2, key3
  <2> HIDE DEF a, b
  <2>3. /\ \A i \in 1 .. 3 : i = 1 \/ i = 2 \/ i = 3
        /\ \A j : ~ (j \in 1 .. 1 - 1)
        /\ \A j : j \in 1 .. 2 - 1 <=> j = 1
        /\ \A j : j \in 1 .. 3 - 1 <=> j = 1 \/ j = 2
        /\ 1 \in 1 .. 3 /\ 2 \in 1 .. 3 /\ 3 \in 1 .. 3
    OBVIOUS
  <2>4. << x, y >> \in R <=> \/ a[1] > b[1]
                             \/ a[2] > b[2] /\ a[1] = b[1]
                             \/ a[3] > b[3] /\ a[1] = b[1] /\ a[2] = b[2]
    BY ONLY <2>1, <2>3, Zenon
  <2> QED BY <2>2, <2>4
<1>3. \A x \in S : << x, x >> \notin R
  BY <1>1, <1>2
<1>4. \A x, y, z \in S : << x, y >> \in R /\ << y, z >> \in R => << x, z >> \in R
  BY <1>1, <1>2
<1>5. \A x, y \in S : x = y \/ << x, y >> \in R \/ << y, x >> \in R
  <2> SUFFICES ASSUME NEW x \in S, NEW y \in S, x # y
               PROVE  << x, y >> \in R \/ << y, x >> \in R
    OBVIOUS
  <2>1. x.idx # y.idx
    OBVIOUS
  <2>2. key3(x) # key3(y)
    BY <1>1, <2>1
  <2> QED BY <1>1, <1>2, <2>2
<1> QED BY <1>3, <1>4, <1>5 DEF Orders

\* Every row has a rank.
LEMMA RankedRowsAll ==
    ASSUME NEW probes \in Seq(ProbeRows),
           \A i, j \in 1 .. Len(probes) : probes[i].idx = probes[j].idx => i = j
    PROVE  RankedRows(probes) \in Seq(ToSet(probes)) /\ ToSet(RankedRows(probes)) = ToSet(probes)
<1> DEFINE S == ToSet(probes)
           R == {p \in S \X S : Above(ProbeSortKey(p[1]), ProbeSortKey(p[2]))}
           w == RankedRows(probes)
<1>1. \A x, y \in S : << x, y >> \in R <=> Above(ProbeSortKey(x), ProbeSortKey(y))
  OBVIOUS
<1>2. IsFiniteSet(S) /\ \A r \in S : r \in ProbeRows
  BY ToSetFinite, ToSetIs
<1>3. \A r, t \in S : r.idx = t.idx => r = t
  BY ToSetIs
<1> DEFINE place(i) == CHOOSE x \in S :
              Cardinality({y \in S : Above(ProbeSortKey(y), ProbeSortKey(x))}) = i - 1
<1>4. w = [i \in 1 .. Cardinality(S) |-> place(i)]
  BY DEF RankedRows, Ordered
<1> HIDE DEF R, S, w
<1>8. w = [i \in 1 .. Cardinality(S) |-> w[i]]
  <2> HIDE DEF place
  <2> QED BY <1>4
<1>5. Orders(R, S)
  BY <1>1, <1>2, <1>3, ProbeKeysOrder
<1>6. ASSUME NEW x \in S
      PROVE  {y \in S : Above(ProbeSortKey(y), ProbeSortKey(x))} = Earlier(S, R, x)
  BY <1>1 DEF Earlier
<1>7. ASSUME NEW i \in 1 .. Cardinality(S)
      PROVE  w[i] \in S /\ Cardinality(Earlier(S, R, w[i])) = i - 1
  <2>1. \E x \in S : Cardinality({y \in S : Above(ProbeSortKey(y), ProbeSortKey(x))}) = i - 1
    <3>1. PICK x \in S : Cardinality(Earlier(S, R, x)) = i - 1
      BY <1>2, <1>5, OrderPlaces
    <3>2. Cardinality({y \in S : Above(ProbeSortKey(y), ProbeSortKey(x))}) = i - 1
      BY <1>6, <3>1
    <3> QED BY <3>2
  <2>2. w[i] = CHOOSE x \in S :
              Cardinality({y \in S : Above(ProbeSortKey(y), ProbeSortKey(x))}) = i - 1
    BY <1>4 DEF place
  <2> HIDE DEF place
  <2>3. w[i] \in S /\ Cardinality({y \in S : Above(ProbeSortKey(y), ProbeSortKey(w[i]))}) = i - 1
    BY ONLY <2>1, <2>2, Zenon
  <2> QED BY <1>6, <2>3
<1>9. w \in Seq(S) /\ ToSet(w) = S
  BY <1>2, <1>5, <1>7, <1>8, InOrder
<1> QED BY <1>9 DEF w, S

\* The filters the probe knows are known to the sweep, loosened or not.
LEMMA SuggestedFilterKnown ==
    ASSUME NEW row \in ProbeRows
    PROVE  FilterForSweep(row) \in ProbeFilters
<1>1. row.filter \in ProbeFilters
  BY DEF ProbeRows
<1>2. \A f \in ProbeFilters, v \in InfoVariants : [f EXCEPT !.name = v] \in ProbeFilters
  BY DEF ProbeFilters
<1> DEFINE loosened == [normal |-> "loose10", loose3 |-> "loose10",
                        wide_loose3 |-> "wide_loose10", tight_loose3 |-> "tight_loose10"]
<1>3. \A name \in DOMAIN loosened : loosened[name] \in InfoVariants
  BY DEF InfoVariants
<1>4. FilterForSweep(row) = IF row.hard_min_errors \in 4 .. 12 /\ row.filter.name \in DOMAIN loosened
                            THEN [row.filter EXCEPT !.name = loosened[row.filter.name]]
                            ELSE row.filter
  BY DEF FilterForSweep
<1> HIDE DEF loosened
<1> QED BY <1>1, <1>2, <1>3, <1>4

\* What the probe suggests can be asked of a sweep, includes the settings that
\* scored best, and names only filters that it has.
LEMMA SuggestionGood ==
    ASSUME NEW probes \in Seq(ProbeRows), probes # << >>,
           \A i \in 1 .. Len(probes) : ProbeRowRight(probes[i]),
           \A i, j \in 1 .. Len(probes) : probes[i].idx = probes[j].idx => i = j
    PROVE  LET args == SuggestedSweep(probes)
               best == RankedRows(probes)[1]
           IN  /\ SweepArgs(args) /\ args.limit = 0 /\ args.gain_max = HardwareGainMax
               /\ args.profiles = << "" >> /\ args.filters # << >>
               /\ ProbeRowRight(best)
               /\ best.gain \in ToSet(args.gains)
               /\ best.rf_bw_khz * KHz \in ToSet(args.rf_bws)
               /\ best.offset_khz * KHz \in ToSet(args.offsets)
               /\ args.filters \in Seq(ProbeFilters)
<1> DEFINE ranked == RankedRows(probes)
           n == Smaller(4, Len(ranked))
           top == SubSeq(ranked, 1, n)
           best == ranked[1]
           named == [i \in 1 .. Len(top) |-> FilterForSweep(top[i])]
           args == SuggestedSweep(probes)
           gains == {row.gain : row \in ToSet(top)}
           rf_bws == {row.rf_bw_khz * KHz : row \in ToSet(top)}
           offsets == {row.offset_khz * KHz : row \in ToSet(top)}
<1>1. /\ args.gains = Rising(gains) /\ args.rf_bws = Rising(rf_bws)
      /\ args.offsets = Rising(offsets) /\ args.filters = Once(named)
  BY Zenon DEF SuggestedSweep, Rising, Once
<1>r. args.limit = 0 /\ args.gain_max = HardwareGainMax /\ args.profiles = << "" >>
  BY Zenon DEF SuggestedSweep
<1>2. ranked \in Seq(ToSet(probes)) /\ ToSet(ranked) = ToSet(probes)
  BY RankedRowsAll
<1> HIDE DEF ranked, args
<1>3. ranked # << >> /\ Len(ranked) \in Nat \ {0}
  <2>1. ranked # << >>
    BY <1>2, NotEmpty
  <2> QED BY <1>2, <2>1
<1>4. n \in 1 .. Len(ranked) /\ n \in Nat
  BY <1>3 DEF Smaller
<1> HIDE DEF n
<1>5. /\ top \in Seq(ToSet(probes)) /\ Len(top) = n
      /\ \A i \in 1 .. n : top[i] = ranked[i]
  BY <1>2, <1>4
<1> HIDE DEF top
<1>6. best \in ToSet(top) /\ ToSet(top) \subseteq ToSet(probes)
  <2>1. best = top[1] /\ 1 \in 1 .. Len(top)
    BY <1>4, <1>5
  <2> QED BY <1>5, <2>1, ToSetIs
<1>7. \A row \in ToSet(probes) : row \in ProbeRows /\ ProbeRowRight(row)
  BY ToSetIs
<1>8. IsFiniteSet(ToSet(top))
  BY <1>5, ToSetFinite
<1> HIDE DEF best
<1>9. KHz \in Nat \ {0}
  BY UnitsAssumption
<1>10. gains \subseteq Int /\ rf_bws \subseteq Bandwidths /\ offsets \subseteq Int
  <2>1. ASSUME NEW row \in ToSet(top)
        PROVE  row.gain \in Int /\ row.rf_bw_khz \in Nat \ {0} /\ row.offset_khz \in Int
    BY <1>6, <1>7 DEF ProbeRows, ProbeGainSet
  <2>2. ASSUME NEW k \in Nat \ {0} PROVE k * KHz \in Bandwidths
    <3>1. k * KHz \in Int /\ k * KHz >= KHz
      BY <1>9
    <3> QED BY <3>1 DEF Bandwidths
  <2>3. \A k \in Int : k * KHz \in Int
    BY <1>9
  <2> QED BY <2>1, <2>2, <2>3
<1>11. IsFiniteSet(gains) /\ IsFiniteSet(rf_bws) /\ IsFiniteSet(offsets)
  <2> DEFINE g == [row \in ToSet(top) |-> row.gain]
             b == [row \in ToSet(top) |-> row.rf_bw_khz * KHz]
             o == [row \in ToSet(top) |-> row.offset_khz * KHz]
  <2>1. /\ g \in Surjection(ToSet(top), gains) /\ b \in Surjection(ToSet(top), rf_bws)
        /\ o \in Surjection(ToSet(top), offsets)
    BY DEF Surjection
  <2> HIDE DEF g, b, o, gains, rf_bws, offsets
  <2> QED BY <1>8, <2>1, FS_Surjection
<1>12. best.gain \in gains /\ best.rf_bw_khz * KHz \in rf_bws /\ best.offset_khz * KHz \in offsets
  BY <1>6
<1> HIDE DEF gains, rf_bws, offsets
<1>13. /\ args.gains \in Seq(Int) /\ ToSet(args.gains) = gains
       /\ args.offsets \in Seq(Int) /\ ToSet(args.offsets) = offsets
  <2>1. /\ args.gains \in Seq(gains) /\ ToSet(args.gains) = gains
        /\ args.offsets \in Seq(offsets) /\ ToSet(args.offsets) = offsets
    <3>1. gains \subseteq Int /\ offsets \subseteq Int /\ IsFiniteSet(gains) /\ IsFiniteSet(offsets)
      BY <1>10, <1>11
    <3>2. /\ Rising(gains) \in Seq(gains) /\ ToSet(Rising(gains)) = gains
          /\ Rising(offsets) \in Seq(offsets) /\ ToSet(Rising(offsets)) = offsets
      BY ONLY <3>1, RisingElements, Zenon
    <3>3. args.gains = Rising(gains) /\ args.offsets = Rising(offsets)
      BY ONLY <1>1, Zenon
    <3> QED BY ONLY <3>2, <3>3
  <2>3. gains \subseteq Int /\ offsets \subseteq Int
    BY <1>10
  <2> QED BY ONLY <2>1, <2>3, SeqWiden
<1>14. args.rf_bws \in Seq(Bandwidths) /\ ToSet(args.rf_bws) = rf_bws
  <2>1. rf_bws \subseteq Int
    BY <1>10 DEF Bandwidths
  <2>2. args.rf_bws \in Seq(rf_bws) /\ ToSet(args.rf_bws) = rf_bws
    BY <1>1, <1>11, <2>1, RisingElements
  <2>3. \A i \in 1 .. Len(args.rf_bws) : args.rf_bws[i] \in Bandwidths
    BY <1>10, <2>2
  <2> QED BY <2>2, <2>3
<1>15. named \in Seq(ProbeFilters) /\ named # << >>
  <2>1. \A i \in 1 .. Len(top) : FilterForSweep(top[i]) \in ProbeFilters
    BY <1>5, <1>7, SuggestedFilterKnown
  <2>2. Len(top) \in Nat \ {0}
    BY <1>4, <1>5
  <2> HIDE DEF ProbeFilters
  <2>3. named \in Seq(ProbeFilters) /\ Len(named) = Len(top)
    BY <2>1, <2>2
  <2> HIDE DEF named
  <2> QED BY <2>2, <2>3
<1> HIDE DEF named, ProbeFilters
<1>16. /\ args.filters \in Seq(ProbeFilters)
       /\ ToSet(args.filters) = ToSet(named)
  BY <1>1, <1>15, OnceElements
<1>17. args.filters # << >>
  BY <1>15, <1>16, NotEmpty
<1>18. SweepArgs(args)
  <2>1. args.filters \in Seq(Filters)
    <3>1. ProbeFilters \subseteq Filters
      BY DEF ProbeFilters, Filters
    <3> QED BY <1>16, <3>1
  <2>2. args.profiles \in Seq({"", "L2", "L3"})
    <3>1. << "" >> \in Seq({"", "L2", "L3"})
      BY ONLY SMT
    <3> QED BY ONLY <1>r, <3>1
  <2>3. args.gain_max \in Int /\ args.limit \in Int
    <3>1. HardwareGainMax \in Int
      BY UnitsAssumption
    <3>2. args.limit = 0
      BY ONLY <1>r
    <3>3. args.gain_max = HardwareGainMax
      BY ONLY <1>r
    <3>4. args.gain_max \in Int
      BY ONLY <3>1, <3>3
    <3>5. args.limit \in Int
      BY ONLY <3>2
    <3> QED BY ONLY <3>4, <3>5
  <2>4. ToSet(args.profiles) \ {""} = {}
    BY ONLY <1>r, ToSetOne
  <2> QED BY <1>13, <1>14, <2>1, <2>2, <2>3, <2>4 DEF SweepArgs
<1>19. ProbeRowRight(best)
  BY <1>6, <1>7
<1>20. /\ best.gain \in ToSet(args.gains) /\ best.rf_bw_khz * KHz \in ToSet(args.rf_bws)
       /\ best.offset_khz * KHz \in ToSet(args.offsets)
  BY <1>12, <1>13, <1>14
<1> QED BY <1>r, <1>16, <1>17, <1>18, <1>19, <1>20 DEF args, best, ranked

Known(c) == KnownFilter(c.rescue, c.filter)

AsSuggested(c, row) ==
    /\ c.rescue = "" /\ c.gain = row.tuned.gain
    /\ c.rf_bw = ToKHz(row.tuned.rf_bw) * KHz /\ c.offset = ToKHz(row.tuned.lo) * KHz

\* The suggested sweep runs to its end, and on its way measures what scored best.
LEMMA SuggestedCandidates ==
    ASSUME NEW probes \in Seq(ProbeRows), probes # << >>,
           \A i \in 1 .. Len(probes) : ProbeRowRight(probes[i]),
           \A i, j \in 1 .. Len(probes) : probes[i].idx = probes[j].idx => i = j
    PROVE  LET tried == Candidates(SuggestedSweep(probes))
               best == RankedRows(probes)[1]
           IN  /\ tried \in Seq(GoodCandidates)
               /\ \A i \in 1 .. Len(tried) : tried[i].rescue = "" /\ Known(tried[i])
               /\ \E i \in 1 .. Len(tried) : AsSuggested(tried[i], best)
               /\ ProbeRowRight(best)
<1> DEFINE args == SuggestedSweep(probes)
           tried == Candidates(args)
           best == RankedRows(probes)[1]
<1>1. /\ SweepArgs(args) /\ args.limit = 0 /\ args.gain_max = HardwareGainMax
      /\ args.profiles = << "" >> /\ args.filters # << >>
      /\ ProbeRowRight(best)
      /\ best.gain \in ToSet(args.gains)
      /\ best.rf_bw_khz * KHz \in ToSet(args.rf_bws)
      /\ best.offset_khz * KHz \in ToSet(args.offsets)
      /\ args.filters \in Seq(ProbeFilters)
  BY SuggestionGood
<1> HIDE DEF args, best
<1>s. SweepArgs(args)
  BY ONLY <1>1
<1>l. args.limit <= 0
  <2>1. args.limit = 0
    BY ONLY <1>1
  <2> QED BY ONLY <2>1, SMT
<1>m. args.gain_max = HardwareGainMax
  BY ONLY <1>1
<1>p. args.profiles = << "" >>
  BY ONLY <1>1
<1>f. args.filters # << >> /\ args.filters \in Seq(ProbeFilters)
  BY ONLY <1>1
<1>r. ProbeRowRight(best)
  BY ONLY <1>1
<1>b. /\ best.gain \in ToSet(args.gains)
      /\ best.rf_bw_khz * KHz \in ToSet(args.rf_bws)
      /\ best.offset_khz * KHz \in ToSet(args.offsets)
  BY ONLY <1>1
<1>2. tried \in Seq(GoodCandidates)
  BY <1>s, CandidatesGood
<1>3. ToSet(args.profiles) = {""}
  BY <1>p, ToSetOne
<1>4. FilterCandidates(args, "") = args.filters
  BY <1>f DEF FilterCandidates
<1>5. \A c : c \in ToSet(tried) <=>
              \E filter \in ToSet(args.filters), rf_bw \in ToSet(args.rf_bws),
                 offset \in ToSet(args.offsets), gain \in ToSet(SweepGains(args)) :
                    c = Candidate5("", filter, rf_bw, offset, gain)
  <2>2. \A c : c \in ToSet(Candidates(args)) <=>
              \E rescue \in ToSet(args.profiles) :
              \E filter \in ToSet(FilterCandidates(args, rescue)) :
              \E rf_bw \in ToSet(args.rf_bws), offset \in ToSet(args.offsets),
                 gain \in ToSet(SweepGains(args)) :
                    c = Candidate5(rescue, filter, rf_bw, offset, gain)
    BY ONLY <1>s, <1>l, CandidatesComplete
  <2>3. tried = Candidates(args)
    BY DEF tried
  <2>4. ASSUME NEW c
        PROVE  c \in ToSet(Candidates(args)) <=>
                  \E filter \in ToSet(FilterCandidates(args, "")) :
                  \E rf_bw \in ToSet(args.rf_bws), offset \in ToSet(args.offsets),
                     gain \in ToSet(SweepGains(args)) :
                        c = Candidate5("", filter, rf_bw, offset, gain)
    <3>1. \A rescue : rescue \in ToSet(args.profiles) <=> rescue = ""
      BY ONLY <1>3
    <3> DEFINE Q(rescue) ==
                  \E filter \in ToSet(FilterCandidates(args, rescue)) :
                  \E rf_bw \in ToSet(args.rf_bws), offset \in ToSet(args.offsets),
                     gain \in ToSet(SweepGains(args)) :
                        c = Candidate5(rescue, filter, rf_bw, offset, gain)
    <3>2. c \in ToSet(Candidates(args)) <=> \E rescue \in ToSet(args.profiles) : Q(rescue)
      BY ONLY <2>2
    <3>3. (\E rescue \in ToSet(args.profiles) : Q(rescue)) <=> Q("")
      <4> HIDE DEF Q
      <4> QED BY ONLY <3>1
    <3> QED BY ONLY <3>2, <3>3
  <2> HIDE DEF tried
  <2> QED BY ONLY <1>4, <2>3, <2>4, Zenon
<1> HIDE DEF tried
<1>6. ToSet(args.filters) \subseteq ProbeFilters /\ ToSet(args.filters) # {}
  <2> HIDE DEF ProbeFilters
  <2>1. ToSet(args.filters) # {}
    BY <1>f, NotEmpty
  <2>2. ToSet(args.filters) \subseteq ProbeFilters
    BY <1>f, ToSetIs
  <2> QED BY <2>1, <2>2
<1>7. ASSUME NEW filter \in ProbeFilters PROVE KnownFilter("", filter)
  <2>1. filter.name \in InfoVariants /\ filter.name # ""
    BY DEF ProbeFilters, InfoVariants
  <2> QED BY <2>1 DEF KnownFilter, FilterOrDefault
<1>8. \A c \in ToSet(tried) : c.rescue = "" /\ Known(c)
  <2> SUFFICES ASSUME NEW c \in ToSet(tried) PROVE c.rescue = "" /\ Known(c)
    OBVIOUS
  <2>1. PICK filter \in ToSet(args.filters) :
                \E rf_bw \in ToSet(args.rf_bws), offset \in ToSet(args.offsets),
                   gain \in ToSet(SweepGains(args)) :
                      c = Candidate5("", filter, rf_bw, offset, gain)
    BY ONLY <1>5, c \in ToSet(tried), Zenon
  <2>2. c.rescue = "" /\ c.filter = filter
    <3>1. PICK rf_bw, offset, gain : c = Candidate5("", filter, rf_bw, offset, gain)
      BY ONLY <2>1, Zenon
    <3> QED BY ONLY <3>1 DEF Candidate5
  <2>3. filter \in ProbeFilters
    BY <1>6
  <2> QED BY <1>7, <2>2, <2>3 DEF Known
<1>9. best.gain \in ToSet(SweepGains(args))
  <2>1. HardwareGainMax \in Int /\ Smaller(args.gain_max, HardwareGainMax) = HardwareGainMax
    BY <1>m, UnitsAssumption DEF Smaller
  <2>2. args.gains \in Seq(Int)
    BY <1>s DEF SweepArgs
  <2>3. PICK i \in 1 .. Len(args.gains) : best.gain = args.gains[i]
    BY ONLY <1>b, <2>2, ToSetIs
  <2>4. best.gain \in Int /\ best.gain <= HardwareGainMax
    BY <1>r DEF ProbeRowRight, ProbeRows, ProbeGainSet
  <2>5. best.gain = Smaller(args.gains[i], HardwareGainMax)
    BY <2>1, <2>3, <2>4 DEF Smaller
  <2>6. \A x : x \in ToSet(GainCandidates(args, HardwareGainMax)) <=>
               \E j \in 1 .. Len(args.gains) : x = Smaller(args.gains[j], HardwareGainMax)
    BY <2>1, <2>2, GainsClamped
  <2> QED BY <2>1, <2>5, <2>6 DEF SweepGains
<1>10. \E c \in ToSet(tried) : AsSuggested(c, best)
  <2>1. PICK filter : filter \in ToSet(args.filters)
    BY <1>6
  <2> DEFINE c == Candidate5("", filter, best.rf_bw_khz * KHz, best.offset_khz * KHz, best.gain)
  <2>2. c \in ToSet(tried)
    BY ONLY <1>b, <1>5, <1>9, <2>1, Zenon
  <2>3. AsSuggested(c, best)
    BY <1>r DEF AsSuggested, Candidate5, ProbeRowRight
  <2> QED BY <2>2, <2>3
<1>11. \A x : x \in ToSet(tried) <=> \E i \in 1 .. Len(tried) : x = tried[i]
  BY <1>2, ToSetIs
<1>12. \A i \in 1 .. Len(tried) : tried[i].rescue = "" /\ Known(tried[i])
  BY <1>8, <1>11
<1>13. \E i \in 1 .. Len(tried) : AsSuggested(tried[i], best)
  BY <1>10, <1>11
<1> QED BY <1>r, <1>2, <1>12, <1>13 DEF tried, args, best
=============================================================================

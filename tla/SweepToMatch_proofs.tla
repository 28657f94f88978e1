-------------------------- MODULE SweepToMatch_proofs --------------------------
(***************************************************************************)
(* Proofs about SweepToMatch, for any plans, counts and dwell.  The bench  *)
(* sweep: a row counts frames of its own candidate only, and the row       *)
(* reported as the best is beaten by none.  The way to the match: the      *)
(* sweep a probe suggests measures what scored best, and what the sweep    *)
(* measured as the best is how the match's radio is set in INFO.           *)
(***************************************************************************)
EXTENDS SweepCandidates_proofs

Counts == [Counters -> Nat]

\* Counters that were reset are counts.
LEMMA NoFramesCount == NoFrames \in Counts
BY DEF NoFrames, Counts

\* Demodulate and Hear keep counts counts.
LEMMA SumsCount ==
    ASSUME NEW s \in Counts, NEW t \in Counts
    PROVE  [c \in Counters |-> s[c] + t[c]] \in Counts
<1>1. \A c \in Counters : s[c] + t[c] \in Nat  BY DEF Counts
<1>. QED  BY <1>1 DEF Counts

\* _numeric_delta: never negative, never more than the end.
LEMMA DeltaCounts ==
    ASSUME NEW s \in Counts, NEW t \in Counts
    PROVE  Delta(s, t) \in Counts /\ \A c \in Counters : Delta(s, t)[c] <= s[c]
<1>1. DOMAIN s = Counters  BY DEF Counts
<1>2. \A c \in Counters : s[c] \in Nat /\ t[c] \in Nat  BY DEF Counts
<1>3. ASSUME NEW c \in Counters
      PROVE  LET d == IF s[c] > t[c] THEN s[c] - t[c] ELSE 0 IN d \in Nat /\ d <= s[c]
      BY <1>2
<1>4. Delta(s, t) = [c \in Counters |-> IF s[c] > t[c] THEN s[c] - t[c] ELSE 0]
      BY <1>1 DEF Delta
<1>. QED  BY <1>3, <1>4 DEF Counts

(***************************************************************************)
(* The order of rows                                                       *)
(***************************************************************************)
\* More of everything and no more failures is no lower class.
LEMMA ClassGrows ==
    ASSUME NEW s \in Counts, NEW t \in Counts,
           Dominates(s, t), s.crc16 # 1, t.crc16 # 1
    PROVE  ClassRank(s) \in Nat /\ ClassRank(t) \in Nat /\ ClassRank(s) >= ClassRank(t)
<1>1. /\ s.ac_raw \in Nat /\ s.ac \in Nat /\ s.sof \in Nat /\ s.crc8 \in Nat /\ s.crc16 \in Nat
      /\ t.ac_raw \in Nat /\ t.ac \in Nat /\ t.sof \in Nat /\ t.crc8 \in Nat /\ t.crc16 \in Nat
      BY DEF Counts, Counters
<1>2. /\ s.ac_raw >= t.ac_raw /\ s.ac >= t.ac
      /\ s.sof >= t.sof /\ s.crc8 >= t.crc8 /\ s.crc16 >= t.crc16
      BY DEF Dominates, Successes, Counters
<1>. QED
     BY <1>1, <1>2, DwellAssumption
     DEF ClassRank, Lock, CRC8Stable, CRC16Weak, SofOnly, AcOnly, NoLock

\* Hits alone make a class of their own.
LEMMA HitsRank ==
    ASSUME NEW s \in Counts, NEW t \in Counts, Silent(t), ~ Silent(s),
           s.crc16 = t.crc16, s.crc8 = t.crc8, s.sof = t.sof
    PROVE  ClassRank(s) # ClassRank(t)
<1>1. s.crc16 = 0 /\ s.crc8 = 0 /\ s.sof = 0 /\ t.ac = 0 /\ t.ac_raw = 0
      BY DEF Silent, Successes, Counters
<1>2. s.ac # 0 \/ s.ac_raw # 0
      <2>1. \E c \in {"ac_raw", "ac", "sof", "crc8", "crc16"} : s[c] # 0
            BY DEF Silent, Successes, Counters
      <2>. QED  BY <1>1, <2>1
<1>3. s.ac > 0 \/ s.ac_raw > 0
      <2>1. s.ac \in Nat /\ s.ac_raw \in Nat  BY DEF Counts, Counters
      <2>. QED  BY <1>2, <2>1
<1>4. ClassRank(s) = AcOnly
      BY <1>1, <1>3 DEF ClassRank
<1>5. ClassRank(t) = NoLock
      BY <1>1 DEF ClassRank
<1>. QED  BY <1>4, <1>5 DEF AcOnly, NoLock

\* Rows are compared by class, then count by count.
LEMMA DominanceRanksAbove ==
    ASSUME NEW s \in Counts, NEW t \in Counts,
           Dominates(s, t), s.crc16 # 1, t.crc16 # 1
    PROVE  Above(SortKey(s), SortKey(t))
<1>. DEFINE a == SortKey(s)
            b == SortKey(t)
<1>1. /\ s.sof \in Nat /\ s.crc8 \in Nat /\ s.crc16 \in Nat /\ s.crc16_fail \in Nat
      /\ t.sof \in Nat /\ t.crc8 \in Nat /\ t.crc16 \in Nat /\ t.crc16_fail \in Nat
      BY DEF Counts, Counters
<1>2. /\ s.sof >= t.sof /\ s.crc8 >= t.crc8 /\ s.crc16 >= t.crc16
      /\ s.crc16_fail <= t.crc16_fail
      /\ \/ s.sof # t.sof \/ s.crc8 # t.crc8 \/ s.crc16 # t.crc16 \/ s.crc16_fail # t.crc16_fail
         \/ Silent(t) /\ ~ Silent(s)
      BY DEF Dominates, Successes, Counters
<1>3. ClassRank(s) \in Nat /\ ClassRank(t) \in Nat /\ ClassRank(s) >= ClassRank(t)
      BY ClassGrows
<1>4. /\ Len(a) = 5
      /\ a[1] = ClassRank(s) /\ a[2] = s.crc16 /\ a[3] = s.crc8 /\ a[4] = s.sof
      /\ a[5] = -s.crc16_fail
      /\ b[1] = ClassRank(t) /\ b[2] = t.crc16 /\ b[3] = t.crc8 /\ b[4] = t.sof
      /\ b[5] = -t.crc16_fail
      BY DEF SortKey
<1>5. SUFFICES \E i \in 1 .. 5 : a[i] > b[i] /\ \A j \in 1 .. i - 1 : a[j] = b[j]
      BY <1>4 DEF Above
<1>. HIDE DEF a, b
<1>6. CASE a[1] # b[1]
      <2>1. a[1] > b[1]  BY <1>6, <1>1, <1>2, <1>3, <1>4
      <2>. QED  BY <2>1
<1>7. CASE a[1] = b[1] /\ a[2] # b[2]
      <2>1. a[2] > b[2]  BY <1>7, <1>1, <1>2, <1>3, <1>4
      <2>2. \A j \in 1 .. 2 - 1 : j = 1  OBVIOUS
      <2>3. \A j \in 1 .. 2 - 1 : a[j] = b[j]  BY <2>2, <1>7
      <2>. QED  BY <2>1, <2>3
<1>8. CASE a[1] = b[1] /\ a[2] = b[2] /\ a[3] # b[3]
      <2>1. a[3] > b[3]  BY <1>8, <1>1, <1>2, <1>3, <1>4
      <2>2. \A j \in 1 .. 3 - 1 : j = 1 \/ j = 2  OBVIOUS
      <2>3. \A j \in 1 .. 3 - 1 : a[j] = b[j]  BY <2>2, <1>8
      <2>. QED  BY <2>1, <2>3
<1>9. CASE a[1] = b[1] /\ a[2] = b[2] /\ a[3] = b[3] /\ a[4] # b[4]
      <2>1. a[4] > b[4]  BY <1>9, <1>1, <1>2, <1>3, <1>4
      <2>2. \A j \in 1 .. 4 - 1 : j = 1 \/ j = 2 \/ j = 3  OBVIOUS
      <2>3. \A j \in 1 .. 4 - 1 : a[j] = b[j]  BY <2>2, <1>9
      <2>. QED  BY <2>1, <2>3
<1>10. CASE a[1] = b[1] /\ a[2] = b[2] /\ a[3] = b[3] /\ a[4] = b[4]
      <2>0. s.crc16_fail # t.crc16_fail
            <3>1. s.crc16 = t.crc16 /\ s.crc8 = t.crc8 /\ s.sof = t.sof /\ ClassRank(s) = ClassRank(t)
                  BY <1>10, <1>4
            <3>. QED  BY <3>1, <1>2, HitsRank
      <2>1. a[5] > b[5]
            <3>1. s.crc16_fail < t.crc16_fail  BY <2>0, <1>1, <1>2
            <3>2. -s.crc16_fail > -t.crc16_fail  BY <3>1, <1>1
            <3>. QED  BY <3>2, <1>4
      <2>2. \A j \in 1 .. 5 - 1 : j = 1 \/ j = 2 \/ j = 3 \/ j = 4  OBVIOUS
      <2>3. \A j \in 1 .. 5 - 1 : a[j] = b[j]  BY <2>2, <1>10
      <2>. QED  BY <2>1, <2>3
<1>. QED  BY <1>6, <1>7, <1>8, <1>9, <1>10

(***************************************************************************)
(* The invariant                                                           *)
(***************************************************************************)
Typed ==
    /\ stats \in Counts /\ start \in Counts /\ heard \in Counts
    /\ failed_over \in BOOLEAN
    /\ measuring \in {"set", "settle", "dwell"}
    /\ stage \in {"probe", "sweep"} =>
          /\ "target" \in DOMAIN config /\ config.target = "INFO"
          /\ core = "read" => pending.target = "INFO"

\* What the core was set to is what LAST_SDR_CFG says.
RadioAsKey == key # NoKey => radio = Tuned(key[4])

\* While a candidate is measured nothing but a failover changes what is set,
\* and once the core has taken it up it counts only what is heard in it.
OwnCounts ==
    measuring # "set" =>
        /\ stage = "sweep"
        /\ (~ failed_over /\ key = Key(config)) =>
              \A c \in Counters : stats[c] <= heard[c]

\* What has been written down stays that way.
GoodRow(row) ==
    /\ row.stats \in Counts
    /\ ~ row.failed_over => \A c \in Counters : row.stats[c] <= row.heard[c]

GoodRows ==
    /\ rows \in Seq(ToSet(rows))
    /\ \A i \in 1 .. Len(rows) : GoodRow(rows[i])

SweepInv == Typed /\ RadioAsKey /\ OwnCounts /\ GoodRows

\* rows.append
LEMMA AppendsGood ==
    ASSUME NEW seq, seq \in Seq(ToSet(seq)), \A i \in 1 .. Len(seq) : GoodRow(seq[i]),
           NEW row, GoodRow(row)
    PROVE  LET longer == Append(seq, row)
           IN  longer \in Seq(ToSet(longer)) /\ \A i \in 1 .. Len(longer) : GoodRow(longer[i])
<1>. DEFINE longer == Append(seq, row)
<1>1. longer \in Seq(ToSet(seq) \cup {row})  OBVIOUS
<1>2. /\ Len(longer) = Len(seq) + 1
      /\ \A i \in 1 .. Len(longer) : longer[i] = IF i <= Len(seq) THEN seq[i] ELSE row
      /\ DOMAIN longer = 1 .. Len(longer)
      OBVIOUS
<1>3. \A i \in 1 .. Len(longer) : longer[i] \in ToSet(longer)  BY <1>2 DEF ToSet
<1>. HIDE DEF longer
<1>4. longer \in Seq(ToSet(longer))  BY <1>1, <1>2, <1>3
<1>5. \A i \in 1 .. Len(longer) : GoodRow(longer[i])  BY <1>2
<1>. QED  BY <1>4, <1>5 DEF longer

\* A cleared LAST_SDR_CFG is no configuration, and a set one holds the radio's.
LEMMA NotNoKey == \A c : Key(c) # NoKey /\ Key(c)[4] = Effective(c)
BY DEF Key, NoKey

\* EXCEPT leaves a configuration a configuration.
LEMMA OtherField ==
    ASSUME NEW c, NEW f \in {"team", "profile", "rescue", "freq", "manual_gain"}, NEW v,
           "target" \in DOMAIN c
    PROVE  /\ "target" \in DOMAIN [c EXCEPT ![f] = v]
           /\ [c EXCEPT ![f] = v].target = c.target
OBVIOUS

\* set_radio_profile leaves the core on INFO.
LEMMA ProfileSetsInfo ==
    ASSUME NEW c, NEW p, "target" \in DOMAIN c
    PROVE  /\ "target" \in DOMAIN SetRadioProfile(c, p)
           /\ SetRadioProfile(c, p).target = "INFO"
<1>. DEFINE set(named) ==
                /\ "target" \in DOMAIN named
                /\ named.target = "INFO"
            d1 == [c EXCEPT !.team = p.team]
            d2 == [d1 EXCEPT !.target = "INFO"]
            freq == [d2.freq EXCEPT ![p.team] = [@ EXCEPT !["INFO"] = 0]]
            named == [d2 EXCEPT !.freq = freq]
            profile == RadioProfile(p)
            d3 == [named EXCEPT !.profile = profile]
            d4 == [d3 EXCEPT !.rescue = p.rescue]
            gain == [d4.manual_gain EXCEPT !["INFO"] = IF p.rescue = "" THEN profile.gain ELSE @]
            d5 == [d4 EXCEPT !.manual_gain = gain]
<1>1. "target" \in DOMAIN d1  BY OtherField
<1>2. set(d2)  BY <1>1
<1>3. set(named)
      <2>. HIDE DEF d2, freq
      <2>. QED  BY <1>2, OtherField
<1>4. set(d3)
      <2>. HIDE DEF named, profile
      <2>. QED  BY <1>3, OtherField
<1>5. set(d4)
      <2>. HIDE DEF d3
      <2>. QED  BY <1>4, OtherField
<1>6. set(d5)
      <2>. HIDE DEF d4, gain
      <2>. QED  BY <1>5, OtherField
<1>7. SetRadioProfile(c, p) = IF ~ KnownFilter(p.rescue, p.filter) THEN named ELSE d5
      BY ONLY Zenon DEF SetRadioProfile
<1>. QED
     <2>. HIDE DEF named, d5
     <2>. QED  BY <1>3, <1>6, <1>7

\* Nothing has been counted or written down.
LEMMA InitCounts == Init => SweepInv
<1>. SUFFICES ASSUME Init PROVE SweepInv  OBVIOUS
<1>0. "target" \in DOMAIN InitialConfig /\ InitialConfig.target = "INFO"
      BY DEF InitialConfig
<1>1. Typed  BY <1>0, NoFramesCount DEF Init, CoreInit, Typed
<1>2. rows = << >>  BY DEF Init
<1>. QED  BY <1>1, <1>2 DEF Init, CoreInit, SweepInv, RadioAsKey, OwnCounts, GoodRows, NoKey

\* What a candidate gives the core to do.
LEMMA SetCandidateKeeps ==
    ASSUME SweepInv, SetCandidate
    PROVE  SweepInv'
<1>. USE DEF SweepInv
<1>1. /\ "target" \in DOMAIN config'
      /\ config'.target = "INFO"
      BY ProfileSetsInfo DEF SetCandidate, Typed
<1>2. Typed'  BY <1>1, NoFramesCount DEF SetCandidate, Typed, MarkDirty
<1>3. RadioAsKey'  BY DEF SetCandidate, RadioAsKey, MarkDirty, NoKey
<1>4. OwnCounts'
      <2>1. measuring' # "set" => key' = NoKey /\ stage' = "sweep"
            BY DEF SetCandidate, MarkDirty
      <2>. QED  BY <1>1, <2>1, NotNoKey DEF OwnCounts
<1>5. GoodRows'  BY DEF SetCandidate, GoodRows
<1>. QED  BY <1>2, <1>3, <1>4, <1>5

\* The first snapshot may be of the candidate before.
LEMMA StartSnapshotKeeps ==
    ASSUME SweepInv, StartSnapshot
    PROVE  SweepInv'
<1>. USE DEF SweepInv, StartSnapshot, coreVars
<1>1. Typed'  BY DEF Typed
<1>2. RadioAsKey' /\ GoodRows'  BY DEF RadioAsKey, GoodRows
<1>3. OwnCounts'  BY DEF OwnCounts
<1>. QED  BY <1>1, <1>2, <1>3

\* The row that is written down counts its own frames only.
LEMMA EndSnapshotKeeps ==
    ASSUME SweepInv, EndSnapshot
    PROVE  SweepInv'
<1>. USE DEF SweepInv
<1>1. Typed'  BY NoFramesCount DEF EndSnapshot, coreVars, Typed
<1>2. RadioAsKey' /\ OwnCounts'
      BY DEF EndSnapshot, coreVars, RadioAsKey, OwnCounts
<1>3. GoodRows'
      <2>. DEFINE new == [row |-> Row(Candidate), stats |-> Delta(stats, start), heard |-> heard,
                          failed_over |-> failed_over, team |-> config.team, radio |-> radio,
                          used |-> Filter(config)]
      <2>1. stats \in Counts /\ start \in Counts /\ heard \in Counts  BY DEF Typed
      <2>2. /\ Delta(stats, start) \in Counts
            /\ \A c \in Counters : Delta(stats, start)[c] <= stats[c]
            BY <2>1, DeltaCounts
      <2>3. ~ failed_over => \A c \in Counters : stats[c] <= heard[c]
            BY DEF EndSnapshot, OwnCounts
      <2>4. ~ failed_over => \A c \in Counters : Delta(stats, start)[c] <= heard[c]
            <3>1. \A c \in Counters : stats[c] \in Nat /\ heard[c] \in Nat
                                      /\ Delta(stats, start)[c] \in Nat
                  BY <2>1, <2>2 DEF Counts
            <3>. QED  BY <3>1, <2>2, <2>3
      <2>5. GoodRow(new)  BY <2>2, <2>4 DEF GoodRow
      <2>6. rows' = Append(rows, new)  BY DEF EndSnapshot
      <2>. HIDE DEF new
      <2>. QED  BY <2>5, <2>6, AppendsGood DEF GoodRows
<1>. QED  BY <1>1, <1>2, <1>3

\* What is heard in other settings is heard before the candidate is taken up.
LEMMA DemodulateInSweepKeeps ==
    ASSUME SweepInv, DemodulateInSweep
    PROVE  SweepInv'
<1>. USE DEF SweepInv
<1>1. PICK found \in Yields \cup {NoFrames} : Demodulate(found) /\ Hear(found)
      BY DEF DemodulateInSweep
<1>2. found \in Counts  BY YieldsAssumption, NoFramesCount DEF Counts
<1>3. /\ stats' = [c \in Counters |-> stats[c] + found[c]]
      /\ stats' \in Counts /\ heard' \in Counts
      <2>1. stats \in Counts /\ heard \in Counts  BY DEF Typed
      <2>2. stats' = [c \in Counters |-> stats[c] + found[c]]  BY <1>1 DEF Demodulate
      <2>3. heard' = heard \/ heard' = [c \in Counters |-> heard[c] + found[c]]
            BY <1>1 DEF Hear
      <2>. QED  BY <1>2, <2>1, <2>2, <2>3, SumsCount
<1>4. Typed'  BY <1>1, <1>3 DEF DemodulateInSweep, Demodulate, Typed
<1>5. RadioAsKey'  BY <1>1 DEF DemodulateInSweep, Demodulate, RadioAsKey
<1>6. GoodRows'  BY DEF DemodulateInSweep, GoodRows
<1>7. OwnCounts'
      <2>1. UNCHANGED << config, key, radio, measuring, stage, failed_over >>
            BY <1>1 DEF DemodulateInSweep, Demodulate
      <2>2. SUFFICES ASSUME measuring # "set", ~ failed_over, key = Key(config), NEW c \in Counters
            PROVE  stats'[c] <= heard'[c]
            BY <2>1 DEF OwnCounts
      <2>3. OwnSettings  BY <2>2, NotNoKey DEF OwnSettings, RadioAsKey
      <2>4. heard'[c] = heard[c] + found[c] /\ stats'[c] = stats[c] + found[c]
            BY <1>1, <1>3, <2>3 DEF Hear
      <2>5. stats[c] <= heard[c]  BY <2>2 DEF OwnCounts
      <2>6. stats[c] \in Nat /\ heard[c] \in Nat /\ found[c] \in Nat
            BY <1>2 DEF Typed, Counts
      <2>. QED  BY <2>4, <2>5, <2>6
<1>. QED  BY <1>4, <1>5, <1>6, <1>7

\* A field that is read is the old one or the new.
LEMMA ReadsWhatIsSet ==
    ASSUME NEW a, NEW b, NEW seen \in Mixtures(a, b)
    PROVE  seen.target \in {a.target, b.target}
BY DEF Mixtures

\* The core's thread takes up a configuration and forgets what it counted.
LEMMA CoreRunsKeeps ==
    ASSUME SweepInv, CoreRuns
    PROVE  SweepInv'
<1>. USE DEF SweepInv, sweepVars
<1>0. UNCHANGED << stage, measuring, start, rows, heard, failed_over >>
      BY DEF CoreRuns
<1>r. CASE StartRead
      <2>1. /\ UNCHANGED << config, key, radio, stats >>
            /\ pending' = config
            BY <1>r DEF StartRead
      <2>2. Typed' /\ RadioAsKey' /\ GoodRows'
            BY <1>0, <2>1 DEF Typed, RadioAsKey, GoodRows
      <2>3. OwnCounts'  BY <1>0, <2>1 DEF OwnCounts
      <2>. QED  BY <2>2, <2>3
<1>1. CASE FinishRead
      <2>1. UNCHANGED << key, radio, stats >> /\ core' # "read"
            BY <1>1 DEF FinishRead
      <2>2. stage = "sweep" => config' = config
            BY <1>1, ReadsWhatIsSet DEF FinishRead, ProfileDropped, Typed
      <2>3. stage # "probe"  BY DEF CoreRuns
      <2>4. Typed' /\ RadioAsKey' /\ GoodRows'
            BY <1>0, <2>1, <2>2, <2>3 DEF Typed, RadioAsKey, GoodRows
      <2>5. OwnCounts'  BY <1>0, <2>1, <2>2 DEF OwnCounts
      <2>. QED  BY <2>4, <2>5
<1>2. CASE ApplyConfig
      <2>1. /\ UNCHANGED << config, stage, measuring, start, rows, heard, failed_over >>
            /\ core' # "read"
            BY <1>0, <1>2 DEF ApplyConfig
      <2>2. stats' = NoFrames /\ key' = pending /\ radio' = Tuned(pending[4])
            BY <1>2 DEF ApplyConfig
      <2>3. Typed' /\ RadioAsKey' /\ GoodRows'
            BY <2>1, <2>2, NoFramesCount DEF Typed, RadioAsKey, GoodRows
      <2>4. \A c \in Counters : stats'[c] <= heard'[c]
            <3>1. \A c \in Counters : heard'[c] \in Nat  BY <2>1 DEF Typed, Counts
            <3>2. \A c \in Counters : stats'[c] = 0  BY <2>2 DEF NoFrames
            <3>. QED  BY <3>1, <3>2
      <2>5. OwnCounts'  BY <2>1, <2>4 DEF OwnCounts
      <2>. QED  BY <2>3, <2>5
<1>3. CASE NoFailover
      <2>1. /\ UNCHANGED << config, key, radio, stats, stage, measuring, start, rows, heard,
                            failed_over >>
            /\ core' # "read"
            BY <1>0, <1>3 DEF NoFailover
      <2>2. Typed' /\ RadioAsKey' /\ GoodRows'  BY <2>1 DEF Typed, RadioAsKey, GoodRows
      <2>3. OwnCounts'  BY <2>1 DEF OwnCounts
      <2>. QED  BY <2>2, <2>3
<1>. QED  BY <1>r, <1>1, <1>2, <1>3 DEF CoreRuns

\* After a failover the row is the core's, not the candidate's.
LEMMA CoreFailsOverKeeps ==
    ASSUME SweepInv, CoreFailsOver
    PROVE  SweepInv'
<1>. USE DEF SweepInv, sweepVars
<1>1. /\ UNCHANGED << radio, stats, stage, measuring, start, rows, heard >>
      /\ failed_over' = TRUE /\ key' = NoKey /\ core' # "read"
      <2>1. Failover  BY DEF CoreFailsOver
      <2>2. UNCHANGED << radio, pending, stats >> /\ MarkDirty /\ core' = "config"
            BY <2>1, Zenon DEF Failover
      <2>. QED  BY <2>2 DEF CoreFailsOver, MarkDirty
<1>2. PICK profile : config' = [config EXCEPT !.profile = profile]
      <2>1. Failover  BY DEF CoreFailsOver
      <2>. DEFINE next == FallbackProfiles[config.profile.rescue]
                            [(fallback_index % Len(FallbackProfiles[config.profile.rescue])) + 1]
      <2>2. config' = [config EXCEPT !.profile = next]  BY <2>1, Zenon DEF Failover
      <2>. HIDE DEF next
      <2>. QED  BY <2>2
<1>3. "target" \in DOMAIN config => "target" \in DOMAIN config' /\ config'.target = config.target
      BY <1>2, OtherField
<1>4. Typed' /\ RadioAsKey' /\ GoodRows'  BY <1>1, <1>3 DEF Typed, RadioAsKey, GoodRows
<1>5. OwnCounts'  BY <1>1, <1>3 DEF OwnCounts, Typed
<1>. QED  BY <1>4, <1>5

\* The match does not measure.
LEMMA MatchKeeps ==
    ASSUME SweepInv, StartMatch \/ TeamContext \/ JamContext \/ FinalKey \/ DemodulateInMatch
    PROVE  SweepInv'
<1>. USE DEF SweepInv
<1>0. stage = "match" => measuring = "set"  BY DEF OwnCounts
<1>1. /\ stage' = "match" /\ measuring' = "set"
      /\ key' = NoKey \/ UNCHANGED << key, radio >>
      /\ \/ UNCHANGED << start, rows, heard >>
         \/ start' = NoFrames /\ rows' = << >> /\ heard' = NoFrames
      /\ failed_over' = FALSE \/ UNCHANGED failed_over
      <2>0. CASE TeamContext
            <3>1. /\ stage = "match" /\ UNCHANGED << stage, sweepVars, failed_over >>
                  /\ key' = NoKey
                  BY ONLY <2>0, Zenon DEF TeamContext, MarkDirty
            <3>. QED  BY ONLY <3>1, <1>0 DEF sweepVars
      <2>1. CASE StartMatch  BY ONLY <2>1 DEF StartMatch
      <2>2. CASE JamContext
            <3>1. /\ stage = "match" /\ UNCHANGED << stage, sweepVars >>
                  /\ key' = NoKey /\ failed_over' = FALSE
                  BY ONLY <2>2, Zenon DEF JamContext, MarkDirty
            <3>. QED  BY ONLY <3>1, <1>0 DEF sweepVars
      <2>3. CASE FinalKey
            <3>1. /\ stage = "match" /\ UNCHANGED << stage, sweepVars >>
                  /\ key' = NoKey /\ failed_over' = FALSE
                  BY ONLY <2>3, Zenon DEF FinalKey, MarkDirty
            <3>. QED  BY ONLY <3>1, <1>0 DEF sweepVars
      <2>4. CASE DemodulateInMatch
            BY ONLY <2>4, <1>0 DEF DemodulateInMatch, Demodulate, sweepVars
      <2>. QED  BY <2>0, <2>1, <2>2, <2>3, <2>4
<1>2. /\ start' \in Counts /\ heard' \in Counts
      /\ rows' = rows \/ rows' = << >>
      /\ failed_over' \in BOOLEAN
      BY <1>1, NoFramesCount DEF Typed
<1>3. stats' \in Counts
      <2>1. stats' = NoFrames \/ stats' = stats \/ Demodulate(NoFrames)
            BY Zenon DEF StartMatch, TeamContext, JamContext, FinalKey, DemodulateInMatch
      <2>2. Demodulate(NoFrames) => stats' = [c \in Counters |-> stats[c] + NoFrames[c]]
            BY DEF Demodulate
      <2>3. [c \in Counters |-> stats[c] + NoFrames[c]] \in Counts
            BY SumsCount, NoFramesCount DEF Typed
      <2>. QED  BY <2>1, <2>2, <2>3, NoFramesCount DEF Typed
<1>4. Typed'  BY <1>1, <1>2, <1>3 DEF Typed
<1>5. RadioAsKey' /\ OwnCounts'  BY <1>1 DEF RadioAsKey, OwnCounts
<1>6. GoodRows'
      <2>1. CASE rows' = rows  BY <2>1 DEF GoodRows
      <2>2. CASE rows' = << >>  BY <2>2 DEF GoodRows
      <2>. QED  BY <1>2, <2>1, <2>2
<1>. QED  BY <1>4, <1>5, <1>6

\* The probe runs before anything is measured.
LEMMA ProbeKeeps ==
    ASSUME SweepInv, Probe \/ SuggestSweep
    PROVE  SweepInv'
<1>. USE DEF SweepInv
<1>1. UNCHANGED << coreVars, sweepVars, failed_over >> /\ stage = "probe"
      BY DEF Probe, SuggestSweep
<1>2. measuring = "set"  BY <1>1 DEF OwnCounts
<1>3. Typed' /\ RadioAsKey' /\ GoodRows'
      BY <1>1 DEF coreVars, sweepVars, Typed, RadioAsKey, GoodRows
<1>4. OwnCounts'  BY <1>1, <1>2 DEF sweepVars, OwnCounts
<1>. QED  BY <1>3, <1>4

\* What the sweep does not see.
LEMMA StutterKeeps ==
    ASSUME SweepInv, UNCHANGED vars
    PROVE  SweepInv'
<1>1. UNCHANGED << config, key, radio, core, pending, stats, stage, measuring, start, rows, heard,
                   failed_over >>
      BY DEF vars, coreVars, sweepVars
<1>2. Typed' /\ RadioAsKey' /\ GoodRows'
      BY <1>1 DEF SweepInv, Typed, RadioAsKey, GoodRows
<1>3. OwnCounts'  BY <1>1 DEF SweepInv, OwnCounts
<1>. QED  BY <1>2, <1>3 DEF SweepInv

\* The inductive invariant of the sweep and of what follows it.
THEOREM SweepSafe == Spec => []SweepInv
<1>1. SweepInv /\ [Next]_vars => SweepInv'
      BY ProbeKeeps, SetCandidateKeeps, StartSnapshotKeeps, EndSnapshotKeeps,
         DemodulateInSweepKeeps, MatchKeeps, CoreRunsKeeps, CoreFailsOverKeeps, StutterKeeps
      DEF Next
<1>. QED  BY InitCounts, <1>1, PTL DEF Spec

\* A row never counts a frame that was not found in its own candidate's
\* settings, at whatever moment the core takes the candidate up.
THEOREM RowsAreOwn == Spec => []RowsCountOwnFrames
<1>1. SweepInv => RowsCountOwnFrames
      BY DEF SweepInv, GoodRows, GoodRow, RowsCountOwnFrames
<1>. QED  BY <1>1, SweepSafe, PTL

\* The best row is beaten in every respect by none, for every dwell time.
THEOREM BestIsUnbeaten == Spec => []RankRespectsDominance
<1>1. SweepInv => RankRespectsDominance
      <2>. SUFFICES ASSUME SweepInv, NEW best \in BestRows(rows), NEW row \in ToSet(rows),
                           1 \notin {best.stats.crc16, row.stats.crc16},
                           Dominates(row.stats, best.stats)
                    PROVE  FALSE
           BY DEF RankRespectsDominance
      <2>1. best \in ToSet(rows)  BY DEF BestRows
      <2>2. best.stats \in Counts /\ row.stats \in Counts
            <3>1. \A r \in ToSet(rows) : \E i \in 1 .. Len(rows) : r = rows[i]
                  BY DEF SweepInv, GoodRows, ToSet
            <3>. QED  BY <2>1, <3>1 DEF SweepInv, GoodRows, GoodRow
      <2>3. Above(SortKey(row.stats), SortKey(best.stats))  BY <2>2, DominanceRanksAbove
      <2>. QED  BY <2>3 DEF BestRows
<1>. QED  BY <1>1, SweepSafe, PTL

(***************************************************************************)
(* What a configuration calls for                                          *)
(***************************************************************************)
Teams == {"RED", "BLUE"}

\* The fields that the adapter's operations write, and both teams' INFO carrier.
Fields == {"team", "target", "profile", "rescue", "manual_gain", "freq"}

CarrierShape(freq) ==
    \A team \in Teams : team \in DOMAIN freq /\ "INFO" \in DOMAIN freq[team]

ConfigShape(c) == Fields \subseteq DOMAIN c /\ CarrierShape(c.freq)

\* Nothing but the profile decides how the radio is set.
CalledFor(c, p, team) ==
    /\ c.target = "INFO" /\ c.team = team
    /\ c.profile = RadioProfile(p) /\ c.freq[team]["INFO"] = 0

ProfileTuned(p, team) ==
    [lo |-> TeamSigned(p.offset, team), rf_bw |-> p.rf_bw, gain |-> Clamp(RadioProfile(p).gain)]

\* A configuration that a profile calls for tunes the core as the profile says.
LEMMA CalledForTunes ==
    ASSUME NEW c, NEW p, NEW team \in Teams, CalledFor(c, p, team),
           p.rescue \in Rescues, p.offset \in Int, p.rf_bw # NoBw
    PROVE  Tuned(Effective(c)) = ProfileTuned(p, team) /\ Filter(c) = FilterOrDefault(p.rescue, p.filter)
<1> DEFINE profile == RadioProfile(p)
<1>1. /\ profile.rescue = p.rescue /\ profile.offset = p.offset /\ profile.rf_bw = p.rf_bw
      /\ profile.filter = FilterOrDefault(p.rescue, p.filter)
  BY DEF RadioProfile
<1>2. profile # NoProfile
  <2>1. profile.rescue # "none"
    BY <1>1 DEF Rescues
  <2>2. NoProfile.rescue = "none"
    BY DEF NoProfile
  <2> QED BY ONLY <2>1, <2>2
<1> HIDE DEF profile
<1>3. c.profile = profile /\ c.target = "INFO" /\ c.team = team /\ c.freq[team]["INFO"] = 0
  BY DEF CalledFor, profile
<1>4. ActiveProfile(c) = profile
  BY <1>3 DEF ActiveProfile
<1>5. /\ Effective(c).lo = 0 + TeamSigned(p.offset, team)
      /\ Effective(c).gain = profile.gain /\ Effective(c).rf_bw = p.rf_bw
  BY <1>1, <1>2, <1>3, <1>4 DEF Effective
<1>6. 0 + TeamSigned(p.offset, team) = TeamSigned(p.offset, team)
  BY DEF TeamSigned
<1>7. Tuned(Effective(c)) = ProfileTuned(p, team)
  BY <1>5, <1>6 DEF Tuned, ProfileTuned, profile
<1>8. Filter(c) = profile.filter
  BY <1>2, <1>3, <1>4 DEF Filter
<1> QED BY <1>1, <1>7, <1>8

\* What an EXCEPT leaves alone.
LEMMA SetField ==
    ASSUME NEW c, ConfigShape(c), NEW f \in Fields, NEW v, f = "freq" => CarrierShape(v)
    PROVE  LET d == [c EXCEPT ![f] = v]
           IN  ConfigShape(d) /\ d[f] = v /\ \A g \in Fields : g # f => d[g] = c[g]
<1> DEFINE d == [c EXCEPT ![f] = v]
<1>1. Fields \subseteq DOMAIN c /\ CarrierShape(c["freq"])
  BY DEF ConfigShape
<1>2. DOMAIN d = DOMAIN c /\ d[f] = v /\ \A g \in Fields : g # f => d[g] = c[g]
  BY <1>1
<1> HIDE DEF d
<1>3. CarrierShape(d["freq"])
  BY <1>1, <1>2 DEF Fields
<1>4. ConfigShape(d)
  BY <1>1, <1>2, <1>3 DEF ConfigShape
<1> QED BY <1>2, <1>4 DEF d

\* A carrier is moved, and all others are where they were.
LEMMA SetCarrier ==
    ASSUME NEW freq, CarrierShape(freq), NEW team, NEW target, NEW hz
    PROVE  LET moved == [freq EXCEPT ![team] = [@ EXCEPT ![target] = hz]]
           IN  /\ CarrierShape(moved)
               /\ team \in Teams /\ target = "INFO" => moved[team]["INFO"] = hz
<1> DEFINE inner == [freq[team] EXCEPT ![target] = hz]
           moved == [freq EXCEPT ![team] = inner]
<1>1. DOMAIN inner = DOMAIN freq[team] /\ (target \in DOMAIN freq[team] => inner[target] = hz)
  OBVIOUS
<1> HIDE DEF inner
<1>2. /\ DOMAIN moved = DOMAIN freq /\ (team \in DOMAIN freq => moved[team] = inner)
      /\ \A t \in DOMAIN freq : t # team => moved[t] = freq[t]
  OBVIOUS
<1>3. moved = [freq EXCEPT ![team] = [@ EXCEPT ![target] = hz]]
  BY DEF inner
<1> HIDE DEF moved
<1>4. CarrierShape(moved)
  <2> SUFFICES ASSUME NEW t \in Teams PROVE t \in DOMAIN moved /\ "INFO" \in DOMAIN moved[t]
    BY DEF CarrierShape
  <2>1. t \in DOMAIN freq /\ "INFO" \in DOMAIN freq[t]
    BY DEF CarrierShape
  <2> QED BY <1>1, <1>2, <2>1
<1>5. team \in Teams /\ target = "INFO" => moved[team]["INFO"] = hz
  BY <1>1, <1>2 DEF CarrierShape
<1> QED BY ONLY <1>3, <1>4, <1>5, Zenon

\* set_target and set_team
LEMMA TargetShape ==
    ASSUME NEW c, ConfigShape(c), NEW target, NEW rescue
    PROVE  ConfigShape(SetTarget(c, target, rescue))
<1> DEFINE c1 == [c EXCEPT !["profile"] = NoProfile]
           aim == NormalizeTarget(target)
           c2 == [c1 EXCEPT !["target"] = aim]
           mode == IF NormalizeTarget(target) = "INFO" THEN rescue ELSE ""
           c3 == [c2 EXCEPT !["rescue"] = mode]
<1>1. ConfigShape(c1)
  BY SetField DEF Fields
<1>2. ConfigShape(c2)
  <2> HIDE DEF c1, aim
  <2> QED BY <1>1, SetField DEF Fields
<1>3. ConfigShape(c3)
  <2> HIDE DEF c2, mode
  <2> QED BY <1>2, SetField DEF Fields
<1>4. SetTarget(c, target, rescue) = c3
  BY Zenon DEF SetTarget
<1> HIDE DEF c3
<1> QED BY <1>3, <1>4

\* set_team
LEMMA TeamShape ==
    ASSUME NEW c, ConfigShape(c), NEW team
    PROVE  ConfigShape(SetTeam(c, team))
BY SetField DEF SetTeam, Fields

\* set_manual_gain and apply_frequency_offset
LEMMA GainShape ==
    ASSUME NEW c, ConfigShape(c), NEW target, NEW gain
    PROVE  ConfigShape(SetManualGain(c, target, gain))
<1> DEFINE gains == [c.manual_gain EXCEPT ![NormalizeTarget(target)] = Clamp(gain)]
<1>1. SetManualGain(c, target, gain) = [c EXCEPT !["manual_gain"] = gains]
  BY Zenon DEF SetManualGain
<1> HIDE DEF gains
<1>2. ConfigShape([c EXCEPT !["manual_gain"] = gains])
  BY SetField DEF Fields
<1> QED BY ONLY <1>1, <1>2

\* apply_frequency_offset
LEMMA OffsetShape ==
    ASSUME NEW c, ConfigShape(c), NEW team, NEW target, NEW hz
    PROVE  ConfigShape(ApplyFrequencyOffset(c, team, target, hz))
<1> DEFINE aim == NormalizeTarget(target)
           freq == [c.freq EXCEPT ![team] = [@ EXCEPT ![aim] = hz]]
<1>1. /\ ApplyFrequencyOffset(c, team, target, hz) = IF hz = 0 THEN c ELSE [c EXCEPT !["freq"] = freq]
  BY Zenon DEF ApplyFrequencyOffset
<1>2. CarrierShape(freq)
  <2> HIDE DEF aim
  <2> QED BY SetCarrier DEF ConfigShape
<1> HIDE DEF freq
<1>3. ConfigShape([c EXCEPT !["freq"] = freq])
  BY <1>2, SetField DEF Fields
<1> QED BY <1>1, <1>3

\* set_radio_profile: a profile with a known filter is what the radio is called
\* on to follow, and nothing that was set before remains of it.
LEMMA ProfileCalled ==
    ASSUME NEW c, ConfigShape(c), NEW p
    PROVE  /\ ConfigShape(SetRadioProfile(c, p))
           /\ p.team \in Teams /\ KnownFilter(p.rescue, p.filter) =>
                CalledFor(SetRadioProfile(c, p), p, p.team)
<1> DEFINE d1 == [c EXCEPT !["team"] = p.team]
           d2 == [d1 EXCEPT !["target"] = "INFO"]
           freq == [d2.freq EXCEPT ![p.team] = [@ EXCEPT !["INFO"] = 0]]
           named == [d2 EXCEPT !["freq"] = freq]
           profile == RadioProfile(p)
           d3 == [named EXCEPT !["profile"] = profile]
           d4 == [d3 EXCEPT !["rescue"] = p.rescue]
           gain == [d4.manual_gain EXCEPT !["INFO"] = IF p.rescue = "" THEN profile.gain ELSE @]
           d5 == [d4 EXCEPT !["manual_gain"] = gain]
<1>1. ConfigShape(d1) /\ d1["team"] = p.team
  BY SetField DEF Fields
<1>2. ConfigShape(d2) /\ d2["team"] = p.team /\ d2["target"] = "INFO"
  <2> HIDE DEF d1
  <2> QED BY <1>1, SetField DEF Fields
<1>3. CarrierShape(freq) /\ (p.team \in Teams => freq[p.team]["INFO"] = 0)
  <2> HIDE DEF d2
  <2>1. CarrierShape(d2.freq)
    BY <1>2 DEF ConfigShape
  <2> DEFINE info == "INFO"
             zero == 0
             old == d2.freq
  <2>2. /\ CarrierShape([old EXCEPT ![p.team] = [@ EXCEPT ![info] = zero]])
        /\ p.team \in Teams /\ info = "INFO" =>
              [old EXCEPT ![p.team] = [@ EXCEPT ![info] = zero]][p.team]["INFO"] = zero
    <3>1. CarrierShape(old)
      BY <2>1
    <3> DEFINE team == p.team
    <3> HIDE DEF info, zero, old, team
    <3>2. /\ CarrierShape([old EXCEPT ![team] = [@ EXCEPT ![info] = zero]])
          /\ team \in Teams /\ info = "INFO" =>
                [old EXCEPT ![team] = [@ EXCEPT ![info] = zero]][team]["INFO"] = zero
      BY ONLY <3>1, SetCarrier, Zenon
    <3> QED BY ONLY <3>2, Zenon DEF team
  <2> HIDE DEF freq
  <2> QED BY ONLY <2>2 DEF freq
<1>4. ConfigShape(named) /\ named["team"] = p.team /\ named["target"] = "INFO" /\ named["freq"] = freq
  <2> HIDE DEF d2, freq
  <2> QED BY <1>2, <1>3, SetField DEF Fields
<1>5. /\ ConfigShape(d3) /\ d3["team"] = p.team /\ d3["target"] = "INFO" /\ d3["freq"] = freq
      /\ d3["profile"] = profile
  <2> HIDE DEF named, freq, profile
  <2> QED BY <1>4, SetField DEF Fields
<1>6. /\ ConfigShape(d4) /\ d4["team"] = p.team /\ d4["target"] = "INFO" /\ d4["freq"] = freq
      /\ d4["profile"] = profile
  <2> HIDE DEF d3, freq, profile
  <2> QED BY <1>5, SetField DEF Fields
<1>7. /\ ConfigShape(d5) /\ d5["team"] = p.team /\ d5["target"] = "INFO" /\ d5["freq"] = freq
      /\ d5["profile"] = profile
  <2> HIDE DEF d4, freq, profile, gain
  <2> QED BY <1>6, SetField DEF Fields
<1>8. SetRadioProfile(c, p) = IF ~ KnownFilter(p.rescue, p.filter) THEN named ELSE d5
  BY ONLY Zenon DEF SetRadioProfile
<1> HIDE DEF named, d5, freq
<1>9. ConfigShape(SetRadioProfile(c, p))
  BY <1>4, <1>7, <1>8
<1>10. ASSUME p.team \in Teams, KnownFilter(p.rescue, p.filter)
       PROVE  CalledFor(SetRadioProfile(c, p), p, p.team)
  <2>1. SetRadioProfile(c, p) = d5
    BY <1>8, <1>10
  <2> QED BY <1>3, <1>7, <1>10, <2>1 DEF CalledFor, profile
<1> QED BY <1>9, <1>10

\* Initial parameters move the INFO carrier or set a profile at most.
LEMMA InitialShape ==
    ASSUME NEW p PROVE ConfigShape(InitialSettings(p))
<1>1. ConfigShape(InitialConfig)
  BY RadarParamsAssumption DEF InitialConfig, ConfigShape, CarrierShape, Fields, Teams
<1> DEFINE c1 == IF p.team = "" THEN InitialConfig ELSE SetTeam(InitialConfig, p.team)
           aim == IF p.target = "" THEN c1.target ELSE p.target
           c2 == ApplyFrequencyOffset(c1, c1.team, aim, p.offset)
           asked == p.rf_bw > 0 \/ p.filter.name # "" \/ p.gain >= 0 \/ p.offset # 0
           c3 == IF p.target = "" THEN c2
                 ELSE IF p.target = "INFO" /\ asked
                 THEN SetRadioProfile(c2, [p EXCEPT !.team = c1.team])
                 ELSE SetTarget(c2, p.target, p.rescue)
<1>2. ConfigShape(c1)
  BY <1>1, TeamShape
<1>3. ConfigShape(c2)
  <2> HIDE DEF c1, aim
  <2> QED BY <1>2, OffsetShape
<1>4. ConfigShape(c3)
  <2> HIDE DEF c2, c1, asked
  <2>1. ConfigShape(SetTarget(c2, p.target, p.rescue))
    BY <1>3, TargetShape
  <2>2. ConfigShape(SetRadioProfile(c2, [p EXCEPT !.team = c1.team]))
    BY <1>3, ProfileCalled
  <2> QED BY <1>3, <2>1, <2>2
<1>5. InitialSettings(p) = IF p.gain >= 0 THEN SetManualGain(c3, aim, p.gain) ELSE c3
  BY Zenon DEF InitialSettings
<1> HIDE DEF c3, aim
<1> QED BY <1>4, <1>5, GainShape

\* A candidate with its team is still the same profile.
LEMMA SameProfile ==
    ASSUME NEW cand, NEW team
    PROVE  LET p == Requested(cand, team)
           IN  /\ p.team = team /\ RadioProfile(p) = RadioProfile(cand)
               /\ p.rescue = cand.rescue /\ p.filter = cand.filter
               /\ p.offset = cand.offset /\ p.rf_bw = cand.rf_bw
BY DEF Requested, RadioProfile

(***************************************************************************)
(* What the receiver reads back                                            *)
(***************************************************************************)
Loaded(c, team) ==
    [profile |-> ProfileName(c.rescue), team |-> team, rescue |-> c.rescue, gain |-> c.gain,
     rf_bw |-> ToKHz(c.rf_bw) * KHz, offset |-> ToKHz(c.offset) * KHz, filter |-> c.filter]

\* Either file gives the receiver the candidate in whole kilohertz.
LEMMA ReadBack ==
    ASSUME NEW c \in GoodCandidates, NEW team \in Teams
    PROVE  /\ LoadAdaptiveProfile(BestProfileYaml(Row(c), team)) = Loaded(c, team)
           /\ LoadAdaptiveProfile(BestRowJson(Row(c), team)) = Loaded(c, team)
           /\ Loaded(c, team) # NoConfig
<1> DEFINE row == Row(c)
           yaml == BestProfileYaml(row, team)
           json == BestRowJson(row, team)
           bw == ToKHz(c.rf_bw)
           off == ToKHz(c.offset)
<1>1. /\ c.rescue \in Rescues /\ c.filter \in Filters /\ c.rf_bw \in Bandwidths
      /\ c.offset \in Int /\ c.gain \in Int
  BY DEF GoodCandidates
<1>2. bw \in Nat \ {0} /\ off \in Int
  BY <1>1, WholeKHz
<1> HIDE DEF bw, off
<1>3. bw * KHz \in Int /\ bw * KHz # 0 /\ off * KHz \in Int
  BY <1>2, UnitsAssumption
<1>4. \A x \in Int : x # Absent
  BY AbsentAssumption
<1>5. c.filter # Absent
  BY <1>1, FiltersAssumption
<1>6. /\ row.rescue = c.rescue /\ row.filter = c.filter /\ row.gain = c.gain
      /\ row.rf_bw_khz = bw /\ row.offset_khz = off
  BY DEF Row, bw, off
<1> HIDE DEF row
<1>7. /\ yaml.team = team /\ yaml.profile = ProfileName(c.rescue)
      /\ yaml.rescue = RescueName(c.rescue) /\ yaml.filter = c.filter /\ yaml.gain = c.gain
      /\ yaml.rf_bw_hz = bw * KHz /\ yaml.freq_offset_hz = off * KHz
  BY <1>6 DEF BestProfileYaml, Common
<1>8. /\ json.team = team /\ json.profile = ProfileName(c.rescue)
      /\ json.rescue = RescueName(c.rescue) /\ json.filter = c.filter /\ json.gain = c.gain
      /\ json.rf_bw_hz = Absent /\ json.freq_offset_hz = Absent
      /\ json.rf_bw_khz = bw /\ json.offset_khz = off
  BY <1>6 DEF BestRowJson, Common
<1> HIDE DEF yaml, json
<1>9. ASSUME NEW file, file.team = team, file.profile = ProfileName(c.rescue),
             file.rescue = RescueName(c.rescue)
      PROVE  RescueOf(file) = c.rescue /\ Supported(file)
  <2>1. RescueOf(file) = c.rescue
    <3>1. Absent # "L2" /\ Absent # "L3"
      BY AbsentAssumption
    <3> QED BY <1>1, <1>9, <3>1 DEF RescueOf, RescueName, ProfileName, Rescues
  <2> QED BY <1>1, <1>9, <2>1 DEF Supported, ProfileName, Rescues, Teams
<1>10. RfBwOf(yaml) = bw * KHz /\ OffsetOf(yaml) = off * KHz
  BY <1>3, <1>4, <1>7 DEF RfBwOf, OffsetOf
<1>11. RfBwOf(json) = bw * KHz /\ OffsetOf(json) = off * KHz
  <2>1. bw # Absent /\ off # Absent
    BY <1>2, <1>4
  <2> QED BY <1>8, <2>1 DEF RfBwOf, OffsetOf, FromKHz
<1>12. c.gain # Absent /\ bw * KHz # Absent /\ off * KHz # Absent
  BY <1>1, <1>3, <1>4
<1>13. ASSUME NEW file, file.team = team, file.profile = ProfileName(c.rescue),
              file.rescue = RescueName(c.rescue), file.gain = c.gain, file.filter = c.filter,
              RfBwOf(file) = bw * KHz, OffsetOf(file) = off * KHz
       PROVE  LoadAdaptiveProfile(file) = Loaded(c, team)
  <2>1. RescueOf(file) = c.rescue /\ Supported(file)
    BY <1>9, <1>13
  <2>2. Readable(file)
    BY <1>12, <1>13 DEF Readable
  <2> QED BY <1>5, <1>13, <2>1, <2>2 DEF LoadAdaptiveProfile, Loaded, bw, off
<1>14. Loaded(c, team) # NoConfig
  <2>1. Loaded(c, team).profile # "none"
    BY <1>1 DEF Loaded, ProfileName, Rescues
  <2>2. NoConfig.profile = "none"
    BY DEF NoConfig
  <2> QED BY ONLY <2>1, <2>2
<1>15. LoadAdaptiveProfile(yaml) = Loaded(c, team)
  BY <1>7, <1>10, <1>13
<1>16. LoadAdaptiveProfile(json) = Loaded(c, team)
  BY <1>8, <1>11, <1>13
<1> QED BY <1>14, <1>15, <1>16 DEF yaml, json, row

(***************************************************************************)
(* The invariant                                                           *)
(***************************************************************************)
RowOf(r, c) ==
    /\ r.row = Row(c) /\ Known(c)
    /\ ~ r.failed_over =>
          /\ r.team = plan.team /\ r.radio = ProfileTuned(c, plan.team)
          /\ r.used = FilterOrDefault(c.rescue, c.filter)

Arguments == plan \in Plans /\ (stage # "probe" => candidates \in Seq(GoodCandidates))

MeasuresCandidate ==
    measuring # "set" =>
        /\ ~ SweepOver /\ Known(Candidate)
        /\ ~ failed_over => CalledFor(config, Candidate, plan.team)

RowsOfCandidates ==
    /\ Len(rows) <= Len(candidates)
    /\ \A i \in 1 .. Len(rows) : RowOf(rows[i], candidates[i])

\* What the receiver loaded is the candidate of the best row.
MatchOfBest ==
    stage = "match" /\ ~ measured.failed_over =>
        \E i \in 1 .. Len(candidates) :
            LET c == candidates[i]
            IN  /\ Known(c) /\ profile_config = Loaded(c, measured.team)
                /\ measured.team = plan.team /\ measured.radio = ProfileTuned(c, plan.team)
                /\ measured.filter = FilterOrDefault(c.rescue, c.filter)

InInfo ==
    phase = "info" =>
        /\ stage = "match"
        /\ ~ failed_over /\ ~ measured.failed_over =>
              CalledFor(config, profile_config, plan.rx_team)

Probing ==
    /\ probe_rows = << >> \/ stage = "probe"
    /\ stage = "probe" =>
        LET tried == ProbeCandidates(plan.probe)
        IN  /\ plan.probing /\ probed = NoRow /\ rows = << >> /\ candidates = << >>
            /\ measuring = "set" /\ ~ failed_over /\ phase = "start"
            /\ config.profile = NoProfile
            /\ Len(probe_rows) <= Len(tried) /\ probe_rows \in Seq(ProbeRows)
            /\ \A i \in 1 .. Len(probe_rows) :
                  \E m \in ProbeMetrics : probe_rows[i] = ProbeRow(tried[i], i, m.score, m.errors)

\* A suggested sweep tries the settings that scored best, and has no profile
\* that it or the core could not apply or would replace.
AfterProbe ==
    probed # NoRow =>
        /\ stage # "failed" /\ ProbeRowRight(probed)
        /\ \A i \in 1 .. Len(candidates) : candidates[i].rescue = "" /\ Known(candidates[i])
        /\ \E i \in 1 .. Len(candidates) : AsSuggested(candidates[i], probed)
        /\ stage = "sweep" =>
              /\ config.profile = NoProfile \/ config.profile.rescue = ""
              /\ ~ failed_over
              /\ \A i \in 1 .. Len(rows) : ~ rows[i].failed_over

MatchInv ==
    /\ ConfigShape(config) /\ Arguments /\ MeasuresCandidate /\ RowsOfCandidates
    /\ MatchOfBest /\ InInfo /\ Probing /\ AfterProbe

\* The core's thread has begun to read no settings but INFO's when it drops
\* profiles of others.
ReadsInfo ==
    phase = "info" =>
        /\ config.target = "INFO"
        /\ core = "read" => pending.target = "INFO"

matchVars == << plan, stage, candidates, config, measuring, rows, failed_over, profile_config,
                measured, phase, probed, probe_rows >>

\* What the invariant is about.
LEMMA MatchUnchanged ==
    ASSUME MatchInv, UNCHANGED matchVars
    PROVE  MatchInv'
<1>1. (ConfigShape(config))' /\ Arguments' /\ MatchOfBest' /\ InInfo'
  BY DEF matchVars, MatchInv, ConfigShape, Arguments, MatchOfBest, InInfo
<1>2. MeasuresCandidate' /\ RowsOfCandidates'
  BY DEF matchVars, MatchInv, MeasuresCandidate, RowsOfCandidates, RowOf, SweepOver, Candidate
<1>3. Probing' /\ AfterProbe'
  BY DEF matchVars, MatchInv, Probing, AfterProbe
<1> QED BY <1>1, <1>2, <1>3 DEF MatchInv

\* The arguments are allowed, and so are the candidates made of them.
LEMMA InitMatches == Init => MatchInv
<1> SUFFICES ASSUME Init PROVE MatchInv
  OBVIOUS
<1>1. /\ plan \in Plans /\ stage = (IF plan.probing THEN "probe" ELSE "sweep")
      /\ candidates = (IF plan.probing THEN << >> ELSE Candidates(plan.args))
      /\ config = InitialConfig /\ measuring = "set" /\ rows = << >> /\ ~ failed_over
      /\ phase = "start" /\ probed = NoRow /\ probe_rows = << >>
  BY DEF Init, CoreInit
<1>2. ConfigShape(config)
  BY <1>1, RadarParamsAssumption DEF InitialConfig, ConfigShape, CarrierShape, Fields, Teams
<1>3. Arguments
  <2>1. CASE plan.probing
    BY <1>1, <2>1 DEF Arguments
  <2>2. CASE ~ plan.probing
    <3>1. SweepArgs(plan.args)
      BY <1>1, <2>2, PlansAssumption
    <3> QED BY <1>1, <2>2, <3>1, CandidatesGood DEF Arguments
  <2> QED BY <2>1, <2>2
<1>4. candidates \in Seq(GoodCandidates)
  <2>1. CASE plan.probing
    BY <1>1, <2>1
  <2>2. CASE ~ plan.probing
    BY <1>1, <1>3, <2>2 DEF Arguments
  <2> QED BY <2>1, <2>2
<1>5. MeasuresCandidate /\ MatchOfBest /\ InInfo
  BY <1>1 DEF MeasuresCandidate, MatchOfBest, InInfo
<1>6. RowsOfCandidates
  BY <1>1, <1>4 DEF RowsOfCandidates
<1>7. Probing
  <2> SUFFICES ASSUME stage = "probe"
               PROVE  /\ plan.probing /\ candidates = << >> /\ config.profile = NoProfile
                      /\ 0 <= Len(ProbeCandidates(plan.probe))
    BY <1>1 DEF Probing
  <2>1. plan.probing
    BY <1>1
  <2>2. ProbeArgs(plan.probe)
    BY <1>1, <2>1, PlansAssumption
  <2>3. ProbeCandidates(plan.probe) \in Seq(ProbeCandidateSet)
    BY <2>2, ProbeCandidatesGood
  <2>4. InitialConfig.profile = NoProfile
    BY DEF InitialConfig
  <2> QED BY <1>1, <2>1, <2>3, <2>4
<1>8. AfterProbe
  BY <1>1 DEF AfterProbe
<1> QED BY <1>2, <1>3, <1>5, <1>6, <1>7, <1>8 DEF MatchInv

\* A probe writes a row for every candidate in turn.
LEMMA ProbeMatches ==
    ASSUME MatchInv, Probe
    PROVE  MatchInv'
<1> DEFINE n == Len(probe_rows) + 1
           tried == ProbeCandidates(plan.probe)
<1>1. /\ stage = "probe" /\ n <= Len(tried)
      /\ UNCHANGED << plan, stage, candidates, config, measuring, rows, failed_over,
                      profile_config, measured, phase, probed >>
  BY DEF Probe, coreVars, sweepVars
<1>2. PICK m \in ProbeMetrics :
                probe_rows' = Append(probe_rows, ProbeRow(tried[n], n, m.score, m.errors))
  BY DEF Probe
<1>3. /\ plan \in Plans /\ plan.probing /\ probed = NoRow /\ Len(probe_rows) <= Len(tried)
      /\ probe_rows \in Seq(ProbeRows)
      /\ \A i \in 1 .. Len(probe_rows) :
            \E k \in ProbeMetrics : probe_rows[i] = ProbeRow(tried[i], i, k.score, k.errors)
  BY <1>1 DEF MatchInv, Arguments, Probing
<1>4. tried \in Seq(ProbeCandidateSet)
  BY <1>3, PlansAssumption, ProbeCandidatesGood
<1>5. ProbeRow(tried[n], n, m.score, m.errors) \in ProbeRows
  <2> HIDE DEF tried
  <2>1. n \in 1 .. Len(tried) /\ n \in Nat \ {0}
    BY <1>1, <1>3
  <2>2. tried[n] \in ProbeCandidateSet
    BY <1>4, <2>1
  <2> HIDE DEF n
  <2>3. ProbeRowRight(ProbeRow(tried[n], n, m.score, m.errors))
    BY <2>1, <2>2, ProbeRowIsRight
  <2> QED BY <2>3 DEF ProbeRowRight
<1> DEFINE row == ProbeRow(tried[n], n, m.score, m.errors)
<1>6. /\ probe_rows' \in Seq(ProbeRows) /\ Len(probe_rows') = n
      /\ \A i \in 1 .. n : probe_rows'[i] = IF i = n THEN row ELSE probe_rows[i]
  <2>1. row \in ProbeRows /\ probe_rows' = Append(probe_rows, row)
    BY <1>2, <1>5
  <2> HIDE DEF row
  <2> QED BY <1>3, <2>1
<1>7. \A i \in 1 .. n :
            \E k \in ProbeMetrics : probe_rows'[i] = ProbeRow(tried[i], i, k.score, k.errors)
  <2> SUFFICES ASSUME NEW i \in 1 .. n
               PROVE  \E k \in ProbeMetrics :
                          probe_rows'[i] = ProbeRow(tried[i], i, k.score, k.errors)
    OBVIOUS
  <2>1. CASE i = n
    <3>1. probe_rows'[i] = ProbeRow(tried[i], i, m.score, m.errors)
      BY ONLY <1>6, <2>1, i \in 1 .. n, Zenon DEF row
    <3> QED BY <3>1
  <2>2. CASE i # n
    <3>1. i \in 1 .. Len(probe_rows) /\ probe_rows'[i] = probe_rows[i]
      <4> HIDE DEF row
      <4> QED BY <1>3, <1>6, <2>2
    <3> QED BY <1>3, <3>1
  <2> QED BY <2>1, <2>2
<1>8. Probing'
  <2> HIDE DEF n, row
  <2>1. tried' = tried
    BY <1>1
  <2> HIDE DEF tried
  <2>2. n <= Len(tried) /\ Len(probe_rows') = n
    BY <1>1, <1>6
  <2>3. /\ plan.probing /\ probed = NoRow /\ rows = << >> /\ candidates = << >>
        /\ measuring = "set" /\ ~ failed_over /\ phase = "start" /\ config.profile = NoProfile
    BY <1>1 DEF MatchInv, Probing
  <2> QED BY <1>1, <1>6, <1>7, <2>1, <2>2, <2>3 DEF Probing, tried
<1>9. (ConfigShape(config))' /\ Arguments' /\ MatchOfBest' /\ InInfo'
  BY <1>1 DEF MatchInv, ConfigShape, Arguments, MatchOfBest, InInfo
<1>10. MeasuresCandidate' /\ RowsOfCandidates' /\ AfterProbe'
  BY <1>1 DEF MatchInv, MeasuresCandidate, RowsOfCandidates, RowOf, SweepOver, Candidate, AfterProbe
<1> QED BY <1>8, <1>9, <1>10 DEF MatchInv

\* The sweep that the probe suggests.
LEMMA SuggestSweepMatches ==
    ASSUME MatchInv, SuggestSweep
    PROVE  MatchInv'
<1> DEFINE tried == ProbeCandidates(plan.probe)
           cands == Candidates(SuggestedSweep(probe_rows))
           best == RankedRows(probe_rows)[1]
<1>1. /\ stage = "probe" /\ Len(probe_rows) = Len(tried)
      /\ stage' = "sweep" /\ candidates' = cands /\ probed' = best /\ probe_rows' = << >>
      /\ UNCHANGED << plan, config, measuring, rows, failed_over, profile_config, measured, phase >>
  BY DEF SuggestSweep, coreVars, sweepVars
<1>2. /\ plan \in Plans /\ plan.probing /\ probe_rows \in Seq(ProbeRows)
      /\ \A i \in 1 .. Len(probe_rows) :
            \E k \in ProbeMetrics : probe_rows[i] = ProbeRow(tried[i], i, k.score, k.errors)
  BY <1>1 DEF MatchInv, Arguments, Probing
<1>3. /\ rows = << >> /\ measuring = "set" /\ ~ failed_over /\ phase = "start"
      /\ config.profile = NoProfile
  BY <1>1 DEF MatchInv, Probing
<1>4. tried \in Seq(ProbeCandidateSet) /\ tried # << >>
  BY <1>2, PlansAssumption, ProbeCandidatesGood
<1> HIDE DEF tried
<1>5. probe_rows # << >>
  BY <1>1, <1>2, <1>4
<1>6. ASSUME NEW i \in 1 .. Len(probe_rows)
      PROVE  ProbeRowRight(probe_rows[i]) /\ probe_rows[i].idx = i
  <2>1. PICK k \in ProbeMetrics : probe_rows[i] = ProbeRow(tried[i], i, k.score, k.errors)
    BY <1>2
  <2>2. tried[i] \in ProbeCandidateSet /\ i \in Nat \ {0}
    BY <1>1, <1>4
  <2>3. ProbeRowRight(probe_rows[i])
    BY <2>1, <2>2, ProbeRowIsRight
  <2>4. probe_rows[i].idx = i
    BY <2>1 DEF ProbeRow
  <2> QED BY <2>3, <2>4
<1>7. /\ cands \in Seq(GoodCandidates)
      /\ \A i \in 1 .. Len(cands) : cands[i].rescue = "" /\ Known(cands[i])
      /\ \E i \in 1 .. Len(cands) : AsSuggested(cands[i], best)
      /\ ProbeRowRight(best)
  <2>1. \A i \in 1 .. Len(probe_rows) : ProbeRowRight(probe_rows[i])
    BY <1>6
  <2>2. \A i, j \in 1 .. Len(probe_rows) : probe_rows[i].idx = probe_rows[j].idx => i = j
    BY <1>6
  <2> QED BY <1>2, <1>5, <2>1, <2>2, SuggestedCandidates
<1> HIDE DEF cands, best
<1>r. Len(rows) = 0 /\ 1 .. Len(rows) = {}
  BY <1>3
<1>8. AfterProbe'
  <2>1. /\ stage' = "sweep" /\ config' = config /\ rows' = rows /\ failed_over' = failed_over
        /\ candidates' = cands /\ probed' = best
    BY <1>1
  <2>2. \A i \in 1 .. Len(rows) : ~ rows[i].failed_over
    BY ONLY <1>r
  <2>3. config.profile = NoProfile /\ ~ failed_over
    BY <1>3
  <2> QED BY ONLY <1>7, <2>1, <2>2, <2>3, Zenon DEF AfterProbe
<1>9. (ConfigShape(config))' /\ Arguments' /\ MatchOfBest' /\ InInfo' /\ Probing'
  BY <1>1, <1>3, <1>7 DEF MatchInv, ConfigShape, Arguments, MatchOfBest, InInfo, Probing
<1>10. MeasuresCandidate' /\ RowsOfCandidates'
  <2>1. measuring' = "set" /\ rows' = rows /\ candidates' = cands
    BY <1>1, <1>3
  <2>2. 0 <= Len(cands)
    <3>1. cands \in Seq(GoodCandidates)
      BY ONLY <1>7
    <3> HIDE DEF GoodCandidates
    <3> QED BY ONLY <3>1
  <2> QED BY ONLY <1>r, <2>1, <2>2 DEF MeasuresCandidate, RowsOfCandidates
<1> QED BY <1>8, <1>9, <1>10 DEF MatchInv

\* The candidate whose turn it is.
LEMMA CandidateIs ==
    ASSUME SweepInv, MatchInv, stage = "sweep", ~ SweepOver
    PROVE  /\ Len(rows) + 1 \in 1 .. Len(candidates) /\ Len(rows) \in Nat
           /\ Candidate \in GoodCandidates
           /\ probed # NoRow => Candidate.rescue = "" /\ Known(Candidate)
<1>1. candidates \in Seq(GoodCandidates)
  BY DEF MatchInv, Arguments
<1>2. Len(rows) <= Len(candidates) /\ Len(rows) # Len(candidates)
  BY DEF MatchInv, RowsOfCandidates, SweepOver
<1>3. Len(rows) \in Nat
  <2>1. rows \in Seq(ToSet(rows))
    BY DEF SweepInv, GoodRows
  <2> QED BY <2>1
<1>4. Len(rows) + 1 \in 1 .. Len(candidates)
  BY <1>1, <1>2, <1>3
<1>5. Candidate \in GoodCandidates
  <2> HIDE DEF GoodCandidates
  <2> QED BY <1>1, <1>4 DEF Candidate
<1>6. probed # NoRow =>
        \A i \in 1 .. Len(candidates) : candidates[i].rescue = "" /\ Known(candidates[i])
  BY DEF MatchInv, AfterProbe
<1> QED BY <1>3, <1>4, <1>5, <1>6 DEF Candidate

\* Of a good candidate the radio is tuned to its own settings.
LEMMA CandidateTunes ==
    ASSUME NEW c, NEW p \in GoodCandidates, NEW team \in Teams, CalledFor(c, p, team)
    PROVE  Tuned(Effective(c)) = ProfileTuned(p, team) /\ Filter(c) = FilterOrDefault(p.rescue, p.filter)
<1>1. p.rescue \in Rescues /\ p.offset \in Int /\ p.rf_bw \in Bandwidths
  BY DEF GoodCandidates
<1>2. p.rf_bw # NoBw
  BY <1>1, UnitsAssumption DEF Bandwidths, NoBw
<1> QED BY <1>1, <1>2, CalledForTunes

\* A candidate is set, and no other candidate's settings remain.
LEMMA SetCandidateMatches ==
    ASSUME SweepInv, MatchInv, SetCandidate
    PROVE  MatchInv'
<1> DEFINE p == Requested(Candidate, plan.team)
<1>1. /\ stage = "sweep" /\ measuring = "set" /\ ~ SweepOver
      /\ config' = SetRadioProfile(config, p) /\ failed_over' = FALSE
      /\ UNCHANGED << plan, candidates, rows, profile_config, measured, phase, probed, probe_rows >>
      /\ IF KnownFilter(Candidate.rescue, Candidate.filter)
         THEN measuring' = "settle" /\ stage' = stage
         ELSE measuring' = measuring /\ stage' = "failed"
  BY DEF SetCandidate
<1>2. plan.team \in Teams
  BY PlansAssumption DEF MatchInv, Arguments, Teams
<1>3. /\ Candidate \in GoodCandidates /\ (probed # NoRow => Candidate.rescue = "" /\ Known(Candidate))
  BY <1>1, CandidateIs
<1>4. /\ p.team = plan.team /\ RadioProfile(p) = RadioProfile(Candidate)
      /\ p.rescue = Candidate.rescue /\ p.filter = Candidate.filter
  BY SameProfile
<1> HIDE DEF p
<1>5. /\ ConfigShape(config')
      /\ Known(Candidate) => CalledFor(config', Candidate, plan.team)
  <2>1. ConfigShape(config)
    BY DEF MatchInv
  <2>2. /\ ConfigShape(config')
        /\ p.team \in Teams /\ KnownFilter(p.rescue, p.filter) => CalledFor(config', p, p.team)
    BY <1>1, <2>1, ProfileCalled
  <2> QED BY <1>2, <1>4, <2>2 DEF CalledFor, Known
<1>6. Candidate' = Candidate /\ SweepOver' = SweepOver
  BY <1>1 DEF Candidate, SweepOver
<1>7. MeasuresCandidate'
  BY <1>1, <1>5, <1>6 DEF MeasuresCandidate, Known
<1>8. Arguments' /\ MatchOfBest' /\ InInfo'
  <2>1. stage' # "match" /\ stage' # "probe"
    BY <1>1
  <2>2. phase # "info"
    BY <1>1 DEF MatchInv, InInfo
  <2> QED BY <1>1, <2>1, <2>2 DEF MatchInv, Arguments, MatchOfBest, InInfo
<1>9. RowsOfCandidates'
  BY <1>1 DEF MatchInv, RowsOfCandidates, RowOf
<1>10. Probing'
  BY <1>1 DEF MatchInv, Probing
<1>11. AfterProbe'
  <2> SUFFICES ASSUME probed # NoRow
               PROVE  /\ stage' = "sweep"
                      /\ config'.profile = NoProfile \/ config'.profile.rescue = ""
    <3>1. probed' = probed /\ rows' = rows /\ candidates' = candidates /\ ~ failed_over'
      BY <1>1
    <3>2. AfterProbe /\ stage = "sweep"
      BY <1>1 DEF MatchInv
    <3> QED BY <3>1, <3>2, Zenon DEF AfterProbe
  <2>1. Candidate.rescue = "" /\ Known(Candidate)
    BY <1>3
  <2>2. stage' = "sweep"
    BY <1>1, <2>1 DEF Known
  <2>3. config'.profile = RadioProfile(Candidate)
    BY <1>5, <2>1 DEF CalledFor
  <2>4. RadioProfile(Candidate).rescue = Candidate.rescue
    BY DEF RadioProfile
  <2> QED BY <2>1, <2>2, <2>3, <2>4
<1> QED BY <1>5, <1>7, <1>8, <1>9, <1>10, <1>11 DEF MatchInv

\* The snapshots: a row is written of the candidate that is set.
LEMMA StartSnapshotMatches ==
    ASSUME MatchInv, StartSnapshot
    PROVE  MatchInv'
<1>1. /\ measuring = "settle" /\ measuring' = "dwell"
      /\ UNCHANGED << plan, stage, candidates, config, rows, failed_over, profile_config,
                      measured, phase, probed, probe_rows >>
  BY DEF StartSnapshot, coreVars
<1>2. Arguments' /\ (ConfigShape(config))' /\ MatchOfBest' /\ InInfo'
  BY <1>1 DEF MatchInv, Arguments, ConfigShape, MatchOfBest, InInfo
<1>3. MeasuresCandidate'
  BY <1>1 DEF MatchInv, MeasuresCandidate, SweepOver, Candidate
<1>4. RowsOfCandidates'
  BY <1>1 DEF MatchInv, RowsOfCandidates, RowOf
<1>5. Probing'
  <2>1. stage # "probe"
    BY <1>1 DEF MatchInv, Probing
  <2> QED BY <1>1, <2>1 DEF MatchInv, Probing
<1>6. AfterProbe'
  BY <1>1 DEF MatchInv, AfterProbe
<1> QED BY <1>2, <1>3, <1>4, <1>5, <1>6 DEF MatchInv

\* The end of a candidate: its row names what the core was set to.
LEMMA EndSnapshotMatches ==
    ASSUME SweepInv, MatchInv, EndSnapshot
    PROVE  MatchInv'
<1> DEFINE new == [row |-> Row(Candidate), stats |-> Delta(stats, start), heard |-> heard,
                   failed_over |-> failed_over, team |-> config.team, radio |-> radio,
                   used |-> Filter(config)]
<1>1. /\ stage = "sweep" /\ measuring = "dwell" /\ measuring' = "set" /\ key = Key(config)
      /\ rows' = Append(rows, new)
      /\ UNCHANGED << plan, stage, candidates, config, failed_over, profile_config, measured,
                      phase, probed, probe_rows >>
  BY DEF EndSnapshot, coreVars
<1>2. /\ ~ SweepOver /\ Known(Candidate)
      /\ ~ failed_over => CalledFor(config, Candidate, plan.team)
  BY <1>1 DEF MatchInv, MeasuresCandidate
<1>3. /\ Candidate \in GoodCandidates
      /\ Len(rows) + 1 \in 1 .. Len(candidates) /\ Len(rows) \in Nat
  BY <1>1, <1>2, CandidateIs
<1>4. plan.team \in Teams
  BY PlansAssumption DEF MatchInv, Arguments, Teams
<1>5. /\ new.row = Row(Candidate) /\ new.failed_over = failed_over /\ new.team = config.team
      /\ new.radio = radio /\ new.used = Filter(config)
  OBVIOUS
<1>6. RowOf(new, Candidate)
  <2> HIDE DEF new
  <2> SUFFICES ASSUME ~ failed_over
               PROVE  /\ config.team = plan.team /\ radio = ProfileTuned(Candidate, plan.team)
                      /\ Filter(config) = FilterOrDefault(Candidate.rescue, Candidate.filter)
    BY <1>2, <1>5 DEF RowOf
  <2>1. radio = Tuned(Effective(config))
    BY <1>1, NotNoKey DEF SweepInv, RadioAsKey
  <2>2. CalledFor(config, Candidate, plan.team)
    BY <1>2
  <2>3. config.team = plan.team
    BY <2>2 DEF CalledFor
  <2> QED BY <1>3, <1>4, <2>1, <2>2, <2>3, CandidateTunes
<1> HIDE DEF new
<1>7. /\ Len(rows') = Len(rows) + 1
      /\ \A i \in 1 .. Len(rows') : rows'[i] = IF i = Len(rows) + 1 THEN new ELSE rows[i]
  <2>1. rows \in Seq(ToSet(rows))
    BY DEF SweepInv, GoodRows
  <2> QED BY <1>1, <2>1
<1>8. RowsOfCandidates'
  <2>1. \A i \in 1 .. Len(rows') : RowOf(rows'[i], candidates[i])
    <3> SUFFICES ASSUME NEW i \in 1 .. Len(rows') PROVE RowOf(rows'[i], candidates[i])
      OBVIOUS
    <3>1. CASE i = Len(rows) + 1
      BY <1>6, <1>7, <3>1 DEF Candidate
    <3>2. CASE i # Len(rows) + 1
      <4>1. i \in 1 .. Len(rows) /\ rows'[i] = rows[i]
        BY <1>3, <1>7, <3>2
      <4> QED BY <4>1 DEF MatchInv, RowsOfCandidates
    <3> QED BY <3>1, <3>2
  <2>2. Len(rows') <= Len(candidates)
    BY <1>3, <1>7
  <2>3. \A i \in 1 .. Len(rows') : (RowOf(rows[i], candidates[i]))'
    BY <1>1, <2>1 DEF RowOf
  <2> QED BY <1>1, <2>2, <2>3 DEF RowsOfCandidates
<1>9. AfterProbe'
  <2> SUFFICES ASSUME probed # NoRow
               PROVE  \A i \in 1 .. Len(rows') : ~ rows'[i].failed_over
    <3>1. /\ UNCHANGED << stage, candidates, config, failed_over, probed >>
      BY <1>1
    <3>2. AfterProbe
      BY DEF MatchInv
    <3> QED BY <3>1, <3>2, Zenon DEF AfterProbe
  <2>1. ~ failed_over /\ \A i \in 1 .. Len(rows) : ~ rows[i].failed_over
    BY <1>1 DEF MatchInv, AfterProbe
  <2>2. ASSUME NEW i \in 1 .. Len(rows') PROVE ~ rows'[i].failed_over
    <3>1. i = Len(rows) + 1 \/ i \in 1 .. Len(rows)
      BY <1>3, <1>7
    <3> QED BY <1>3, <1>5, <1>7, <2>1, <3>1
  <2> QED BY <2>2
<1>10. Arguments' /\ (ConfigShape(config))' /\ MatchOfBest' /\ InInfo' /\ MeasuresCandidate' /\ Probing'
  <2>1. stage # "match" /\ stage # "probe" /\ phase # "info" /\ measuring' = "set"
    BY <1>1 DEF MatchInv, InInfo
  <2> QED BY <1>1, <2>1
          DEF MatchInv, Arguments, ConfigShape, MatchOfBest, InInfo, MeasuresCandidate, Probing
<1> QED BY <1>8, <1>9, <1>10 DEF MatchInv

\* The node starts with the best row's profile, whatever its own settings.
LEMMA StartMatchMatches ==
    ASSUME SweepInv, MatchInv, StartMatch
    PROVE  MatchInv'
<1>1. /\ stage = "sweep" /\ stage' = "match" /\ measuring = "set"
      /\ config' = InitialSettings(plan.initial) /\ rows' = << >> /\ failed_over' = FALSE
      /\ phase' = "start"
      /\ UNCHANGED << plan, candidates, measuring, probed, probe_rows >>
  BY DEF StartMatch
<1>2. PICK best \in BestRows(rows) :
        /\ profile_config' = LoadProfileConfig(best.row, best.team)
        /\ measured' = [team |-> best.team, radio |-> best.radio, filter |-> best.used,
                        failed_over |-> best.failed_over]
  BY DEF StartMatch
<1>3. PICK i \in 1 .. Len(rows) : best = rows[i]
  <2>1. rows \in Seq(ToSet(rows)) /\ best \in ToSet(rows)
    BY DEF SweepInv, GoodRows, BestRows
  <2> QED BY <2>1, ToSetIs
<1> DEFINE c == candidates[i]
<1>4. RowOf(best, c) /\ i \in 1 .. Len(candidates) /\ c \in GoodCandidates
  <2>1. /\ Len(rows) <= Len(candidates) /\ RowOf(rows[i], candidates[i])
        /\ candidates \in Seq(GoodCandidates)
    BY <1>1 DEF MatchInv, RowsOfCandidates, Arguments
  <2>2. Len(rows) \in Nat
    <3>1. rows \in Seq(ToSet(rows))
      BY DEF SweepInv, GoodRows
    <3> QED BY <3>1
  <2> HIDE DEF GoodCandidates
  <2>3. Len(candidates) \in Nat
    BY <2>1
  <2>4. i \in 1 .. Len(candidates)
    BY <2>1, <2>2, <2>3
  <2>5. c \in GoodCandidates
    BY <2>1, <2>4
  <2> QED BY <1>3, <2>1, <2>4, <2>5
<1>5. plan.team \in Teams
  BY PlansAssumption DEF MatchInv, Arguments, Teams
<1> HIDE DEF c
<1>6. MatchOfBest'
  <2> SUFFICES ASSUME ~ best.failed_over
               PROVE  /\ Known(c) /\ profile_config' = Loaded(c, best.team)
                      /\ best.team = plan.team /\ best.radio = ProfileTuned(c, plan.team)
                      /\ best.used = FilterOrDefault(c.rescue, c.filter)
    BY <1>1, <1>2, <1>4, Zenon DEF MatchOfBest, c
  <2>1. /\ Known(c) /\ best.row = Row(c) /\ best.team = plan.team
        /\ best.radio = ProfileTuned(c, plan.team)
        /\ best.used = FilterOrDefault(c.rescue, c.filter)
    BY <1>4 DEF RowOf
  <2>2. profile_config' = Loaded(c, plan.team)
    <3>1. \/ profile_config' = LoadAdaptiveProfile(BestRowJson(Row(c), plan.team))
          \/ profile_config' = LoadAdaptiveProfile(BestProfileYaml(Row(c), plan.team))
      BY ONLY <1>2, <2>1, Zenon DEF LoadProfileConfig
    <3> QED BY <1>4, <1>5, <3>1, ReadBack
  <2> QED BY <2>1, <2>2
<1>7. (ConfigShape(config))'
  BY <1>1, InitialShape DEF ConfigShape
<1>8. RowsOfCandidates'
  <2>1. candidates \in Seq(GoodCandidates)
    BY <1>1 DEF MatchInv, Arguments
  <2> HIDE DEF GoodCandidates
  <2>2. Len(candidates) >= 0
    BY <2>1
  <2>3. candidates' = candidates /\ rows' = << >> /\ Len(rows') = 0 /\ 1 .. Len(rows') = {}
    BY <1>1
  <2> QED BY ONLY <2>2, <2>3 DEF RowsOfCandidates
<1>9. Arguments' /\ InInfo' /\ MeasuresCandidate' /\ Probing' /\ AfterProbe'
  BY <1>1 DEF MatchInv, Arguments, InInfo, MeasuresCandidate, Probing, AfterProbe
<1> QED BY <1>6, <1>7, <1>8, <1>9 DEF MatchInv

\* What a step of the match leaves alone.
LEMMA InMatch ==
    ASSUME MatchInv, stage = "match", stage' = stage, measuring = "set", measuring' = "set",
           UNCHANGED << plan, candidates, rows, profile_config, measured, probed, probe_rows >>,
           ConfigShape(config'), InInfo'
    PROVE  MatchInv'
<1>1. Arguments' /\ MatchOfBest' /\ MeasuresCandidate'
  BY DEF MatchInv, Arguments, MatchOfBest, MeasuresCandidate
<1>2. RowsOfCandidates'
  BY DEF MatchInv, RowsOfCandidates, RowOf
<1>3. Probing'
  BY DEF MatchInv, Probing
<1>4. AfterProbe'
  BY DEF MatchInv, AfterProbe
<1>5. (ConfigShape(config))'
  BY DEF ConfigShape
<1> QED BY <1>1, <1>2, <1>3, <1>4, <1>5 DEF MatchInv

\* The handler of a context and the core's own thread set the match's radio.
LEMMA JamContextMatches ==
    ASSUME SweepInv, MatchInv, TeamContext \/ JamContext
    PROVE  MatchInv'
<1>1. /\ stage = "match" /\ phase' # "info" /\ stage' = stage
      /\ \/ config' = SetTeam(config, plan.rx_team)
         \/ config' = SetTarget(config, "JAM_L1_KEY", "")
      /\ UNCHANGED << plan, candidates, rows, profile_config, measured, probed, probe_rows,
                      measuring >>
  BY DEF TeamContext, JamContext, sweepVars
<1>2. measuring = "set"
  BY <1>1 DEF SweepInv, OwnCounts
<1>3. ConfigShape(config')
  <2>1. ConfigShape(config)
    BY DEF MatchInv
  <2>2. ConfigShape(SetTeam(config, plan.rx_team))
    BY <2>1, TeamShape
  <2>3. ConfigShape(SetTarget(config, "JAM_L1_KEY", ""))
    BY <2>1, TargetShape
  <2> QED BY <1>1, <2>2, <2>3
<1>4. InInfo'
  BY <1>1 DEF InInfo
<1> QED BY <1>1, <1>2, <1>3, <1>4, InMatch

\* The final key applies the profile that the match was started with.
LEMMA FinalKeyMatches ==
    ASSUME SweepInv, MatchInv, FinalKey
    PROVE  MatchInv'
<1>1. /\ stage = "match" /\ phase' = "info" /\ stage' = stage
      /\ config' = ApplyInfoProfile(config) /\ failed_over' = FALSE
      /\ UNCHANGED << plan, candidates, rows, profile_config, measured, probed, probe_rows,
                      measuring >>
  BY Zenon DEF FinalKey, sweepVars
<1>2. measuring = "set"
  BY <1>1 DEF SweepInv, OwnCounts
<1> DEFINE p == [profile_config EXCEPT !.team = plan.rx_team]
<1>3. ConfigShape(config)
  BY DEF MatchInv
<1>4. ConfigShape(config')
  <2>1. ConfigShape(SetTarget(config, "INFO", ""))
    BY <1>3, TargetShape
  <2>2. ConfigShape(SetRadioProfile(config, p))
    <3> HIDE DEF p
    <3> QED BY <1>3, ProfileCalled
  <2>3. config' = SetTarget(config, "INFO", "") \/ config' = SetRadioProfile(config, p)
    BY ONLY <1>1, Zenon DEF ApplyInfoProfile
  <2> QED BY ONLY <2>1, <2>2, <2>3
<1>5. ASSUME ~ measured.failed_over
      PROVE  CalledFor(config', profile_config, plan.rx_team)
  <2>1. PICK i \in 1 .. Len(candidates) :
            /\ Known(candidates[i]) /\ profile_config = Loaded(candidates[i], measured.team)
            /\ measured.team = plan.team
    BY <1>1, <1>5 DEF MatchInv, MatchOfBest
  <2> DEFINE c == candidates[i]
  <2>2. c \in GoodCandidates
    <3>1. candidates \in Seq(GoodCandidates)
      BY <1>1 DEF MatchInv, Arguments
    <3> HIDE DEF GoodCandidates
    <3> QED BY <3>1
  <2>3. plan.team \in Teams /\ plan.rx_team \in Teams
    BY PlansAssumption DEF MatchInv, Arguments, Teams
  <2>4. profile_config # NoConfig
    BY <2>1, <2>2, <2>3, ReadBack
  <2>5. config' = SetRadioProfile(config, p)
    BY ONLY <1>1, <2>4, Zenon DEF ApplyInfoProfile
  <2>6. /\ p.team = plan.rx_team /\ p.rescue = c.rescue /\ p.filter = c.filter
        /\ RadioProfile(p) = RadioProfile(profile_config)
    <3> DEFINE l == Loaded(c, measured.team)
               q == [l EXCEPT !.team = plan.rx_team]
    <3>1. /\ q.team = plan.rx_team /\ q.rescue = c.rescue /\ q.filter = c.filter
          /\ q.offset = l.offset /\ q.rf_bw = l.rf_bw /\ q.gain = l.gain
          /\ q.rescue = l.rescue /\ q.filter = l.filter
      <4> DEFINE rx == plan.rx_team
      <4> HIDE DEF rx, c
      <4> QED BY DEF Loaded, rx
    <3> HIDE DEF q, l
    <3>2. RadioProfile(q) = RadioProfile(l)
      BY <3>1 DEF RadioProfile
    <3>3. l = profile_config /\ q = p
      BY <2>1 DEF l, q
    <3> QED BY <3>1, <3>2, <3>3
  <2> HIDE DEF p, c
  <2>7. KnownFilter(p.rescue, p.filter)
    BY <2>1, <2>6 DEF Known, c
  <2>8. CalledFor(config', p, p.team)
    BY <1>3, <2>3, <2>5, <2>6, <2>7, ProfileCalled
  <2> QED BY <2>6, <2>8 DEF CalledFor
<1>6. InInfo'
  BY <1>1, <1>5 DEF InInfo, CalledFor
<1> QED BY <1>1, <1>2, <1>4, <1>6, InMatch

\* The core's thread: it reads configurations and leaves them as they are
\* unless they are of a jam target.
LEMMA CoreRunsMatches ==
    ASSUME SweepInv, MatchInv, ReadsInfo, CoreRuns
    PROVE  MatchInv'
<1>1. /\ stage \in {"sweep", "match"}
      /\ UNCHANGED << plan, stage, candidates, measuring, rows, failed_over, profile_config,
                      measured, phase, probed, probe_rows >>
  BY Zenon DEF CoreRuns, sweepVars
<1>2. CASE config' = config
  <2>1. UNCHANGED matchVars
    BY <1>1, <1>2 DEF matchVars
  <2> QED BY <2>1, MatchUnchanged
<1>3. CASE /\ measuring = "set" /\ phase # "info"
           /\ config' = [config EXCEPT !.profile = NoProfile, !.rescue = ""]
  <2> DEFINE c1 == [config EXCEPT !["profile"] = NoProfile]
             c2 == [c1 EXCEPT !["rescue"] = ""]
  <2>1. ConfigShape(config)
    BY DEF MatchInv
  <2>2. ConfigShape(c1) /\ c1["profile"] = NoProfile
    BY <2>1, SetField DEF Fields
  <2>3. ConfigShape(c2) /\ c2["profile"] = NoProfile
    <3> HIDE DEF c1
    <3> QED BY <2>2, SetField DEF Fields
  <2>4. config' = c2
    BY ONLY <1>3, Zenon
  <2> HIDE DEF c2
  <2>5. (ConfigShape(config))' /\ config'.profile = NoProfile
    BY <2>3, <2>4 DEF ConfigShape
  <2>7. MeasuresCandidate'
    BY <1>1, <1>3 DEF MeasuresCandidate
  <2>8. InInfo'
    BY <1>1, <1>3 DEF InInfo
  <2>9. Arguments' /\ MatchOfBest'
    BY <1>1 DEF MatchInv, Arguments, MatchOfBest
  <2>10. RowsOfCandidates'
    BY <1>1 DEF MatchInv, RowsOfCandidates, RowOf
  <2>11. Probing'
    BY <1>1 DEF MatchInv, Probing
  <2>12. AfterProbe'
    BY <1>1, <2>5 DEF MatchInv, AfterProbe
  <2> QED BY <2>5, <2>7, <2>8, <2>9, <2>10, <2>11, <2>12 DEF MatchInv
<1>4. CASE FinishRead
  <2>1. PICK seen \in Mixtures(pending, config) : config' = ProfileDropped(seen)
    BY <1>4 DEF FinishRead
  <2>2. stage = "sweep" \/ phase = "info" => config.target = "INFO" /\ pending.target = "INFO"
    BY <1>4 DEF FinishRead, SweepInv, Typed, ReadsInfo
  <2>3. seen.target # "INFO" => measuring = "set" /\ phase # "info"
    BY <2>2, ReadsWhatIsSet DEF SweepInv, OwnCounts
  <2> QED BY <1>2, <1>3, <2>1, <2>3 DEF ProfileDropped
<1> QED BY <1>2, <1>4 DEF CoreRuns, StartRead, ApplyConfig, NoFailover

\* A failover replaces a profile only where rows and the match say so.
LEMMA CoreFailsOverMatches ==
    ASSUME SweepInv, MatchInv, CoreFailsOver
    PROVE  MatchInv'
<1>1. /\ stage \in {"sweep", "match"} /\ failed_over' = TRUE
      /\ config.profile # NoProfile /\ config.profile.rescue # ""
      /\ UNCHANGED << plan, stage, candidates, measuring, rows, profile_config, measured, phase,
                      probed, probe_rows >>
  BY Zenon DEF CoreFailsOver, Failover, sweepVars
<1>2. PICK profile : config' = [config EXCEPT !["profile"] = profile]
  <2>1. Failover
    BY DEF CoreFailsOver
  <2> DEFINE next == FallbackProfiles[config.profile.rescue]
                        [(fallback_index % Len(FallbackProfiles[config.profile.rescue])) + 1]
  <2>2. config' = [config EXCEPT !.profile = next]
    BY <2>1, Zenon DEF Failover
  <2> HIDE DEF next
  <2> QED BY <2>2
<1>3. ConfigShape(config')
  <2>1. ConfigShape(config)
    BY DEF MatchInv
  <2>2. ConfigShape([config EXCEPT !["profile"] = profile])
    BY <2>1, SetField DEF Fields
  <2> QED BY ONLY <1>2, <2>2
<1>4. (ConfigShape(config))' /\ Arguments' /\ MatchOfBest'
  BY <1>1, <1>3 DEF MatchInv, ConfigShape, Arguments, MatchOfBest
<1>5. MeasuresCandidate' /\ InInfo'
  BY <1>1 DEF MatchInv, MeasuresCandidate, SweepOver, Candidate, InInfo
<1>6. RowsOfCandidates'
  BY <1>1 DEF MatchInv, RowsOfCandidates, RowOf
<1>7. Probing'
  BY <1>1 DEF MatchInv, Probing
<1>8. AfterProbe'
  <2>1. probed # NoRow => stage # "sweep"
    BY <1>1 DEF MatchInv, AfterProbe
  <2> QED BY <1>1, <2>1 DEF MatchInv, AfterProbe
<1> QED BY <1>4, <1>5, <1>6, <1>7, <1>8 DEF MatchInv

\* What is demodulated changes nothing that is set.
LEMMA DemodulatesMatches ==
    ASSUME MatchInv, DemodulateInSweep \/ DemodulateInMatch \/ UNCHANGED vars
    PROVE  MatchInv'
<1>1. UNCHANGED matchVars
  <2>1. CASE DemodulateInSweep
    BY <2>1, Zenon DEF DemodulateInSweep, matchVars
  <2>2. CASE DemodulateInMatch
    BY <2>2, Zenon DEF DemodulateInMatch, matchVars, sweepVars
  <2>3. CASE UNCHANGED vars
    BY <2>3 DEF vars, matchVars, coreVars, sweepVars
  <2> QED BY <2>1, <2>2, <2>3
<1> QED BY <1>1, MatchUnchanged

\* set_target and set_radio_profile aim at INFO.
LEMMA InfoIsSet ==
    ASSUME NEW c, ConfigShape(c)
    PROVE  ApplyInfoProfile(c).target = "INFO"
<1>1. "target" \in DOMAIN c
  BY DEF ConfigShape, Fields
<1>2. SetTarget(c, "INFO", "").target = "INFO"
  <2> DEFINE d == [c EXCEPT !["profile"] = NoProfile]
             e == [d EXCEPT !["target"] = "INFO"]
             aim == NormalizeTarget("INFO")
  <2>1. ConfigShape(d)
    BY SetField DEF Fields
  <2>2. ConfigShape(e) /\ e["target"] = "INFO"
    <3> HIDE DEF d
    <3> QED BY <2>1, SetField DEF Fields
  <2>3. [e EXCEPT !["rescue"] = ""]["target"] = e["target"]
    <3> HIDE DEF e
    <3> QED BY <2>2, SetField DEF Fields
  <2>4. NormalizeTarget("INFO") = "INFO"
    BY DEF NormalizeTarget, Aliases
  <2>5. SetTarget(c, "INFO", "") = [e EXCEPT !["rescue"] = ""]
    BY <2>4, Zenon DEF SetTarget
  <2> HIDE DEF e
  <2> QED BY <2>2, <2>3, <2>5
<1> DEFINE p == [profile_config EXCEPT !.team = plan.rx_team]
<1>3. SetRadioProfile(c, p).target = "INFO"
  <2> HIDE DEF p
  <2> QED BY <1>1, ProfileSetsInfo
<1> QED BY <1>2, <1>3, Zenon DEF ApplyInfoProfile

\* INFO is entered while the core demodulates, and read after that.
LEMMA ReadsInfoKept ==
    ASSUME SweepInv, MatchInv, ReadsInfo, [Next]_vars
    PROVE  ReadsInfo'
<1> SUFFICES ASSUME phase' = "info"
             PROVE  config'.target = "INFO" /\ (core' = "read" => pending'.target = "INFO")
  BY DEF ReadsInfo
<1>1. CASE FinalKey
  <2>1. core' # "read" /\ config' = ApplyInfoProfile(config)
    BY <1>1, Zenon DEF FinalKey, Demodulate
  <2>2. ConfigShape(config)
    BY DEF MatchInv
  <2> QED BY <2>1, <2>2, InfoIsSet
<1>2. CASE ~ FinalKey
  <2>1. phase = "info" /\ stage = "match"
    <3>1. phase' = phase \/ phase' \in {"start", "team", "jam"}
      BY <1>2, Zenon DEF Next, vars, Probe, SuggestSweep, SetCandidate, StartSnapshot, EndSnapshot,
         DemodulateInSweep, StartMatch, TeamContext, JamContext, DemodulateInMatch, CoreRuns,
         CoreFailsOver
    <3> QED BY <3>1 DEF MatchInv, InInfo
  <2>2. config.target = "INFO" /\ (core = "read" => pending.target = "INFO")
    BY <2>1 DEF ReadsInfo
  <2>3. DemodulateInMatch \/ CoreRuns \/ CoreFailsOver \/ UNCHANGED << config, core, pending >>
    BY <1>2, <2>1 DEF Next, vars, coreVars, Probe, SuggestSweep, SetCandidate, StartSnapshot,
       EndSnapshot, DemodulateInSweep, StartMatch, TeamContext, JamContext
  <2>4. CASE DemodulateInMatch
    BY <2>2, <2>4 DEF DemodulateInMatch, Demodulate
  <2>5. CASE CoreRuns
    <3>1. CASE StartRead
      BY <2>2, <3>1 DEF StartRead
    <3>2. CASE FinishRead
      <4>1. PICK seen \in Mixtures(pending, config) : config' = ProfileDropped(seen)
        BY <3>2 DEF FinishRead
      <4>2. core' # "read" /\ core = "read"
        BY <3>2 DEF FinishRead
      <4> QED BY <2>2, <4>1, <4>2, ReadsWhatIsSet DEF ProfileDropped
    <3>3. CASE ApplyConfig \/ NoFailover
      BY <2>2, <3>3 DEF ApplyConfig, NoFailover
    <3> QED BY <2>5, <3>1, <3>2, <3>3 DEF CoreRuns
  <2>6. CASE CoreFailsOver
    <3>1. Failover
      BY <2>6 DEF CoreFailsOver
    <3> DEFINE next == FallbackProfiles[config.profile.rescue]
                          [(fallback_index % Len(FallbackProfiles[config.profile.rescue])) + 1]
    <3>2. config' = [config EXCEPT !.profile = next] /\ core' = "config"
      BY <3>1, Zenon DEF Failover
    <3> HIDE DEF next
    <3>3. "target" \in DOMAIN config
      BY DEF MatchInv, ConfigShape, Fields
    <3> QED BY <2>2, <3>2, <3>3, OtherField
  <2> QED BY <2>2, <2>3, <2>4, <2>5, <2>6
<1> QED BY <1>1, <1>2

\* The inductive invariant from the probe to the match.
THEOREM MatchSafe == Spec => [](MatchInv /\ ReadsInfo)
<1>1. SweepInv /\ MatchInv /\ ReadsInfo /\ [Next]_vars => MatchInv' /\ ReadsInfo'
  BY ProbeMatches, SuggestSweepMatches, SetCandidateMatches, StartSnapshotMatches,
     EndSnapshotMatches, StartMatchMatches, JamContextMatches, FinalKeyMatches,
     DemodulatesMatches, CoreRunsMatches, CoreFailsOverMatches, ReadsInfoKept DEF Next
<1>2. Init => MatchInv /\ ReadsInfo
  BY InitMatches DEF Init, ReadsInfo
<1> QED BY SweepSafe, <1>1, <1>2, PTL DEF Spec

\* In INFO the match receives as the best row was measured: the profile's way
\* over either file loses less than a kilohertz and nothing set before or
\* between survives it.
THEOREM BestReaches == Spec => []BestProfileReachesMatch
<1>1. SweepInv /\ MatchInv => BestProfileReachesMatch
  <2> SUFFICES ASSUME SweepInv, MatchInv, phase = "info", core = "demod", key = Key(config),
                      ~ failed_over, ~ measured.failed_over
               PROVE  /\ Near(TeamSigned(radio.lo, plan.rx_team),
                              TeamSigned(measured.radio.lo, measured.team))
                      /\ Near(radio.rf_bw, measured.radio.rf_bw)
                      /\ radio.gain = measured.radio.gain
                      /\ Filter(config) = measured.filter
    BY DEF BestProfileReachesMatch
  <2>1. stage = "match" /\ CalledFor(config, profile_config, plan.rx_team)
    BY DEF MatchInv, InInfo
  <2>2. PICK i \in 1 .. Len(candidates) :
            /\ profile_config = Loaded(candidates[i], measured.team)
            /\ measured.team = plan.team
            /\ measured.radio = ProfileTuned(candidates[i], plan.team)
            /\ measured.filter = FilterOrDefault(candidates[i].rescue, candidates[i].filter)
    BY <2>1 DEF MatchInv, MatchOfBest
  <2> DEFINE c == candidates[i]
             p == profile_config
  <2>3. c \in GoodCandidates
    <3>1. candidates \in Seq(GoodCandidates)
      BY <2>1 DEF MatchInv, Arguments
    <3> HIDE DEF GoodCandidates
    <3> QED BY <3>1
  <2>4. plan.team \in Teams /\ plan.rx_team \in Teams
    BY PlansAssumption DEF MatchInv, Arguments, Teams
  <2>5. c.rescue \in Rescues /\ c.rf_bw \in Bandwidths /\ c.offset \in Int
    BY <2>3 DEF GoodCandidates
  <2>6. /\ p.rescue = c.rescue /\ p.filter = c.filter /\ p.gain = c.gain
        /\ p.rf_bw = ToKHz(c.rf_bw) * KHz /\ p.offset = ToKHz(c.offset) * KHz
    BY <2>2 DEF Loaded
  <2> HIDE DEF c, p
  <2>7. /\ ToKHz(c.rf_bw) \in Nat \ {0} /\ ToKHz(c.offset) \in Int
        /\ Near(p.offset, c.offset) /\ Near(p.rf_bw, c.rf_bw)
        /\ c.rf_bw \in Int
    BY <2>5, <2>6, WholeKHz DEF Bandwidths
  <2>8. p.offset \in Int /\ p.rf_bw # NoBw
    BY <2>6, <2>7, UnitsAssumption DEF NoBw
  <2>9. /\ radio = ProfileTuned(p, plan.rx_team)
        /\ Filter(config) = FilterOrDefault(p.rescue, p.filter)
    <3>1. radio = Tuned(Effective(config))
      BY NotNoKey DEF SweepInv, RadioAsKey
    <3> QED BY <2>1, <2>4, <2>5, <2>6, <2>8, <3>1, CalledForTunes DEF p
  <2>10. \A x \in Int, team \in Teams : TeamSigned(TeamSigned(x, team), team) = x
    BY DEF TeamSigned
  <2>11. Near(TeamSigned(radio.lo, plan.rx_team), TeamSigned(measured.radio.lo, measured.team))
    <3>1. radio.lo = TeamSigned(p.offset, plan.rx_team)
      BY <2>9 DEF ProfileTuned
    <3>2. measured.radio.lo = TeamSigned(c.offset, plan.team)
      BY <2>2 DEF ProfileTuned, c
    <3> QED BY <2>2, <2>4, <2>5, <2>7, <2>8, <2>10, <3>1, <3>2
  <2>12. radio.rf_bw = p.rf_bw /\ measured.radio.rf_bw = c.rf_bw
    BY <2>2, <2>9 DEF ProfileTuned, c
  <2>13. radio.gain = measured.radio.gain
    <3>1. RadioProfile(p).gain = RadioProfile(c).gain
      BY <2>6 DEF RadioProfile
    <3> QED BY <2>2, <2>9, <3>1 DEF ProfileTuned, c
  <2>14. Filter(config) = measured.filter
    BY <2>2, <2>6, <2>9 DEF c
  <2> QED BY <2>7, <2>11, <2>12, <2>13, <2>14
<1> QED BY <1>1, SweepSafe, MatchSafe, PTL

\* The carrier is the same for both teams.
LEMMA CarrierIsSame ==
    ASSUME NEW x \in Int, x <= 0, x >= 0, NEW team PROVE TeamSigned(x, team) = x
BY DEF TeamSigned

\* The suggested sweep accepts its arguments and, when it is over, has
\* measured the radio settings that scored best.
THEOREM SuggestionCovers == Spec => []SuggestionCoversBest
<1>1. SweepInv /\ MatchInv => SuggestionCoversBest
  <2> SUFFICES ASSUME SweepInv, MatchInv, probed # NoRow
               PROVE  /\ stage # "failed"
                      /\ (stage = "sweep" /\ SweepOver /\ (plan.team = "RED" \/ probed.tuned.lo = 0)) =>
                           \E tried \in ToSet(rows) :
                              /\ tried.row.gain = probed.tuned.gain
                              /\ Near(tried.radio.lo, probed.tuned.lo)
                              /\ Near(tried.radio.rf_bw, probed.tuned.rf_bw)
    BY Zenon DEF SuggestionCoversBest
  <2>1. stage # "failed" /\ ProbeRowRight(probed)
    BY DEF MatchInv, AfterProbe
  <2>2. ASSUME stage = "sweep", SweepOver, plan.team = "RED" \/ probed.tuned.lo = 0
        PROVE  \E tried \in ToSet(rows) :
                  /\ tried.row.gain = probed.tuned.gain
                  /\ Near(tried.radio.lo, probed.tuned.lo)
                  /\ Near(tried.radio.rf_bw, probed.tuned.rf_bw)
    <3>1. PICK i \in 1 .. Len(candidates) : AsSuggested(candidates[i], probed)
      BY DEF MatchInv, AfterProbe
    <3>2. i \in 1 .. Len(rows)
      BY <2>2 DEF SweepOver
    <3>3. RowOf(rows[i], candidates[i]) /\ ~ rows[i].failed_over
      BY <2>2, <3>2 DEF MatchInv, RowsOfCandidates, AfterProbe
    <3> DEFINE c == candidates[i]
               r == rows[i]
    <3>4. /\ r.row = Row(c) /\ r.radio = ProfileTuned(c, plan.team)
          /\ c.gain = probed.tuned.gain /\ c.rf_bw = ToKHz(probed.tuned.rf_bw) * KHz
          /\ c.offset = ToKHz(probed.tuned.lo) * KHz
      BY <3>1, <3>3 DEF RowOf, AsSuggested
    <3> HIDE DEF c
    <3>5. r.row.gain = probed.tuned.gain
      BY <3>4 DEF Row
    <3>6. probed.tuned.lo \in Int /\ probed.tuned.rf_bw \in Bandwidths
      BY <2>1 DEF ProbeRowRight, ProbeRows
    <3>7. Near(c.offset, probed.tuned.lo) /\ Near(c.rf_bw, probed.tuned.rf_bw) /\ c.offset \in Int
      BY <3>4, <3>6, WholeKHz, UnitsAssumption DEF Bandwidths
    <3>8. r.radio.lo = TeamSigned(c.offset, plan.team) /\ r.radio.rf_bw = c.rf_bw
      BY <3>4 DEF ProfileTuned
    <3>9. TeamSigned(c.offset, plan.team) = c.offset
      <4>1. CASE plan.team = "RED"
        BY <4>1 DEF TeamSigned
      <4>2. CASE probed.tuned.lo = 0
        <5>1. KHz \in Nat \ {0}
          BY UnitsAssumption
        <5>2. ToKHz(0) = 0
          BY <5>1 DEF ToKHz
        <5>3. c.offset = 0
          BY <3>4, <4>2, <5>1, <5>2
        <5>4. c.offset <= 0 /\ c.offset >= 0
          BY <5>3
        <5> QED BY <3>7, <5>4, CarrierIsSame
      <4> QED BY <2>2, <4>1, <4>2
    <3>10. r \in ToSet(rows)
      BY <3>2 DEF SweepInv, GoodRows, ToSet
    <3> QED BY <3>5, <3>7, <3>8, <3>9, <3>10
  <2> QED BY <2>1, <2>2
<1> QED BY <1>1, SweepSafe, MatchSafe, PTL
=============================================================================

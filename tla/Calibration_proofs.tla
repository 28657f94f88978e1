--------------------------- MODULE Calibration_proofs ---------------------------
(***************************************************************************)
(* The calibration keeps its books right, for tables, dwell times and      *)
(* second rounds of any size.                                              *)
(***************************************************************************)
EXTENDS Calibration, FiniteSetTheorems, TLAPS

(***************************************************************************)
(* Rankings: what is counted is a permutation of the results               *)
(***************************************************************************)
Scored(results) == \A i \in DOMAIN results : results[i].score \in Int

\* The results that come no later than i.
Ahead(results, i) ==
    {j \in DOMAIN results : \/ results[j].score > results[i].score
                            \/ results[j].score = results[i].score /\ j <= i}

\* A rank is a place in the sequence.
LEMMA RankInRange ==
    ASSUME NEW S, NEW results \in Seq(S), NEW i \in DOMAIN results
    PROVE  /\ Rank(results, i) \in 1 .. Len(results)
           /\ IsFiniteSet(Ahead(results, i)) /\ Rank(results, i) = Cardinality(Ahead(results, i))
<1>1. IsFiniteSet(DOMAIN results) /\ Cardinality(DOMAIN results) = Len(results)
  BY FS_Interval
<1>2. /\ IsFiniteSet(Ahead(results, i)) /\ Cardinality(Ahead(results, i)) <= Len(results)
  BY <1>1, FS_Subset DEF Ahead
<1>3. Rank(results, i) = Cardinality(Ahead(results, i))
  BY DEF Rank, Ahead
<1>4. i \in Ahead(results, i)
  BY DEF Ahead
<1>5. Cardinality(Ahead(results, i)) \in Nat /\ Cardinality(Ahead(results, i)) # 0
  BY <1>2, <1>4, FS_CardinalityType, FS_EmptySet
<1> QED BY <1>2, <1>3, <1>5

\* The better of two results has the smaller rank.
LEMMA RankOrders ==
    ASSUME NEW S, NEW results \in Seq(S), Scored(results),
           NEW i \in DOMAIN results, NEW j \in DOMAIN results, i # j,
           results[j].score > results[i].score \/ (results[j].score = results[i].score /\ j <= i)
    PROVE  Rank(results, j) < Rank(results, i)
<1>1. Ahead(results, j) \subseteq Ahead(results, i)
  BY DEF Ahead, Scored
<1>2. i \in Ahead(results, i) /\ i \notin Ahead(results, j)
  BY DEF Ahead, Scored
<1>3. /\ IsFiniteSet(Ahead(results, i))
      /\ Rank(results, i) = Cardinality(Ahead(results, i))
      /\ Rank(results, j) = Cardinality(Ahead(results, j))
      /\ Rank(results, i) \in Int /\ Rank(results, j) \in Int
  BY RankInRange
<1> QED BY <1>1, <1>2, <1>3, FS_Subset

\* Different results have different ranks, and every rank is taken.
LEMMA RankBijective ==
    ASSUME NEW S, NEW results \in Seq(S), Scored(results)
    PROVE  /\ \A i, j \in DOMAIN results : Rank(results, i) = Rank(results, j) => i = j
           /\ \A r \in DOMAIN results : \E i \in DOMAIN results : Rank(results, i) = r
<1>1. \A i, j \in DOMAIN results : Rank(results, i) = Rank(results, j) => i = j
  <2> SUFFICES ASSUME NEW i \in DOMAIN results, NEW j \in DOMAIN results, i # j
               PROVE  Rank(results, i) # Rank(results, j)
    OBVIOUS
  <2>1. /\ Rank(results, i) \in Int /\ Rank(results, j) \in Int
        /\ results[i].score \in Int /\ results[j].score \in Int
    BY RankInRange DEF Scored
  <2>2. Rank(results, i) < Rank(results, j) \/ Rank(results, j) < Rank(results, i)
    BY <2>1, RankOrders
  <2> QED BY <2>1, <2>2
<1>2. ASSUME NEW r \in DOMAIN results PROVE \E i \in DOMAIN results : Rank(results, i) = r
  <2> DEFINE D == 1 .. Len(results)
             f == [i \in D |-> Rank(results, i)]
  <2>1. DOMAIN results = D /\ IsFiniteSet(D)
    BY FS_Interval
  <2>2. f \in Injection(D, D)
    BY <1>1, <2>1, RankInRange DEF Injection, IsInjective
  <2>3. f \in Surjection(D, D)
    BY <2>1, <2>2, FS_Injection
  <2> QED BY <2>1, <2>3 DEF Surjection
<1> QED BY <1>1, <1>2

\* A ranking is a permutation by falling score.
LEMMA RankedSorts ==
    ASSUME NEW S, NEW results \in Seq(S), Scored(results)
    PROVE  /\ Ranked(results) \in Seq(S) /\ Len(Ranked(results)) = Len(results)
           /\ \A r \in DOMAIN results : \E i \in DOMAIN results :
                 Rank(results, i) = r /\ Ranked(results)[r] = results[i]
           /\ \A i \in DOMAIN results : /\ Rank(results, i) \in DOMAIN results
                                        /\ Ranked(results)[Rank(results, i)] = results[i]
<1> DEFINE place(r) == CHOOSE i \in DOMAIN results : Rank(results, i) = r
<1>1. \A r \in DOMAIN results : place(r) \in DOMAIN results /\ Rank(results, place(r)) = r
  BY RankBijective
<1>2. Ranked(results) = [r \in 1 .. Len(results) |-> results[place(r)]]
  BY DEF Ranked
<1>3. \A i \in DOMAIN results : /\ Rank(results, i) \in DOMAIN results
                                /\ place(Rank(results, i)) = i
  BY <1>1, RankInRange, RankBijective
<1> HIDE DEF place
<1>4. Ranked(results) \in Seq(S) /\ Len(Ranked(results)) = Len(results)
  BY <1>1, <1>2
<1>5. \A r \in DOMAIN results : Ranked(results)[r] = results[place(r)]
  BY ONLY <1>2, results \in Seq(S)
<1>6. ASSUME NEW r \in DOMAIN results
      PROVE  \E i \in DOMAIN results : Rank(results, i) = r /\ Ranked(results)[r] = results[i]
  BY ONLY <1>1, <1>5, <1>6
<1>7. ASSUME NEW i \in DOMAIN results
      PROVE  /\ Rank(results, i) \in DOMAIN results
             /\ Ranked(results)[Rank(results, i)] = results[i]
  BY ONLY <1>3, <1>5, <1>7
<1> QED BY ONLY <1>4, <1>6, <1>7

(***************************************************************************)
(* Types, and what is always true of the calibration's record              *)
(***************************************************************************)
AnyProfile == Profiles \cup {NoProfile}
HeardSets  == SUBSET (Stages \X Nat \X AnyProfile)
Results    == [profile : Profiles, score : Int, heard : HeardSets]
CalRecords == [active : BOOLEAN, stage : Stages, queue : Seq(Profiles), index : Nat,
               results : Seq(Results), seed_results : Seq(Results), elapsed : Nat]

DistinctProfiles(results) ==
    \A i, j \in DOMAIN results : results[i].profile = results[j].profile => i = j

Distinct(queue) == \A i, j \in DOMAIN queue : queue[i] = queue[j] => i = j

LEMMA ResultFields ==
    ASSUME NEW results \in Seq(Results)
    PROVE  /\ DOMAIN results = 1 .. Len(results) /\ Len(results) \in Nat /\ Scored(results)
           /\ \A i \in DOMAIN results : results[i].profile \in Profiles
<1>1. \A i \in 1 .. Len(results) : results[i] \in Results
  OBVIOUS
<1>2. \A r \in Results : r.profile \in Profiles /\ r.score \in Int
  BY DEF Results
<1> QED BY <1>1, <1>2 DEF Scored

\* The second round is made of the best profiles of the first, each once.
LEMMA BestOfResults ==
    ASSUME NEW results \in Seq(Results), results # << >>, DistinctProfiles(results)
    PROVE  /\ BestOf(results) \in Seq(Profiles) /\ BestOf(results) # << >>
           /\ Distinct(BestOf(results))
           /\ \A i \in DOMAIN results :
                 (\E k \in DOMAIN BestOf(results) : BestOf(results)[k] = results[i].profile)
                    <=> Rank(results, i) <= TopK
<1> DEFINE n == IF Len(results) < TopK THEN Len(results) ELSE TopK
           D == 1 .. Len(results)
           best == Ranked(results)
<1>1. n \in D /\ D = DOMAIN results /\ \A k \in D : k <= n <=> k <= TopK
  BY SizeAssumption
<1>2. /\ \A r \in D : \E i \in D : Rank(results, i) = r /\ best[r] = results[i]
      /\ \A i \in D : Rank(results, i) \in D /\ best[Rank(results, i)] = results[i]
  <2>1. Scored(results)
    BY ResultFields
  <2>2. /\ \A r \in DOMAIN results : \E i \in DOMAIN results :
              Rank(results, i) = r /\ Ranked(results)[r] = results[i]
        /\ \A i \in DOMAIN results : /\ Rank(results, i) \in DOMAIN results
                                     /\ Ranked(results)[Rank(results, i)] = results[i]
    BY <2>1, RankedSorts
  <2> QED BY ONLY <1>1, <2>2
<1>3. BestOf(results) = [r \in 1 .. n |-> best[r].profile]
  BY DEF BestOf
<1>4. 1 .. n \subseteq D /\ n \in Nat /\ n > 0 /\ \A k \in D : k \in Nat /\ k >= 1
  BY <1>1
<1>5. \A i \in D : results[i].profile \in Profiles
  BY <1>1, ResultFields
<1> HIDE DEF n, D, best
<1>6. \A r \in 1 .. n : best[r].profile \in Profiles
  BY <1>2, <1>4, <1>5
<1>7. /\ BestOf(results) \in Seq(Profiles) /\ BestOf(results) # << >>
      /\ DOMAIN BestOf(results) = 1 .. n
  BY <1>3, <1>4, <1>6
<1>8. ASSUME NEW j \in 1 .. n, NEW i \in D, best[j].profile = results[i].profile
      PROVE  Rank(results, i) = j
  <2>1. PICK a \in D : Rank(results, a) = j /\ best[j] = results[a]
    BY <1>2, <1>4
  <2>2. a = i
    BY <1>1, <1>8, <2>1 DEF DistinctProfiles
  <2> QED BY <2>1, <2>2
<1>9. Distinct(BestOf(results))
  <2> SUFFICES ASSUME NEW j \in 1 .. n, NEW k \in 1 .. n, best[j].profile = best[k].profile
               PROVE  j = k
    BY <1>3, <1>7 DEF Distinct
  <2>1. PICK a \in D : best[j] = results[a]
    BY <1>2, <1>4
  <2> QED BY <1>8, <2>1
<1>10. ASSUME NEW i \in D
       PROVE  (\E k \in 1 .. n : BestOf(results)[k] = results[i].profile)
                 <=> Rank(results, i) <= TopK
  <2>1. ASSUME Rank(results, i) <= TopK
        PROVE  \E k \in 1 .. n : BestOf(results)[k] = results[i].profile
    <3>1. Rank(results, i) \in 1 .. n /\ best[Rank(results, i)] = results[i]
      <4>1. Rank(results, i) \in D /\ Rank(results, i) <= n
        BY <1>1, <1>2, <2>1
      <4> QED BY <1>2, <1>4, <4>1
    <3> QED BY <1>3, <3>1
  <2>2. ASSUME NEW k \in 1 .. n, BestOf(results)[k] = results[i].profile
        PROVE  Rank(results, i) <= TopK
    <3>1. Rank(results, i) = k
      BY <1>3, <1>8, <2>2
    <3> QED BY <1>1, <1>4, <3>1
  <2> QED BY <2>1, <2>2
<1> QED BY <1>1, <1>7, <1>9, <1>10

\* The tables are sequences of different labels, and so are the queues.
LEMMA QueueSound ==
    ASSUME NEW full \in BOOLEAN
    PROVE  /\ BuildQueue(full) \in Seq(Profiles) /\ BuildQueue(full) # << >>
           /\ Distinct(BuildQueue(full))
<1>1. ASSUME NEW rsc \in {"L2", "L3"}, NEW labels \in Tables
      PROVE  /\ Trials(rsc, labels) \in Seq(Profiles) /\ Trials(rsc, labels) # << >>
             /\ Len(Trials(rsc, labels)) = Len(labels)
             /\ \A i \in DOMAIN labels : Trials(rsc, labels)[i].rescue = rsc
             /\ \A i, j \in DOMAIN labels : Trials(rsc, labels)[i] = Trials(rsc, labels)[j] => i = j
  <2>1. /\ labels \in Seq(Labels) /\ labels # << >>
        /\ \A i, j \in DOMAIN labels : labels[i] = labels[j] => i = j
    BY TableAssumption
  <2>2. Trials(rsc, labels) = [i \in 1 .. Len(labels) |-> Profile(rsc, labels[i])]
    BY <2>1 DEF Trials
  <2>3. \A i \in 1 .. Len(labels) : Profile(rsc, labels[i]) \in Profiles
    BY <2>1 DEF Profile, Profiles
  <2>4. \A i, j \in 1 .. Len(labels) :
           /\ Profile(rsc, labels[i]).rescue = rsc
           /\ Profile(rsc, labels[i]) = Profile(rsc, labels[j]) => i = j
    BY <2>1 DEF Profile
  <2> HIDE DEF Profiles
  <2> QED BY <2>1, <2>2, <2>3, <2>4
<1> DEFINE l2 == Trials("L2", IF full THEN L2Full ELSE L2Quick)
           l3 == Trials("L3", IF full THEN L3Full ELSE L3Quick)
<1>2. /\ l2 \in Seq(Profiles) /\ l2 # << >> /\ Distinct(l2)
      /\ \A i \in DOMAIN l2 : l2[i].rescue = "L2"
      /\ l3 \in Seq(Profiles) /\ l3 # << >> /\ Distinct(l3)
      /\ \A i \in DOMAIN l3 : l3[i].rescue = "L3"
  <2>1. /\ (IF full THEN L2Full ELSE L2Quick) \in Tables
        /\ (IF full THEN L3Full ELSE L3Quick) \in Tables
    BY DEF Tables
  <2> QED BY <1>1, <2>1, TableAssumption DEF Distinct
<1> HIDE DEF l2, l3
<1>3. BuildQueue(full) = l2 \/ BuildQueue(full) = l3 \/ BuildQueue(full) = l2 \o l3
  <2>1. BuildQueue(full) = (IF rescue # "L3" THEN l2 ELSE << >>)
                           \o (IF rescue # "L2" THEN l3 ELSE << >>)
    BY DEF BuildQueue, l2, l3
  <2>2. CASE rescue = "L3"
    BY <1>2, <2>1, <2>2
  <2>3. CASE rescue = "L2"
    BY <1>2, <2>1, <2>3
  <2>4. CASE rescue \notin {"L2", "L3"}
    BY <2>1, <2>4
  <2> QED BY <2>2, <2>3, <2>4
<1>4. l2 \o l3 \in Seq(Profiles) /\ l2 \o l3 # << >>
  BY <1>2
<1>5. Distinct(l2 \o l3)
  <2> SUFFICES ASSUME NEW i \in 1 .. Len(l2) + Len(l3), NEW j \in 1 .. Len(l2) + Len(l3),
                      (l2 \o l3)[i] = (l2 \o l3)[j]
               PROVE  i = j
    BY <1>2, <1>4 DEF Distinct
  <2>1. \A k \in 1 .. Len(l2) + Len(l3) :
           (l2 \o l3)[k] = IF k <= Len(l2) THEN l2[k] ELSE l3[k - Len(l2)]
    BY <1>2
  <2>2. CASE i <= Len(l2) /\ j <= Len(l2)
    BY <1>2, <2>1, <2>2 DEF Distinct
  <2>3. CASE i > Len(l2) /\ j > Len(l2)
    <3>1. i - Len(l2) \in DOMAIN l3 /\ j - Len(l2) \in DOMAIN l3
      BY <1>2, <2>3
    <3>2. i - Len(l2) = j - Len(l2)
      BY <1>2, <2>1, <2>3, <3>1 DEF Distinct
    <3> QED BY <1>2, <3>2
  <2>4. CASE (i <= Len(l2)) # (j <= Len(l2))
    BY <1>2, <2>1, <2>4
  <2> QED BY <1>2, <2>2, <2>3, <2>4
<1> QED BY <1>2, <1>3, <1>4, <1>5

(***************************************************************************)
(* The calibration: what is true before and after the step to a new trial  *)
(***************************************************************************)
\* Of any record, running or not.
Sound(c) ==
    /\ c \in CalRecords
    /\ DistinctProfiles(c.results) /\ DistinctProfiles(c.seed_results) /\ Distinct(c.queue)
    /\ c.stage = "validate" => c.queue = BestOf(c.seed_results)

\* Each result belongs to the trial at its place in the queue.
Follows(c) ==
    \A i \in DOMAIN c.results :
       /\ i \in DOMAIN c.queue
       /\ c.results[i].profile = c.queue[i]
       /\ c.results[i].heard = {<< c.stage, i, c.queue[i] >>}

\* A calibration that has n results; one that was started off INFO has none
\* and gets no second round.
Running(c, n) ==
    /\ c.active /\ c.stage \in {"seed", "validate"} /\ Follows(c)
    /\ c.index \in 0 .. Len(c.queue)
    /\ IF tune.target = "INFO" THEN Len(c.results) = n ELSE c.results = << >> /\ c.stage = "seed"

\* A trial is going on.
Trying(c, p) ==
    /\ Running(c, c.index - 1) /\ c.index > 0
    /\ tune.target = "INFO" => p = c.queue[c.index]

\* The record before and after: only what is named changes.
LEMMA AtNextTrial ==
    ASSUME NEW c \in CalRecords, NEW d, d = [c EXCEPT !.index = @ + 1, !.elapsed = 0]
    PROVE  /\ d \in CalRecords /\ d.index = c.index + 1
           /\ d.active = c.active /\ d.stage = c.stage /\ d.queue = c.queue
           /\ d.results = c.results /\ d.seed_results = c.seed_results
<1> DEFINE a == [c EXCEPT !.index = @ + 1]
           b == [a EXCEPT !.elapsed = 0]
<1>1. /\ a \in CalRecords /\ a.index = c.index + 1
      /\ a.active = c.active /\ a.stage = c.stage /\ a.queue = c.queue
      /\ a.results = c.results /\ a.seed_results = c.seed_results
  BY DEF CalRecords
<1> HIDE DEF a
<1>2. /\ b \in CalRecords /\ b.index = a.index
      /\ b.active = a.active /\ b.stage = a.stage /\ b.queue = a.queue
      /\ b.results = a.results /\ b.seed_results = a.seed_results
  BY <1>1 DEF CalRecords
<1>3. [c EXCEPT !.index = @ + 1, !.elapsed = 0] = b
  BY DEF CalRecords, a
<1> QED BY <1>1, <1>2, <1>3

LEMMA TryTries ==
    ASSUME NEW c, Sound(c), Running(c, c.index), c.index < Len(c.queue), Try(c), tune' = tune
    PROVE  /\ Sound(cal') /\ Trying(cal, cal_profile)' /\ cal_profile' \in Profiles
           /\ rescue' \in Rescues /\ cfg_key' = << >>
<1>1. /\ cal' \in CalRecords /\ cal'.index = c.index + 1
      /\ cal'.active = c.active /\ cal'.stage = c.stage /\ cal'.queue = c.queue
      /\ cal'.results = c.results /\ cal'.seed_results = c.seed_results
  <2>1. c \in CalRecords /\ cal' = [c EXCEPT !.index = @ + 1, !.elapsed = 0]
    BY DEF Try, Sound
  <2> QED BY ONLY <2>1, AtNextTrial, Zenon
<1>2. c.queue[c.index + 1] \in Profiles /\ c.index \in Nat /\ c.index + 1 \in 1 .. Len(c.queue)
  BY DEF Running, Sound, CalRecords
<1>3. rescue' \in Rescues /\ cfg_key' = << >> /\ cal_profile' = c.queue[c.index + 1]
  BY <1>2 DEF Try, MarkDirty, Rescues, Profiles
<1>4. Sound(cal')
  BY <1>1 DEF Sound
<1>5. Follows(cal)'
  BY <1>1 DEF Running, Follows
<1> QED BY <1>1, <1>2, <1>3, <1>4, <1>5 DEF Running, Trying

LEMMA AtValidation ==
    ASSUME NEW c \in CalRecords, BestOf(c.results) \in Seq(Profiles)
    PROVE  /\ Validation(c) \in CalRecords /\ Validation(c).index = 0
           /\ Validation(c).active = c.active /\ Validation(c).stage = "validate"
           /\ Validation(c).queue = BestOf(c.results) /\ Validation(c).results = << >>
           /\ Validation(c).seed_results = c.results
<1> DEFINE queue == BestOf(c.results)
           a == [c EXCEPT !.seed_results = c.results]
           b == [a EXCEPT !.results = << >>]
           e == [b EXCEPT !.queue = queue]
           f == [e EXCEPT !.index = 0]
           g == [f EXCEPT !.stage = "validate"]
<1>1. c.results \in Seq(Results) /\ << >> \in Seq(Results)
  BY DEF CalRecords
<1>2. a \in CalRecords /\ a.active = c.active /\ a.seed_results = c.results
  BY <1>1 DEF CalRecords
<1>3. Validation(c) = g
  BY DEF Validation
<1> HIDE DEF a, queue
<1>4. /\ b \in CalRecords /\ b.active = a.active
      /\ b.seed_results = a.seed_results /\ b.results = << >>
  BY <1>1, <1>2 DEF CalRecords
<1> HIDE DEF b
<1>5. queue \in Seq(Profiles)
  BY DEF queue
<1>6. /\ e \in CalRecords /\ e.active = b.active /\ e.queue = queue
      /\ e.seed_results = b.seed_results /\ e.results = b.results
  BY <1>4, <1>5 DEF CalRecords
<1> HIDE DEF e
<1>7. /\ f \in CalRecords /\ f.active = e.active /\ f.queue = e.queue /\ f.index = 0
      /\ f.seed_results = e.seed_results /\ f.results = e.results
  BY <1>6 DEF CalRecords
<1> HIDE DEF f
<1>8. /\ g \in CalRecords /\ g.active = f.active /\ g.queue = f.queue /\ g.index = f.index
      /\ g.seed_results = f.seed_results /\ g.results = f.results /\ g.stage = "validate"
  BY <1>7 DEF CalRecords, Stages
<1> QED BY <1>2, <1>3, <1>4, <1>6, <1>7, <1>8 DEF queue

LEMMA ValidationTries ==
    ASSUME NEW c, Sound(c), Running(c, c.index), c.stage = "seed", c.results # << >>
    PROVE  /\ Sound(Validation(c)) /\ Running(Validation(c), 0)
           /\ Validation(c).index = 0 /\ Len(Validation(c).queue) > 0
<1> DEFINE v == Validation(c)
<1>1. c \in CalRecords /\ c.results \in Seq(Results) /\ DistinctProfiles(c.results)
  BY DEF Sound, CalRecords
<1>2. /\ BestOf(c.results) \in Seq(Profiles) /\ BestOf(c.results) # << >>
      /\ Distinct(BestOf(c.results))
  BY <1>1, BestOfResults
<1>3. /\ v \in CalRecords /\ v.index = 0 /\ v.active = c.active /\ v.stage = "validate"
      /\ v.queue = BestOf(c.results) /\ v.results = << >> /\ v.seed_results = c.results
  BY ONLY <1>1, <1>2, AtValidation
<1> HIDE DEF v
<1>4. Sound(v)
  BY <1>1, <1>2, <1>3 DEF Sound, DistinctProfiles
<1>5. Len(v.queue) > 0
  BY <1>2, <1>3
<1>6. tune.target = "INFO"
  BY DEF Running
<1>7. Running(v, 0)
  BY <1>3, <1>5, <1>6 DEF Running, Follows
<1> QED BY <1>3, <1>4, <1>5, <1>7 DEF v

LEMMA StartNextTriesOrEnds ==
    ASSUME NEW c, Sound(c), Running(c, c.index), StartNext(c), tune' = tune, rescue \in Rescues
    PROVE  /\ Sound(cal') /\ (cal'.active => Trying(cal, cal_profile)')
           /\ cal_profile' \in AnyProfile /\ rescue' \in Rescues /\ cfg_key' = << >>
<1>1. CASE c.index < Len(c.queue)
  BY <1>1, TryTries DEF StartNext, AnyProfile
<1>2. CASE c.index >= Len(c.queue) /\ c.stage = "seed" /\ c.results # << >>
  <2>1. c.index \in Nat /\ Len(c.queue) \in Nat
    BY DEF Sound, CalRecords
  <2>2. Try(Validation(c))
    BY <1>2, <2>1 DEF StartNext
  <2> QED BY <1>2, <2>2, ValidationTries, TryTries DEF AnyProfile
<1>3. CASE c.index >= Len(c.queue) /\ ~ (c.stage = "seed" /\ c.results # << >>)
  <2> DEFINE d == [c EXCEPT !.index = @ + 1]
  <2>1. c.index \in Nat /\ Len(c.queue) \in Nat /\ c \in CalRecords
    BY DEF Sound, CalRecords
  <2>2. Finish(d)
    BY <1>3, <2>1 DEF StartNext
  <2>3. /\ d \in CalRecords /\ d.queue = c.queue /\ d.stage = c.stage
        /\ d.results = c.results /\ d.seed_results = c.seed_results
    BY <2>1 DEF CalRecords
  <2> HIDE DEF d
  <2>4. /\ cal' \in CalRecords /\ cal'.active = FALSE /\ cal'.stage = "idle" /\ cal'.queue = c.queue
        /\ cal'.results = c.results /\ cal'.seed_results = c.seed_results
    BY <2>2, <2>3 DEF Finish, CalRecords, Stages
  <2>5. Sound(cal')
    BY <2>4 DEF Sound
  <2>6. ASSUME NEW r \in {c.results, c.seed_results}, r # << >>
        PROVE  Ranked(r)[1].profile \in Profiles
    <3>1. r \in Seq(Results) /\ 1 \in DOMAIN r
      BY <2>1, <2>6 DEF CalRecords
    <3> QED BY <3>1, ResultFields, RankedSorts
  <2>7. cal_profile' \in AnyProfile
    BY <2>2, <2>3, <2>6 DEF Finish, AnyProfile
  <2> QED BY <2>2, <2>4, <2>5, <2>7 DEF Finish, MarkDirty
<1>4. c.index \in Nat /\ Len(c.queue) \in Nat
  BY DEF Sound, CalRecords
<1> QED BY <1>1, <1>2, <1>3, <1>4

(***************************************************************************)
(* The inductive invariant                                                 *)
(***************************************************************************)
Params == [team : Teams, target : Targets, mode : Rescues, profile : AnyProfile,
           offset : Nat, gain : Nat]
Stats  == [score : Int, heard : HeardSets, device : Params]

Books == /\ Sound(cal)
         /\ cal.active => Trying(cal, cal_profile)

\* What the device is set to, and that only the running trial was counted since.
Radio ==
    /\ cfg_key = << >> \/ cfg_key = << stats.device >>
    /\ at \in {"receive", "calibrate"} =>
          /\ cfg_key # << >>
          /\ IF tune.target = "INFO" THEN stats.device.profile = cal_profile
             ELSE cal_profile = NoProfile
    /\ cal.active /\ tune.target = "INFO" /\ cfg_key # << >> =>
          LET own == {<< cal.stage, cal.index, cal_profile >>} IN
          stats.heard \subseteq own /\ (at = "calibrate" => stats.heard = own)

CInv == TypeOK /\ stats \in Stats /\ Books /\ Radio

LEMMA DirtyRadio ==
    ASSUME cfg_key' = << >>, at' \notin {"receive", "calibrate"}
    PROVE  Radio'
BY DEF Radio

LEMMA ParamsTyped ==
    ASSUME TypeOK
    PROVE  EffectiveParams \in Params
<1>1. RescueMode \in Rescues
  BY DEF RescueMode, TypeOK, Rescues, Profiles
<1>2. RescueMode # "None" => RescueMode \in {"L2", "L3"}
  BY <1>1 DEF Rescues
<1>3. (IF OnProfile \/ RescueMode = "None" THEN 0 ELSE offset_index[RescueMode]) \in Nat
  BY <1>2 DEF TypeOK
<1>4. (IF OnProfile \/ RescueMode = "L2" THEN 0 ELSE manual_gain[tune.target]) \in Nat
  BY GainAssumption DEF TypeOK
<1>5. (IF OnProfile THEN cal_profile ELSE NoProfile) \in AnyProfile
  BY DEF TypeOK, AnyProfile
<1>6. tune.team \in Teams /\ tune.target \in Targets
  BY DEF TypeOK
<1> QED BY <1>1, <1>3, <1>4, <1>5, <1>6 DEF EffectiveParams, Params

\* A calibration that is ended by a key, its results kept.
LEMMA AtRest ==
    ASSUME Sound(cal),
           cal' = [cal EXCEPT !.active = FALSE, !.queue = << >>, !.index = 0, !.stage = "idle"]
    PROVE  Sound(cal') /\ cal'.active = FALSE
<1> DEFINE a == [cal EXCEPT !.active = FALSE]
           b == [a EXCEPT !.queue = << >>]
           c == [b EXCEPT !.index = 0]
           d == [c EXCEPT !.stage = "idle"]
<1>1. cal \in CalRecords /\ << >> \in Seq(Profiles)
  BY DEF Sound
<1>2. cal' = d
  OBVIOUS
<1>3. /\ a \in CalRecords /\ a.active = FALSE
      /\ a.results = cal.results /\ a.seed_results = cal.seed_results
  BY <1>1 DEF CalRecords
<1> HIDE DEF a
<1>4. /\ b \in CalRecords /\ b.active = a.active /\ b.queue = << >>
      /\ b.results = a.results /\ b.seed_results = a.seed_results
  BY <1>1, <1>3 DEF CalRecords
<1> HIDE DEF b
<1>5. /\ c \in CalRecords /\ c.active = b.active /\ c.queue = b.queue
      /\ c.results = b.results /\ c.seed_results = b.seed_results
  BY <1>4 DEF CalRecords
<1> HIDE DEF c
<1>6. /\ d \in CalRecords /\ d.active = c.active /\ d.queue = c.queue /\ d.stage = "idle"
      /\ d.results = c.results /\ d.seed_results = c.seed_results
  BY <1>5 DEF CalRecords, Stages
<1> HIDE DEF d
<1>7. /\ cal' \in CalRecords /\ cal'.active = FALSE /\ cal'.queue = << >> /\ cal'.stage = "idle"
      /\ cal'.results = cal.results /\ cal'.seed_results = cal.seed_results
  BY <1>2, <1>3, <1>4, <1>5, <1>6, Zenon
<1>8. DistinctProfiles(cal.results) /\ DistinctProfiles(cal.seed_results)
  BY DEF Sound
<1> QED BY ONLY <1>7, <1>8 DEF Sound, Distinct

LEMMA InitHolds == Init => CInv
<1> SUFFICES ASSUME Init PROVE CInv
  OBVIOUS
<1>1. cal \in CalRecords
  BY DEF Init, CalRecords, Stages
<1>2. Sound(cal) /\ cal.active = FALSE
  BY <1>1 DEF Init, Sound, DistinctProfiles, Distinct
<1>3. TypeOK
  <2>1. /\ cal.active \in BOOLEAN /\ cal.stage \in Stages /\ cal.index \in Nat
    BY <1>1 DEF CalRecords
  <2>2. /\ offset_index \in [{"L2", "L3"} -> Nat]
        /\ offset_index["L2"] \in 1 .. L2Offsets /\ offset_index["L3"] \in 1 .. L3Offsets
    BY SizeAssumption DEF Init
  <2>3. /\ at \in {"keyboard", "configure", "apply", "receive", "calibrate", "failover"}
        /\ tune \in [team : Teams, target : Targets] /\ rescue \in Rescues
        /\ cal_profile \in Profiles \cup {NoProfile}
    BY DEF Init, Rescues
  <2>4. /\ manual_gain \in [Targets -> GainMin .. GainMax]
        /\ failover_age \in 0 .. FailoverGap /\ crc_age \in 0 .. StaleTime
    BY GainAssumption, TimeAssumption DEF Init
  <2> QED BY <2>1, <2>2, <2>3, <2>4 DEF TypeOK
<1>4. stats \in Stats
  <2>1. EffectiveParams \in Params /\ {} \in HeardSets
    BY <1>3, ParamsTyped DEF HeardSets
  <2> QED BY <2>1 DEF Init, Stats
<1>5. Radio
  BY DEF Init, Radio
<1> QED BY <1>2, <1>3, <1>4, <1>5 DEF CInv, Books

(***************************************************************************)
(* The keys                                                                *)
(***************************************************************************)
\* What every key that ends a calibration leaves.
LEMMA EndingKey ==
    ASSUME CInv, Key, MarkDirty, failover_age' \in 0 .. FailoverGap,
           cal' = [cal EXCEPT !.active = FALSE, !.queue = << >>, !.index = 0, !.stage = "idle"],
           tune' \in [team : Teams, target : Targets], rescue' \in Rescues,
           cal_profile' \in AnyProfile,
           offset_index' \in [{"L2", "L3"} -> Nat],
           offset_index'["L2"] \in 1 .. L2Offsets, offset_index'["L3"] \in 1 .. L3Offsets,
           manual_gain' \in [Targets -> GainMin .. GainMax]
    PROVE  CInv'
<1>1. Sound(cal') /\ cal'.active = FALSE
  BY AtRest DEF CInv, Books
<1>2. cal'.stage \in Stages /\ cal'.index \in Nat
  BY <1>1 DEF Sound, CalRecords
<1>3. at' = "configure" /\ crc_age' \in 0 .. StaleTime
  BY DEF CInv, TypeOK, Key
<1>4. TypeOK'
  BY <1>1, <1>2, <1>3 DEF TypeOK, AnyProfile
<1>5. stats' \in Stats
  BY DEF CInv, Key
<1>6. Radio'
  BY <1>3, DirtyRadio DEF MarkDirty
<1> QED BY <1>1, <1>4, <1>5, <1>6 DEF CInv, Books

LEMMA KeyboardPreserves ==
    ASSUME CInv, Keyboard
    PROVE  CInv'
<1>1. /\ tune \in [team : Teams, target : Targets] /\ rescue \in Rescues
      /\ cal_profile \in AnyProfile /\ offset_index \in [{"L2", "L3"} -> Nat]
      /\ offset_index["L2"] \in 1 .. L2Offsets /\ offset_index["L3"] \in 1 .. L3Offsets
      /\ manual_gain \in [Targets -> GainMin .. GainMax]
      /\ failover_age \in 0 .. FailoverGap
  BY DEF CInv, TypeOK, AnyProfile
<1>2. CASE NoKey
  <2>1. /\ at' = "configure"
        /\ UNCHANGED << settings, cal_profile, cal, failover_age, cfg_key, crc_age, stats >>
    BY <1>2 DEF NoKey, Key
  <2>2. TypeOK'
    BY <2>1 DEF CInv, TypeOK, settings
  <2>3. Sound(cal') /\ (cal'.active => Trying(cal, cal_profile)')
    BY <2>1 DEF CInv, Books, Sound, Trying, Running, Follows, settings
  <2>4. Radio'
    BY <2>1 DEF CInv, Radio, settings
  <2> QED BY <2>1, <2>2, <2>3, <2>4 DEF CInv, Books
<1>3. ASSUME NEW team \in Teams, NEW target \in Targets, NEW rsc \in Rescues,
             Key, SelectTuneTarget(team, target, rsc),
             offset_index' \in [{"L2", "L3"} -> Nat],
             offset_index'["L2"] \in 1 .. L2Offsets, offset_index'["L3"] \in 1 .. L3Offsets
      PROVE  CInv'
  <2>1. /\ tune' \in [team : Teams, target : Targets] /\ rescue' \in Rescues
        /\ cal_profile' \in AnyProfile /\ manual_gain' = manual_gain
        /\ failover_age' = failover_age /\ MarkDirty
        /\ cal' = [cal EXCEPT !.active = FALSE, !.queue = << >>, !.index = 0, !.stage = "idle"]
    BY <1>3 DEF SelectTuneTarget, ClearCalibration, AnyProfile
  <2> QED BY <1>1, <1>3, <2>1, EndingKey
<1>4. tune.team \in Teams /\ tune.target \in Targets /\ "INFO" \in Targets
  BY <1>1 DEF Targets
<1>5. CASE KeyTeam
  BY <1>1, <1>3, <1>4, <1>5 DEF KeyTeam, Rescues
<1>6. CASE KeyTarget
  BY <1>1, <1>3, <1>4, <1>6 DEF KeyTarget, Rescues
<1>7. CASE KeyRescue
  BY <1>1, <1>3, <1>4, <1>7 DEF KeyRescue, Rescues
<1>8. CASE KeyToggleRescue
  BY <1>1, <1>3, <1>4, <1>8 DEF KeyToggleRescue, Rescues
<1>9. CASE KeyCycleOffset
  <2> DEFINE rsc  == IF rescue = "None" THEN "L3" ELSE rescue
             size == IF rsc = "L2" THEN L2Offsets ELSE L3Offsets
  <2>1. rsc \in {"L2", "L3"} /\ size \in Nat \ {0}
    BY <1>1, SizeAssumption DEF Rescues
  <2>2. PICK delta \in {1, -1} :
           /\ Key /\ SelectTuneTarget(tune.team, "INFO", rsc)
           /\ offset_index' = [offset_index EXCEPT ![rsc] = ((@ - 1 + delta + size) % size) + 1]
    BY <1>9 DEF KeyCycleOffset
  <2>3. rsc \in Rescues
    BY <2>1 DEF Rescues
  <2> HIDE DEF rsc
  <2>4. ((offset_index[rsc] - 1 + delta + size) % size) + 1 \in 1 .. size
    <3>1. offset_index[rsc] \in Int
      BY <1>1, <2>1
    <3>2. size \in Int /\ size > 0
      BY <2>1
    <3> HIDE DEF size
    <3> QED BY <3>1, <3>2
  <2>5. /\ offset_index' \in [{"L2", "L3"} -> Nat]
        /\ offset_index'["L2"] \in 1 .. L2Offsets /\ offset_index'["L3"] \in 1 .. L3Offsets
    BY <1>1, <2>1, <2>2, <2>4
  <2> QED BY <1>3, <1>4, <2>2, <2>3, <2>5
<1>10. CASE KeyGain
  <2>1. PICK gain \in {manual_gain[tune.target] + 1, manual_gain[tune.target] - 1} :
           /\ Key /\ ClearCalibration /\ MarkDirty
           /\ manual_gain' = [manual_gain EXCEPT ![tune.target] = Clamp(gain)]
           /\ UNCHANGED << tune, rescue, offset_index, failover_age >>
    BY <1>10 DEF KeyGain
  <2>2. Clamp(gain) \in GainMin .. GainMax
    BY <1>1, <1>4, GainAssumption DEF Clamp
  <2>3. manual_gain' \in [Targets -> GainMin .. GainMax]
    BY <1>1, <2>1, <2>2
  <2> QED BY <1>1, <2>1, <2>3, EndingKey DEF ClearCalibration, AnyProfile
<1>11. CASE KeyDirectProfile
  <2>1. PICK preset \in {Profile("L2", L2Direct), Profile("L3", L3Direct)} :
           /\ Key /\ cal_profile' = preset
           /\ cal' = [cal EXCEPT !.active = FALSE, !.queue = << >>, !.index = 0, !.stage = "idle"]
           /\ tune' = [tune EXCEPT !.target = "INFO"]
           /\ rescue' = preset.rescue /\ failover_age' = 0 /\ MarkDirty
           /\ UNCHANGED << offset_index, manual_gain >>
    BY <1>11 DEF KeyDirectProfile
  <2>2. L2Direct \in Labels /\ L3Direct \in Labels
    BY DEF Labels
  <2>3. preset \in Profiles /\ preset.rescue \in Rescues
    BY <2>2 DEF Profile, Profiles, Rescues
  <2>4. tune' \in [team : Teams, target : Targets]
    BY <1>1, <1>4, <2>1
  <2>5. failover_age' \in 0 .. FailoverGap
    BY <2>1, TimeAssumption
  <2> QED BY <1>1, <2>1, <2>3, <2>4, <2>5, EndingKey DEF AnyProfile
<1>12. CASE KeyCancel
  BY <1>1, <1>12, EndingKey DEF KeyCancel, ClearCalibration, settings, AnyProfile
<1>13. CASE KeyCalibrate
  <2>1. PICK full \in BOOLEAN :
           Try([active |-> TRUE, stage |-> "seed", queue |-> BuildQueue(full), index |-> 0,
                results |-> << >>, seed_results |-> << >>, elapsed |-> 0])
    BY <1>13 DEF KeyCalibrate
  <2> DEFINE c == [active |-> TRUE, stage |-> "seed", queue |-> BuildQueue(full), index |-> 0,
                   results |-> << >>, seed_results |-> << >>, elapsed |-> 0]
  <2>2. /\ BuildQueue(full) \in Seq(Profiles) /\ BuildQueue(full) # << >>
        /\ Distinct(BuildQueue(full))
    BY QueueSound
  <2>3. /\ c \in CalRecords /\ c.active = TRUE /\ c.stage = "seed" /\ c.index = 0
        /\ c.queue = BuildQueue(full) /\ c.results = << >> /\ c.seed_results = << >>
    BY <2>2 DEF CalRecords, Stages
  <2>4. Try(c) /\ tune' = tune
    BY <1>13, <2>1 DEF KeyCalibrate
  <2> HIDE DEF c
  <2>5. Sound(c)
    BY <2>2, <2>3 DEF Sound, DistinctProfiles
  <2>6. Running(c, c.index) /\ c.index < Len(c.queue)
    BY <2>2, <2>3 DEF Running, Follows
  <2>7. /\ Sound(cal') /\ Trying(cal, cal_profile)' /\ cal_profile' \in Profiles
        /\ rescue' \in Rescues /\ cfg_key' = << >>
    BY <2>4, <2>5, <2>6, TryTries
  <2>8. /\ at' = "configure"
        /\ UNCHANGED << offset_index, manual_gain, failover_age, crc_age, stats >>
    BY <1>13 DEF KeyCalibrate, Key
  <2>9. cal'.active \in BOOLEAN /\ cal'.stage \in Stages /\ cal'.index \in Nat
    BY <2>7 DEF Sound, CalRecords
  <2>10. TypeOK'
    BY <2>4, <2>7, <2>8, <2>9 DEF CInv, TypeOK
  <2>11. Radio'
    BY <2>7, <2>8, DirtyRadio
  <2> QED BY <2>7, <2>8, <2>10, <2>11 DEF CInv, Books
<1> QED BY <1>2, <1>5, <1>6, <1>7, <1>8, <1>9, <1>10, <1>11, <1>12, <1>13 DEF Keyboard

(***************************************************************************)
(* The rest of update()                                                    *)
(***************************************************************************)
LEMMA UpdateFrame ==
    ASSUME CInv,
           at' \in {"keyboard", "configure", "apply", "receive", "calibrate", "failover"},
           UNCHANGED << tune, offset_index, manual_gain >>,
           rescue' \in Rescues, cal_profile' \in AnyProfile, cal' \in CalRecords,
           failover_age' \in 0 .. FailoverGap, crc_age' \in 0 .. StaleTime
    PROVE  TypeOK'
<1>1. cal'.active \in BOOLEAN /\ cal'.stage \in Stages /\ cal'.index \in Nat
  BY DEF CalRecords
<1> QED BY <1>1 DEF CInv, TypeOK, AnyProfile

LEMMA AgesGrow ==
    /\ \A n \in 0 .. FailoverGap : Older(n, FailoverGap) \in 0 .. FailoverGap
    /\ \A n \in 0 .. StaleTime : Older(n, StaleTime) \in 0 .. StaleTime
    /\ LongestDwell \in Nat /\ \A n \in Nat : Older(n, LongestDwell) \in Nat
    /\ 0 \in 0 .. FailoverGap /\ 0 \in 0 .. StaleTime /\ StaleTime \in 0 .. StaleTime
BY TimeAssumption DEF Older, LongestDwell

\* The books stay as they are when neither they nor the target change.
LEMMA BooksKept ==
    ASSUME Books, UNCHANGED << tune, cal >>, tune.target = "INFO" => cal_profile' = cal_profile
    PROVE  Books'
<1>1. Sound(cal')
  BY DEF Books
<1>2. ASSUME cal.active PROVE Trying(cal, cal_profile)'
  BY <1>2 DEF Books, Trying, Running, Follows
<1> QED BY <1>1, <1>2 DEF Books

LEMMA SyncPreserves ==
    ASSUME CInv, SyncRescue
    PROVE  CInv'
<1>1. FollowProfile \in Rescues
  BY DEF CInv, TypeOK, FollowProfile, Rescues, Profiles
<1>2. cal \in CalRecords
  BY DEF CInv, Books, Sound
<1>3. TypeOK'
  BY <1>1, <1>2, UpdateFrame DEF SyncRescue, CInv, TypeOK, AnyProfile
<1>4. Books'
  BY BooksKept DEF SyncRescue, CInv
<1>5. Radio'
  BY DEF SyncRescue, CInv, Radio
<1> QED BY <1>3, <1>4, <1>5 DEF CInv, SyncRescue

LEMMA ApplyPreserves ==
    ASSUME CInv, ApplyConfig
    PROVE  CInv'
<1> DEFINE params == EffectiveParams
<1>1. params \in Params
  BY ParamsTyped DEF CInv
<1>2. /\ at' = "receive" /\ UNCHANGED << tune, offset_index, manual_gain, cal, failover_age >>
      /\ rescue' = IF tune.target = "INFO" THEN rescue ELSE "None"
      /\ cal_profile' = IF tune.target = "INFO" THEN cal_profile ELSE NoProfile
  BY DEF ApplyConfig
<1>3. params.profile = IF tune.target = "INFO" THEN cal_profile ELSE NoProfile
  BY DEF EffectiveParams, OnProfile
<1> HIDE DEF params
<1>4. \/ cfg_key = << params >> /\ UNCHANGED << cfg_key, stats, crc_age >>
      \/ /\ cfg_key' = << params >> /\ crc_age' = StaleTime
         /\ stats' = [score |-> 0, heard |-> {}, device |-> params]
  BY DEF ApplyConfig, params
<1>5. {} \in HeardSets
  BY DEF HeardSets
<1>6. stats' \in Stats
  BY <1>1, <1>4, <1>5 DEF CInv, Stats
<1>7. cfg_key' = << params >> /\ stats'.device = params
  <2>1. CASE cfg_key = << params >> /\ UNCHANGED << cfg_key, stats, crc_age >>
    BY <2>1 DEF CInv, Radio
  <2> QED BY <1>4, <2>1
<1>8. cal \in CalRecords
  BY DEF CInv, Books, Sound
<1>9. TypeOK'
  <2>1. rescue' \in Rescues /\ cal_profile' \in AnyProfile /\ crc_age' \in 0 .. StaleTime
    BY <1>2, <1>4, AgesGrow DEF CInv, TypeOK, Rescues, AnyProfile
  <2>2. failover_age' \in 0 .. FailoverGap /\ cal' \in CalRecords
    BY <1>2, <1>8 DEF CInv, TypeOK
  <2> QED BY <1>2, <2>1, <2>2, UpdateFrame
<1>10. Books'
  BY <1>2, BooksKept DEF CInv
<1>11. Radio'
  <2>1. ASSUME cal.active, tune.target = "INFO"
        PROVE  stats'.heard \subseteq {<< cal.stage, cal.index, cal_profile >>}
    BY <1>4, <2>1 DEF CInv, Radio
  <2> QED BY <1>2, <1>3, <1>7, <2>1 DEF Radio
<1> QED BY <1>6, <1>9, <1>10, <1>11 DEF CInv

LEMMA ReceivePreserves ==
    ASSUME CInv, ReceiveBuffer
    PROVE  CInv'
<1>1. PICK valid \in BOOLEAN, score \in 0 .. MaxScore :
         /\ stats' = [stats EXCEPT !.score = score,
                          !.heard = @ \cup {<< cal.stage, cal.index, stats.device.profile >>}]
         /\ crc_age' = IF valid THEN 0 ELSE Older(crc_age, StaleTime)
  BY Zenon DEF ReceiveBuffer
<1>2. /\ at = "receive" /\ at' = "calibrate"
      /\ cal' = [cal EXCEPT !.elapsed = Older(@, LongestDwell)]
      /\ failover_age' = Older(failover_age, FailoverGap)
      /\ UNCHANGED << tune, rescue, offset_index, manual_gain, cal_profile, cfg_key >>
  BY DEF ReceiveBuffer, settings
<1>3. /\ cal \in CalRecords /\ stats \in [score : Int, heard : HeardSets, device : Params]
      /\ failover_age \in 0 .. FailoverGap /\ crc_age \in 0 .. StaleTime
      /\ rescue \in Rescues /\ cal_profile \in AnyProfile
  BY DEF CInv, Books, Sound, Stats, TypeOK, AnyProfile
<1>4. /\ cal' \in CalRecords /\ cal'.active = cal.active /\ cal'.stage = cal.stage
      /\ cal'.queue = cal.queue /\ cal'.index = cal.index
      /\ cal'.results = cal.results /\ cal'.seed_results = cal.seed_results
  <2>1. cal.elapsed \in Nat /\ Older(cal.elapsed, LongestDwell) \in Nat
    BY <1>3, AgesGrow DEF CalRecords
  <2> QED BY ONLY <1>2, <1>3, <2>1 DEF CalRecords
<1>5. TypeOK'
  <2>1. failover_age' \in 0 .. FailoverGap /\ crc_age' \in 0 .. StaleTime
    BY <1>1, <1>2, <1>3, AgesGrow
  <2> QED BY <1>2, <1>3, <1>4, <2>1, UpdateFrame
<1> DEFINE own == << cal.stage, cal.index, stats.device.profile >>
<1>6. own \in Stages \X Nat \X AnyProfile
  BY <1>3 DEF CalRecords, Params
<1>7. /\ stats' \in Stats /\ stats'.heard = stats.heard \cup {own}
      /\ stats'.device = stats.device
  <2>1. stats.heard \cup {own} \in HeardSets /\ score \in Int
    BY <1>3, <1>6, SizeAssumption DEF HeardSets
  <2>2. stats' = [stats EXCEPT !.score = score, !.heard = stats.heard \cup {own}]
    BY <1>1, <1>3
  <2> DEFINE half == [stats EXCEPT !.score = score]
             new  == stats.heard \cup {own}
  <2> HIDE DEF new
  <2>3. half \in [score : Int, heard : HeardSets, device : Params] /\ half.device = stats.device
    BY <1>3, <2>1
  <2>4. stats' = [half EXCEPT !.heard = new] /\ new \in HeardSets
    BY <2>1, <2>2 DEF new
  <2> HIDE DEF half
  <2>5. stats' \in [score : Int, heard : HeardSets, device : Params] /\ stats'.heard = new
        /\ stats'.device = half.device
    BY ONLY <2>3, <2>4
  <2> QED BY <2>3, <2>5 DEF Stats, new
<1>8. Books'
  <2>1. Sound(cal')
    BY <1>4 DEF CInv, Books, Sound
  <2>2. ASSUME cal.active PROVE Trying(cal, cal_profile)'
    BY <1>2, <1>4, <2>2 DEF CInv, Books, Trying, Running, Follows
  <2> QED BY <1>4, <2>1, <2>2 DEF Books
<1>9. Radio'
  <2>1. cfg_key' = << >> \/ cfg_key' = << stats'.device >>
    BY <1>2, <1>7 DEF CInv, Radio
  <2>2. /\ cfg_key' # << >>
        /\ IF tune.target = "INFO" THEN stats'.device.profile = cal_profile'
           ELSE cal_profile' = NoProfile
    BY <1>2, <1>7 DEF CInv, Radio
  <2>3. ASSUME cal.active, tune.target = "INFO"
        PROVE  stats'.heard = {<< cal'.stage, cal'.index, cal_profile' >>}
    <3>1. own = << cal.stage, cal.index, cal_profile >>
      BY <1>2, <2>3 DEF CInv, Radio
    <3>2. stats.heard \subseteq {own}
      BY <1>2, <2>3, <3>1 DEF CInv, Radio
    <3> QED BY <1>2, <1>4, <1>7, <3>1, <3>2
  <2> QED BY <1>2, <1>4, <2>1, <2>2, <2>3 DEF Radio
<1> QED BY <1>5, <1>7, <1>8, <1>9 DEF CInv

\* The trial that has ended leaves one result, which is its own.
LEMMA RecordingRuns ==
    ASSUME CInv, at = "calibrate", cal.active, cal_profile # NoProfile, NEW c,
           c = [cal EXCEPT !.results = Append(@, Result)]
    PROVE  Sound(c) /\ Running(c, c.index)
<1>1. tune.target = "INFO"
  BY DEF CInv, Radio
<1>2. /\ Sound(cal) /\ cal.stage \in {"seed", "validate"} /\ Follows(cal)
      /\ cal.index \in 0 .. Len(cal.queue) /\ cal.index > 0
      /\ Len(cal.results) = cal.index - 1 /\ cal_profile = cal.queue[cal.index]
  BY <1>1 DEF CInv, Books, Trying, Running
<1>3. /\ cal \in CalRecords /\ cal.results \in Seq(Results) /\ cal.queue \in Seq(Profiles)
      /\ cal.index \in Nat
  BY <1>2 DEF Sound, CalRecords
<1>4. Result \in Results /\ Result.profile = cal.queue[cal.index]
      /\ Result.heard = {<< cal.stage, cal.index, cal.queue[cal.index] >>}
  <2>1. stats.heard = {<< cal.stage, cal.index, cal_profile >>}
    BY <1>1 DEF CInv, Radio
  <2>2. stats.heard \in HeardSets /\ stats.score \in Int
    BY DEF CInv, Stats
  <2>3. cal_profile \in Profiles
    BY <1>2, <1>3
  <2> QED BY <1>2, <2>1, <2>2, <2>3 DEF Result, Results
<1> DEFINE new == Append(cal.results, Result)
<1>5. /\ new \in Seq(Results) /\ Len(new) = cal.index
      /\ \A i \in 1 .. Len(new) :
            new[i] = IF i <= Len(cal.results) THEN cal.results[i] ELSE Result
  BY <1>2, <1>3, <1>4
<1>6. c = [cal EXCEPT !.results = new]
  BY <1>3
<1> HIDE DEF new
<1>7. /\ c \in CalRecords /\ c.results = new /\ c.seed_results = cal.seed_results
      /\ c.active = cal.active /\ c.stage = cal.stage /\ c.queue = cal.queue
      /\ c.index = cal.index
  BY ONLY <1>3, <1>5, <1>6 DEF CalRecords
<1>8. \A i \in DOMAIN new : /\ i \in DOMAIN cal.queue /\ new[i].profile = cal.queue[i]
                            /\ new[i].heard = {<< cal.stage, i, cal.queue[i] >>}
  <2> SUFFICES ASSUME NEW i \in 1 .. Len(new)
               PROVE  /\ i \in DOMAIN cal.queue /\ new[i].profile = cal.queue[i]
                      /\ new[i].heard = {<< cal.stage, i, cal.queue[i] >>}
    BY <1>5
  <2>1. CASE i <= Len(cal.results)
    <3>1. i \in DOMAIN cal.results /\ new[i] = cal.results[i]
      BY <1>3, <1>5, <2>1
    <3> QED BY <1>2, <3>1 DEF Follows
  <2>2. CASE i > Len(cal.results)
    <3>1. i = cal.index /\ new[i] = Result
      BY <1>2, <1>3, <1>5, <2>2
    <3> QED BY <1>2, <1>3, <1>4, <3>1
  <2> QED BY <1>3, <2>1, <2>2
<1>9. DistinctProfiles(new)
  BY <1>2, <1>8 DEF DistinctProfiles, Sound, Distinct
<1>10. Sound(c)
  BY <1>2, <1>7, <1>9 DEF Sound
<1>11. Follows(c)
  BY <1>7, <1>8 DEF Follows
<1> QED BY <1>1, <1>2, <1>5, <1>7, <1>10, <1>11 DEF Running

LEMMA CalibratePreserves ==
    ASSUME CInv, CalibrateWaits \/ CalibrateSkips \/ CalibrateRecords
    PROVE  CInv'
<1>1. /\ at = "calibrate" /\ at' = "failover"
      /\ UNCHANGED << tune, offset_index, manual_gain, failover_age, crc_age, stats >>
  BY DEF CalibrateWaits, CalibrateSkips, CalibrateRecords, Calibrate
<1>2. /\ Sound(cal) /\ cal \in CalRecords /\ rescue \in Rescues /\ cal_profile \in AnyProfile
      /\ failover_age \in 0 .. FailoverGap /\ crc_age \in 0 .. StaleTime
  BY DEF CInv, Books, Sound, TypeOK, AnyProfile
<1>3. CASE CalibrateWaits
  <2>1. UNCHANGED << rescue, cal_profile, cal, cfg_key >>
    BY <1>3 DEF CalibrateWaits
  <2>2. TypeOK'
    BY <1>1, <1>2, <2>1, UpdateFrame
  <2>3. Books'
    BY <1>1, <2>1, BooksKept DEF CInv
  <2>4. Radio'
    BY <1>1, <2>1 DEF CInv, Radio
  <2> QED BY <1>1, <2>2, <2>3, <2>4 DEF CInv
<1>4. ASSUME NEW c, Sound(c), Running(c, c.index), StartNext(c)
      PROVE  CInv'
  <2>1. /\ Sound(cal') /\ (cal'.active => Trying(cal, cal_profile)')
        /\ cal_profile' \in AnyProfile /\ rescue' \in Rescues /\ cfg_key' = << >>
    BY <1>1, <1>2, <1>4, StartNextTriesOrEnds
  <2>2. TypeOK'
    BY <1>1, <1>2, <2>1, UpdateFrame DEF Sound
  <2>3. Radio'
    BY <1>1, <2>1, DirtyRadio
  <2> QED BY <1>1, <2>1, <2>2, <2>3 DEF CInv, Books
<1>5. CASE CalibrateSkips
  <2>1. cal.active /\ cal_profile = NoProfile /\ StartNext(cal)
    BY <1>5 DEF CalibrateSkips
  <2>2. Trying(cal, cal_profile)
    BY <2>1 DEF CInv, Books
  <2>3. tune.target # "INFO"
    <3> SUFFICES ASSUME tune.target = "INFO" PROVE FALSE
      OBVIOUS
    <3>1. cal.queue \in Seq(Profiles) /\ cal.index \in 1 .. Len(cal.queue)
      BY <1>2, <2>2 DEF Trying, Running, CalRecords
    <3>2. cal_profile \in Profiles
      BY <2>2, <3>1 DEF Trying
    <3> QED BY <2>1, <3>2 DEF Profiles, NoProfile, Profile
  <2>4. Running(cal, cal.index)
    BY <2>2, <2>3 DEF Trying, Running
  <2> QED BY <1>2, <1>4, <2>1, <2>4
<1>6. CASE CalibrateRecords
  <2> DEFINE c == [cal EXCEPT !.results = Append(@, Result)]
  <2>1. cal.active /\ cal_profile # NoProfile /\ StartNext(c)
    BY <1>6 DEF CalibrateRecords
  <2>2. Sound(c) /\ Running(c, c.index)
    <3>1. c = [cal EXCEPT !.results = Append(@, Result)]
      OBVIOUS
    <3> HIDE DEF c
    <3> QED BY <1>1, <2>1, <3>1, RecordingRuns
  <2> HIDE DEF c
  <2> QED BY <1>4, <2>1, <2>2
<1> QED BY <1>3, <1>5, <1>6

\* The results a failover chooses from are different profiles, best first.
LEMMA SortedDistinct ==
    ASSUME CInv
    PROVE  /\ SortedResults \in Seq(Results)
           /\ \A i \in DOMAIN SortedResults : SortedResults[i].profile \in Profiles
           /\ DistinctProfiles(SortedResults)
<1> DEFINE r == IF cal.results # << >> THEN cal.results ELSE cal.seed_results
<1>1. r \in Seq(Results) /\ DistinctProfiles(r)
  BY DEF CInv, Books, Sound, CalRecords
<1>2. SortedResults = Ranked(r)
  BY DEF SortedResults
<1> HIDE DEF r
<1>3. /\ Ranked(r) \in Seq(Results) /\ Len(Ranked(r)) = Len(r)
      /\ \A k \in DOMAIN r : \E i \in DOMAIN r : Rank(r, i) = k /\ Ranked(r)[k] = r[i]
  BY <1>1, ResultFields, RankedSorts
<1>4. DOMAIN Ranked(r) = DOMAIN r
  BY <1>1, <1>3
<1>5. DistinctProfiles(Ranked(r))
  <2> SUFFICES ASSUME NEW k \in DOMAIN r, NEW m \in DOMAIN r,
                      Ranked(r)[k].profile = Ranked(r)[m].profile
               PROVE  k = m
    BY <1>4 DEF DistinctProfiles
  <2>1. PICK i \in DOMAIN r : Rank(r, i) = k /\ Ranked(r)[k] = r[i]
    BY <1>3
  <2>2. PICK j \in DOMAIN r : Rank(r, j) = m /\ Ranked(r)[m] = r[j]
    BY <1>3
  <2> QED BY <1>1, <2>1, <2>2 DEF DistinctProfiles
<1> QED BY <1>2, <1>3, <1>5, ResultFields

LEMMA FailoverPreserves ==
    ASSUME CInv, Failover \/ NoFailover
    PROVE  CInv'
<1>1. /\ at' = "keyboard" /\ UNCHANGED << tune, offset_index, manual_gain, cal, crc_age, stats >>
  BY DEF Failover, NoFailover, settings
<1>2. /\ cal \in CalRecords /\ rescue \in Rescues /\ cal_profile \in AnyProfile
      /\ failover_age \in 0 .. FailoverGap /\ crc_age \in 0 .. StaleTime
  BY DEF CInv, Books, Sound, TypeOK, AnyProfile
<1>3. CASE NoFailover
  <2>1. UNCHANGED << rescue, cal_profile, failover_age, cfg_key >>
    BY <1>3 DEF NoFailover, settings
  <2>2. TypeOK'
    BY <1>1, <1>2, <2>1, UpdateFrame
  <2>3. Books'
    BY <1>1, <2>1, BooksKept DEF CInv
  <2>4. Radio'
    BY <1>1, <2>1 DEF CInv, Radio
  <2> QED BY <1>1, <2>2, <2>3, <2>4 DEF CInv
<1>4. CASE Failover
  <2>1. /\ ~ cal.active /\ failover_age' = 0 /\ cfg_key' = << >>
    BY <1>4 DEF Failover, Stale, MarkDirty
  <2>2. PICK i \in Alternatives : /\ cal_profile' = SortedResults[i].profile
                                 /\ rescue' = SortedResults[i].profile.rescue
    BY <1>4 DEF Failover
  <2>3. SortedResults[i].profile \in Profiles
    BY <2>2, SortedDistinct DEF Alternatives
  <2>4. cal_profile' \in AnyProfile /\ rescue' \in Rescues
    BY <2>2, <2>3 DEF AnyProfile, Profiles, Rescues
  <2>5. TypeOK'
    BY <1>1, <1>2, <2>1, <2>4, AgesGrow, UpdateFrame
  <2>6. Books'
    BY <1>1, <2>1 DEF CInv, Books, Sound
  <2>7. Radio'
    BY <1>1, <2>1, DirtyRadio
  <2> QED BY <1>1, <2>5, <2>6, <2>7 DEF CInv
<1> QED BY <1>3, <1>4

LEMMA StepPreserves == CInv /\ [Next]_vars => CInv'
<1> SUFFICES ASSUME CInv, [Next]_vars PROVE CInv'
  OBVIOUS
<1>1. CASE Keyboard
  BY <1>1, KeyboardPreserves
<1>2. CASE UpdateStep
  BY <1>2, SyncPreserves, ApplyPreserves, ReceivePreserves, CalibratePreserves, FailoverPreserves
     DEF UpdateStep
<1>3. CASE UNCHANGED vars
  <2>1. UNCHANGED << at, tune, rescue, offset_index, manual_gain, cal_profile, cal,
                     failover_age, crc_age, cfg_key, stats >>
    BY <1>3 DEF vars, settings
  <2>2. TypeOK'
    BY <2>1 DEF CInv, TypeOK
  <2>3. Books'
    BY <2>1, BooksKept DEF CInv
  <2>4. Radio'
    BY <2>1 DEF CInv, Radio
  <2> QED BY <2>1, <2>2, <2>3, <2>4 DEF CInv
<1> QED BY <1>1, <1>2, <1>3 DEF Next

LEMMA CalibrationInductive == Spec => []CInv
<1> QED BY InitHolds, StepPreserves, PTL DEF Spec

(***************************************************************************)
(* Theorems                                                                *)
(***************************************************************************)
\* Every variable keeps its kind, the gains stay inside the device's range and
\* the offset indices inside their tables: sdr_controller.cpp sets them by keys
\* only.
THEOREM CalibrationTyped == Spec => []TypeOK
<1>1. CInv => TypeOK
  BY DEF CInv
<1> QED BY <1>1, CalibrationInductive, PTL

\* A running calibration has one result for each trial it ended, in the queue's
\* order (start_next_calibration_profile, update_calibration).
THEOREM OneResultPerTrial == Spec => []ResultsFollowQueue
<1>1. CInv => ResultsFollowQueue
  BY DEF CInv, Books, ResultsFollowQueue, Trying, Running, Follows
<1> QED BY <1>1, CalibrationInductive, PTL

\* A result counts only what was received in its own trial with the radio set
\* to its profile, although the trial changes in one update() and the counters
\* are reset in the next (update_calibration, apply_sdr_config).
THEOREM CountedInOwnTrial == Spec => []ResultsAreOwn
<1>1. ASSUME CInv, cal.active, NEW i \in DOMAIN cal.results
      PROVE  cal.results[i].heard = {<< cal.stage, i, cal.results[i].profile >>}
  <2>1. Follows(cal)
    BY <1>1 DEF CInv, Books, Trying, Running
  <2> QED BY <2>1 DEF Follows
<1>2. CInv => ResultsAreOwn
  BY <1>1 DEF ResultsAreOwn
<1> QED BY <1>2, CalibrationInductive, PTL

\* The second round tries no profile that did worse than one it leaves out
\* (build_validation_queue).
THEOREM SecondRoundOfTheBest == Spec => []ValidatesTheBest
<1>1. ASSUME CInv, cal.stage = "validate",
             NEW i \in DOMAIN cal.seed_results, NEW j \in DOMAIN cal.seed_results,
             cal.seed_results[i].profile \in {cal.queue[k] : k \in DOMAIN cal.queue},
             cal.seed_results[j].profile \notin {cal.queue[k] : k \in DOMAIN cal.queue}
      PROVE  cal.seed_results[i].score >= cal.seed_results[j].score
  <2> DEFINE r == cal.seed_results
  <2>1. r \in Seq(Results) /\ DistinctProfiles(r) /\ cal.queue = BestOf(r)
    BY <1>1 DEF CInv, Books, Sound, CalRecords
  <2>2. r # << >> /\ i \in DOMAIN r /\ j \in DOMAIN r
    BY <1>1, <2>1
  <2>3. r[i].score \in Int /\ r[j].score \in Int
    BY <2>1, <2>2, ResultFields DEF Scored
  <2> HIDE DEF r
  <2>4. \A k \in DOMAIN r :
           (\E m \in DOMAIN BestOf(r) : BestOf(r)[m] = r[k].profile) <=> Rank(r, k) <= TopK
    BY <2>1, <2>2, BestOfResults
  <2>5. Rank(r, i) <= TopK /\ ~ (Rank(r, j) <= TopK)
    BY <1>1, <2>1, <2>2, <2>4 DEF r
  <2>6. Scored(r) /\ Rank(r, i) \in Int /\ Rank(r, j) \in Int
    BY <2>1, <2>2, ResultFields, RankInRange
  <2>7. ASSUME r[j].score > r[i].score PROVE FALSE
    <3>1. i # j
      BY <2>5
    <3>2. Rank(r, j) < Rank(r, i)
      BY <2>1, <2>2, <2>6, <2>7, <3>1, RankOrders
    <3> QED BY <2>5, <2>6, <3>2, SizeAssumption
  <2> QED BY <2>3, <2>7 DEF r
<1>2. CInv => ValidatesTheBest
  BY <1>1 DEF ValidatesTheBest
<1> QED BY <1>2, CalibrationInductive, PTL

\* Failover goes to one of the two best results, never further down
\* (maybe_failover_cal_profile).
THEOREM OnlyTheBestTwo == Spec => FailoverToBestTwo
<1>1. ASSUME CInv, [Next]_vars, at = "failover", cal_profile' # cal_profile
      PROVE  cal_profile' \in {SortedResults[i].profile : i \in DOMAIN SortedResults \cap {1, 2}}
  <2>1. Failover
    BY <1>1 DEF Next, Keyboard, UpdateStep, NoKey, KeyTeam, KeyTarget, KeyRescue, KeyToggleRescue,
                KeyCycleOffset, KeyGain, KeyDirectProfile, KeyCancel, KeyCalibrate, Key,
                SyncRescue, ApplyConfig, ReceiveBuffer, CalibrateWaits, CalibrateSkips,
                CalibrateRecords, Calibrate, NoFailover, vars
  <2>2. PICK i \in Alternatives : /\ \A j \in Alternatives : i <= j
                                 /\ cal_profile' = SortedResults[i].profile
    BY <2>1 DEF Failover
  <2>3. SortedResults \in Seq(Results) /\ DistinctProfiles(SortedResults)
    BY <1>1, SortedDistinct
  <2>4. i \in 1 .. Len(SortedResults) /\ Len(SortedResults) \in Nat
    BY <2>2, <2>3 DEF Alternatives
  <2>5. i \in {1, 2}
    <3> SUFFICES ASSUME i > 2 PROVE FALSE
      BY <2>4
    <3>1. 1 \in DOMAIN SortedResults /\ 2 \in DOMAIN SortedResults
      BY <2>3, <2>4
    <3>2. 1 \notin Alternatives /\ 2 \notin Alternatives
      BY <2>2, <2>4
    <3>3. SortedResults[1].profile = SortedResults[2].profile
      BY <3>1, <3>2 DEF Alternatives
    <3> QED BY <2>3, <3>1, <3>3 DEF DistinctProfiles
  <2> QED BY <2>2, <2>3, <2>4, <2>5
<1>2. CInv /\ [Next]_vars =>
        [at = "failover" /\ cal_profile' # cal_profile =>
           cal_profile' \in {SortedResults[i].profile :
                                i \in DOMAIN SortedResults \cap {1, 2}}]_vars
  BY <1>1
<1> QED BY <1>2, CalibrationInductive, PTL DEF Spec, FailoverToBestTwo
=============================================================================

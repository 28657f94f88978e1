---------------------------- MODULE SequenceLemmas ----------------------------
(***************************************************************************)
(* What the library's operators on sequences return, and what an induction *)
(* needs.                                                                  *)
(***************************************************************************)
EXTENDS SequencesExt, FiniteSetTheorems, WellFoundedInduction, TLAPS

\* Induction over numbers, without an operator as a parameter: a set of
\* counterexamples has a least one.
LEMMA LeastNat ==
    ASSUME NEW S, S \subseteq Nat, S # {}
    PROVE  \E n \in S : \A m \in S : n <= m
<1>1. PICK n \in S : \A m \in S : << m, n >> \notin OpToRel(<, Nat)
  BY NatLessThanWellFounded, WFMin
<1>2. \A m \in S : ~ (m < n)
  BY <1>1 DEF OpToRel
<1> QED BY <1>2

\* A set of numbers that has zero and all successors up to n has n.
LEMMA UpTo ==
    ASSUME NEW n \in Nat, NEW P, 0 \in P, \A k \in 0 .. n - 1 : k \in P => k + 1 \in P
    PROVE  \A k \in 0 .. n : k \in P
<1> DEFINE Wrong == {k \in 0 .. n : k \notin P}
<1> SUFFICES ASSUME Wrong # {} PROVE FALSE
  OBVIOUS
<1>1. Wrong \subseteq Nat
  OBVIOUS
<1> HIDE DEF Wrong
<1>2. PICK k \in Wrong : \A m \in Wrong : k <= m
  BY <1>1, LeastNat
<1>3. k \in 0 .. n /\ k \notin P
  BY <1>2 DEF Wrong
<1>4. k # 0 /\ k - 1 \in 0 .. n - 1 /\ (k - 1) + 1 = k
  BY <1>3
<1>5. k - 1 \in P
  <2>1. k - 1 \notin Wrong
    BY <1>2, <1>3
  <2>2. k - 1 \in 0 .. n
    BY <1>4
  <2> QED BY <2>1, <2>2 DEF Wrong
<1>6. k \in P
  BY <1>4, <1>5
<1> QED BY <1>3, <1>6

\* The elements of a sequence, as a set.
LEMMA ToSetIs ==
    ASSUME NEW S, NEW s \in Seq(S)
    PROVE  /\ ToSet(s) \subseteq S
           /\ \A x : x \in ToSet(s) <=> \E i \in 1 .. Len(s) : x = s[i]
BY DEF ToSet

\* A sequence over a set is one over any larger set.
LEMMA SeqWiden ==
    ASSUME NEW S, NEW T, S \subseteq T, NEW s \in Seq(S)
    PROVE  s \in Seq(T)
<1>1. Len(s) \in Nat /\ s = [i \in 1 .. Len(s) |-> s[i]] /\ \A i \in 1 .. Len(s) : s[i] \in T
  OBVIOUS
<1> QED BY <1>1

\* The one element of a sequence of length one.
LEMMA ToSetOne == ASSUME NEW x PROVE ToSet(<< x >>) = {x}
BY DEF ToSet

\* The elements of a concatenation, by index.
LEMMA ConcatAt ==
    ASSUME NEW S, NEW s \in Seq(S), NEW u \in Seq(S)
    PROVE  /\ s \o u \in Seq(S) /\ Len(s \o u) = Len(s) + Len(u)
           /\ \A i \in 1 .. Len(s) + Len(u) :
                 (s \o u)[i] = IF i <= Len(s) THEN s[i] ELSE u[i - Len(s)]
OBVIOUS

\* The elements of a concatenation, as a set.
LEMMA ConcatSet ==
    ASSUME NEW S, NEW s \in Seq(S), NEW u \in Seq(S)
    PROVE  ToSet(s \o u) = ToSet(s) \cup ToSet(u)
<1> DEFINE w == s \o u
<1>1. /\ w \in Seq(S) /\ Len(w) = Len(s) + Len(u)
      /\ \A i \in 1 .. Len(s) + Len(u) : w[i] = IF i <= Len(s) THEN s[i] ELSE u[i - Len(s)]
  BY ConcatAt
<1> HIDE DEF w
<1>2. DOMAIN w = 1 .. Len(s) + Len(u) /\ DOMAIN s = 1 .. Len(s) /\ DOMAIN u = 1 .. Len(u)
      /\ Len(s) \in Nat /\ Len(u) \in Nat
  BY <1>1
<1>3. ASSUME NEW i \in DOMAIN w PROVE w[i] \in ToSet(s) \cup ToSet(u)
  <2>1. CASE i <= Len(s)
    <3>1. i \in DOMAIN s /\ w[i] = s[i]
      BY <1>1, <1>2, <2>1
    <3> QED BY <3>1 DEF ToSet
  <2>2. CASE ~ (i <= Len(s))
    <3>1. i - Len(s) \in DOMAIN u /\ w[i] = u[i - Len(s)]
      BY <1>1, <1>2, <2>2
    <3> QED BY <3>1 DEF ToSet
  <2> QED BY <2>1, <2>2
<1>4. ASSUME NEW i \in DOMAIN s PROVE s[i] \in ToSet(w)
  <2>1. i \in DOMAIN w /\ w[i] = s[i]
    BY <1>1, <1>2
  <2> QED BY <2>1 DEF ToSet
<1>5. ASSUME NEW i \in DOMAIN u PROVE u[i] \in ToSet(w)
  <2>1. i + Len(s) \in DOMAIN w /\ w[i + Len(s)] = u[i]
    BY <1>1, <1>2
  <2> QED BY <2>1 DEF ToSet
<1>6. ToSet(w) = ToSet(s) \cup ToSet(u)
  BY <1>3, <1>4, <1>5 DEF ToSet
<1> QED BY <1>6 DEF w

\* One more element.
LEMMA AppendSet ==
    ASSUME NEW S, NEW s \in Seq(S), NEW x \in S
    PROVE  Append(s, x) \in Seq(S) /\ ToSet(Append(s, x)) = ToSet(s) \cup {x}
<1> DEFINE w == Append(s, x)
<1>1. /\ w \in Seq(S) /\ Len(w) = Len(s) + 1
      /\ \A i \in 1 .. Len(s) + 1 : w[i] = IF i <= Len(s) THEN s[i] ELSE x
  OBVIOUS
<1> HIDE DEF w
<1>2. DOMAIN w = 1 .. Len(s) + 1 /\ DOMAIN s = 1 .. Len(s) /\ Len(s) \in Nat
  BY <1>1
<1>3. ASSUME NEW i \in DOMAIN w PROVE w[i] \in ToSet(s) \cup {x}
  BY <1>1, <1>2 DEF ToSet
<1>4. ASSUME NEW i \in DOMAIN s PROVE s[i] \in ToSet(w)
  <2>1. i \in DOMAIN w /\ w[i] = s[i]
    BY <1>1, <1>2
  <2> QED BY <2>1 DEF ToSet
<1>5. x \in ToSet(w)
  <2>1. Len(s) + 1 \in DOMAIN w /\ w[Len(s) + 1] = x
    BY <1>1, <1>2
  <2> QED BY <2>1 DEF ToSet
<1>6. ToSet(w) = ToSet(s) \cup {x}
  BY <1>3, <1>4, <1>5 DEF ToSet
<1> QED BY <1>1, <1>6 DEF w

(***************************************************************************)
(* FlattenSeq                                                              *)
(***************************************************************************)
\* What makes a function the one that FlattenSeq takes the last value of.
Flattens(f, seqs, n) ==
    f = [i \in 1 .. n |-> IF i = 1 THEN seqs[i] ELSE f[i - 1] \o seqs[i]]

\* There is one, extended element by element.
LEMMA FlattensExists ==
    ASSUME NEW seqs, NEW n \in Nat
    PROVE  \E f : Flattens(f, seqs, n)
<1> DEFINE P == {k \in 0 .. n : \E f : Flattens(f, seqs, k)}
<1>1. 0 \in P
  <2>1. Flattens([i \in 1 .. 0 |-> 0], seqs, 0)
    BY DEF Flattens
  <2> QED BY <2>1
<1>2. ASSUME NEW k \in 0 .. n - 1, k \in P PROVE k + 1 \in P
  <2>1. PICK f : Flattens(f, seqs, k)
    BY <1>2
  <2> DEFINE last == IF k = 0 THEN seqs[1] ELSE f[k] \o seqs[k + 1]
             g == [i \in 1 .. k + 1 |-> IF i = k + 1 THEN last ELSE f[i]]
  <2>2. ASSUME NEW i \in 1 .. k + 1
        PROVE  g[i] = IF i = 1 THEN seqs[i] ELSE g[i - 1] \o seqs[i]
    <3>1. CASE i = k + 1
      <4>1. g[i] = last
        BY <3>1
      <4>2. k # 0 => i - 1 \in 1 .. k + 1 /\ i - 1 = k /\ i - 1 # k + 1
        BY <3>1
      <4>3. k # 0 => g[i - 1] = f[k]
        BY <4>2
      <4> HIDE DEF g
      <4> QED BY <3>1, <4>1, <4>3
    <3>2. CASE i # k + 1
      <4>0. \A j \in 1 .. k : f[j] = IF j = 1 THEN seqs[j] ELSE f[j - 1] \o seqs[j]
        BY <2>1 DEF Flattens
      <4>1. i \in 1 .. k /\ f[i] = IF i = 1 THEN seqs[i] ELSE f[i - 1] \o seqs[i]
        BY <3>2, <4>0
      <4>2. g[i] = f[i]
        BY <3>2
      <4>3. i # 1 => i - 1 \in 1 .. k + 1 /\ i - 1 # k + 1
        BY <3>2
      <4>4. i # 1 => g[i - 1] = f[i - 1]
        BY <4>3
      <4> HIDE DEF g
      <4> QED BY <4>1, <4>2, <4>4
    <3> QED BY <3>1, <3>2
  <2>3. Flattens(g, seqs, k + 1)
    <3>1. g = [i \in 1 .. k + 1 |-> g[i]]
      OBVIOUS
    <3> HIDE DEF g
    <3>2. [i \in 1 .. k + 1 |-> g[i]]
            = [i \in 1 .. k + 1 |-> IF i = 1 THEN seqs[i] ELSE g[i - 1] \o seqs[i]]
      BY <2>2
    <3> QED BY <3>1, <3>2, Zenon DEF Flattens
  <2>4. k + 1 \in 0 .. n
    OBVIOUS
  <2> QED BY <2>3, <2>4
<1> HIDE DEF P
<1>3. n \in P
  <2>1. \A k \in 0 .. n : k \in P
    BY <1>1, <1>2, UpTo
  <2> QED BY <2>1
<1> QED BY <1>3 DEF P

\* A flattened sequence has the elements of all its sequences, and no more.
LEMMA FlattenElements ==
    ASSUME NEW S, NEW seqs \in Seq(Seq(S))
    PROVE  /\ FlattenSeq(seqs) \in Seq(S)
           /\ ToSet(FlattenSeq(seqs)) = UNION {ToSet(seqs[i]) : i \in 1 .. Len(seqs)}
<1> DEFINE n == Len(seqs)
<1>0. n \in Nat /\ \A i \in 1 .. n : seqs[i] \in Seq(S)
  OBVIOUS
<1>1. CASE n = 0
  <2>1. seqs = << >>
    BY <1>1
  <2>2. FlattenSeq(seqs) = << >>
    BY <2>1 DEF FlattenSeq
  <2>3. ToSet(<< >>) = {}
    BY DEF ToSet
  <2> QED BY <1>1, <2>2, <2>3
<1>2. CASE n # 0
  <2> DEFINE f == CHOOSE f : Flattens(f, seqs, n)
  <2>1. FlattenSeq(seqs) = f[n]
    BY <1>2, Zenon DEF FlattenSeq, Flattens
  <2>2. Flattens(f, seqs, n)
    BY <1>0, FlattensExists
  <2> HIDE DEF f
  <2>3. \A i \in 1 .. n : f[i] = IF i = 1 THEN seqs[i] ELSE f[i - 1] \o seqs[i]
    BY <2>2 DEF Flattens
  <2> HIDE DEF n
  <2> DEFINE P == {k \in 0 .. n : k # 0 => /\ f[k] \in Seq(S)
                                           /\ ToSet(f[k]) = UNION {ToSet(seqs[i]) : i \in 1 .. k}}
  <2>4. 0 \in P
    BY <1>0
  <2>5. ASSUME NEW k \in 0 .. n - 1, k \in P PROVE k + 1 \in P
    <3>1. k + 1 \in 1 .. n /\ seqs[k + 1] \in Seq(S)
      BY <1>0
    <3>2. f[k + 1] = IF k + 1 = 1 THEN seqs[k + 1] ELSE f[(k + 1) - 1] \o seqs[k + 1]
      BY <2>3, <3>1
    <3>3. {ToSet(seqs[i]) : i \in 1 .. k + 1} = {ToSet(seqs[i]) : i \in 1 .. k} \cup {ToSet(seqs[k + 1])}
      <4>1. 1 .. k + 1 = (1 .. k) \cup {k + 1}
        BY <1>0
      <4> QED BY <4>1
    <3>4. CASE k = 0
      <4>1. f[k + 1] = seqs[k + 1]
        BY <3>2, <3>4
      <4>2. UNION {ToSet(seqs[i]) : i \in 1 .. k + 1} = ToSet(seqs[k + 1])
        BY <3>3, <3>4
      <4>3. k + 1 \in 0 .. n
        BY <1>0
      <4> QED BY <3>1, <4>1, <4>2, <4>3
    <3>5. CASE k # 0
      <4>0. k + 1 # 1 /\ (k + 1) - 1 = k
        BY <1>0, <3>5
      <4>1. f[k + 1] = f[k] \o seqs[k + 1]
        BY <3>2, <4>0
      <4>2. f[k] \in Seq(S) /\ ToSet(f[k]) = UNION {ToSet(seqs[i]) : i \in 1 .. k}
        BY <2>5, <3>5
      <4>3. /\ f[k] \o seqs[k + 1] \in Seq(S)
            /\ ToSet(f[k] \o seqs[k + 1]) = ToSet(f[k]) \cup ToSet(seqs[k + 1])
        BY <3>1, <4>2, ConcatSet
      <4>4. UNION {ToSet(seqs[i]) : i \in 1 .. k + 1} = ToSet(f[k]) \cup ToSet(seqs[k + 1])
        <5> DEFINE B == {ToSet(seqs[i]) : i \in 1 .. k + 1}
                   A == {ToSet(seqs[i]) : i \in 1 .. k}
                   x == ToSet(seqs[k + 1])
        <5>1. B = A \cup {x} /\ ToSet(f[k]) = UNION A
          BY <3>3, <4>2
        <5> HIDE DEF A, B, x
        <5>2. UNION B = (UNION A) \cup x
          BY <5>1
        <5>3. UNION B = ToSet(f[k]) \cup x
          BY <5>1, <5>2
        <5> QED BY ONLY <5>3, Zenon DEF B, x
      <4>5. /\ f[k + 1] \in Seq(S)
            /\ ToSet(f[k + 1]) = UNION {ToSet(seqs[i]) : i \in 1 .. k + 1}
        BY <4>1, <4>3, <4>4
      <4>6. k + 1 \in 0 .. n
        BY <1>0
      <4> QED BY ONLY <4>5, <4>6, Zenon DEF P
    <3> QED BY <3>4, <3>5
  <2> HIDE DEF P
  <2>6. \A k \in 0 .. n : k \in P
    BY <1>0, <2>4, <2>5, UpTo
  <2>7. n \in P
    BY <1>0, <2>6
  <2> QED BY <1>2, <2>1, <2>7 DEF P, n
<1> QED BY <1>1, <1>2

(***************************************************************************)
(* FoldLeft                                                                *)
(***************************************************************************)
\* The library's Max, of sets that have a greatest element.
LEMMA MaxIs ==
    ASSUME NEW S, S \subseteq Nat, NEW x \in S, \A y \in S : y <= x
    PROVE  Max(S) = x
<1>1. \A y \in S : x >= y
  OBVIOUS
<1>0. \E z \in S : \A y \in S : z >= y
  BY <1>1
<1>2. Max(S) \in S /\ \A y \in S : Max(S) >= y
  BY <1>0 DEF Max
<1> DEFINE m == Max(S)
<1>3. m \in S /\ m \in Nat /\ x \in Nat /\ m >= x /\ x >= m
  BY <1>1, <1>2
<1> HIDE DEF m
<1>4. m = x
  BY <1>3
<1> QED BY <1>4 DEF m

\* The elements of seq that have an index in s, each once.
AddsNew(g, seq, n) ==
    g = [s \in SUBSET (1 .. n) |->
            IF s = {} THEN << >>
            ELSE LET x == Max(s)
                 IN  IF Contains(g[s \ {x}], seq[x]) THEN g[s \ {x}]
                     ELSE Append(g[s \ {x}], seq[x])]

\* FoldLeft with AppendNew is a function on the sets of indices: it exists.
LEMMA AddsNewExists ==
    ASSUME NEW seq, NEW n \in Nat
    PROVE  \E g : AddsNew(g, seq, n)
<1> DEFINE P == {k \in 0 .. n : \E g : AddsNew(g, seq, k)}
<1>1. 0 \in P
  <2> DEFINE g == [s \in SUBSET (1 .. 0) |-> << >>]
  <2>1. \A s \in SUBSET (1 .. 0) : s = {}
    OBVIOUS
  <2>2. AddsNew(g, seq, 0)
    BY <2>1 DEF AddsNew
  <2> QED BY <2>2
<1>2. ASSUME NEW k \in 0 .. n - 1, k \in P PROVE k + 1 \in P
  <2>1. PICK f : AddsNew(f, seq, k)
    BY <1>2
  <2> DEFINE Add(w, x) == IF Contains(w, x) THEN w ELSE Append(w, x)
             m == k + 1
             g == [s \in SUBSET (1 .. m) |->
                      IF m \in s THEN Add(f[s \ {m}], seq[m]) ELSE f[s]]
  <2> HIDE DEF Add
  <2>2. \A s \in SUBSET (1 .. k) : f[s] = IF s = {} THEN << >> ELSE Add(f[s \ {Max(s)}], seq[Max(s)])
    BY <2>1 DEF AddsNew, Add
  <2>3. ASSUME NEW s \in SUBSET (1 .. m)
        PROVE  g[s] = IF s = {} THEN << >> ELSE Add(g[s \ {Max(s)}], seq[Max(s)])
    <3>1. CASE m \in s
      <4>1. Max(s) = m
        <5>1. s \subseteq Nat /\ \A y \in s : y <= m
          OBVIOUS
        <5> HIDE DEF m
        <5> QED BY <3>1, <5>1, MaxIs
      <4>2. s \ {m} \in SUBSET (1 .. m) /\ m \notin s \ {m}
        OBVIOUS
      <4>3. g[s \ {m}] = f[s \ {m}] /\ g[s] = Add(f[s \ {m}], seq[m])
        BY <3>1, <4>2
      <4> HIDE DEF g, m
      <4> QED BY <3>1, <4>1, <4>3
    <3>2. CASE m \notin s
      <4>1. s \in SUBSET (1 .. k)
        BY <3>2
      <4>2. g[s] = f[s]
        BY <3>2
      <4>3. s \ {Max(s)} \in SUBSET (1 .. m) /\ m \notin s \ {Max(s)}
        BY <3>2
      <4>4. g[s \ {Max(s)}] = f[s \ {Max(s)}]
        BY <4>3
      <4> HIDE DEF g, m
      <4> QED BY <2>2, <4>1, <4>2, <4>4
    <3> QED BY <3>1, <3>2
  <2>4. AddsNew(g, seq, m)
    <3>1. g = [s \in SUBSET (1 .. m) |-> g[s]]
      OBVIOUS
    <3> HIDE DEF g, m
    <3>2. [s \in SUBSET (1 .. m) |-> g[s]]
            = [s \in SUBSET (1 .. m) |->
                  IF s = {} THEN << >> ELSE Add(g[s \ {Max(s)}], seq[Max(s)])]
      BY <2>3
    <3> QED BY <3>1, <3>2, Zenon DEF AddsNew, Add
  <2>5. k + 1 \in 0 .. n
    OBVIOUS
  <2> QED BY <2>4, <2>5
<1> HIDE DEF P
<1>3. n \in P
  <2>1. \A k \in 0 .. n : k \in P
    BY <1>1, <1>2, UpTo
  <2> QED BY <2>1
<1> QED BY <1>3 DEF P

\* Contains, as a set.
LEMMA ContainsIs ==
    ASSUME NEW S, NEW s \in Seq(S), NEW x
    PROVE  Contains(s, x) <=> x \in ToSet(s)
BY DEF Contains, ToSet

\* Adding what is new keeps the elements.
LEMMA AddNewSet ==
    ASSUME NEW S, NEW s \in Seq(S), NEW x \in S
    PROVE  LET longer == IF Contains(s, x) THEN s ELSE Append(s, x)
           IN  longer \in Seq(S) /\ ToSet(longer) = ToSet(s) \cup {x}
<1>1. CASE x \in ToSet(s)
  BY <1>1, ContainsIs
<1>2. CASE x \notin ToSet(s)
  <2>1. ~ Contains(s, x)
    BY <1>2, ContainsIs
  <2> QED BY <2>1, AppendSet
<1> QED BY <1>1, <1>2

\* What such a fold returns has the elements of the sequence, and no more.
LEMMA AddsNewElements ==
    ASSUME NEW S, NEW seq \in Seq(S), NEW g, AddsNew(g, seq, Len(seq))
    PROVE  g[1 .. Len(seq)] \in Seq(S) /\ ToSet(g[1 .. Len(seq)]) = ToSet(seq)
<1> DEFINE n == Len(seq)
           upto(k) == {seq[i] : i \in 1 .. k}
           P == {k \in 0 .. n : g[1 .. k] \in Seq(S) /\ ToSet(g[1 .. k]) = upto(k)}
<1>0. n \in Nat /\ \A i \in 1 .. n : seq[i] \in S
  OBVIOUS
<1>a. ASSUME NEW s \in SUBSET (1 .. n)
      PROVE  g[s] = IF s = {} THEN << >>
                    ELSE IF Contains(g[s \ {Max(s)}], seq[Max(s)]) THEN g[s \ {Max(s)}]
                         ELSE Append(g[s \ {Max(s)}], seq[Max(s)])
  BY DEF AddsNew
<1>b. upto(n) = ToSet(seq)
  BY DEF ToSet
<1> HIDE DEF n
<1>1. 0 \in P
  <2>1. 1 .. 0 = {} /\ {} \in SUBSET (1 .. n)
    OBVIOUS
  <2>2. g[1 .. 0] = << >>
    BY <1>a, <2>1
  <2>3. ToSet(<< >>) = {} /\ << >> \in Seq(S)
    BY DEF ToSet
  <2>4. upto(0) = {}
    BY <2>1
  <2>5. 0 \in 0 .. n
    BY <1>0
  <2> QED BY <2>2, <2>3, <2>4, <2>5
<1>2. ASSUME NEW k \in 0 .. n - 1, k \in P PROVE k + 1 \in P
  <2>0. k \in Nat /\ k + 1 <= n
    BY <1>0
  <2>1. /\ k + 1 \in 1 .. n /\ 1 .. k + 1 \in SUBSET (1 .. n) /\ 1 .. k + 1 # {}
        /\ (1 .. k + 1) \ {k + 1} = 1 .. k
        /\ 1 .. k + 1 = (1 .. k) \cup {k + 1}
    <3>1. k + 1 \in 1 .. k + 1
      BY <2>0
    <3>2. k + 1 \in 1 .. n /\ \A i \in 1 .. k + 1 : i \in 1 .. n
      BY <1>0, <2>0
    <3>3. \A i : i \in 1 .. k + 1 <=> i \in 1 .. k \/ i = k + 1
      BY <2>0
    <3>4. k + 1 \notin 1 .. k
      BY <2>0
    <3> QED BY <3>1, <3>2, <3>3, <3>4
  <2>2. Max(1 .. k + 1) = k + 1
    <3>1. 1 .. k + 1 \subseteq Nat /\ k + 1 \in 1 .. k + 1 /\ \A y \in 1 .. k + 1 : y <= k + 1
      BY <1>0
    <3> QED BY <3>1, MaxIs
  <2>3. seq[k + 1] \in S
    BY <1>0, <2>1
  <2>4. g[1 .. k + 1] = IF Contains(g[1 .. k], seq[k + 1]) THEN g[1 .. k]
                        ELSE Append(g[1 .. k], seq[k + 1])
    BY <1>a, <2>1, <2>2
  <2>5. g[1 .. k] \in Seq(S) /\ ToSet(g[1 .. k]) = upto(k)
    BY <1>2
  <2>6. upto(k + 1) = upto(k) \cup {seq[k + 1]}
    BY <2>1
  <2>7. /\ g[1 .. k + 1] \in Seq(S)
        /\ ToSet(g[1 .. k + 1]) = ToSet(g[1 .. k]) \cup {seq[k + 1]}
    <3> DEFINE before == g[1 .. k]
               after == g[1 .. k + 1]
               x == seq[k + 1]
    <3>1. before \in Seq(S) /\ x \in S
      BY <2>3, <2>5
    <3>2. after = IF Contains(before, x) THEN before ELSE Append(before, x)
      BY <2>4
    <3> HIDE DEF before, after, x
    <3>3. after \in Seq(S) /\ ToSet(after) = ToSet(before) \cup {x}
      BY ONLY <3>1, <3>2, AddNewSet, Zenon
    <3> QED BY <3>3 DEF before, after, x
  <2>8. k + 1 \in 0 .. n
    BY <2>1
  <2> HIDE DEF upto
  <2>9. ToSet(g[1 .. k + 1]) = upto(k + 1)
    BY <2>5, <2>6, <2>7
  <2> QED BY ONLY <2>7, <2>8, <2>9, Zenon
<1> HIDE DEF P
<1>3. n \in P
  <2>1. \A k \in 0 .. n : k \in P
    BY <1>0, <1>1, <1>2, UpTo
  <2> QED BY <1>0, <2>1
<1> QED BY <1>3, <1>b DEF P, n

\* A sequence has finitely many elements.
LEMMA ToSetFinite ==
    ASSUME NEW S, NEW s \in Seq(S)
    PROVE  IsFiniteSet(ToSet(s))
<1> DEFINE f == [i \in 1 .. Len(s) |-> s[i]]
<1>1. f \in Surjection(1 .. Len(s), ToSet(s))
  BY DEF Surjection, ToSet
<1>2. Len(s) \in Nat
  OBVIOUS
<1> HIDE DEF f
<1>3. IsFiniteSet(1 .. Len(s))
  BY <1>2, FS_Interval
<1> QED BY <1>1, <1>3, FS_Surjection

(***************************************************************************)
(* Putting a set in order                                                  *)
(***************************************************************************)
\* The elements of S that R puts before x.
Earlier(S, R, x) == {y \in S : << y, x >> \in R}

\* A strict and total order of S.
Orders(R, S) ==
    /\ \A x \in S : << x, x >> \notin R
    /\ \A x, y, z \in S : << x, y >> \in R /\ << y, z >> \in R => << x, z >> \in R
    /\ \A x, y \in S : x = y \/ << x, y >> \in R \/ << y, x >> \in R

\* As many elements are before another as it has a place: a bijection of the
\* set to its places.
LEMMA OrderPlaces ==
    ASSUME NEW S, IsFiniteSet(S), NEW R, Orders(R, S)
    PROVE  /\ Cardinality(S) \in Nat
           /\ \A x \in S : Cardinality(Earlier(S, R, x)) \in 0 .. Cardinality(S) - 1
           /\ \A x, y \in S : Cardinality(Earlier(S, R, x)) = Cardinality(Earlier(S, R, y)) => x = y
           /\ \A i \in 1 .. Cardinality(S) :
                 \E x \in S : Cardinality(Earlier(S, R, x)) = i - 1
<1> DEFINE n == Cardinality(S)
           place(x) == Cardinality(Earlier(S, R, x)) + 1
<1>1. n \in Nat
  BY FS_CardinalityType
<1>2. ASSUME NEW x \in S
      PROVE  /\ IsFiniteSet(Earlier(S, R, x)) /\ Cardinality(Earlier(S, R, x)) \in Nat
             /\ Cardinality(Earlier(S, R, x)) < n
  <2>1. Earlier(S, R, x) \subseteq S /\ x \in S /\ x \notin Earlier(S, R, x)
    BY DEF Earlier, Orders
  <2> QED BY <1>1, <2>1, FS_Subset, FS_CardinalityType
<1>3. ASSUME NEW x \in S, NEW y \in S, << x, y >> \in R
      PROVE  Cardinality(Earlier(S, R, x)) < Cardinality(Earlier(S, R, y))
  <2>1. Earlier(S, R, x) \subseteq Earlier(S, R, y)
    BY <1>3 DEF Earlier, Orders
  <2>2. x \in Earlier(S, R, y) /\ x \notin Earlier(S, R, x)
    BY <1>3 DEF Earlier, Orders
  <2> QED BY <1>2, <2>1, <2>2, FS_Subset
<1>4. \A x, y \in S : Cardinality(Earlier(S, R, x)) = Cardinality(Earlier(S, R, y)) => x = y
  <2> SUFFICES ASSUME NEW x \in S, NEW y \in S, x # y
               PROVE  Cardinality(Earlier(S, R, x)) # Cardinality(Earlier(S, R, y))
    OBVIOUS
  <2>1. << x, y >> \in R \/ << y, x >> \in R
    BY DEF Orders
  <2> QED BY <1>2, <1>3, <2>1
<1> DEFINE f == [x \in S |-> place(x)]
<1>5. f \in Injection(S, 1 .. n)
  <2>1. \A x \in S : place(x) \in 1 .. n
    BY <1>1, <1>2
  <2>2. \A x, y \in S : place(x) = place(y) => x = y
    BY <1>2, <1>4
  <2> HIDE DEF place, n
  <2> QED BY <2>1, <2>2 DEF Injection, IsInjective
<1>6. IsFiniteSet(1 .. n) /\ Cardinality(1 .. n) = n
  BY <1>1, FS_Interval
<1>7. f \in Surjection(S, 1 .. n)
  <2> HIDE DEF f
  <2> QED BY <1>5, <1>6, FS_Injection
<1>8. ASSUME NEW i \in 1 .. n PROVE \E x \in S : Cardinality(Earlier(S, R, x)) = i - 1
  <2>1. PICK x \in S : f[x] = i
    BY <1>7 DEF Surjection
  <2>2. Cardinality(Earlier(S, R, x)) + 1 = i
    BY <2>1
  <2> QED BY <1>2, <2>2
<1>9. \A x \in S : Cardinality(Earlier(S, R, x)) \in 0 .. n - 1
  BY <1>1, <1>2
<1> QED BY <1>1, <1>4, <1>8, <1>9

\* A sequence that has every element at its place has them all.
LEMMA InOrder ==
    ASSUME NEW S, IsFiniteSet(S), NEW R, Orders(R, S),
           NEW w, w = [i \in 1 .. Cardinality(S) |-> w[i]],
           \A i \in 1 .. Cardinality(S) : w[i] \in S /\ Cardinality(Earlier(S, R, w[i])) = i - 1
    PROVE  w \in Seq(S) /\ Len(w) = Cardinality(S) /\ ToSet(w) = S
<1> DEFINE n == Cardinality(S)
<1>1. n \in Nat
  BY OrderPlaces
<1>2. w = [i \in 1 .. n |-> w[i]] /\ \A i \in 1 .. n : w[i] \in S
  OBVIOUS
<1>3. \A x \in S : \E i \in 1 .. n : w[i] = x
  <2> SUFFICES ASSUME NEW x \in S PROVE \E i \in 1 .. n : w[i] = x
    OBVIOUS
  <2> DEFINE i == Cardinality(Earlier(S, R, x)) + 1
  <2>1. Cardinality(Earlier(S, R, x)) \in 0 .. n - 1
    BY OrderPlaces
  <2>2. i \in 1 .. n /\ i - 1 = Cardinality(Earlier(S, R, x))
    BY <1>1, <2>1
  <2> HIDE DEF i
  <2>3. w[i] \in S /\ Cardinality(Earlier(S, R, w[i])) = Cardinality(Earlier(S, R, x))
    BY <2>2
  <2> QED BY <2>2, <2>3, OrderPlaces
<1> HIDE DEF n
<1>4. w \in Seq(S) /\ Len(w) = n
  <2>1. w \in [1 .. n -> S]
    BY ONLY <1>2, Zenon
  <2> QED BY ONLY <1>1, <2>1
<1>5. ToSet(w) = S
  <2>1. ToSet(w) \subseteq S /\ \A x : x \in ToSet(w) <=> \E i \in 1 .. Len(w) : x = w[i]
    BY <1>4, ToSetIs
  <2> QED BY ONLY <1>3, <1>4, <2>1
<1> QED BY <1>4, <1>5 DEF n
=============================================================================

--------------------------- MODULE SequenceLemmas ---------------------------
(***************************************************************************)
(* Lemmas about the operators on sequences that the dataflow modules are   *)
(* built from.  What an operator of SequencesExt computes by recursion is  *)
(* the last value of the function that computes it step by step.           *)
(***************************************************************************)
EXTENDS Integers, Sequences, SequencesExt, Orders, TLAPS, SequenceTheorems,
        NaturalsInduction, WellFoundedInduction, FiniteSetTheorems

(* A set of numbers that has 0 and the successor of each of its numbers.   *)
LEMMA Counting ==
  ASSUME NEW n \in Nat, NEW P, 0 \in P, \A m \in 0..(n - 1) : m \in P => m + 1 \in P
  PROVE  0..n \subseteq P
<1> SUFFICES ASSUME NEW x \in (0..n) \ P PROVE FALSE
  OBVIOUS
<1> DEFINE T == (0..n) \ P
<1>1. T \subseteq Nat /\ T # {}
  OBVIOUS
<1>2. \E t \in T : \A u \in T : ~ (<<u, t>> \in OpToRel(<, Nat))
  <2> HIDE DEF T
  <2>1. QED
    BY <1>1, WFMin, NatLessThanWellFounded
<1>3. PICK t \in T : \A u \in T : ~ (u < t)
  BY <1>1, <1>2 DEF OpToRel
<1>4. t # 0 /\ t - 1 \in 0..(n - 1) /\ t = (t - 1) + 1
  OBVIOUS
<1>5. t - 1 \in P
  BY <1>3, <1>4
<1>6. QED
  BY <1>4, <1>5

LEMMA FunctionIsSeq ==
  ASSUME NEW T, NEW n \in Nat, NEW f \in [1..n -> T]
  PROVE  f \in Seq(T) /\ Len(f) = n
OBVIOUS

Regroups(r, u, v, w) == ((r \o u) \o v) \o w = r \o ((u \o v) \o w)

LEMMA ConcatFour ==
  ASSUME NEW S, NEW r \in Seq(S), NEW u \in Seq(S), NEW v \in Seq(S), NEW w \in Seq(S)
  PROVE  Regroups(r, u, v, w)
<1> DEFINE y == u \o v
<1>1. y \in Seq(S)
  BY ConcatProperties
<1>2. (r \o u) \o v = r \o y
  BY ConcatAssociative
<1> HIDE DEF y
<1>3. (r \o y) \o w = r \o (y \o w)
  BY <1>1, ConcatAssociative, SMTT(30)
<1>4. QED
  BY <1>2, <1>3 DEF y, Regroups

(* A number up to n is n or less. *)
LEMMA UpTo ==
  ASSUME NEW n \in Nat
  PROVE  /\ \A k \in 1..n : k = n \/ k \in 1..(n - 1)
         /\ \A k \in 1..(n + 1) : k = n + 1 \/ k \in 1..n
OBVIOUS

(* The values of a recursion over 0..n that starts from a and goes on with *)
(* F; there are such values.                                               *)
Follows(g, n, A, a, F) ==
  g \in [0..n -> A] /\ g[0] = a /\ \A i \in 1..n : g[i] = F[i][g[i - 1]]

LEMMA Recursion ==
  ASSUME NEW n \in Nat, NEW A, NEW a \in A, NEW F \in [1..n -> [A -> A]]
  PROVE  \E g : Follows(g, n, A, a, F)
<1> DEFINE Solves(g, m) == Follows(g, m, A, a, F)
           P == {m \in 0..n : \E g : Solves(g, m)}
<1>1. 0 \in P
  <2>1. Solves([i \in 0..0 |-> a], 0)
    BY DEF Follows
  <2>2. \E g : Solves(g, 0)
    <3> HIDE DEF Solves
    <3>1. QED
      BY <2>1
  <2>3. QED
    BY <2>2
<1>2. ASSUME NEW m \in 0..(n - 1), m \in P PROVE m + 1 \in P
  <2>1. PICK g : Solves(g, m)
    BY <1>2
  <2> DEFINE h == [i \in 0..(m + 1) |-> IF i = m + 1 THEN F[m + 1][g[m]] ELSE g[i]]
  <2>2. F[m + 1][g[m]] \in A
    <3>1. m + 1 \in 1..n /\ g[m] \in A
      BY <2>1 DEF Follows
    <3>2. QED
      BY <3>1
  <2>3. h \in [0..(m + 1) -> A]
    BY <2>1, <2>2 DEF Follows
  <2>4. h[0] = a /\ \A i \in 1..(m + 1) : h[i] = F[i][h[i - 1]]
    BY <2>1 DEF Follows
  <2>5. Solves(h, m + 1)
    <3> HIDE DEF h
    <3>1. QED
      BY <2>3, <2>4 DEF Follows
  <2>6. \E f : Solves(f, m + 1)
    <3> HIDE DEF Solves, h
    <3>1. QED
      BY <2>5
  <2>7. QED
    BY <2>6
<1>3. n \in P
  <2> HIDE DEF P
  <2>1. 0..n \subseteq P
    BY <1>1, <1>2, Counting
  <2>2. QED
    BY <2>1
<1>4. QED
  BY <1>3

-----------------------------------------------------------------------------
(* FlattenSeq is the last of the concatenations of the first i sequences. *)
LEMMA FlattenIs ==
  ASSUME NEW S, NEW ss \in Seq(Seq(S)), NEW g, g[0] = << >>,
         \A i \in 1..Len(ss) : g[i - 1] \in Seq(S) /\ g[i] = g[i - 1] \o ss[i]
  PROVE  FlattenSeq(ss) = g[Len(ss)]
<1> DEFINE n == Len(ss)
<1>0. n \in Nat /\ \A i \in 1..n : ss[i] \in Seq(S)
  OBVIOUS
<1>1. CASE n = 0
  BY <1>1 DEF FlattenSeq
<1>2. CASE n # 0
  <2> DEFINE Fits(f) == f = [i \in 1..n |-> IF i = 1 THEN ss[i] ELSE f[i - 1] \o ss[i]]
             flatten == CHOOSE f : Fits(f)
             h == [i \in 1..n |-> g[i]]
  <2>1. FlattenSeq(ss) = flatten[n]
    BY <1>2 DEF FlattenSeq
  <2>2. h = [i \in 1..n |-> IF i = 1 THEN ss[i] ELSE h[i - 1] \o ss[i]]
    <3>1. 1 \in 1..n => g[1] = ss[1]
      <4>1. 1 \in 1..n => g[1] = g[0] \o ss[1]
        BY 1 - 1 = 0
      <4>2. QED
        BY <1>0, <4>1, ConcatEmptySeq
    <3>2. \A i \in 1..n : i # 1 => i - 1 \in 1..n
      BY <1>0
    <3>3. \A i \in 1..n : i # 1 => h[i - 1] = g[i - 1]
      BY <3>2
    <3>4. \A i \in 1..n : g[i] = IF i = 1 THEN ss[i] ELSE h[i - 1] \o ss[i]
      <4> HIDE DEF h
      <4>1. QED
        BY <3>1, <3>3
    <3>5. QED
      BY <3>4
  <2>3. Fits(flatten)
    BY <2>2
  <2>4. \A i \in 1..n : flatten[i] = IF i = 1 THEN ss[i] ELSE flatten[i - 1] \o ss[i]
    <3> HIDE DEF flatten
    <3>1. QED
      BY <2>3
  <2>5. flatten[n] = g[n]
    <3> HIDE DEF flatten
    <3> DEFINE P == {m \in 0..n : m = 0 \/ flatten[m] = g[m]}
    <3>1. 0 \in P
      BY <1>0
    <3>2. ASSUME NEW m \in 0..(n - 1), m \in P PROVE m + 1 \in P
      <4>1. CASE m = 0
        <5>1. flatten[1] = ss[1] /\ g[1] = ss[1]
          <6>1. 1 \in 1..n
            BY <1>0, <1>2
          <6>2. g[1] = g[0] \o ss[1]
            BY <6>1, 1 - 1 = 0
          <6>3. QED
            BY <1>0, <2>4, <6>1, <6>2, ConcatEmptySeq
        <5>2. QED
          BY <4>1, <5>1, <1>0, <1>2
      <4>2. CASE m # 0
        <5>1. m + 1 \in 1..n /\ m + 1 # 1 /\ (m + 1) - 1 = m /\ flatten[m] = g[m]
          BY <1>0, <3>2, <4>2
        <5>2. g[m + 1] = g[m] \o ss[m + 1]
          BY <5>1
        <5>3. flatten[m + 1] = flatten[m] \o ss[m + 1]
          BY <2>4, <5>1
        <5>4. flatten[m + 1] = g[m + 1] /\ m + 1 \in 0..n
          BY <1>0, <5>1, <5>2, <5>3
        <5>5. QED
          BY <5>4
      <4>3. QED
        BY <4>1, <4>2
    <3>3. n \in P
      <4> HIDE DEF P
      <4>1. 0..n \subseteq P
        BY <1>0, <3>1, <3>2, Counting
      <4>2. QED
        BY <1>0, <4>1
    <3>4. QED
      BY <1>2, <3>3
  <2>6. QED
    BY <2>1, <2>5
<1>3. QED
  BY <1>1, <1>2

(* There are such concatenations. *)
LEMMA Concatenations ==
  ASSUME NEW S, NEW ss \in Seq(Seq(S))
  PROVE  \E g \in [0..Len(ss) -> Seq(S)] :
           g[0] = << >> /\ \A i \in 1..Len(ss) : g[i] = g[i - 1] \o ss[i]
<1> DEFINE n == Len(ss)
           A == Seq(S)
           F == [i \in 1..n |-> [v \in A |-> v \o ss[i]]]
<1>1. n \in Nat /\ (\A i \in 1..n : ss[i] \in A) /\ \A i \in 1..n : i - 1 \in 0..n
  <2>1. n \in Nat
    BY LenProperties
  <2>2. QED
    BY <2>1
<1>2. \A i \in 1..n, v \in A : F[i][v] = v \o ss[i] /\ v \o ss[i] \in A
  BY <1>1
<1>3. F \in [1..n -> [A -> A]]
  BY <1>1
<1>4. << >> \in A
  OBVIOUS
<1>5. PICK g : Follows(g, n, A, << >>, F)
  <2>1. n \in Nat
    BY <1>1
  <2> HIDE DEF F, A, n
  <2>2. QED
    BY <2>1, <1>3, <1>4, Recursion
<1>6. \A i \in 1..n : g[i - 1] \in A
  BY <1>1, <1>5 DEF Follows
<1>7. g[0] = << >> /\ \A i \in 1..n : g[i] = g[i - 1] \o ss[i]
  <2> HIDE DEF F
  <2>1. QED
    BY <1>2, <1>5, <1>6 DEF Follows
<1>8. g \in [0..n -> A]
  BY <1>5 DEF Follows
<1>9. QED
  BY <1>7, <1>8

(* FlattenSeq makes a sequence of sequences a sequence, of the empty one   *)
(* the empty one, and appends what is appended.                            *)
LEMMA FlattenType ==
  ASSUME NEW S, NEW ss \in Seq(Seq(S))
  PROVE  FlattenSeq(ss) \in Seq(S)
<1>1. PICK g \in [0..Len(ss) -> Seq(S)] :
        g[0] = << >> /\ \A i \in 1..Len(ss) : g[i] = g[i - 1] \o ss[i]
  BY Concatenations
<1>2. Len(ss) \in 0..Len(ss) /\ \A i \in 1..Len(ss) : g[i - 1] \in Seq(S)
  <2>1. Len(ss) \in 0..Len(ss) /\ \A i \in 1..Len(ss) : i - 1 \in 0..Len(ss)
    BY Len(ss) \in Nat, LenProperties
  <2>2. QED
    BY <2>1
<1>3. FlattenSeq(ss) = g[Len(ss)]
  BY <1>1, <1>2, FlattenIs
<1>4. QED
  BY <1>2, <1>3

LEMMA FlattenEmpty == FlattenSeq(<< >>) = << >>
BY DEF FlattenSeq

LEMMA FlattenAppend ==
  ASSUME NEW S, NEW ss \in Seq(Seq(S)), NEW s \in Seq(S)
  PROVE  FlattenSeq(Append(ss, s)) = FlattenSeq(ss) \o s
<1> DEFINE n == Len(ss)
           tt == Append(ss, s)
<1>1. PICK g \in [0..n -> Seq(S)] : g[0] = << >> /\ \A i \in 1..n : g[i] = g[i - 1] \o ss[i]
  BY Concatenations
<1>2. n \in Nat /\ \A i \in 1..n : g[i - 1] \in Seq(S)
  <2>1. n \in Nat
    BY LenProperties
  <2>2. QED
    BY <2>1
<1>3. FlattenSeq(ss) = g[n]
  BY <1>1, <1>2, FlattenIs
<1> DEFINE h == [i \in 0..(n + 1) |-> IF i = n + 1 THEN g[n] \o s ELSE g[i]]
<1>4. tt \in Seq(Seq(S)) /\ Len(tt) = n + 1 /\ tt[n + 1] = s /\ \A i \in 1..n : tt[i] = ss[i]
  BY AppendProperties
<1>5. h[0] = << >> /\ \A i \in 1..Len(tt) : h[i - 1] \in Seq(S) /\ h[i] = h[i - 1] \o tt[i]
  <2> HIDE DEF tt, n
  <2>1. n \in 0..n /\ n + 1 \in 0..(n + 1) /\ (n + 1) - 1 = n /\ n # n + 1 /\ 0 # n + 1
    BY <1>2
  <2>2. \A i \in 0..n : h[i] = g[i] /\ h[i] \in Seq(S)
    BY <1>2
  <2>3. h[n + 1] = g[n] \o s
    BY <2>1
  <2>4. \A i \in 1..n : h[i - 1] \in Seq(S) /\ h[i] = h[i - 1] \o tt[i]
    <3>1. \A i \in 1..n : i \in 0..n /\ i - 1 \in 0..n
      BY <1>2
    <3> HIDE DEF h
    <3>2. QED
      BY <1>1, <1>4, <2>2, <3>1
  <2>5. h[n] \in Seq(S) /\ h[n + 1] = h[n] \o tt[n + 1]
    BY <1>4, <2>1, <2>2, <2>3
  <2>6. \A i \in 1..(n + 1) : i = n + 1 \/ i \in 1..n
    BY <1>2
  <2>7. h[0] = << >>
    BY <1>1, <1>2, <2>2
  <2> HIDE DEF h
  <2>8. QED
    BY <1>4, <2>1, <2>4, <2>5, <2>6, <2>7
<1>6. FlattenSeq(tt) = h[Len(tt)]
  <2> HIDE DEF tt, h
  <2>1. QED
    BY <1>4, <1>5, FlattenIs
<1>7. QED
  BY <1>2, <1>3, <1>4, <1>6

-----------------------------------------------------------------------------
(* The greatest number of 1..m, and of a set that has m. *)
LEMMA Greatest ==
  ASSUME NEW m \in Nat \ {0}, NEW s \in SUBSET (1..m), m \in s
  PROVE  Max(s) = m
<1>1. \A y \in s : m >= y
  OBVIOUS
<1>2. \A x \in s : (\A y \in s : x >= y) => x = m
  OBVIOUS
<1>3. QED
  BY <1>1, <1>2 DEF Max

(* Every set of positions that is not empty has its greatest one.          *)
LEMMA GreatestIn ==
  ASSUME NEW n \in Nat, NEW s \in SUBSET (1..n), s # {}
  PROVE  Max(s) \in s /\ \A y \in s : Max(s) >= y
<1> DEFINE above == {n - y : y \in s}
<1>1. above \subseteq Nat /\ above # {}
  <2>1. \A y \in s : n - y \in Nat
    OBVIOUS
  <2>2. QED
    BY <2>1
<1>2. \E t \in above : \A u \in above : ~ (<<u, t>> \in OpToRel(<, Nat))
  <2> HIDE DEF above
  <2>1. QED
    BY <1>1, WFMin, NatLessThanWellFounded
<1>3. PICK t \in above : \A u \in above : ~ (u < t)
  <2> HIDE DEF above
  <2>1. QED
    BY <1>1, <1>2 DEF OpToRel
<1>4. PICK x \in s : t = n - x
  OBVIOUS
<1>5. \A y \in s : x >= y
  <2> TAKE y \in s
  <2>1. ~ (n - y < t)
    BY <1>3
  <2>2. QED
    BY <1>4, <2>1
<1>6. QED
  BY <1>5 DEF Max

(* A fold over a set takes its members out one by one: it does so if       *)
(* pick[s] is the member taken out of s, a the value for none left, and F  *)
(* goes on.                                                                *)
Takes(it, n, a, F, pick) ==
  \A s \in SUBSET (1..n) : it[s] = IF s = {} THEN a ELSE F[pick[s]][it[s \ {pick[s]}]]

LEMMA SubsetSizes ==
  ASSUME NEW n \in Nat, NEW s \in SUBSET (1..n)
  PROVE  /\ Cardinality(s) \in 0..n
         /\ Cardinality(s) = 0 <=> s = {}
         /\ \A x \in s : Cardinality(s \ {x}) = Cardinality(s) - 1
<1>1. IsFiniteSet(1..n) /\ Cardinality(1..n) = n
  BY FS_Interval
<1>2. IsFiniteSet(s) /\ Cardinality(s) <= n
  BY <1>1, FS_Subset
<1>3. Cardinality(s) \in Nat /\ (Cardinality(s) = 0 <=> s = {})
  BY <1>2, FS_CardinalityType, FS_EmptySet
<1>4. \A x \in s : Cardinality(s \ {x}) = Cardinality(s) - 1
  BY <1>2, FS_RemoveElement
<1>5. QED
  BY <1>2, <1>3, <1>4

LEMMA ChoiceFold ==
  ASSUME NEW n \in Nat, NEW A, NEW a \in A, NEW F \in [1..n -> [A -> A]],
         NEW pick, \A s \in SUBSET (1..n) : s # {} => pick[s] \in s
  PROVE  \E it \in [SUBSET (1..n) -> A] : Takes(it, n, a, F, pick)
<1> DEFINE All == SUBSET (1..n)
           Right(it, s) == it[s] = IF s = {} THEN a ELSE F[pick[s]][it[s \ {pick[s]}]]
           UpToSize(it, m) == it \in [All -> A] /\ \A s \in All : Cardinality(s) <= m => Right(it, s)
           P == {m \in 0..n : \E it : UpToSize(it, m)}
<1>1. 0 \in P
  <2> DEFINE it == [s \in All |-> a]
  <2>1. \A s \in All : Cardinality(s) <= 0 => s = {} /\ it[s] = a
    <3> TAKE s \in All
    <3>1. Cardinality(s) \in 0..n /\ (Cardinality(s) = 0 <=> s = {})
      BY SubsetSizes
    <3>2. QED
      BY <3>1
  <2>2. it \in [All -> A]
    OBVIOUS
  <2> HIDE DEF it
  <2>3. UpToSize(it, 0)
    BY <2>1, <2>2
  <2>4. \E f : UpToSize(f, 0)
    <3> HIDE DEF UpToSize
    <3>1. QED
      BY <2>3
  <2> HIDE DEF UpToSize
  <2>5. QED
    BY <2>4
<1>2. ASSUME NEW m \in 0..(n - 1), m \in P PROVE m + 1 \in P
  <2>1. PICK it : UpToSize(it, m)
    BY <1>2
  <2> DEFINE next == [s \in All |-> IF s = {} THEN a ELSE F[pick[s]][it[s \ {pick[s]}]]]
  <2>2. \A s \in All : s # {} => pick[s] \in 1..n /\ s \ {pick[s]} \in All
    OBVIOUS
  <2>3. next \in [All -> A]
    <3>1. \A k \in 1..n, v \in A : F[k][v] \in A
      OBVIOUS
    <3>2. \A s \in All : it[s] \in A
      BY <2>1
    <3> HIDE DEF All, UpToSize
    <3>3. \A s \in All : s # {} => F[pick[s]][it[s \ {pick[s]}]] \in A
      BY <2>2, <3>1, <3>2
    <3>4. QED
      BY <3>3
  <2>4. ASSUME NEW s \in All, Cardinality(s) <= m + 1 PROVE Right(next, s)
    <3>1. CASE s = {}
      BY <3>1
    <3>2. CASE s # {}
      <4> DEFINE t == s \ {pick[s]}
      <4>1. t \in All /\ Cardinality(t) <= m
        <5>1. pick[s] \in s /\ Cardinality(s) \in 0..n /\ Cardinality(t) = Cardinality(s) - 1
          BY <3>2, SubsetSizes
        <5>2. QED
          BY <2>2, <2>4, <3>2, <5>1
      <4>2. it[t] = IF t = {} THEN a ELSE F[pick[t]][it[t \ {pick[t]}]]
        BY <2>1, <4>1
      <4>3. next[t] = it[t]
        <5> HIDE DEF t
        <5>1. next[t] = IF t = {} THEN a ELSE F[pick[t]][it[t \ {pick[t]}]]
          BY <4>1
        <5>2. QED
          BY <4>2, <5>1
      <4>4. next[s] = F[pick[s]][it[t]]
        BY <3>2
      <4> HIDE DEF next
      <4>5. QED
        BY <3>2, <4>3, <4>4
    <3>3. QED
      BY <3>1, <3>2
  <2> HIDE DEF next
  <2>5. UpToSize(next, m + 1)
    BY <2>3, <2>4
  <2>6. \E f : UpToSize(f, m + 1)
    <3> HIDE DEF UpToSize
    <3>1. QED
      BY <2>5
  <2> HIDE DEF UpToSize
  <2>7. QED
    BY <2>6
<1>3. n \in P
  <2> HIDE DEF P
  <2>1. 0..n \subseteq P
    BY <1>1, <1>2, Counting
  <2>2. QED
    BY <2>1
<1>4. PICK it : UpToSize(it, n)
  BY <1>3
<1>5. it \in [All -> A] /\ \A s \in All : Right(it, s)
  <2>1. \A s \in All : Cardinality(s) \in 0..n
    BY SubsetSizes
  <2>2. \A s \in All : Cardinality(s) <= n
    BY <2>1
  <2>3. QED
    BY <1>4, <2>2
<1>6. Takes(it, n, a, F, pick)
  BY <1>5 DEF Takes
<1>7. QED
  BY <1>5, <1>6

(* A set of values that has the first and is kept by every step has what   *)
(* the fold ends with.                                                     *)
LEMMA FoldStays ==
  ASSUME NEW n \in Nat, NEW A, NEW it, NEW pick, it[{}] \in A,
         \A s \in SUBSET (1..n) : s # {} => pick[s] \in s /\ (it[s \ {pick[s]}] \in A => it[s] \in A)
  PROVE  it[1..n] \in A
<1> DEFINE All == SUBSET (1..n)
           OfSize(m) == \A s \in All : Cardinality(s) = m => it[s] \in A
           P == {m \in 0..n : OfSize(m)}
<1>1. 0 \in P
  <2>1. \A s \in All : Cardinality(s) = 0 => s = {}
    BY SubsetSizes
  <2>2. OfSize(0)
    BY <2>1
  <2> HIDE DEF OfSize
  <2>3. QED
    BY <2>2
<1>2. ASSUME NEW m \in 0..(n - 1), m \in P PROVE m + 1 \in P
  <2>1. ASSUME NEW s \in All, Cardinality(s) = m + 1 PROVE it[s] \in A
    <3>1. s # {}
      BY <2>1, SubsetSizes
    <3>2. pick[s] \in s
      BY <3>1
    <3> DEFINE t == s \ {pick[s]}
    <3>3. t \in All
      OBVIOUS
    <3>4. Cardinality(t) = Cardinality(s) - 1
      BY <3>2, SubsetSizes
    <3>5. Cardinality(t) = m
      BY <2>1, <3>4
    <3>6. it[t] \in A
      <4> HIDE DEF t
      <4>1. QED
        BY <1>2, <3>3, <3>5
    <3>7. QED
      BY <3>1, <3>6
  <2>2. OfSize(m + 1)
    BY <2>1
  <2> HIDE DEF OfSize
  <2>3. QED
    BY <2>2
<1>3. n \in P
  <2> HIDE DEF P
  <2>1. 0..n \subseteq P
    BY <1>1, <1>2, Counting
  <2>2. QED
    BY <2>1
<1>4. Cardinality(1..n) = n /\ 1..n \in All
  BY FS_Interval
<1>5. QED
  BY <1>3, <1>4

(* The least position of a set of them.                                    *)
LEMMA LeastIn ==
  ASSUME NEW n \in Nat, NEW s \in SUBSET (1..n), s # {}
  PROVE  Min(s) \in s
<1>1. s \subseteq Nat
  OBVIOUS
<1>2. \E t \in s : \A u \in s : ~ (<<u, t>> \in OpToRel(<, Nat))
  BY <1>1, WFMin, NatLessThanWellFounded
<1>3. PICK t \in s : \A u \in s : ~ (u < t)
  BY <1>1, <1>2 DEF OpToRel
<1>4. \A u \in s : t =< u
  BY <1>3
<1>5. QED
  BY <1>4 DEF Min

(* FoldLeft goes through the sets of positions, greatest position last: a  *)
(* function that does so, starting from a and going on with F.             *)
Folding(it, n, A, a, F) ==
  /\ it \in [SUBSET (1..n) -> A]
  /\ \A s \in SUBSET (1..n) :
       it[s] = IF s = {} THEN a ELSE F[Max(s)][it[s \ {Max(s)}]]

LEMMA FoldExists ==
  ASSUME NEW n \in Nat, NEW A, NEW a \in A, NEW F \in [1..n -> [A -> A]]
  PROVE  \E it : Folding(it, n, A, a, F)
<1> DEFINE pick == [s \in SUBSET (1..n) |-> Max(s)]
<1>1. \A s \in SUBSET (1..n) : pick[s] = Max(s)
  OBVIOUS
<1> HIDE DEF pick
<1>2. \A s \in SUBSET (1..n) : s # {} => pick[s] \in s
  BY <1>1, GreatestIn
<1>3. PICK it \in [SUBSET (1..n) -> A] : Takes(it, n, a, F, pick)
  BY <1>2, ChoiceFold
<1>4. Folding(it, n, A, a, F)
  BY <1>1, <1>3 DEF Takes, Folding
<1>5. QED
  BY <1>4

(* Its values for the first positions.                                     *)
LEMMA FirstPositions ==
  ASSUME NEW n \in Nat, NEW m \in 1..n
  PROVE  /\ (1..m) \in SUBSET (1..n) /\ (1..m) # {}
         /\ Max(1..m) = m
         /\ (1..m) \ {Max(1..m)} = 1..(m - 1)
<1>1. Max(1..m) = m
  <2>1. m \in 1..m /\ m \in Nat \ {0} /\ 1..m \in SUBSET (1..m)
    OBVIOUS
  <2>2. QED
    BY <2>1, Greatest
<1>2. (1..m) \ {m} = 1..(m - 1)
  OBVIOUS
<1>3. (1..m) \in SUBSET (1..n) /\ (1..m) # {}
  OBVIOUS
<1>4. QED
  BY <1>1, <1>2, <1>3

-----------------------------------------------------------------------------
(* A member of a finite set of numbers is told by how many members are not *)
(* above it, and Ascending lists them by that.                             *)
LEMMA AscendingRanks ==
  ASSUME NEW S \in SUBSET Nat, IsFiniteSet(S)
  PROVE  /\ Cardinality(S) \in Nat
         /\ Ascending(S) \in [1..Cardinality(S) -> S]
         /\ \A x \in S : Cardinality({y \in S : y <= x}) \in 1..Cardinality(S)
         /\ \A x, y \in S : x < y => Cardinality({z \in S : z <= x}) < Cardinality({z \in S : z <= y})
         /\ \A k \in 1..Cardinality(S) :
              /\ Ascending(S)[k] \in S
              /\ Cardinality({y \in S : y <= Ascending(S)[k]}) = k
<1> DEFINE n == Cardinality(S)
           below(x) == {y \in S : y <= x}
           rank == [x \in S |-> Cardinality(below(x))]
<1>1. n \in Nat
  BY FS_CardinalityType
<1>2. ASSUME NEW x \in S
      PROVE  /\ IsFiniteSet(below(x)) /\ Cardinality(below(x)) <= n
             /\ Cardinality(below(x)) \in 1..n
  <2>1. below(x) \in SUBSET S /\ x \in below(x)
    OBVIOUS
  <2>2. IsFiniteSet(below(x)) /\ Cardinality(below(x)) <= n
    BY <2>1, FS_Subset
  <2>3. Cardinality(below(x)) \in Nat
    BY <2>2, FS_CardinalityType
  <2>4. Cardinality(below(x)) # 0
    <3> HIDE DEF below
    <3>1. QED
      BY <2>1, <2>2, FS_EmptySet
  <2>5. QED
    BY <1>1, <2>2, <2>3, <2>4
<1>3. rank \in [S -> 1..n]
  BY <1>2
<1>4. ASSUME NEW x \in S, NEW y \in S, x < y PROVE rank[x] < rank[y]
  <2>1. below(x) \in SUBSET below(y) /\ y \in below(y) /\ y \notin below(x)
    <3>1. x \in Nat /\ y \in Nat /\ \A z \in S : z \in Nat
      OBVIOUS
    <3>2. \A z \in S : z <= x => z <= y
      BY <1>4, <3>1
    <3>3. y \in below(y) /\ y \notin below(x)
      BY <1>4, <3>1
    <3>4. QED
      BY <3>2, <3>3
  <2>2. IsFiniteSet(below(y))
    BY <1>2
  <2>3. /\ Cardinality(below(x)) <= Cardinality(below(y))
        /\ Cardinality(below(y)) # Cardinality(below(x))
    <3> HIDE DEF below
    <3>1. QED
      BY <2>1, <2>2, FS_Subset
  <2>4. Cardinality(below(x)) \in 1..n /\ Cardinality(below(y)) \in 1..n
    BY <1>2
  <2>5. QED
    BY <1>1, <2>3, <2>4
<1>5. \A x, y \in S : rank[x] = rank[y] => x = y
  <2> HIDE DEF rank
  <2>1. \A x, y \in S : x < y \/ y < x \/ x = y
    OBVIOUS
  <2>2. \A x \in S : rank[x] \in 1..n
    BY <1>3
  <2>3. QED
    BY <1>1, <1>4, <2>1, <2>2
<1>6. rank \in Injection(S, 1..n)
  <2> HIDE DEF rank
  <2>1. QED
    BY <1>3, <1>5 DEF Injection, IsInjective
<1>7. IsFiniteSet(1..n) /\ Cardinality(1..n) = n
  BY <1>1, FS_Interval
<1>8. rank \in Surjection(S, 1..n)
  <2> HIDE DEF rank
  <2>1. QED
    BY <1>6, <1>7, FS_Injection
<1>9. \A k \in 1..n : \E x \in S : rank[x] = k
  <2> HIDE DEF rank
  <2>1. QED
    BY <1>8 DEF Surjection
<1>10. \A k \in 1..n : Ascending(S)[k] \in S /\ Cardinality(below(Ascending(S)[k])) = k
  <2> TAKE k \in 1..n
  <2>1. PICK x \in S : Cardinality(below(x)) = k
    BY <1>9
  <2>2. Ascending(S)[k] = CHOOSE y \in S : Cardinality(below(y)) = k
    BY DEF Ascending
  <2> HIDE DEF below
  <2>3. QED
    BY <2>1, <2>2
<1>11. Ascending(S) \in [1..n -> S] /\ DOMAIN Ascending(S) = 1..n
  <2>1. \A k \in 1..n : Ascending(S)[k] \in S
    BY <1>10
  <2>2. QED
    BY <2>1 DEF Ascending
<1>12. QED
  BY <1>1, <1>2, <1>4, <1>10, <1>11

LEMMA AscendingLists ==
  ASSUME NEW S \in SUBSET Nat, IsFiniteSet(S)
  PROVE  /\ Ascending(S) \in Seq(S)
         /\ Range(Ascending(S)) = S
         /\ IsInjective(Ascending(S))
         /\ \A j, k \in DOMAIN Ascending(S) : j < k => Ascending(S)[j] < Ascending(S)[k]
<1> DEFINE n == Cardinality(S)
           rank == [x \in S |-> Cardinality({y \in S : y <= x})]
           A == Ascending(S)
<1>1. /\ n \in Nat /\ A \in [1..n -> S]
      /\ \A x \in S : rank[x] \in 1..n
      /\ \A x, y \in S : x < y => rank[x] < rank[y]
      /\ \A k \in 1..n : A[k] \in S /\ rank[A[k]] = k
  BY AscendingRanks
<1> HIDE DEF n, rank, A
<1>3. \A x, y \in S : x < y \/ y < x \/ x = y
  OBVIOUS
<1>4. A \in Seq(S)
  BY <1>1
<1>5. ASSUME NEW x \in S PROVE A[rank[x]] = x
  <2>1. rank[x] \in 1..n
    BY <1>1
  <2> DEFINE y == A[rank[x]]
  <2>2. y \in S /\ rank[y] = rank[x]
    BY <1>1, <2>1
  <2> HIDE DEF y
  <2>3. ~ (x < y) /\ ~ (y < x)
    <3>1. rank[x] \in Int
      BY <1>1, <2>1
    <3>2. x < y => rank[x] < rank[y]
      BY <1>1, <2>2
    <3>3. y < x => rank[y] < rank[x]
      BY <1>1, <2>2
    <3>4. QED
      BY <2>2, <3>1, <3>2, <3>3
  <2>4. y = x
    BY <1>3, <2>2, <2>3
  <2>5. QED
    BY <2>4 DEF y
<1>6. Range(A) = S
  <2>1. Range(A) = {A[k] : k \in 1..n}
    BY <1>1 DEF Range
  <2>2. \A x \in S : rank[x] \in 1..n /\ x = A[rank[x]]
    BY <1>1, <1>5
  <2>3. \A k \in 1..n : A[k] \in S
    BY <1>1
  <2>4. QED
    BY <2>1, <2>2, <2>3
<1>7. IsInjective(A)
  BY <1>1 DEF IsInjective
<1>8. ASSUME NEW j \in 1..n, NEW k \in 1..n, j < k PROVE A[j] < A[k]
  <2>1. A[j] \in S /\ rank[A[j]] = j /\ A[k] \in S /\ rank[A[k]] = k
    BY <1>1
  <2>2. A[k] < A[j] => rank[A[k]] < rank[A[j]]
    BY <1>1, <2>1
  <2>3. A[k] # A[j] /\ ~ (A[k] < A[j])
    BY <1>1, <1>8, <2>1, <2>2
  <2>4. QED
    BY <1>3, <2>1, <2>3
<1>9. QED
  BY <1>1, <1>4, <1>6, <1>7, <1>8 DEF A

(* A number above all the others is listed last.                           *)
LEMMA AscendingAppend ==
  ASSUME NEW S \in SUBSET Nat, IsFiniteSet(S), NEW n \in Nat, \A x \in S : x < n
  PROVE  Ascending(S \cup {n}) = Append(Ascending(S), n)
<1> DEFINE T == S \cup {n}
           c == Cardinality(S)
           rank == [x \in S |-> Cardinality({y \in S : y <= x})]
           rankT == [x \in T |-> Cardinality({y \in T : y <= x})]
           A == Ascending(S)
           B == Ascending(T)
<1>1. T \in SUBSET Nat /\ IsFiniteSet(T) /\ Cardinality(T) = c + 1 /\ n \notin S
  BY FS_AddElement
<1>2. /\ c \in Nat /\ A \in [1..c -> S]
      /\ \A x \in S : rank[x] \in 1..c
      /\ \A x, y \in S : x < y => rank[x] < rank[y]
      /\ \A k \in 1..c : A[k] \in S /\ rank[A[k]] = k
  BY AscendingRanks
<1>3. /\ B \in [1..(c + 1) -> T]
      /\ \A k \in 1..(c + 1) : B[k] \in T /\ rankT[B[k]] = k
  <2> HIDE DEF T
  <2>1. QED
    BY <1>1, AscendingRanks
<1>4. \A x \in S : rankT[x] = rank[x]
  <2> TAKE x \in S
  <2>1. {y \in T : y <= x} = {y \in S : y <= x}
    OBVIOUS
  <2>2. QED
    BY <2>1
<1>5. rankT[n] = c + 1
  <2>1. \A y \in T : y <= n
    OBVIOUS
  <2>2. {y \in T : y <= n} = T
    BY <2>1
  <2>3. n \in T
    OBVIOUS
  <2>4. QED
    BY <1>1, <2>2, <2>3
<1>6. \A x, y \in S : x < y \/ y < x \/ x = y
  OBVIOUS
<1>8. A \in Seq(S)
  BY AscendingLists
<1> HIDE DEF c, rank, rankT, A, B, T
<1>9. ASSUME NEW k \in 1..c PROVE B[k] = A[k]
  <2>1. k \in 1..(c + 1) /\ k # c + 1
    BY <1>2
  <2>2. B[k] \in T /\ rankT[B[k]] = k
    BY <1>3, <2>1
  <2>3. B[k] \in S /\ rank[B[k]] = k
    <3>1. B[k] # n
      BY <1>5, <2>1, <2>2
    <3>2. B[k] \in S
      BY <2>2, <3>1 DEF T
    <3>3. QED
      BY <1>4, <2>2, <3>2
  <2>4. A[k] \in S /\ rank[A[k]] = k
    BY <1>2
  <2>5. k \in Int
    BY <1>2
  <2>6. A[k] < B[k] => rank[A[k]] < rank[B[k]]
    BY <1>2, <2>3, <2>4
  <2>7. B[k] < A[k] => rank[B[k]] < rank[A[k]]
    BY <1>2, <2>3, <2>4
  <2>8. ~ (A[k] < B[k]) /\ ~ (B[k] < A[k])
    BY <2>3, <2>4, <2>5, <2>6, <2>7
  <2>9. QED
    BY <1>6, <2>3, <2>4, <2>8
<1>10. B[c + 1] = n
  <2>1. c + 1 \in 1..(c + 1)
    BY <1>2
  <2>2. B[c + 1] \in T /\ rankT[B[c + 1]] = c + 1
    BY <1>3, <2>1
  <2>3. B[c + 1] \notin S
    <3> SUFFICES ASSUME B[c + 1] \in S PROVE FALSE
      OBVIOUS
    <3>1. rank[B[c + 1]] \in 1..c
      BY <1>2
    <3>2. rank[B[c + 1]] = c + 1
      BY <1>4, <2>2
    <3>3. QED
      BY <1>2, <3>1, <3>2
  <2>4. QED
    BY <2>2, <2>3 DEF T
<1>11. A \in Seq(Nat) /\ Len(A) = c
  <2>1. c \in Nat /\ A \in [1..c -> Nat]
    BY <1>2
  <2>2. QED
    BY <2>1, FunctionIsSeq
<1>12. B = Append(A, n)
  <2>1. B \in Seq(Nat) /\ Len(B) = c + 1
    <3> DEFINE m == c + 1
    <3>1. m \in Nat
      BY <1>2
    <3>2. B \in [1..m -> T]
      BY <1>3
    <3> HIDE DEF m
    <3>3. B \in [1..m -> Nat]
      BY <1>1, <3>2
    <3>4. B \in Seq(Nat) /\ Len(B) = m
      BY <3>1, <3>3, FunctionIsSeq
    <3>5. QED
      BY <3>4 DEF m
  <2>2. /\ Append(A, n) \in Seq(Nat) /\ Len(Append(A, n)) = c + 1
        /\ Append(A, n)[c + 1] = n
        /\ \A k \in 1..c : Append(A, n)[k] = A[k]
    BY <1>11, AppendProperties
  <2>3. \A k \in 1..(c + 1) : k = c + 1 \/ k \in 1..c
    BY <1>2
  <2>4. \A k \in 1..(c + 1) : B[k] = Append(A, n)[k]
    BY <1>9, <1>10, <2>2, <2>3
  <2> DEFINE C == Append(A, n)
  <2> HIDE DEF C
  <2>5. C \in Seq(Nat) /\ Len(C) = Len(B) /\ \A k \in 1..Len(B) : B[k] = C[k]
    BY <2>1, <2>2, <2>4 DEF C
  <2>6. B = C
    BY <2>1, <2>5, SeqEqual
  <2>7. QED
    BY <2>6 DEF C
<1>13. QED
  BY <1>12 DEF A, B, T
=============================================================================

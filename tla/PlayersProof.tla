---------------------------- MODULE PlayersProof ----------------------------
(***************************************************************************)
(* What Players promises, for any number of envs and of players: each step *)
(* is handed the actions of its env's own players.                         *)
(***************************************************************************)
EXTENDS Players, FiniteSetTheorems, SequenceTheorems, WellFoundedInduction, TLAPS

----------------------------------------------------------------------------
(* Induction over a set of numbers, from the well-foundedness of < *)

\* Every nonempty set of numbers has a least element.
LEMMA LeastElement ==
  ASSUME NEW T \in SUBSET Nat, T # {}
  PROVE  \E n \in T : \A m \in T : n <= m
<1>1. PICK R : R = OpToRel(<, Nat) OBVIOUS
<1>2. IsWellFoundedOn(R, Nat) BY <1>1, NatLessThanWellFounded
<1>3. PICK x \in T : \A y \in T : ~ (<<y, x>> \in R) BY <1>2, WFMin
<1>4. \A x1, y1 \in Nat : <<y1, x1>> \in R <=> y1 < x1 BY <1>1 DEF OpToRel
<1>5. \A y \in T : ~ (y < x) BY <1>3, <1>4
<1> QED BY <1>5

\* A set that has 0, and n + 1 with n, has every number.
LEMMA SetInduction ==
  ASSUME NEW S, 0 \in S, \A n \in Nat : n \in S => n + 1 \in S
  PROVE  \A n \in Nat : n \in S
<1>1. SUFFICES ASSUME NEW n \in Nat, n \notin S PROVE FALSE OBVIOUS
<1> DEFINE T == {m \in Nat : m \notin S}
<1>2. PICK k \in T : \A m \in T : k <= m BY LeastElement, <1>1
<1>3. k # 0 BY <1>2
<1>4. k - 1 \in Nat /\ k - 1 \in S BY <1>2, <1>3
<1> QED BY <1>4, <1>2

----------------------------------------------------------------------------
(* Increasing functions *)

\* An increasing function of numbers grows by one or more with each argument.
LEMMA Gap ==
  ASSUME NEW n \in Nat, NEW p \in [1..n -> Nat],
         \A i, j \in 1..n : i < j => p[i] < p[j]
  PROVE  \A i, j \in 1..n : i <= j => p[j] - p[i] >= j - i
<1> DEFINE S == {d \in Nat : \A i \in 1..n : i + d <= n => p[i + d] - p[i] >= d}
<1>1. 0 \in S
  <2>1. \A i \in 1..n : p[i] \in Nat OBVIOUS
  <2> QED BY <2>1
<1>2. ASSUME NEW d \in Nat, d \in S PROVE d + 1 \in S
  <2>1. SUFFICES ASSUME NEW i \in 1..n, i + (d + 1) <= n PROVE p[i + (d + 1)] - p[i] >= d + 1
    OBVIOUS
  <2>2. p[i + d] - p[i] >= d BY <1>2, <2>1
  <2>3. i + d \in 1..n /\ i + (d + 1) \in 1..n BY <2>1
  <2>4. p[i + d] < p[i + (d + 1)] BY <2>3
  <2>5. p[i] \in Nat /\ p[i + d] \in Nat /\ p[i + (d + 1)] \in Nat BY <2>3
  <2> QED BY <2>2, <2>4, <2>5
<1>3. \A d \in Nat : d \in S
  <2> HIDE DEF S
  <2> QED BY <1>1, <1>2, SetInduction
<1>4. TAKE i \in 1..n, j \in 1..n
<1>5. HAVE i <= j
<1>6. j - i \in Nat /\ i + (j - i) = j BY <1>5
<1>7. j - i \in S BY <1>3, <1>6
<1> QED BY <1>6, <1>7

\* The image of an increasing function has as many elements as its domain.
LEMMA ImageSize ==
  ASSUME NEW n \in Nat, NEW p \in [1..n -> Nat],
         \A i, j \in 1..n : i < j => p[i] < p[j]
  PROVE  LET S == {p[i] : i \in 1..n} IN IsFiniteSet(S) /\ Cardinality(S) = n
<1> DEFINE S == {p[i] : i \in 1..n}
<1>1. IsFiniteSet(1..n) /\ Cardinality(1..n) = n BY FS_Interval
<1>2. p \in Bijection(1..n, S)
  <2>1. p \in [1..n -> S] OBVIOUS
  <2>2. \A i, j \in 1..n : p[i] = p[j] => i = j
    <3>1. TAKE i \in 1..n, j \in 1..n
    <3>2. p[i] \in Nat /\ p[j] \in Nat OBVIOUS
    <3>3. i < j \/ j < i \/ i = j OBVIOUS
    <3> QED BY <3>2, <3>3
  <2>3. \A t \in S : \E i \in 1..n : p[i] = t OBVIOUS
  <2> QED BY <2>1, <2>2, <2>3 DEF Bijection, Injection, Surjection, IsInjective
<1> HIDE DEF S
<1>3. ExistsBijection(1..n, S) BY <1>2 DEF ExistsBijection
<1>4. IsFiniteSet(S) /\ Cardinality(S) = Cardinality(1..n)
  <2> DEFINE I == 1..n
  <2> HIDE DEF I
  <2>1. IsFiniteSet(I) /\ ExistsBijection(I, S) BY <1>1, <1>3 DEF I
  <2>2. IsFiniteSet(S) /\ Cardinality(S) = Cardinality(I) BY <2>1, FS_Bijection
  <2> QED BY <2>2 DEF I
<1> QED BY <1>1, <1>4 DEF S

----------------------------------------------------------------------------
(* FlattenSeq *)

\* The recursive function in FlattenSeq is what its definition says.
LEMMA FlattenUnfolds ==
  ASSUME NEW seqs, Len(seqs) \in Nat, Len(seqs) # 0
  PROVE  \E f : /\ f = [i \in 1..Len(seqs) |-> IF i = 1 THEN seqs[i] ELSE f[i-1] \o seqs[i]]
                /\ FlattenSeq(seqs) = f[Len(seqs)]
<1> DEFINE n == Len(seqs)
           Unfolds(f, m) == f = [i \in 1..m |-> IF i = 1 THEN seqs[i] ELSE f[i-1] \o seqs[i]]
           S == {m \in Nat : \E f : Unfolds(f, m)}
<1>1. 0 \in S
  <2>1. Unfolds([i \in 1..0 |-> 0], 0) OBVIOUS
  <2> QED BY <2>1
<1>2. ASSUME NEW m \in Nat, m \in S PROVE m + 1 \in S
  <2>1. PICK f : Unfolds(f, m) BY <1>2
  <2> DEFINE g == [i \in 1..(m+1) |-> IF i <= m THEN f[i] ELSE IF i = 1 THEN seqs[i] ELSE f[i-1] \o seqs[i]]
  <2>2. \A i \in 1..m : g[i] = f[i] OBVIOUS
  <2>3. ASSUME NEW i \in 1..(m+1) PROVE g[i] = IF i = 1 THEN seqs[i] ELSE g[i-1] \o seqs[i]
    <3>1. CASE i <= m
      <4>1. i \in 1..m BY <3>1
      <4>2. f[i] = IF i = 1 THEN seqs[i] ELSE f[i-1] \o seqs[i] BY <2>1, <4>1
      <4>3. i # 1 => i - 1 \in 1..m BY <4>1
      <4> QED BY <4>1, <4>2, <4>3, <2>2
    <3>2. CASE i = m + 1
      <4>1. ~(i <= m) BY <3>2
      <4>2. i # 1 => i - 1 \in 1..m BY <3>2
      <4>3. g[i] = IF i = 1 THEN seqs[i] ELSE f[i-1] \o seqs[i] BY <4>1
      <4> QED BY <4>2, <4>3, <2>2
    <3> QED BY <3>1, <3>2
  <2>4. Unfolds(g, m + 1)
    <3> DEFINE h == [i \in 1..(m+1) |-> IF i = 1 THEN seqs[i] ELSE g[i-1] \o seqs[i]]
    <3>1. \A i \in 1..(m+1) : g[i] = h[i] BY <2>3
    <3>2. g = [i \in 1..(m+1) |-> g[i]] /\ h = [i \in 1..(m+1) |-> h[i]] OBVIOUS
    <3> HIDE DEF g, h
    <3>3. g = h BY <3>1, <3>2
    <3> QED BY <3>3 DEF h
  <2>5. \E h : Unfolds(h, m + 1)
    <3> HIDE DEF Unfolds, g
    <3> QED BY <2>4
  <2>6. m + 1 \in Nat OBVIOUS
  <2> HIDE DEF Unfolds
  <2> QED BY <2>5, <2>6
<1>3. n \in S
  <2> HIDE DEF S
  <2> QED BY <1>1, <1>2, SetInduction
<1>4. \E f : Unfolds(f, n) BY <1>3
<1> DEFINE flatten == CHOOSE f : Unfolds(f, n)
<1>5. Unfolds(flatten, n) BY <1>4
<1>6. FlattenSeq(seqs) = flatten[n] BY DEF FlattenSeq
<1> QED BY <1>5, <1>6

\* off gives, for each of n sequences, the length of those before it.
Offsets(seqs, n, off) ==
  /\ off \in [1..(n + 1) -> Nat]
  /\ off[1] = 0
  /\ \A j \in 1..n : off[j + 1] = off[j] + Len(seqs[j])

\* flat is the n sequences one after the other.
Layout(seqs, n, off, flat) ==
  /\ Len(flat) = off[n + 1]
  /\ \A j \in 1..n : \A i \in 1..Len(seqs[j]) :
       off[j] + i \in 1..Len(flat) /\ flat[off[j] + i] = seqs[j][i]
  /\ \A k \in 1..Len(flat) : \E j \in 1..n : \E i \in 1..Len(seqs[j]) : k = off[j] + i

\* Offsets grow.
LEMMA OffsetsGrow ==
  ASSUME NEW T, NEW n \in Nat, NEW seqs \in [1..n -> Seq(T)], NEW off, Offsets(seqs, n, off)
  PROVE  \A i, j \in 1..(n + 1) : i <= j => off[i] <= off[j]
<1> DEFINE S == {d \in Nat : \A i \in 1..(n + 1) : i + d <= n + 1 => off[i] <= off[i + d]}
<1>1. 0 \in S
  <2>1. \A i \in 1..(n + 1) : off[i] \in Nat BY DEF Offsets
  <2> QED BY <2>1
<1>2. ASSUME NEW d \in Nat, d \in S PROVE d + 1 \in S
  <2>1. SUFFICES ASSUME NEW i \in 1..(n + 1), i + (d + 1) <= n + 1 PROVE off[i] <= off[i + (d + 1)]
    OBVIOUS
  <2>2. off[i] <= off[i + d] BY <1>2, <2>1
  <2>3. i + d \in 1..n /\ i + (d + 1) = (i + d) + 1 BY <2>1
  <2>4. off[(i + d) + 1] = off[i + d] + Len(seqs[i + d]) BY <2>3 DEF Offsets
  <2>5. Len(seqs[i + d]) \in Nat BY <2>3
  <2>6. off[i] \in Nat /\ off[i + d] \in Nat BY <2>3 DEF Offsets
  <2> QED BY <2>2, <2>3, <2>4, <2>5, <2>6
<1>3. \A d \in Nat : d \in S
  <2> HIDE DEF S
  <2> QED BY <1>1, <1>2, SetInduction
<1>4. TAKE i \in 1..(n + 1), j \in 1..(n + 1)
<1>5. HAVE i <= j
<1>6. j - i \in Nat /\ i + (j - i) = j BY <1>5
<1>7. j - i \in S BY <1>3, <1>6
<1> QED BY <1>6, <1>7

\* Sequences of the same lengths have the same offsets.
LEMMA OffsetsSame ==
  ASSUME NEW n \in Nat, NEW seqs, NEW segs, \A j \in 1..n : Len(seqs[j]) = Len(segs[j]),
         NEW off, Offsets(seqs, n, off), NEW oth, Offsets(segs, n, oth)
  PROVE  off = oth
<1> DEFINE S == {d \in Nat : d <= n => off[d + 1] = oth[d + 1]}
<1>1. 0 \in S BY DEF Offsets
<1>2. ASSUME NEW d \in Nat, d \in S PROVE d + 1 \in S
  <2>1. SUFFICES ASSUME d + 1 <= n PROVE off[(d + 1) + 1] = oth[(d + 1) + 1] OBVIOUS
  <2>2. off[d + 1] = oth[d + 1] BY <1>2, <2>1
  <2>3. d + 1 \in 1..n BY <2>1
  <2> QED BY <2>2, <2>3 DEF Offsets
<1>3. \A d \in Nat : d \in S
  <2> HIDE DEF S
  <2> QED BY <1>1, <1>2, SetInduction
<1>4. ASSUME NEW j \in 1..(n + 1) PROVE off[j] = oth[j]
  <2>1. j - 1 \in Nat /\ j - 1 <= n /\ (j - 1) + 1 = j OBVIOUS
  <2>2. j - 1 \in S BY <1>3, <2>1
  <2> QED BY <2>1, <2>2
<1> QED BY <1>4 DEF Offsets

\* FlattenSeq puts its sequences one after the other.
LEMMA FlattenLayout ==
  ASSUME NEW T, NEW n \in Nat \ {0}, NEW seqs \in [1..n -> Seq(T)]
  PROVE  /\ FlattenSeq(seqs) \in Seq(T)
         /\ \E off : Offsets(seqs, n, off) /\ Layout(seqs, n, off, FlattenSeq(seqs))
<1>1. seqs \in Seq(Seq(T)) /\ Len(seqs) = n /\ n # 0 OBVIOUS
<1>2. PICK f : /\ f = [i \in 1..n |-> IF i = 1 THEN seqs[i] ELSE f[i-1] \o seqs[i]]
               /\ FlattenSeq(seqs) = f[n]
  <2> HIDE DEF FlattenSeq
  <2>1. \E f : /\ f = [i \in 1..Len(seqs) |-> IF i = 1 THEN seqs[i] ELSE f[i-1] \o seqs[i]]
               /\ FlattenSeq(seqs) = f[Len(seqs)] BY <1>1, FlattenUnfolds
  <2> QED BY <1>1, <2>1
<1> DEFINE off == [j \in 1..(n + 1) |-> IF j = 1 THEN 0 ELSE Len(f[j - 1])]
<1>3. f[1] = seqs[1] BY <1>2, 1 \in 1..n
<1>4. ASSUME NEW j \in 1..n, j # 1 PROVE f[j] = f[j - 1] \o seqs[j]
  <2> QED BY <1>2, <1>4
<1> DEFINE S == {m \in Nat : m + 1 \in 1..n =>
                   /\ f[m + 1] \in Seq(T)
                   /\ Len(f[m + 1]) = off[m + 1] + Len(seqs[m + 1])
                   /\ Layout(seqs, m + 1, off, f[m + 1])}
<1>5. 0 \in S
  <2>1. seqs[1] \in Seq(T) /\ Len(seqs[1]) \in Nat BY 1 \in 1..n
  <2>2. off[1] = 0 /\ off[1 + 1] = Len(f[1]) BY 1 \in 1..(n + 1), 2 \in 1..(n + 1)
  <2>3. Layout(seqs, 1, off, f[1])
    <3> HIDE DEF off
    <3>1. Len(f[1]) = off[1 + 1] BY <2>2
    <3>2. ASSUME NEW j \in 1..1, NEW i \in 1..Len(seqs[j])
          PROVE  off[j] + i \in 1..Len(f[1]) /\ f[1][off[j] + i] = seqs[j][i]
      <4>1. j = 1 OBVIOUS
      <4>2. off[j] + i = i BY <4>1, <2>1, <2>2
      <4> QED BY <4>1, <4>2, <1>3
    <3>3. ASSUME NEW k \in 1..Len(f[1])
          PROVE  \E j \in 1..1 : \E i \in 1..Len(seqs[j]) : k = off[j] + i
      <4>1. k \in 1..Len(seqs[1]) /\ k = off[1] + k BY <1>3, <2>1, <2>2
      <4> QED BY <4>1
    <3> QED BY <3>1, <3>2, <3>3 DEF Layout
  <2> HIDE DEF off
  <2> QED BY <2>1, <2>2, <2>3, <1>3
<1>6. ASSUME NEW m \in Nat, m \in S PROVE m + 1 \in S
  <2>1. SUFFICES ASSUME (m + 1) + 1 \in 1..n
        PROVE  /\ f[(m + 1) + 1] \in Seq(T)
               /\ Len(f[(m + 1) + 1]) = off[(m + 1) + 1] + Len(seqs[(m + 1) + 1])
               /\ Layout(seqs, (m + 1) + 1, off, f[(m + 1) + 1])
    OBVIOUS
  <2>2. PICK h \in 1..n : h = m + 1 /\ h + 1 \in 1..n BY <2>1
  <2>3. f[h] \in Seq(T) /\ Layout(seqs, h, off, f[h]) BY <1>6, <2>2
  <2>4. f[h + 1] = f[h] \o seqs[h + 1]
    <3>1. h + 1 \in 1..n /\ h + 1 # 1 /\ (h + 1) - 1 = h BY <2>2
    <3>2. f[h + 1] = f[(h + 1) - 1] \o seqs[h + 1] BY <1>4, <3>1
    <3> QED BY <3>1, <3>2
  <2>5. seqs[h + 1] \in Seq(T) /\ Len(seqs[h + 1]) \in Nat BY <2>2
  <2>6. off[h + 1] = Len(f[h]) /\ off[(h + 1) + 1] = Len(f[h + 1])
    <3>1. h + 1 \in 1..(n + 1) /\ (h + 1) + 1 \in 1..(n + 1) BY <2>2
    <3> QED BY <3>1
  <2>7. f[h + 1] \in Seq(T) /\ Len(f[h + 1]) = Len(f[h]) + Len(seqs[h + 1])
    BY <2>3, <2>4, <2>5, ConcatProperties
  <2>8. \A i \in 1..Len(f[h + 1]) :
          f[h + 1][i] = IF i <= Len(f[h]) THEN f[h][i] ELSE seqs[h + 1][i - Len(f[h])]
    BY <2>3, <2>4, <2>5, ConcatProperties
  <2>9. PICK a \in Nat, b \in Nat : a = Len(f[h]) /\ b = Len(seqs[h + 1]) /\ Len(f[h + 1]) = a + b
    <3>1. Len(f[h]) \in Nat BY <2>3
    <3> QED BY <3>1, <2>5, <2>7
  <2> HIDE DEF off
  <2>10. Layout(seqs, h + 1, off, f[h + 1])
    <3>1. Len(f[h + 1]) = off[(h + 1) + 1] BY <2>6
    <3>2. ASSUME NEW j \in 1..(h + 1), NEW i \in 1..Len(seqs[j])
          PROVE  off[j] + i \in 1..Len(f[h + 1]) /\ f[h + 1][off[j] + i] = seqs[j][i]
      <4>1. CASE j \in 1..h
        <5>1. off[j] + i \in 1..Len(f[h]) /\ f[h][off[j] + i] = seqs[j][i] BY <2>3, <4>1 DEF Layout
        <5>2. PICK k \in 1..a : k = off[j] + i BY <5>1, <2>9
        <5>3. k \in 1..(a + b) /\ k <= a OBVIOUS
        <5> QED BY <5>1, <5>2, <5>3, <2>8, <2>9
      <4>2. CASE j = h + 1
        <5>1. off[j] = a BY <4>2, <2>6, <2>9
        <5>2. i \in 1..b BY <4>2, <2>9
        <5>3. a + i \in 1..(a + b) /\ ~(a + i <= a) /\ (a + i) - a = i BY <5>2
        <5>4. f[h + 1][a + i] = IF a + i <= a THEN f[h][a + i] ELSE seqs[h + 1][(a + i) - a]
          BY <5>3, <2>8, <2>9
        <5>5. f[h + 1][a + i] = seqs[h + 1][i] BY <5>3, <5>4
        <5> QED BY <5>1, <5>3, <5>5, <4>2, <2>9
      <4>3. j \in 1..h \/ j = h + 1 BY <2>2
      <4> QED BY <4>1, <4>2, <4>3
    <3>3. ASSUME NEW k \in 1..Len(f[h + 1])
          PROVE  \E j \in 1..(h + 1) : \E i \in 1..Len(seqs[j]) : k = off[j] + i
      <4>1. CASE k <= Len(f[h])
        <5>1. k \in 1..Len(f[h]) BY <4>1, <2>9
        <5>2. PICK j \in 1..h : \E i \in 1..Len(seqs[j]) : k = off[j] + i BY <5>1, <2>3 DEF Layout
        <5>3. j \in 1..(h + 1) BY <5>2
        <5> QED BY <5>2, <5>3
      <4>2. CASE ~(k <= Len(f[h]))
        <5>1. k \in 1..(a + b) /\ ~(k <= a) BY <4>2, <2>9
        <5>2. k - a \in 1..b /\ k = a + (k - a) BY <5>1
        <5>4. k - a \in 1..Len(seqs[h + 1]) /\ k = off[h + 1] + (k - a) BY <5>2, <2>6, <2>9
        <5>3. h + 1 \in 1..(h + 1) BY <2>2
        <5> QED BY <5>3, <5>4
      <4> QED BY <4>1, <4>2
    <3> QED BY <3>1, <3>2, <3>3 DEF Layout
  <2> QED BY <2>2, <2>6, <2>7, <2>10
<1>7. \A m \in Nat : m \in S
  <2> HIDE DEF S
  <2> QED BY <1>5, <1>6, SetInduction
<1>8. \A j \in 1..n : /\ f[j] \in Seq(T)
                      /\ Len(f[j]) = off[j] + Len(seqs[j])
                      /\ Layout(seqs, j, off, f[j])
  <2>1. TAKE j \in 1..n
  <2>2. j - 1 \in Nat /\ (j - 1) + 1 = j OBVIOUS
  <2>3. j - 1 \in S BY <1>7, <2>2
  <2> HIDE DEF off
  <2> QED BY <2>2, <2>3
<1>9. Offsets(seqs, n, off)
  <2>1. off \in [1..(n + 1) -> Nat]
    <3>1. ASSUME NEW j \in 1..(n + 1) PROVE (IF j = 1 THEN 0 ELSE Len(f[j - 1])) \in Nat
      <4>1. CASE j = 1 BY <4>1
      <4>2. CASE j # 1
        <5>1. j - 1 \in 1..n BY <4>2
        <5>2. f[j - 1] \in Seq(T) BY <5>1, <1>8
        <5> QED BY <4>2, <5>2
      <4> QED BY <4>1, <4>2
    <3> QED BY <3>1
  <2>2. off[1] = 0 BY 1 \in 1..(n + 1)
  <2>3. ASSUME NEW j \in 1..n PROVE off[j + 1] = off[j] + Len(seqs[j])
    <3>1. off[j + 1] = Len(f[j])
      <4>1. j + 1 \in 1..(n + 1) /\ j + 1 # 1 /\ (j + 1) - 1 = j OBVIOUS
      <4> QED BY <4>1
    <3> HIDE DEF off
    <3> QED BY <3>1, <1>8
  <2> HIDE DEF off
  <2> QED BY <2>1, <2>2, <2>3 DEF Offsets
<1>10. f[n] \in Seq(T) /\ Layout(seqs, n, off, f[n])
  <2> HIDE DEF off
  <2> QED BY <1>8, n \in 1..n
<1> HIDE DEF off
<1> QED BY <1>2, <1>9, <1>10

----------------------------------------------------------------------------
(* The rows of the players of some envs *)

\* A list of envs names each of them once.
LEMMA ListsType ==
  ASSUME NEW l \in Lists
  PROVE  \E n \in Nat \ {0} : /\ l \in [1..n -> Envs] /\ Len(l) = n /\ DOMAIN l = 1..n
                              /\ \A j, k \in 1..n : l[j] = l[k] => j = k
<1>1. Cardinality(Envs) \in Nat BY ConstantsAssumption, FS_CardinalityType
<1>2. PICK n \in 1..Cardinality(Envs) :
        l \in {x \in [1..n -> Envs] : \A j, k \in 1..n : x[j] = x[k] => j = k}
  BY DEF Lists
<1>3. n \in Nat \ {0} BY <1>1, <1>2
<1>4. l \in [1..n -> Envs] /\ \A j, k \in 1..n : l[j] = l[k] => j = k BY <1>2
<1>5. Len(l) = n /\ DOMAIN l = 1..n BY <1>3, <1>4
<1> QED BY <1>3, <1>4, <1>5

\* Env by env, the rows of each env are in order.
LEMMA ByEnvInOrder ==
  ASSUME NEW l \in Lists, players \in [Envs -> Nat]
  PROVE  /\ RowsByEnv(l) \in Seq(Row)
         /\ \A j \in DOMAIN l : InOrder(l[j], players[l[j]], RowsByEnv(l))
<1>1. PICK n \in Nat \ {0} : /\ l \in [1..n -> Envs] /\ Len(l) = n /\ DOMAIN l = 1..n
                             /\ \A j, k \in 1..n : l[j] = l[k] => j = k
  BY ListsType
<1> DEFINE seqs == [j \in 1..n |-> [k \in 1..players[l[j]] |-> <<l[j], k>>]]
           rows == FlattenSeq(seqs)
<1>2. ASSUME NEW j \in 1..n
      PROVE  /\ players[l[j]] \in Nat /\ seqs[j] \in Seq(Row) /\ Len(seqs[j]) = players[l[j]]
             /\ \A k \in 1..players[l[j]] : seqs[j][k] = <<l[j], k>>
  <2>1. l[j] \in Envs /\ players[l[j]] \in Nat BY <1>1
  <2>2. \A k \in 1..players[l[j]] : <<l[j], k>> \in Row BY <2>1 DEF Row
  <2>3. seqs[j] \in [1..players[l[j]] -> Row] BY <2>2
  <2> QED BY <2>1, <2>3
<1>3. seqs \in [1..n -> Seq(Row)] BY <1>2
<1>4. rows = RowsByEnv(l) BY <1>1 DEF RowsByEnv
<1> HIDE DEF seqs, rows
<1>5. rows \in Seq(Row) /\ \E off : Offsets(seqs, n, off) /\ Layout(seqs, n, off, rows)
  BY <1>3, FlattenLayout DEF rows
<1>6. PICK off : Offsets(seqs, n, off) /\ Layout(seqs, n, off, rows) BY <1>5
<1>7. DOMAIN rows = 1..Len(rows) BY <1>5
<1>8. ASSUME NEW j \in 1..n PROVE InOrder(l[j], players[l[j]], rows)
  <2> DEFINE c == players[l[j]]
             p == [k \in 1..c |-> off[j] + k]
  <2>1. c \in Nat /\ off[j] \in Nat BY <1>2, <1>6 DEF Offsets
  <2>2. ASSUME NEW k \in 1..c PROVE p[k] \in DOMAIN rows /\ rows[p[k]] = <<l[j], k>>
    <3>1. k \in 1..Len(seqs[j]) /\ seqs[j][k] = <<l[j], k>> BY <1>2
    <3>2. off[j] + k \in 1..Len(rows) /\ rows[off[j] + k] = seqs[j][k] BY <3>1, <1>6 DEF Layout
    <3>3. p[k] = off[j] + k OBVIOUS
    <3> HIDE DEF p
    <3> QED BY <3>1, <3>2, <3>3, <1>7
  <2>3. p \in [1..c -> DOMAIN rows] BY <2>2
  <2>4. \A i, k \in 1..c : i < k => p[i] < p[k] BY <2>1
  <2>5. ASSUME NEW k \in DOMAIN rows, rows[k][1] = l[j] PROVE \E i \in 1..c : p[i] = k
    <3>1. PICK m \in 1..n : \E i \in 1..Len(seqs[m]) : k = off[m] + i BY <1>6, <1>7 DEF Layout
    <3>2. PICK i \in 1..players[l[m]] : k = off[m] + i BY <3>1, <1>2
    <3>3. rows[k] = <<l[m], i>>
      <4>1. i \in 1..Len(seqs[m]) /\ seqs[m][i] = <<l[m], i>> BY <3>2, <1>2
      <4>2. rows[off[m] + i] = seqs[m][i] BY <4>1, <1>6 DEF Layout
      <4> QED BY <4>1, <4>2, <3>2
    <3>4. l[m] = l[j] BY <3>3, <2>5
    <3>5. m = j BY <3>4, <1>1
    <3> QED BY <3>2, <3>5
  <2> HIDE DEF c, p
  <2>6. InOrder(l[j], c, rows) BY <2>2, <2>3, <2>4, <2>5 DEF InOrder
  <2> QED BY <2>6 DEF c
<1> QED BY <1>1, <1>4, <1>5, <1>8

\* The rows of the k-th players: one for each env that has one.
KthRows(l, k) ==
  FlattenSeq([j \in DOMAIN l |-> IF k <= players[l[j]] THEN <<<<l[j], k>>>> ELSE <<>>])

LEMMA KthPlayers ==
  ASSUME NEW l \in Lists, players \in [Envs -> Nat], NEW k \in Nat
  PROVE  /\ KthRows(l, k) \in Seq(Envs \X {k})
         /\ \A j \in DOMAIN l : k <= players[l[j]] =>
              \E q \in 1..Len(KthRows(l, k)) :
                /\ KthRows(l, k)[q] = <<l[j], k>>
                /\ \A r \in 1..Len(KthRows(l, k)) : KthRows(l, k)[r][1] = l[j] => r = q
         /\ \A q \in 1..Len(KthRows(l, k)) :
              \E j \in DOMAIN l : k <= players[l[j]] /\ KthRows(l, k)[q] = <<l[j], k>>
<1>1. PICK n \in Nat \ {0} : /\ l \in [1..n -> Envs] /\ Len(l) = n /\ DOMAIN l = 1..n
                             /\ \A j, i \in 1..n : l[j] = l[i] => j = i
  BY ListsType
<1> DEFINE seqs == [j \in 1..n |-> IF k <= players[l[j]] THEN <<<<l[j], k>>>> ELSE <<>>]
           rows == FlattenSeq(seqs)
           T == Envs \X {k}
<1>2. ASSUME NEW j \in 1..n
      PROVE  /\ seqs[j] \in Seq(T)
             /\ k <= players[l[j]] => Len(seqs[j]) = 1 /\ seqs[j][1] = <<l[j], k>>
             /\ ~(k <= players[l[j]]) => Len(seqs[j]) = 0
  <2>1. l[j] \in Envs /\ <<l[j], k>> \in T BY <1>1
  <2>2. CASE k <= players[l[j]]
    <3>1. seqs[j] = <<<<l[j], k>>>> BY <2>2
    <3> HIDE DEF seqs, T
    <3> QED BY <3>1, <2>1, <2>2
  <2>3. CASE ~(k <= players[l[j]])
    <3>1. seqs[j] = <<>> BY <2>3
    <3> HIDE DEF seqs, T
    <3> QED BY <3>1, <2>3
  <2> QED BY <2>2, <2>3
<1>3. seqs \in [1..n -> Seq(T)] BY <1>2
<1> HIDE DEF seqs, rows, T
<1>4. rows \in Seq(T) /\ \E off : Offsets(seqs, n, off) /\ Layout(seqs, n, off, rows)
  BY <1>3, FlattenLayout DEF rows
<1>5. PICK off : Offsets(seqs, n, off) /\ Layout(seqs, n, off, rows) BY <1>4
<1>6. ASSUME NEW q \in 1..Len(rows)
      PROVE  \E j \in 1..n : k <= players[l[j]] /\ q = off[j] + 1 /\ rows[q] = <<l[j], k>>
  <2>1. PICK j \in 1..n : \E i \in 1..Len(seqs[j]) : q = off[j] + i BY <1>5 DEF Layout
  <2>2. PICK i \in 1..Len(seqs[j]) : q = off[j] + i BY <2>1
  <2>3. k <= players[l[j]] /\ Len(seqs[j]) = 1 /\ i = 1
    <3>1. CASE k <= players[l[j]]
      <4>1. Len(seqs[j]) = 1 BY <3>1, <1>2
      <4> QED BY <3>1, <4>1, <2>2
    <3>2. CASE ~(k <= players[l[j]])
      <4>1. Len(seqs[j]) = 0 BY <3>2, <1>2
      <4> QED BY <4>1, <2>2
    <3> QED BY <3>1, <3>2
  <2>4. rows[off[j] + i] = seqs[j][i] BY <1>5, <2>2 DEF Layout
  <2> QED BY <2>2, <2>3, <2>4, <1>2
<1>7. ASSUME NEW j \in 1..n, k <= players[l[j]]
      PROVE  \E q \in 1..Len(rows) : /\ rows[q] = <<l[j], k>>
                                     /\ \A r \in 1..Len(rows) : rows[r][1] = l[j] => r = q
  <2>1. 1 \in 1..Len(seqs[j]) /\ seqs[j][1] = <<l[j], k>> BY <1>2, <1>7
  <2>2. off[j] + 1 \in 1..Len(rows) /\ rows[off[j] + 1] = <<l[j], k>> BY <1>5, <2>1 DEF Layout
  <2>3. ASSUME NEW r \in 1..Len(rows), rows[r][1] = l[j] PROVE r = off[j] + 1
    <3>1. PICK m \in 1..n : r = off[m] + 1 /\ rows[r] = <<l[m], k>> BY <1>6
    <3>2. l[m] = l[j] BY <3>1, <2>3
    <3>3. m = j BY <3>2, <1>1
    <3> QED BY <3>1, <3>3
  <2> QED BY <2>2, <2>3
<1>8. rows = KthRows(l, k) BY <1>1 DEF rows, seqs, KthRows
<1>9. \A j \in DOMAIN l : k <= players[l[j]] =>
        \E q \in 1..Len(rows) : /\ rows[q] = <<l[j], k>>
                                /\ \A r \in 1..Len(rows) : rows[r][1] = l[j] => r = q
  BY <1>1, <1>7
<1>10. \A q \in 1..Len(rows) : \E j \in DOMAIN l : k <= players[l[j]] /\ rows[q] = <<l[j], k>>
  BY <1>1, <1>6
<1>11. rows \in Seq(Envs \X {k}) BY <1>4 DEF T
<1> QED BY <1>8, <1>9, <1>10, <1>11

\* Player by player too, the rows of each env are in order.
LEMMA ByPlayerInOrder ==
  ASSUME NEW l \in Lists, players \in [Envs -> Nat],
         \A j \in DOMAIN l : players[l[j]] <= MaxNumPlayers
  PROVE  /\ RowsByPlayer(l) \in Seq(Row)
         /\ \A j \in DOMAIN l : InOrder(l[j], players[l[j]], RowsByPlayer(l))
<1>1. MaxNumPlayers \in Nat \ {0} BY ConstantsAssumption
<1> DEFINE N == MaxNumPlayers
           seqs == [k \in 1..N |-> KthRows(l, k)]
           rows == FlattenSeq(seqs)
<1>2. rows = RowsByPlayer(l) BY DEF RowsByPlayer, KthRows
<1>3. ASSUME NEW k \in 1..N
      PROVE  /\ seqs[k] = KthRows(l, k) /\ seqs[k] \in Seq(Row)
             /\ \A j \in DOMAIN l : k <= players[l[j]] =>
                  \E q \in 1..Len(seqs[k]) :
                    /\ seqs[k][q] = <<l[j], k>>
                    /\ \A r \in 1..Len(seqs[k]) : seqs[k][r][1] = l[j] => r = q
             /\ \A q \in 1..Len(seqs[k]) :
                  \E j \in DOMAIN l : k <= players[l[j]] /\ seqs[k][q] = <<l[j], k>>
  <2>1. seqs[k] = KthRows(l, k) /\ k \in Nat BY <1>1
  <2> HIDE DEF seqs
  <2>2. Seq(Envs \X {k}) \subseteq Seq(Row)
    <3>1. Envs \X {k} \subseteq Row BY <2>1 DEF Row
    <3> QED BY <3>1, SeqMonotonic
  <2>3. seqs[k] \in Seq(Row) BY <2>1, <2>2, KthPlayers
  <2>4. ASSUME NEW j \in DOMAIN l, k <= players[l[j]]
        PROVE  \E q \in 1..Len(seqs[k]) :
                 /\ seqs[k][q] = <<l[j], k>>
                 /\ \A r \in 1..Len(seqs[k]) : seqs[k][r][1] = l[j] => r = q
    <3>1. \E q \in 1..Len(KthRows(l, k)) :
            /\ KthRows(l, k)[q] = <<l[j], k>>
            /\ \A r \in 1..Len(KthRows(l, k)) : KthRows(l, k)[r][1] = l[j] => r = q
      BY <2>1, <2>4, KthPlayers
    <3> QED BY <2>1, <3>1, Zenon
  <2>5. \A q \in 1..Len(KthRows(l, k)) :
          \E j \in DOMAIN l : k <= players[l[j]] /\ KthRows(l, k)[q] = <<l[j], k>>
    BY <2>1, KthPlayers
  <2>6. \A q \in 1..Len(seqs[k]) : \E j \in DOMAIN l : k <= players[l[j]] /\ seqs[k][q] = <<l[j], k>>
    BY <2>1, <2>5, Zenon
  <2> QED BY <2>1, <2>3, <2>4, <2>6
<1>4. seqs \in [1..N -> Seq(Row)] BY <1>3
<1> HIDE DEF seqs, rows
<1>5. rows \in Seq(Row) /\ \E off : Offsets(seqs, N, off) /\ Layout(seqs, N, off, rows)
  BY <1>1, <1>4, FlattenLayout DEF rows
<1>6. PICK off : Offsets(seqs, N, off) /\ Layout(seqs, N, off, rows) BY <1>5
<1>7. DOMAIN rows = 1..Len(rows) BY <1>5
<1>8. \A i, k \in 1..(N + 1) : i <= k => off[i] <= off[k] BY <1>1, <1>4, <1>6, OffsetsGrow
<1>9. ASSUME NEW j \in DOMAIN l PROVE InOrder(l[j], players[l[j]], rows)
  <2> DEFINE c == players[l[j]]
             at == [k \in 1..c |-> CHOOSE q \in 1..Len(seqs[k]) : seqs[k][q] = <<l[j], k>>]
             p == [k \in 1..c |-> off[k] + at[k]]
  <2>1. c \in Nat /\ c <= N BY ListsType
  <2>2. \A k \in 1..c : k \in 1..N BY <1>1, <2>1
  <2>3. ASSUME NEW k \in 1..c
        PROVE  /\ at[k] \in 1..Len(seqs[k]) /\ seqs[k][at[k]] = <<l[j], k>>
               /\ \A r \in 1..Len(seqs[k]) : seqs[k][r][1] = l[j] => r = at[k]
    <3>1. k \in 1..N /\ k <= players[l[j]] BY <2>1, <2>2
    <3>2. PICK q \in 1..Len(seqs[k]) :
            /\ seqs[k][q] = <<l[j], k>>
            /\ \A r \in 1..Len(seqs[k]) : seqs[k][r][1] = l[j] => r = q
      BY <1>3, <3>1
    <3>3. at[k] = CHOOSE r \in 1..Len(seqs[k]) : seqs[k][r] = <<l[j], k>> OBVIOUS
    <3>4. at[k] \in 1..Len(seqs[k]) /\ seqs[k][at[k]] = <<l[j], k>> BY <3>2, <3>3
    <3>5. seqs[k][at[k]][1] = l[j]
      <4> HIDE DEF at
      <4>1. <<l[j], k>>[1] = l[j] OBVIOUS
      <4> QED BY <3>4, <4>1, Zenon
    <3>6. q = at[k] /\ \A r \in 1..Len(seqs[k]) : seqs[k][r][1] = l[j] => r = q
      <4> HIDE DEF at
      <4> QED BY <3>2, <3>4, <3>5
    <3> HIDE DEF at
    <3> QED BY <3>4, <3>6
  <2> HIDE DEF at
  <2>4. ASSUME NEW k \in 1..c PROVE p[k] \in DOMAIN rows /\ rows[p[k]] = <<l[j], k>>
    <3>1. at[k] \in 1..Len(seqs[k]) /\ seqs[k][at[k]] = <<l[j], k>> /\ k \in 1..N BY <2>2, <2>3
    <3>2. off[k] + at[k] \in 1..Len(rows) /\ rows[off[k] + at[k]] = seqs[k][at[k]]
      BY <3>1, <1>6 DEF Layout
    <3>3. p[k] = off[k] + at[k] OBVIOUS
    <3> QED BY <3>1, <3>2, <3>3, <1>7
  <2>5. p \in [1..c -> DOMAIN rows] BY <2>4
  <2>6. ASSUME NEW i \in 1..c, NEW k \in 1..c, i < k PROVE p[i] < p[k]
    <3>1. i \in 1..N /\ k \in 1..N /\ i + 1 \in 1..(N + 1) /\ k \in 1..(N + 1) /\ i + 1 <= k
      BY <2>2, <2>6, <1>1, <2>1
    <3>2. off[i] + Len(seqs[i]) <= off[k] BY <3>1, <1>8, <1>6 DEF Offsets
    <3>3. seqs[i] \in Seq(Row) /\ seqs[k] \in Seq(Row) BY <3>1, <1>3
    <3>4. at[i] <= Len(seqs[i]) /\ at[k] >= 1 /\ at[i] \in Nat /\ at[k] \in Nat /\ Len(seqs[i]) \in Nat
      BY <2>3, <3>3
    <3>5. off[i] \in Nat /\ off[k] \in Nat
      <4>1. i \in 1..(N + 1) BY <3>1, <1>1
      <4> QED BY <4>1, <3>1, <1>6 DEF Offsets
    <3>6. p[i] = off[i] + at[i] /\ p[k] = off[k] + at[k] OBVIOUS
    <3> QED BY <3>2, <3>4, <3>5, <3>6
  <2>7. ASSUME NEW m \in DOMAIN rows, rows[m][1] = l[j] PROVE \E k \in 1..c : p[k] = m
    <3>1. PICK k \in 1..N : \E q \in 1..Len(seqs[k]) : m = off[k] + q BY <1>6, <1>7, <2>7 DEF Layout
    <3>2. PICK q \in 1..Len(seqs[k]) : m = off[k] + q BY <3>1
    <3>3. rows[m] = seqs[k][q] BY <3>2, <1>6 DEF Layout
    <3>4. PICK h \in DOMAIN l : k <= players[l[h]] /\ seqs[k][q] = <<l[h], k>> BY <1>3, <3>2
    <3>5. l[h] = l[j] BY <3>3, <3>4, <2>7
    <3>6. k \in 1..c BY <3>4, <3>5, <2>1, <1>1
    <3>7. q = at[k] BY <2>3, <3>2, <3>4, <3>5, <3>6
    <3> QED BY <3>2, <3>6, <3>7
  <2> HIDE DEF c, p
  <2>8. InOrder(l[j], c, rows) BY <2>4, <2>5, <2>6, <2>7 DEF InOrder
  <2> QED BY <2>8 DEF c
<1> QED BY <1>2, <1>5, <1>9

\* EnvOf keeps the length and gives envs.
LEMMA EnvOfType ==
  ASSUME NEW rows \in Seq(Row)
  PROVE  /\ EnvOf(rows) \in Seq(Envs) /\ DOMAIN EnvOf(rows) = DOMAIN rows /\ Len(EnvOf(rows)) = Len(rows)
         /\ \A k \in DOMAIN rows : EnvOf(rows)[k] = rows[k][1]
<1>1. DOMAIN rows = 1..Len(rows) /\ Len(rows) \in Nat OBVIOUS
<1>2. \A k \in 1..Len(rows) : rows[k][1] \in Envs BY DEF Row
<1>3. EnvOf(rows) \in [1..Len(rows) -> Envs] BY <1>1, <1>2 DEF EnvOf
<1> QED BY <1>1, <1>3 DEF EnvOf

\* An env whose n rows are in order has n positions in the mapping, the images of an
\* increasing function.
LEMMA PositionsInOrder ==
  ASSUME NEW rows \in Seq(Row), NEW e \in Envs, NEW n \in Nat, InOrder(e, n, rows)
  PROVE  \E p \in [1..n -> Nat] :
           /\ \A i, j \in 1..n : i < j => p[i] < p[j]
           /\ \A i \in 1..n : p[i] \in DOMAIN rows /\ rows[p[i]] = <<e, i>>
           /\ RowsOf(e, EnvOf(rows)) = {p[i] : i \in 1..n}
           /\ IsFiniteSet(RowsOf(e, EnvOf(rows))) /\ Cardinality(RowsOf(e, EnvOf(rows))) = n
<1>1. PICK p \in [1..n -> DOMAIN rows] :
        /\ \A i, j \in 1..n : i < j => p[i] < p[j]
        /\ \A i \in 1..n : rows[p[i]] = <<e, i>>
        /\ \A k \in DOMAIN rows : rows[k][1] = e => \E i \in 1..n : p[i] = k
  BY DEF InOrder
<1>2. DOMAIN rows = 1..Len(rows) /\ Len(rows) \in Nat OBVIOUS
<1>3. p \in [1..n -> Nat] BY <1>1, <1>2
<1>4. RowsOf(e, EnvOf(rows)) = {k \in DOMAIN rows : rows[k][1] = e} BY EnvOfType DEF RowsOf
<1>5. RowsOf(e, EnvOf(rows)) = {p[i] : i \in 1..n} BY <1>1, <1>4
<1>6. IsFiniteSet({p[i] : i \in 1..n}) /\ Cardinality({p[i] : i \in 1..n}) = n
  BY <1>1, <1>3, ImageSize
<1> QED BY <1>1, <1>3, <1>5, <1>6

\* ParseAction picks the rows of e out of the batch, in their order.
LEMMA ParsePicksOwn ==
  ASSUME NEW rows \in Seq(Row), NEW e \in Envs, NEW n \in Nat, InOrder(e, n, rows),
         NEW a, a.rows = rows, a.playersEnvId = EnvOf(rows)
  PROVE  ParseAction(e, a) = [k \in 1..n |-> <<e, k>>]
<1> DEFINE index == RowsOf(e, EnvOf(rows))
<1>1. PICK p \in [1..n -> Nat] :
        /\ \A i, j \in 1..n : i < j => p[i] < p[j]
        /\ \A i \in 1..n : p[i] \in DOMAIN rows /\ rows[p[i]] = <<e, i>>
        /\ index = {p[i] : i \in 1..n}
        /\ IsFiniteSet(index) /\ Cardinality(index) = n
  BY PositionsInOrder
<1>2. \A i, j \in 1..n : i <= j => p[j] - p[i] >= j - i BY <1>1, Gap
<1>3. \A i, j \in 1..n : i <= j => p[i] <= p[j]
  <2>1. TAKE i \in 1..n, j \in 1..n
  <2>2. HAVE i <= j
  <2>3. p[i] \in Nat /\ p[j] \in Nat /\ p[j] - p[i] >= j - i BY <1>2, <2>2
  <2> QED BY <2>2, <2>3
<1> HIDE DEF index
<1> DEFINE continuous == index # {} /\ Cardinality(index) = Greatest(index) + 1 - Least(index)
           scattered == [j \in 1..Cardinality(index) |->
                           rows[CHOOSE k \in index : Cardinality({m \in index : m < k}) = j - 1]]
<1>4. ParseAction(e, a) = IF continuous THEN SubSeq(rows, Least(index), Greatest(index)) ELSE scattered
  BY DEF ParseAction, index
<1>5. CASE continuous
  <2>1. n # 0 /\ 1 \in 1..n /\ n \in 1..n
    <3>1. PICK i \in 1..n : TRUE BY <1>1, <1>5
    <3> QED BY <3>1
  <2>2. p[1] \in Nat /\ p[n] \in Nat BY <2>1
  <2>3. Least(index) = p[1]
    <3>1. p[1] \in index /\ \A y \in index : p[1] <= y BY <1>1, <1>3, <2>1
    <3>2. \A y \in index : y \in Nat BY <1>1
    <3>3. \A x \in index : (\A y \in index : x <= y) => x = p[1] BY <3>1, <3>2
    <3> QED BY <3>1, <3>3 DEF Least
  <2>4. Greatest(index) = p[n]
    <3>1. p[n] \in index /\ \A y \in index : y <= p[n] BY <1>1, <1>3, <2>1
    <3>2. \A y \in index : y \in Nat BY <1>1
    <3>3. \A x \in index : (\A y \in index : y <= x) => x = p[n] BY <3>1, <3>2
    <3> QED BY <3>1, <3>3 DEF Greatest
  <2>5. n = p[n] + 1 - p[1] BY <1>1, <1>5, <2>3, <2>4
  <2>6. ASSUME NEW i \in 1..n PROVE p[i] = p[1] + i - 1
    <3>1. p[i] - p[1] >= i - 1 /\ p[n] - p[i] >= n - i /\ p[i] \in Nat BY <1>2, <2>1
    <3>2. PICK x \in Int, y \in Int, z \in Int : x = p[1] /\ y = p[n] /\ z = p[i] BY <3>1, <2>2
    <3>3. n = y + 1 - x /\ z - x >= i - 1 /\ y - z >= n - i BY <3>1, <3>2, <2>5
    <3>4. z = x + i - 1 BY <3>3
    <3> QED BY <3>2, <3>4
  <2>7. p[1] \in 1..Len(rows) /\ p[n] \in 1..Len(rows) BY <1>1, <2>1
  <2>8. SubSeq(rows, p[1], p[n]) = [i \in 1..(p[n] - p[1] + 1) |-> rows[p[1] + i - 1]]
    <3>1. PICK x \in Nat, y \in Nat : x = p[1] /\ y = p[n] BY <2>2
    <3> HIDE DEF continuous, scattered
    <3>2. SubSeq(rows, x, y) = [i \in 1..(y - x + 1) |-> rows[x + i - 1]] BY DEF SubSeq
    <3> QED BY <3>1, <3>2
  <2>9. p[n] - p[1] + 1 = n BY <2>2, <2>5
  <2>10. SubSeq(rows, p[1], p[n]) = [i \in 1..n |-> rows[p[1] + i - 1]] BY <2>8, <2>9
  <2>11. \A i \in 1..n : rows[p[1] + i - 1] = <<e, i>> BY <1>1, <2>6
  <2>12. ParseAction(e, a) = SubSeq(rows, p[1], p[n]) BY <1>4, <1>5, <2>3, <2>4
  <2> QED BY <2>10, <2>11, <2>12
<1>6. CASE ~ continuous
  <2>1. ASSUME NEW i \in 1..n PROVE Cardinality({m \in index : m < p[i]}) = i - 1
    <3> DEFINE q == [h \in 1..(i - 1) |-> p[h]]
    <3>1. i - 1 \in Nat /\ \A h \in 1..(i - 1) : h \in 1..n OBVIOUS
    <3>2. q \in [1..(i - 1) -> Nat] /\ \A h, j \in 1..(i - 1) : h < j => q[h] < q[j] BY <1>1, <3>1
    <3>3. Cardinality({q[h] : h \in 1..(i - 1)}) = i - 1
      <4> HIDE DEF q
      <4> QED BY <3>1, <3>2, ImageSize
    <3>4. {m \in index : m < p[i]} = {q[h] : h \in 1..(i - 1)}
      <4>1. ASSUME NEW m \in index, m < p[i] PROVE \E h \in 1..(i - 1) : m = q[h]
        <5>1. PICK h \in 1..n : m = p[h] BY <1>1
        <5>2. p[h] \in Nat /\ p[i] \in Nat OBVIOUS
        <5>3. ~ (i <= h) BY <1>3, <5>1, <5>2, <4>1
        <5>4. h \in 1..(i - 1) BY <5>3
        <5> QED BY <5>1, <5>4
      <4>2. ASSUME NEW h \in 1..(i - 1) PROVE q[h] \in index /\ q[h] < p[i]
        <5>1. h \in 1..n /\ h < i /\ q[h] = p[h] BY <3>1
        <5> QED BY <5>1, <1>1
      <4> QED BY <4>1, <4>2
    <3> QED BY <3>3, <3>4
  <2>2. ASSUME NEW j \in 1..n
        PROVE  (CHOOSE k \in index : Cardinality({m \in index : m < k}) = j - 1) = p[j]
    <3>1. p[j] \in index /\ Cardinality({m \in index : m < p[j]}) = j - 1 BY <1>1, <2>1
    <3>2. ASSUME NEW k \in index, Cardinality({m \in index : m < k}) = j - 1 PROVE k = p[j]
      <4>1. PICK h \in 1..n : k = p[h] BY <1>1
      <4>2. h - 1 = j - 1 BY <2>1, <3>2, <4>1
      <4>3. h = j BY <4>2
      <4> QED BY <4>1, <4>3
    <3> QED BY <3>1, <3>2
  <2>3. scattered = [j \in 1..n |-> rows[CHOOSE k \in index : Cardinality({m \in index : m < k}) = j - 1]]
    BY <1>1
  <2>4. scattered = [j \in 1..n |-> <<e, j>>] BY <2>2, <2>3, <1>1
  <2> QED BY <1>4, <1>6, <2>4
<1> QED BY <1>5, <1>6

----------------------------------------------------------------------------
(* What the Python layer infers *)

\* The mapping has a row for each player of the envs of the batch.
LEMMA RowsPerEnv ==
  ASSUME NEW l \in Lists, players \in [Envs -> Nat], NEW j \in DOMAIN l
  PROVE  Cardinality(RowsOf(l[j], EnvOf(RowsByEnv(l)))) = players[l[j]]
<1>1. RowsByEnv(l) \in Seq(Row) /\ InOrder(l[j], players[l[j]], RowsByEnv(l)) BY ByEnvInOrder
<1>2. l[j] \in Envs /\ players[l[j]] \in Nat BY ListsType
<1> QED BY <1>1, <1>2, PositionsInOrder

\* The list of the envs, each as often as it has players, is the mapping of RowsByEnv, and
\* names no other env.
LEMMA RepeatedEnvs ==
  ASSUME NEW l \in Lists, players \in [Envs -> Nat]
  PROVE  /\ FlattenSeq([j \in DOMAIN l |-> [k \in 1..players[l[j]] |-> l[j]]]) = EnvOf(RowsByEnv(l))
         /\ \A q \in DOMAIN EnvOf(RowsByEnv(l)) : \E j \in DOMAIN l : l[j] = EnvOf(RowsByEnv(l))[q]
<1>1. PICK n \in Nat \ {0} : /\ l \in [1..n -> Envs] /\ Len(l) = n /\ DOMAIN l = 1..n
                             /\ \A j, k \in 1..n : l[j] = l[k] => j = k
  BY ListsType
<1> DEFINE seqs == [j \in 1..n |-> [k \in 1..players[l[j]] |-> <<l[j], k>>]]
           segs == [j \in 1..n |-> [k \in 1..players[l[j]] |-> l[j]]]
           rows == FlattenSeq(seqs)
           all == FlattenSeq(segs)
<1>2. ASSUME NEW j \in 1..n
      PROVE  /\ players[l[j]] \in Nat
             /\ seqs[j] \in Seq(Row) /\ Len(seqs[j]) = players[l[j]]
             /\ segs[j] \in Seq(Envs) /\ Len(segs[j]) = players[l[j]]
             /\ \A k \in 1..players[l[j]] : seqs[j][k] = <<l[j], k>> /\ segs[j][k] = l[j]
  <2>1. l[j] \in Envs /\ players[l[j]] \in Nat BY <1>1
  <2>2. \A k \in 1..players[l[j]] : <<l[j], k>> \in Row BY <2>1 DEF Row
  <2>3. seqs[j] \in [1..players[l[j]] -> Row] BY <2>2
  <2>4. segs[j] \in [1..players[l[j]] -> Envs] BY <2>1
  <2>5. seqs[j] \in Seq(Row) /\ Len(seqs[j]) = players[l[j]] BY <2>1, <2>3
  <2>6. segs[j] \in Seq(Envs) /\ Len(segs[j]) = players[l[j]] BY <2>1, <2>4
  <2>7. \A k \in 1..players[l[j]] : seqs[j][k] = <<l[j], k>> /\ segs[j][k] = l[j] BY <2>1
  <2> HIDE DEF seqs, segs
  <2> QED BY <2>1, <2>5, <2>6, <2>7
<1>3. seqs \in [1..n -> Seq(Row)] /\ segs \in [1..n -> Seq(Envs)] BY <1>2
<1>4. rows = RowsByEnv(l) BY <1>1 DEF RowsByEnv
<1>5. all = FlattenSeq([j \in DOMAIN l |-> [k \in 1..players[l[j]] |-> l[j]]]) BY <1>1
<1> HIDE DEF seqs, segs, rows, all
<1>6. rows \in Seq(Row) /\ \E off : Offsets(seqs, n, off) /\ Layout(seqs, n, off, rows)
  BY <1>3, FlattenLayout DEF rows
<1>7. all \in Seq(Envs) /\ \E off : Offsets(segs, n, off) /\ Layout(segs, n, off, all)
  BY <1>3, FlattenLayout DEF all
<1>8. PICK off : Offsets(seqs, n, off) /\ Layout(seqs, n, off, rows) BY <1>6
<1>9. PICK oth : Offsets(segs, n, oth) /\ Layout(segs, n, oth, all) BY <1>7
<1>10. off = oth BY <1>2, <1>8, <1>9, OffsetsSame
<1>11. Len(all) = Len(rows) BY <1>8, <1>9, <1>10 DEF Layout
<1>12. DOMAIN rows = 1..Len(rows) /\ DOMAIN all = 1..Len(all) BY <1>6, <1>7
<1>13. ASSUME NEW q \in 1..Len(all) PROVE all[q] = EnvOf(rows)[q]
  <2>1. PICK j \in 1..n : \E i \in 1..Len(segs[j]) : q = oth[j] + i BY <1>9 DEF Layout
  <2>2. PICK i \in 1..players[l[j]] : q = oth[j] + i BY <2>1, <1>2
  <2>3. all[q] = l[j]
    <3>1. i \in 1..Len(segs[j]) /\ segs[j][i] = l[j] BY <2>2, <1>2
    <3>2. all[oth[j] + i] = segs[j][i] BY <3>1, <1>9 DEF Layout
    <3> QED BY <3>1, <3>2, <2>2
  <2>4. rows[q] = <<l[j], i>>
    <3>1. i \in 1..Len(seqs[j]) /\ seqs[j][i] = <<l[j], i>> BY <2>2, <1>2
    <3>2. rows[off[j] + i] = seqs[j][i] BY <3>1, <1>8 DEF Layout
    <3> QED BY <3>1, <3>2, <2>2, <1>10
  <2> QED BY <2>3, <2>4, <1>6, <1>11, <1>12, EnvOfType
<1>14. EnvOf(rows) \in Seq(Envs) /\ Len(EnvOf(rows)) = Len(rows) BY <1>6, EnvOfType
<1>15. all = EnvOf(rows) BY <1>7, <1>11, <1>13, <1>14, SeqEqual
<1>16. ASSUME NEW q \in DOMAIN all PROVE \E j \in DOMAIN l : l[j] = all[q]
  <2>1. PICK j \in 1..n : \E i \in 1..Len(segs[j]) : q = oth[j] + i BY <1>9, <1>12 DEF Layout
  <2>2. PICK i \in 1..players[l[j]] : q = oth[j] + i BY <2>1, <1>2
  <2>3. i \in 1..Len(segs[j]) /\ segs[j][i] = l[j] BY <2>2, <1>2
  <2>4. all[oth[j] + i] = segs[j][i] BY <2>3, <1>9 DEF Layout
  <2> QED BY <1>1, <2>2, <2>3, <2>4
<1> QED BY <1>4, <1>5, <1>15, <1>16

\* If the envs have as many players each, there are that many times as many rows as envs.
LEMMA EqualShares ==
  ASSUME NEW l \in Lists, players \in [Envs -> Nat], NEW c \in Nat,
         \A j \in DOMAIN l : players[l[j]] = c
  PROVE  Len(RowsByEnv(l)) = Len(l) * c
<1>1. PICK n \in Nat \ {0} : l \in [1..n -> Envs] /\ Len(l) = n /\ DOMAIN l = 1..n
  BY ListsType
<1> DEFINE seqs == [j \in 1..n |-> [k \in 1..players[l[j]] |-> <<l[j], k>>]]
           rows == FlattenSeq(seqs)
<1>2. ASSUME NEW j \in 1..n PROVE seqs[j] \in Seq(Row) /\ Len(seqs[j]) = c
  <2>1. l[j] \in Envs /\ players[l[j]] = c BY <1>1
  <2>2. seqs[j] = [k \in 1..c |-> <<l[j], k>>] BY <2>1
  <2>3. \A k \in 1..c : <<l[j], k>> \in Row BY <2>1 DEF Row
  <2> HIDE DEF seqs
  <2> QED BY <2>2, <2>3
<1>3. seqs \in [1..n -> Seq(Row)] BY <1>2
<1>4. rows = RowsByEnv(l) BY <1>1 DEF RowsByEnv
<1> HIDE DEF seqs, rows
<1>5. \E off : Offsets(seqs, n, off) /\ Layout(seqs, n, off, rows) BY <1>3, FlattenLayout DEF rows
<1>6. PICK off : Offsets(seqs, n, off) /\ Layout(seqs, n, off, rows) BY <1>5
<1>7. off \in [1..(n + 1) -> Nat] /\ off[1] = 0 /\ Len(rows) = off[n + 1] BY <1>6 DEF Offsets, Layout
<1>8. ASSUME NEW j \in 1..n PROVE off[j + 1] = off[j] + c BY <1>2, <1>6 DEF Offsets
<1> DEFINE S == {d \in Nat : d <= n => off[d + 1] = d * c}
<1>9. 0 \in S BY <1>7
<1>10. ASSUME NEW d \in Nat, d \in S PROVE d + 1 \in S
  <2>1. SUFFICES ASSUME d + 1 <= n PROVE off[(d + 1) + 1] = (d + 1) * c OBVIOUS
  <2>2. off[d + 1] = d * c /\ d + 1 \in 1..n BY <1>10, <2>1
  <2>3. off[(d + 1) + 1] = d * c + c BY <1>8, <2>2
  <2> QED BY <2>3
<1>11. n \in S
  <2> HIDE DEF S
  <2> QED BY <1>9, <1>10, SetInduction
<1> QED BY <1>1, <1>4, <1>7, <1>11

\* As many rows for each env are shared out one env after the other.
LEMMA SharesOut ==
  ASSUME NEW n \in Nat \ {0}, NEW c \in Nat
  PROVE  (n * c) \div n = c /\ (n * c) % n = 0
OBVIOUS

\* If there are as many rows as envs and every env has one, or no env can have two, the
\* mapping is the list of the envs.
LEMMA OneEach ==
  ASSUME NEW l \in Lists, players \in [Envs -> Nat], \A j \in DOMAIN l : players[l[j]] >= 1,
         \/ \A j \in DOMAIN l : players[l[j]] = 1
         \/ Len(RowsByEnv(l)) = Len(l)
  PROVE  l = EnvOf(RowsByEnv(l))
<1>1. PICK n \in Nat \ {0} : /\ l \in [1..n -> Envs] /\ Len(l) = n /\ DOMAIN l = 1..n
                             /\ \A j, k \in 1..n : l[j] = l[k] => j = k
  BY ListsType
<1> DEFINE seqs == [j \in 1..n |-> [k \in 1..players[l[j]] |-> <<l[j], k>>]]
           rows == FlattenSeq(seqs)
<1>2. ASSUME NEW j \in 1..n
      PROVE  /\ players[l[j]] \in Nat /\ players[l[j]] >= 1
             /\ seqs[j] \in Seq(Row) /\ Len(seqs[j]) = players[l[j]]
             /\ seqs[j][1] = <<l[j], 1>>
  <2>1. l[j] \in Envs /\ players[l[j]] \in Nat /\ players[l[j]] >= 1 BY <1>1
  <2>2. \A k \in 1..players[l[j]] : <<l[j], k>> \in Row BY <2>1 DEF Row
  <2>3. seqs[j] \in [1..players[l[j]] -> Row] BY <2>2
  <2>4. seqs[j] \in Seq(Row) /\ Len(seqs[j]) = players[l[j]]
    <3> HIDE DEF seqs
    <3> QED BY <2>1, <2>3
  <2>5. 1 \in 1..players[l[j]] BY <2>1
  <2>6. seqs[j][1] = <<l[j], 1>> BY <2>5
  <2> HIDE DEF seqs
  <2> QED BY <2>1, <2>4, <2>6
<1>3. seqs \in [1..n -> Seq(Row)] BY <1>2
<1>4. rows = RowsByEnv(l) BY <1>1 DEF RowsByEnv
<1> HIDE DEF seqs, rows
<1>5. rows \in Seq(Row) /\ \E off : Offsets(seqs, n, off) /\ Layout(seqs, n, off, rows)
  BY <1>3, FlattenLayout DEF rows
<1>6. PICK off : Offsets(seqs, n, off) /\ Layout(seqs, n, off, rows) BY <1>5
<1>7. off \in [1..(n + 1) -> Nat] /\ off[1] = 0 /\ Len(rows) = off[n + 1] BY <1>6 DEF Offsets, Layout
<1>8. ASSUME NEW j \in 1..n PROVE off[j + 1] = off[j] + players[l[j]] BY <1>2, <1>6 DEF Offsets
<1>9. \A j \in 1..(n + 1) : off[j] = j - 1
  <2>1. CASE \A j \in 1..n : players[l[j]] = 1
    <3> DEFINE S == {d \in Nat : d <= n => off[d + 1] = d}
    <3>1. 0 \in S BY <1>7
    <3>2. ASSUME NEW d \in Nat, d \in S PROVE d + 1 \in S
      <4>1. SUFFICES ASSUME d + 1 <= n PROVE off[(d + 1) + 1] = d + 1 OBVIOUS
      <4>2. off[d + 1] = d /\ d + 1 \in 1..n BY <3>2, <4>1
      <4> QED BY <4>2, <1>8, <2>1
    <3>3. \A d \in Nat : d \in S
      <4> HIDE DEF S
      <4> QED BY <3>1, <3>2, SetInduction
    <3>4. TAKE j \in 1..(n + 1)
    <3>5. j - 1 \in Nat /\ j - 1 <= n /\ (j - 1) + 1 = j OBVIOUS
    <3>6. j - 1 \in S BY <3>3, <3>5
    <3> QED BY <3>5, <3>6
  <2>2. CASE Len(rows) = n
    <3> DEFINE S == {d \in Nat : \A i \in 1..(n + 1) : i + d <= n + 1 => off[i + d] - off[i] >= d}
    <3>1. 0 \in S
      <4>1. \A i \in 1..(n + 1) : off[i] \in Nat BY <1>7
      <4> QED BY <4>1
    <3>2. ASSUME NEW d \in Nat, d \in S PROVE d + 1 \in S
      <4>1. SUFFICES ASSUME NEW i \in 1..(n + 1), i + (d + 1) <= n + 1
                     PROVE  off[i + (d + 1)] - off[i] >= d + 1
        OBVIOUS
      <4>2. PICK h \in 1..n : h = i + d /\ h + 1 = i + (d + 1) BY <4>1
      <4>3. off[h] - off[i] >= d BY <3>2, <4>1, <4>2
      <4>4. off[h + 1] = off[h] + players[l[h]] /\ players[l[h]] \in Nat /\ players[l[h]] >= 1 BY <1>2, <1>8
      <4>5. off[i] \in Nat /\ off[h] \in Nat BY <1>7
      <4>6. off[h + 1] - off[i] >= d + 1 BY <4>3, <4>4, <4>5
      <4> QED BY <4>2, <4>6
    <3>3. \A d \in Nat : d \in S
      <4> HIDE DEF S
      <4> QED BY <3>1, <3>2, SetInduction
    <3>4. TAKE j \in 1..(n + 1)
    <3>5. j - 1 \in S /\ n + 1 - j \in S BY <3>3
    <3>6. off[1 + (j - 1)] - off[1] >= j - 1 BY <3>5
    <3>7. off[j + (n + 1 - j)] - off[j] >= n + 1 - j BY <3>5
    <3>8. 1 + (j - 1) = j /\ j + (n + 1 - j) = n + 1 OBVIOUS
    <3>9. off[j] >= j - 1 /\ n - off[j] >= n + 1 - j
      <4>1. off[j] - 0 >= j - 1 /\ off[n + 1] - off[j] >= n + 1 - j BY <3>6, <3>7, <3>8, <1>7
      <4>2. off[j] \in Nat BY <1>7
      <4> QED BY <4>1, <4>2, <1>7, <2>2
    <3>10. off[j] \in Nat BY <1>7
    <3> HIDE DEF S
    <3> QED BY <3>9, <3>10
  <2> QED BY <2>1, <2>2, <1>1, <1>4
<1>10. Len(rows) = n
  <2>1. n + 1 \in 1..(n + 1) /\ (n + 1) - 1 = n OBVIOUS
  <2> QED BY <2>1, <1>7, <1>9
<1>11. ASSUME NEW j \in 1..n PROVE rows[j] = <<l[j], 1>>
  <2>1. off[j] = j - 1 BY <1>9
  <2>2. 1 \in 1..Len(seqs[j]) /\ seqs[j][1] = <<l[j], 1>> BY <1>2
  <2>3. rows[off[j] + 1] = seqs[j][1] BY <1>6, <2>2 DEF Layout
  <2>4. off[j] + 1 = j BY <2>1
  <2> QED BY <2>2, <2>3, <2>4
<1>12. EnvOf(rows) \in Seq(Envs) /\ Len(EnvOf(rows)) = n /\ \A j \in 1..n : EnvOf(rows)[j] = l[j]
  BY <1>5, <1>10, <1>11, EnvOfType
<1>13. l \in Seq(Envs) BY <1>1
<1>14. l = EnvOf(rows) BY <1>1, <1>12, <1>13, SeqEqual
<1> QED BY <1>4, <1>14

\* What is inferred is a list of envs, if anything.
LEMMA InferType ==
  ASSUME TypeOK, NEW l \in Lists, NEW count \in Nat
  PROVE  InferPlayersEnvId(l, count) \in Seq(Envs) \cup {Nothing}
<1>1. PICK n \in Nat \ {0} : /\ l \in [1..n -> Envs] /\ Len(l) = n /\ DOMAIN l = 1..n
                             /\ \A j, k \in 1..n : l[j] = l[k] => j = k
  BY ListsType
<1>2. l \in Seq(Envs) BY <1>1
<1>3. CachedPlayersEnvId(l, count) \in Seq(Envs) \cup {Nothing}
  <2> DEFINE segments == [j \in DOMAIN l |-> [k \in 1..Cardinality(RowsOf(l[j], lastPlayersEnvId)) |-> l[j]]]
             all == FlattenSeq(segments)
  <2>1. CASE lastPlayersEnvId = Nothing BY <2>1 DEF CachedPlayersEnvId
  <2>2. CASE lastPlayersEnvId # Nothing
    <3>1. lastPlayersEnvId \in Seq(Envs) BY <2>2 DEF TypeOK
    <3>2. ASSUME NEW e PROVE Cardinality(RowsOf(e, lastPlayersEnvId)) \in Nat
      <4>1. DOMAIN lastPlayersEnvId = 1..Len(lastPlayersEnvId) /\ Len(lastPlayersEnvId) \in Nat BY <3>1
      <4>2. IsFiniteSet(1..Len(lastPlayersEnvId)) BY <4>1, FS_Interval
      <4>3. RowsOf(e, lastPlayersEnvId) \subseteq 1..Len(lastPlayersEnvId) BY <4>1 DEF RowsOf
      <4>4. IsFiniteSet(RowsOf(e, lastPlayersEnvId)) BY <4>2, <4>3, FS_Subset
      <4> QED BY <4>4, FS_CardinalityType
    <3>3. ASSUME NEW j \in 1..n PROVE segments[j] \in Seq(Envs)
      <4> DEFINE c == Cardinality(RowsOf(l[j], lastPlayersEnvId))
      <4>1. c \in Nat BY <3>2
      <4>2. segments[j] = [k \in 1..c |-> l[j]] BY <1>1
      <4>3. l[j] \in Envs BY <1>1
      <4> HIDE DEF c, segments
      <4> QED BY <4>1, <4>2, <4>3
    <3>4. segments \in [1..n -> Seq(Envs)] BY <1>1, <3>3
    <3>5. CachedPlayersEnvId(l, count) \in {all, Nothing} BY DEF CachedPlayersEnvId
    <3> HIDE DEF segments
    <3>6. all \in Seq(Envs) BY <3>4, FlattenLayout
    <3> QED BY <3>5, <3>6
  <2> QED BY <2>1, <2>2
<1> DEFINE each == count \div Len(l)
           some == FlattenSeq([j \in DOMAIN l |-> [k \in 1..each |-> l[j]]])
<1>4. some \in Seq(Envs)
  <2>1. each \in Nat BY <1>1
  <2> DEFINE segs == [j \in 1..n |-> [k \in 1..each |-> l[j]]]
  <2>2. segs \in [1..n -> Seq(Envs)]
    <3> HIDE DEF each
    <3>1. ASSUME NEW j \in 1..n PROVE [k \in 1..each |-> l[j]] \in Seq(Envs)
      <4>1. [k \in 1..each |-> l[j]] \in [1..each -> Envs] BY <1>1
      <4> QED BY <4>1, <2>1
    <3> QED BY <3>1
  <2>3. some = FlattenSeq(segs) BY <1>1
  <2> HIDE DEF segs, some
  <2> QED BY <2>2, <2>3, FlattenLayout
<1>5. InferPlayersEnvId(l, count) \in {l, CachedPlayersEnvId(l, count), some, Nothing}
  BY DEF InferPlayersEnvId
<1> HIDE DEF some
<1> QED BY <1>2, <1>3, <1>4, <1>5

\* For envs of other batches with as many players each, the equal shares are the mapping of
\* the rows: the last recv has none for one of them, and its mapping is left aside.
LEMMA EqualSharesRight ==
  ASSUME TypeOK, LastInv, NEW l \in Lists, ~ FromLastRecv(l),
         \A j \in DOMAIN l : players[l[j]] >= 1 /\ players[l[j]] <= MaxNumPlayers,
         \A i, j \in DOMAIN l : players[l[i]] = players[l[j]],
         ~ (MaxNumPlayers = 1 \/ Len(RowsByEnv(l)) = Len(l))
  PROVE  InferPlayersEnvId(l, Len(RowsByEnv(l))) = EnvOf(RowsByEnv(l))
<1>1. PICK n \in Nat \ {0} : l \in [1..n -> Envs] /\ Len(l) = n /\ DOMAIN l = 1..n
  BY ListsType
<1>2. players \in [Envs -> Nat] BY DEF TypeOK
<1>3. PICK c \in Nat : c = players[l[1]] BY <1>1, <1>2
<1>4. \A j \in DOMAIN l : players[l[j]] = c
  <2>1. 1 \in DOMAIN l BY <1>1
  <2> QED BY <1>3, <2>1
<1>5. c <= MaxNumPlayers BY <1>1, <1>3
<1> DEFINE count == Len(RowsByEnv(l))
<1>6. count = n * c BY <1>1, <1>2, <1>4, EqualShares
<1>7. CachedPlayersEnvId(l, count) = Nothing
  <2> DEFINE segments == [j \in DOMAIN l |-> [k \in 1..Cardinality(RowsOf(l[j], lastPlayersEnvId)) |-> l[j]]]
             all == FlattenSeq(segments)
  <2>1. CachedPlayersEnvId(l, count) =
          IF lastPlayersEnvId # Nothing /\ (\A j \in DOMAIN l : segments[j] # <<>>) /\ Len(all) = count
          THEN all ELSE Nothing
    BY DEF CachedPlayersEnvId
  <2> HIDE DEF all, count
  <2>2. ASSUME lastPlayersEnvId # Nothing PROVE \E j \in DOMAIN l : segments[j] = <<>>
    <3>1. PICK j \in DOMAIN l : ~ \E k \in DOMAIN lastEnvId : lastEnvId[k] = l[j] BY DEF FromLastRecv
    <3>2. RowsOf(l[j], lastPlayersEnvId) = {} BY <2>2, <3>1 DEF LastInv, RowsOf
    <3>3. Cardinality(RowsOf(l[j], lastPlayersEnvId)) = 0 BY <3>2, FS_EmptySet
    <3>4. segments[j] = [k \in 1..0 |-> l[j]] BY <3>3
    <3>5. [k \in 1..0 |-> l[j]] = <<>> OBVIOUS
    <3> QED BY <3>4, <3>5
  <2> HIDE DEF segments
  <2> QED BY <2>1, <2>2
<1>8. count \div Len(l) = c /\ count % Len(l) = 0 BY <1>1, <1>6, SharesOut
<1>9. FlattenSeq([j \in DOMAIN l |-> [k \in 1..c |-> l[j]]]) = EnvOf(RowsByEnv(l))
  <2>1. [j \in DOMAIN l |-> [k \in 1..c |-> l[j]]] = [j \in DOMAIN l |-> [k \in 1..players[l[j]] |-> l[j]]]
    BY <1>4
  <2> QED BY <1>2, <2>1, RepeatedEnvs
<1>10. InferPlayersEnvId(l, count) = FlattenSeq([j \in DOMAIN l |-> [k \in 1..c |-> l[j]]])
  <2>1. ~ (MaxNumPlayers = 1 \/ count = Len(l)) OBVIOUS
  <2>2. ~ (count % Len(l) # 0 \/ count \div Len(l) > MaxNumPlayers) BY <1>5, <1>8, ConstantsAssumption
  <2> HIDE DEF count
  <2> QED BY <1>7, <1>8, <2>1, <2>2, Zenon DEF InferPlayersEnvId
<1> QED BY <1>9, <1>10

\* Whenever the caller can count on it, what is inferred is the mapping of the rows.
LEMMA InferRight ==
  ASSUME TypeOK, PlayersInv, LastInv, NEW l \in Lists,
         \A j \in DOMAIN l : stage[l[j]] = "idle", CanInfer(l)
  PROVE  InferPlayersEnvId(l, Len(RowsByEnv(l))) = EnvOf(RowsByEnv(l))
<1>1. PICK n \in Nat \ {0} : /\ l \in [1..n -> Envs] /\ Len(l) = n /\ DOMAIN l = 1..n
                             /\ \A j, k \in 1..n : l[j] = l[k] => j = k
  BY ListsType
<1>2. players \in [Envs -> Nat] BY DEF TypeOK
<1>3. ASSUME NEW j \in DOMAIN l
      PROVE  players[l[j]] \in Nat /\ players[l[j]] >= 1 /\ players[l[j]] <= MaxNumPlayers
  <2>1. l[j] \in Envs /\ stage[l[j]] = "idle" BY <1>1
  <2>2. players[l[j]] \in 0..MaxNumPlayers /\ players[l[j]] > 0 BY <2>1 DEF PlayersInv, Counts, CanInfer
  <2> QED BY <2>2, ConstantsAssumption
<1>4. ASSUME FromLastRecv(l), NEW j \in DOMAIN l
      PROVE  lastPlayersEnvId # Nothing /\ Cardinality(RowsOf(l[j], lastPlayersEnvId)) = players[l[j]]
  <2>1. PICK k \in DOMAIN lastEnvId : lastEnvId[k] = l[j] BY <1>4 DEF FromLastRecv
  <2>2. stage[lastEnvId[k]] = "idle" BY <2>1
  <2> QED BY <2>1, <2>2 DEF LastInv
<1> DEFINE rows == RowsByEnv(l)
           count == Len(rows)
           mapping == EnvOf(rows)
<1>5. mapping \in Seq(Envs) /\ Len(mapping) = count
  BY <1>2, ByEnvInOrder, EnvOfType
<1>6. CASE MaxNumPlayers = 1 \/ count = Len(l)
  <2>1. \/ \A j \in DOMAIN l : players[l[j]] = 1
        \/ Len(RowsByEnv(l)) = Len(l)
    BY <1>3, <1>6
  <2>2. l = mapping BY <2>1, <1>2, <1>3, OneEach
  <2> QED BY <1>6, <2>2 DEF InferPlayersEnvId
<1>7. CASE ~ (MaxNumPlayers = 1 \/ count = Len(l)) /\ ~ FromLastRecv(l)
  BY <1>3, <1>7, EqualSharesRight DEF CanInfer
<1>8. CASE ~ (MaxNumPlayers = 1 \/ count = Len(l)) /\ FromLastRecv(l)
  <2> DEFINE segments == [j \in DOMAIN l |-> [k \in 1..Cardinality(RowsOf(l[j], lastPlayersEnvId)) |-> l[j]]]
             all == FlattenSeq(segments)
  <2>1. segments = [j \in DOMAIN l |-> [k \in 1..players[l[j]] |-> l[j]]] BY <1>4, <1>8
  <2>2. all = mapping BY <2>1, <1>2, RepeatedEnvs
  <2>3. \A j \in DOMAIN l : segments[j] # <<>>
    <3>1. TAKE j \in DOMAIN l
    <3>2. segments[j] = [k \in 1..players[l[j]] |-> l[j]] BY <1>4, <1>8
    <3> DEFINE c == players[l[j]]
    <3>3. c \in Nat /\ c >= 1 /\ segments[j] = [k \in 1..c |-> l[j]] BY <1>3, <3>2
    <3> HIDE DEF segments, c
    <3>4. Len(segments[j]) = c BY <3>3
    <3>5. Len(<< >>) = 0 OBVIOUS
    <3> QED BY <3>3, <3>4, <3>5
  <2>4. lastPlayersEnvId # Nothing BY <1>1, <1>4, <1>8
  <2>5. CachedPlayersEnvId(l, count) =
          IF lastPlayersEnvId # Nothing /\ (\A j \in DOMAIN l : segments[j] # <<>>) /\ Len(all) = count
          THEN all ELSE Nothing
    BY DEF CachedPlayersEnvId
  <2> HIDE DEF segments, all
  <2>6. CachedPlayersEnvId(l, count) = mapping
    <3> HIDE DEF mapping, count
    <3> QED BY <2>2, <2>3, <2>4, <2>5, <1>5
  <2>7. mapping # Nothing
    <3> HIDE DEF mapping
    <3> QED BY <1>5, ConstantsAssumption
  <2> HIDE DEF mapping, count
  <2>8. InferPlayersEnvId(l, count) = CachedPlayersEnvId(l, count)
    BY <1>8, <2>6, <2>7 DEF InferPlayersEnvId
  <2> QED BY <2>6, <2>8 DEF mapping, count
<1> QED BY <1>6, <1>7, <1>8

----------------------------------------------------------------------------
(* The inductive invariant *)

LEMMA InitInv == Init => IInv
<1> SUFFICES ASSUME Init PROVE IInv OBVIOUS
<1> USE DEF Init
<1>1. TypeOK
  <2>1. parsed = [e \in Envs |-> parsed[e]] OBVIOUS
  <2>2. players \in [Envs -> Nat] /\ stage \in [Envs -> Stages] BY DEF Stages
  <2>3. actionBatch \in [Envs -> Action \cup {Nothing}] OBVIOUS
  <2>4. lastEnvId \in Seq(Envs) OBVIOUS
  <2>5. batch \in Batches /\ refused \in BOOLEAN /\ lastPlayersEnvId \in Seq(Envs) \cup {Nothing} OBVIOUS
  <2> QED BY <2>1, <2>2, <2>3, <2>4, <2>5 DEF TypeOK
<1>2. PlayersInv BY DEF PlayersInv
<1>3. LastInv BY DEF LastInv
<1>4. BatchInv BY DEF BatchInv
<1>5. OwnPlayersAct BY DEF OwnPlayersAct, Own
<1>6. InferenceSuffices BY DEF InferenceSuffices
<1> QED BY <1>1, <1>2, <1>3, <1>4, <1>5, <1>6 DEF IInv

\* A send leaves each env it names a batch, under a mapping that is right if it is due.
LEMMA SetActionsInv ==
  ASSUME IInv, NEW l \in Lists, NEW rows \in Seq(Row), NEW mapping \in Seq(Envs),
         NEW due \in BOOLEAN, NEW fromLast \in BOOLEAN,
         due => /\ mapping = EnvOf(rows)
                /\ \A j \in DOMAIN l : InOrder(l[j], players[l[j]], rows),
         SetActions(l, rows, mapping, due, fromLast)
  PROVE  IInv'
<1> USE DEF IInv, SetActions
<1>1. \A j \in DOMAIN l : l[j] \in Envs BY ListsType
<1>2. \A e \in Envs : /\ stage'[e] = IF \E j \in DOMAIN l : l[j] = e THEN "asked" ELSE stage[e]
                      /\ actionBatch'[e] = IF \E j \in DOMAIN l : l[j] = e
                                           THEN [rows |-> rows, playersEnvId |-> mapping, due |-> due,
                                                 fromLast |-> fromLast]
                                           ELSE actionBatch[e]
  OBVIOUS
<1>3. UNCHANGED <<batch, players, lastPlayersEnvId, lastEnvId, parsed>> /\ refused' = FALSE OBVIOUS
<1>4. TypeOK'
  <2>1. [rows |-> rows, playersEnvId |-> mapping, due |-> due, fromLast |-> fromLast] \in Action BY DEF Action
  <2>2. stage' \in [Envs -> Stages]
    <3>1. \A e \in Envs : stage'[e] \in Stages BY <1>2 DEF TypeOK, Stages
    <3> QED BY <3>1
  <2>3. actionBatch' \in [Envs -> Action \cup {Nothing}]
    <3>1. \A e \in Envs : actionBatch'[e] \in Action \cup {Nothing} BY <1>2, <2>1 DEF TypeOK
    <3> QED BY <3>1
  <2> QED BY <1>3, <2>2, <2>3 DEF TypeOK
<1>5. PlayersInv' BY <1>2, <1>3 DEF PlayersInv
<1>6. LastInv'
  <2>1. ASSUME NEW k \in DOMAIN lastEnvId
        PROVE  lastEnvId[k] \in Envs
    BY DEF TypeOK
  <2>2. ASSUME NEW k \in DOMAIN lastEnvId', stage'[lastEnvId'[k]] = "idle"
        PROVE  Cardinality(RowsOf(lastEnvId'[k], lastPlayersEnvId')) = players'[lastEnvId'[k]]
    <3>1. lastEnvId[k] \in Envs /\ stage[lastEnvId[k]] = "idle" BY <1>2, <1>3, <2>1, <2>2
    <3> QED BY <3>1, <1>3 DEF LastInv
  <2>3. \A k \in DOMAIN lastEnvId' : lastPlayersEnvId' # Nothing BY <1>3 DEF LastInv
  <2> QED BY <1>3, <2>2, <2>3 DEF LastInv, RowsOf
<1>7. BatchInv'
  <2>1. SUFFICES ASSUME NEW e \in Envs, actionBatch'[e] # Nothing
                 PROVE  /\ stage'[e] = "asked"
                        /\ actionBatch'[e].due =>
                             /\ actionBatch'[e].playersEnvId = EnvOf(actionBatch'[e].rows)
                             /\ InOrder(e, players'[e], actionBatch'[e].rows)
    BY DEF BatchInv
  <2>2. CASE \E j \in DOMAIN l : l[j] = e BY <1>2, <1>3, <2>2
  <2>3. CASE ~ \E j \in DOMAIN l : l[j] = e BY <1>2, <1>3, <2>1, <2>3 DEF BatchInv
  <2> QED BY <2>2, <2>3
<1>8. OwnPlayersAct' BY <1>3 DEF OwnPlayersAct, Own
<1>9. InferenceSuffices' BY <1>3 DEF InferenceSuffices
<1> QED BY <1>4, <1>5, <1>6, <1>7, <1>8, <1>9

\* Explicit sends carry a mapping of their own.
LEMMA SendExplicitInv ==
  ASSUME IInv, NEW l \in Lists, SendExplicit(l)
  PROVE  IInv'
<1>1. players \in [Envs -> Nat] BY DEF IInv, TypeOK
<1>2. \A j \in DOMAIN l : players[l[j]] <= MaxNumPlayers
  <2>1. TAKE j \in DOMAIN l
  <2>2. l[j] \in Envs /\ stage[l[j]] = "idle" BY ListsType DEF SendExplicit
  <2>3. players[l[j]] \in 0..MaxNumPlayers BY <2>2 DEF IInv, PlayersInv, Counts
  <2> QED BY <2>3, ConstantsAssumption
<1>3. PICK rows \in {RowsByEnv(l), RowsByPlayer(l)} : SetActions(l, rows, EnvOf(rows), TRUE, FALSE)
  BY DEF SendExplicit
<1>4. rows \in Seq(Row) /\ \A j \in DOMAIN l : InOrder(l[j], players[l[j]], rows)
  <2>1. CASE rows = RowsByEnv(l) BY <2>1, <1>1, ByEnvInOrder
  <2>2. CASE rows = RowsByPlayer(l) BY <2>2, <1>1, <1>2, ByPlayerInOrder
  <2> QED BY <1>3, <2>1, <2>2
<1>5. EnvOf(rows) \in Seq(Envs) BY <1>4, EnvOfType
<1> QED BY <1>3, <1>4, <1>5, SetActionsInv

\* Simplified sends carry what is inferred, which is due if it can be.
LEMMA SendSimpleInv ==
  ASSUME IInv, NEW l \in Lists, SendSimple(l)
  PROVE  IInv'
<1> DEFINE rows == RowsByEnv(l)
           mapping == InferPlayersEnvId(l, Len(rows))
<1>1. players \in [Envs -> Nat] BY DEF IInv, TypeOK
<1>2. rows \in Seq(Row) /\ \A j \in DOMAIN l : InOrder(l[j], players[l[j]], rows)
  BY <1>1, ByEnvInOrder
<1>3. \A j \in DOMAIN l : stage[l[j]] = "idle" BY DEF SendSimple
<1>4. CanInfer(l) => mapping = EnvOf(rows)
  <2> HIDE DEF rows
  <2> QED BY <1>3, InferRight DEF IInv, rows
<1>5. mapping \in Seq(Envs) \cup {Nothing}
  <2>1. Len(rows) \in Nat
    <3> HIDE DEF rows
    <3> QED BY <1>2
  <2> HIDE DEF rows
  <2> QED BY <2>1, InferType DEF IInv
<1>6. EnvOf(rows) \in Seq(Envs) /\ EnvOf(rows) # Nothing
  <2> HIDE DEF rows
  <2> QED BY <1>2, EnvOfType, ConstantsAssumption
<1>7. IF mapping # Nothing THEN SetActions(l, rows, mapping, CanInfer(l), FromLastRecv(l))
      ELSE /\ refused' = CanInfer(l)
           /\ UNCHANGED <<batch, players, stage, lastPlayersEnvId, lastEnvId, actionBatch, parsed>>
  BY DEF SendSimple
<1> HIDE DEF mapping, rows
<1>8. CASE mapping # Nothing
  <2>1. CanInfer(l) \in BOOLEAN /\ FromLastRecv(l) \in BOOLEAN BY DEF CanInfer, FromLastRecv
  <2>2. mapping \in Seq(Envs) BY <1>5, <1>8
  <2>3. SetActions(l, rows, mapping, CanInfer(l), FromLastRecv(l)) BY <1>7, <1>8
  <2> DEFINE due == CanInfer(l)
             fromLast == FromLastRecv(l)
  <2>4. due => mapping = EnvOf(rows) /\ \A j \in DOMAIN l : InOrder(l[j], players[l[j]], rows)
    BY <1>2, <1>4
  <2>5. due \in BOOLEAN /\ fromLast \in BOOLEAN /\ SetActions(l, rows, mapping, due, fromLast) BY <2>1, <2>3
  <2> HIDE DEF due, fromLast
  <2> QED BY <1>2, <2>2, <2>4, <2>5, SetActionsInv
<1>9. CASE mapping = Nothing
  <2>1. ~ CanInfer(l) BY <1>4, <1>6, <1>9
  <2>2. refused' = FALSE BY <1>7, <1>9, <2>1 DEF CanInfer, FromLastRecv
  <2>3. UNCHANGED <<batch, players, stage, lastPlayersEnvId, lastEnvId, actionBatch, parsed>> BY <1>7, <1>9
  <2>4. TypeOK' BY <2>2, <2>3 DEF IInv, TypeOK
  <2>5. PlayersInv' BY <2>3 DEF IInv, PlayersInv
  <2>6. LastInv' BY <2>3 DEF IInv, LastInv
  <2>7. BatchInv' BY <2>3 DEF IInv, BatchInv
  <2>8. OwnPlayersAct' BY <2>3 DEF IInv, OwnPlayersAct, Own
  <2>9. InferenceSuffices' BY <2>2 DEF InferenceSuffices
  <2> QED BY <2>4, <2>5, <2>6, <2>7, <2>8, <2>9 DEF IInv
<1> QED BY <1>8, <1>9

\* A recv takes the mapping of its batch.
LEMMA RecvInv ==
  ASSUME IInv, NEW l \in Lists, Recv(l)
  PROVE  IInv'
<1> USE DEF IInv
<1>1. players \in [Envs -> Nat] BY DEF TypeOK
<1>2. l \in Seq(Envs) /\ \A j \in DOMAIN l : l[j] \in Envs BY ListsType
<1>3. RowsByEnv(l) \in Seq(Row) BY <1>1, ByEnvInOrder
<1>4. EnvOf(RowsByEnv(l)) \in Seq(Envs) /\ EnvOf(RowsByEnv(l)) # Nothing
  BY <1>3, EnvOfType, ConstantsAssumption
<1>5. /\ \A j \in DOMAIN l : stage[l[j]] = "reported"
      /\ stage' = [e \in Envs |-> IF \E j \in DOMAIN l : l[j] = e THEN "idle" ELSE stage[e]]
      /\ lastEnvId' = l
      /\ lastPlayersEnvId' = EnvOf(RowsByEnv(l))
      /\ parsed' = [e \in Envs |-> IF \E j \in DOMAIN l : l[j] = e THEN Nothing ELSE parsed[e]]
      /\ UNCHANGED <<batch, players, actionBatch, refused>>
  BY DEF Recv
<1>6. TypeOK'
  <2>1. stage' \in [Envs -> Stages]
    <3>1. \A e \in Envs : stage'[e] \in Stages BY <1>5 DEF TypeOK, Stages
    <3> QED BY <1>5, <3>1
  <2>2. parsed' = [e \in Envs |-> parsed'[e]] BY <1>5
  <2> QED BY <1>2, <1>4, <1>5, <2>1, <2>2 DEF TypeOK
<1>7. PlayersInv'
  <2>1. SUFFICES ASSUME NEW e \in Envs, stage'[e] # "asked" PROVE players'[e] \in Counts
    BY DEF PlayersInv, Counts
  <2>2. stage[e] # "asked" BY <1>5, <2>1
  <2> QED BY <2>2, <1>5 DEF PlayersInv
<1>8. LastInv'
  <2>1. ASSUME NEW k \in DOMAIN l
        PROVE  Cardinality(RowsOf(l[k], EnvOf(RowsByEnv(l)))) = players[l[k]]
    BY <1>1, RowsPerEnv
  <2>2. \A q \in DOMAIN EnvOf(RowsByEnv(l)) : \E k \in DOMAIN l : l[k] = EnvOf(RowsByEnv(l))[q]
    BY <1>1, RepeatedEnvs
  <2> HIDE DEF IInv
  <2> QED BY <1>4, <1>5, <2>1, <2>2 DEF LastInv
<1>9. BatchInv'
  <2>1. SUFFICES ASSUME NEW e \in Envs, actionBatch'[e] # Nothing
                 PROVE  /\ stage'[e] = "asked"
                        /\ actionBatch'[e].due =>
                             /\ actionBatch'[e].playersEnvId = EnvOf(actionBatch'[e].rows)
                             /\ InOrder(e, players'[e], actionBatch'[e].rows)
    BY DEF BatchInv
  <2>2. actionBatch[e] # Nothing /\ stage[e] = "asked" BY <1>5, <2>1 DEF BatchInv
  <2>3. ~ \E j \in DOMAIN l : l[j] = e BY <1>5, <2>2
  <2> QED BY <1>5, <2>2, <2>3 DEF BatchInv
<1>10. OwnPlayersAct'
  <2>1. SUFFICES ASSUME NEW e \in Envs, parsed'[e] # Nothing, parsed'[e].due
                 PROVE  parsed'[e].raw = [k \in 1..parsed'[e].own |-> <<e, k>>]
    BY DEF OwnPlayersAct, Own
  <2>2. parsed'[e] = parsed[e] BY <1>5, <2>1
  <2> QED BY <2>1, <2>2 DEF OwnPlayersAct, Own
<1>11. InferenceSuffices' BY <1>5 DEF InferenceSuffices
<1> QED BY <1>6, <1>7, <1>8, <1>9, <1>10, <1>11

\* A step or a reset reports an env, with any number of players it can have.
LEMMA ReportInv ==
  ASSUME IInv, NEW e \in Envs, stage[e] = "asked", Report(e),
         \/ parsed' = parsed
         \/ \E x : /\ parsed' = [parsed EXCEPT ![e] = x]
                   /\ x.due => x.raw = [k \in 1..x.own |-> <<e, k>>]
  PROVE  IInv'
<1> USE DEF IInv
<1>1. PICK n \in Counts : players' = [players EXCEPT ![e] = n] BY DEF Report
<1>2. n \in Nat BY ConstantsAssumption DEF Counts
<1>3. /\ stage' = [stage EXCEPT ![e] = "reported"]
      /\ actionBatch' = [actionBatch EXCEPT ![e] = Nothing]
      /\ UNCHANGED <<batch, lastPlayersEnvId, lastEnvId, refused>>
  BY DEF Report
<1>4. TypeOK'
  <2>1. players' \in [Envs -> Nat] BY <1>1, <1>2 DEF TypeOK
  <2>2. stage' \in [Envs -> Stages] BY <1>3 DEF TypeOK, Stages
  <2>3. actionBatch' \in [Envs -> Action \cup {Nothing}]
    <3> DEFINE A == Action \cup {Nothing}
    <3>1. actionBatch \in [Envs -> A] /\ Nothing \in A BY DEF TypeOK
    <3> HIDE DEF A
    <3>2. actionBatch' \in [Envs -> A] BY <1>3, <3>1
    <3> QED BY <3>2 DEF A
  <2>4. parsed' = [f \in Envs |-> parsed'[f]]
    <3>1. parsed = [f \in Envs |-> parsed[f]] BY DEF TypeOK
    <3> QED BY <3>1
  <2> QED BY <1>3, <2>1, <2>2, <2>3, <2>4 DEF TypeOK
<1>5. \A f \in Envs : f # e => players'[f] = players[f] /\ stage'[f] = stage[f] /\ actionBatch'[f] = actionBatch[f]
  BY <1>1, <1>3 DEF TypeOK
<1>6. players'[e] = n /\ stage'[e] = "reported" /\ actionBatch'[e] = Nothing
  BY <1>1, <1>3 DEF TypeOK
<1>7. PlayersInv'
  <2>1. SUFFICES ASSUME NEW f \in Envs, stage'[f] # "asked" PROVE players'[f] \in Counts
    BY DEF PlayersInv, Counts
  <2>2. CASE f = e BY <2>2, <1>6
  <2>3. CASE f # e BY <2>1, <2>3, <1>5 DEF PlayersInv
  <2> QED BY <2>2, <2>3
<1>8. LastInv'
  <2>1. ASSUME NEW k \in DOMAIN lastEnvId, stage'[lastEnvId[k]] = "idle"
        PROVE  Cardinality(RowsOf(lastEnvId[k], lastPlayersEnvId)) = players'[lastEnvId[k]]
    <3>1. lastEnvId[k] \in Envs /\ lastEnvId[k] # e BY <2>1, <1>6 DEF TypeOK
    <3>2. stage[lastEnvId[k]] = "idle" BY <3>1, <2>1, <1>5
    <3> QED BY <3>1, <3>2, <1>5 DEF LastInv
  <2>2. \A k \in DOMAIN lastEnvId : lastPlayersEnvId # Nothing BY DEF LastInv
  <2>3. lastPlayersEnvId # Nothing =>
          \A i \in DOMAIN lastPlayersEnvId : \E k \in DOMAIN lastEnvId : lastEnvId[k] = lastPlayersEnvId[i]
    BY DEF LastInv
  <2> HIDE DEF IInv
  <2> QED BY <1>3, <2>1, <2>2, <2>3 DEF LastInv
<1>9. BatchInv'
  <2>1. SUFFICES ASSUME NEW f \in Envs, actionBatch'[f] # Nothing
                 PROVE  /\ stage'[f] = "asked"
                        /\ actionBatch'[f].due =>
                             /\ actionBatch'[f].playersEnvId = EnvOf(actionBatch'[f].rows)
                             /\ InOrder(f, players'[f], actionBatch'[f].rows)
    BY DEF BatchInv
  <2>2. f # e BY <2>1, <1>6
  <2> QED BY <2>1, <2>2, <1>5 DEF BatchInv
<1>10. OwnPlayersAct'
  <2>1. CASE parsed' = parsed BY <2>1 DEF OwnPlayersAct, Own
  <2>2. CASE \E x : /\ parsed' = [parsed EXCEPT ![e] = x]
                    /\ x.due => x.raw = [k \in 1..x.own |-> <<e, k>>]
    <3>1. PICK x : /\ parsed' = [parsed EXCEPT ![e] = x]
                   /\ x.due => x.raw = [k \in 1..x.own |-> <<e, k>>]
      BY <2>2
    <3>2. \A f \in Envs : parsed'[f] = IF f = e THEN x ELSE parsed[f]
      <4>1. parsed = [f \in Envs |-> parsed[f]] BY DEF TypeOK
      <4> QED BY <3>1, <4>1
    <3>3. SUFFICES ASSUME NEW f \in Envs, parsed'[f] # Nothing, parsed'[f].due
                   PROVE  parsed'[f].raw = [k \in 1..parsed'[f].own |-> <<f, k>>]
      BY DEF OwnPlayersAct, Own
    <3>4. CASE f = e
      <4>1. parsed'[f] = x BY <3>2, <3>4
      <4>2. x.raw = [k \in 1..x.own |-> <<e, k>>] BY <3>1, <3>3, <4>1
      <4> QED BY <3>4, <4>1, <4>2
    <3>5. CASE f # e
      <4>1. parsed'[f] = parsed[f] BY <3>2, <3>5
      <4> QED BY <3>3, <4>1 DEF OwnPlayersAct, Own
    <3> QED BY <3>4, <3>5
  <2> QED BY <2>1, <2>2
<1>11. InferenceSuffices' BY <1>3 DEF InferenceSuffices
<1> QED BY <1>4, <1>7, <1>8, <1>9, <1>10, <1>11

LEMMA StepInv ==
  ASSUME IInv, NEW e \in Envs, Step(e)
  PROVE  IInv'
<1> DEFINE a == actionBatch[e]
           x == [raw |-> ParseAction(e, a), own |-> players[e], due |-> a.due, fromLast |-> a.fromLast]
<1>1. stage[e] = "asked" /\ a # Nothing /\ parsed' = [parsed EXCEPT ![e] = x] /\ Report(e)
  BY DEF Step
<1>2. a \in Action /\ players[e] \in Nat BY <1>1 DEF IInv, TypeOK
<1>3. a.due => ParseAction(e, a) = [k \in 1..players[e] |-> <<e, k>>]
  <2>1. SUFFICES ASSUME a.due PROVE ParseAction(e, a) = [k \in 1..players[e] |-> <<e, k>>] OBVIOUS
  <2>2. a.playersEnvId = EnvOf(a.rows) /\ InOrder(e, players[e], a.rows)
    BY <1>1, <2>1 DEF IInv, BatchInv
  <2>3. a.rows \in Seq(Row) BY <1>2 DEF Action
  <2> HIDE DEF a
  <2> QED BY <1>2, <2>2, <2>3, ParsePicksOwn
<1>4. x.due => x.raw = [k \in 1..x.own |-> <<e, k>>] BY <1>3
<1> HIDE DEF x
<1> QED BY <1>1, <1>4, ReportInv

LEMMA ResetInv ==
  ASSUME IInv, NEW e \in Envs, Reset(e)
  PROVE  IInv'
BY ReportInv DEF Reset

LEMMA StutterInv ==
  ASSUME IInv, UNCHANGED vars
  PROVE  IInv'
<1>1. TypeOK' BY DEF IInv, vars, TypeOK
<1>2. PlayersInv' BY DEF IInv, vars, PlayersInv
<1>3. LastInv' BY DEF IInv, vars, LastInv
<1>4. BatchInv' BY DEF IInv, vars, BatchInv
<1>5. OwnPlayersAct' BY DEF IInv, vars, OwnPlayersAct, Own
<1>6. InferenceSuffices' BY DEF IInv, vars, InferenceSuffices
<1> QED BY <1>1, <1>2, <1>3, <1>4, <1>5, <1>6 DEF IInv

\* The invariant holds in every state, however many players each env reports, none included.
THEOREM PlayersInductive == Spec => []IInv
<1>1. IInv /\ [Next]_vars => IInv'
  <2> SUFFICES ASSUME IInv, [Next]_vars PROVE IInv' OBVIOUS
  <2>1. ASSUME NEW l \in Lists, SendExplicit(l) PROVE IInv' BY <2>1, SendExplicitInv
  <2>2. ASSUME NEW l \in Lists, SendSimple(l) PROVE IInv' BY <2>2, SendSimpleInv
  <2>3. ASSUME NEW l \in Lists, Recv(l) PROVE IInv' BY <2>3, RecvInv
  <2>4. ASSUME NEW e \in Envs, Step(e) PROVE IInv' BY <2>4, StepInv
  <2>5. ASSUME NEW e \in Envs, Reset(e) PROVE IInv' BY <2>5, ResetInv
  <2>6. CASE UNCHANGED vars BY <2>6, StutterInv
  <2> QED BY <2>1, <2>2, <2>3, <2>4, <2>5, <2>6 DEF Next
<1> QED BY InitInv, <1>1, PTL DEF Spec

\* Each step is handed exactly the actions of its env's own players, in their order, for
\* any number of envs and of players: under a mapping of the caller always, and under an
\* inferred one as long as each env of the send has a player and they came with the last recv
\* or have as many each (Env::ParseAction, _infer_players_env_id).
THEOREM OwnPlayersActAlways == Spec => []OwnPlayersAct
<1>1. IInv => OwnPlayersAct BY DEF IInv
<1> QED BY PlayersInductive, <1>1, PTL

\* The simplified send is never refused for such envs, whatever the other envs of the pool
\* report (_infer_players_env_id).
THEOREM InferenceSufficesAlways == Spec => []InferenceSuffices
<1>1. IInv => InferenceSuffices BY DEF IInv
<1> QED BY PlayersInductive, <1>1, PTL
=============================================================================

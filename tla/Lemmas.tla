--------------------------------- MODULE Lemmas ---------------------------------
(***************************************************************************)
(* Facts about numbers and sequences that the proofs of several components   *)
(* rest on and the libraries do not state: induction over a set of numbers,  *)
(* what a prefix code or a delimiter makes of concatenated texts, and how    *)
(* positions of distinct ranks are sorted.                                   *)
(***************************************************************************)
EXTENDS Integers, SequencesExt, SequenceTheorems, FiniteSetTheorems,
        WellFoundedInduction, TLAPS

-------------------------------------------------------------------------------
(* Induction over the natural numbers, for a set of them.                   *)

LEMMA LeastElement ==
  ASSUME NEW T \in SUBSET Nat, T # {}
  PROVE  \E x \in T : \A y \in T : x <= y
<1> DEFINE R == {ss \in Nat \X Nat : ss[1] < ss[2]}
<1>1. IsWellFoundedOn(R, Nat)
  BY NatLessThanWellFounded DEF OpToRel
<1>2. \A x, y \in Nat : y < x => <<y, x>> \in R
  OBVIOUS
<1> HIDE DEF R
<1>3. PICK x \in T : \A y \in T : ~(<<y, x>> \in R)
  BY <1>1, WFMin
<1>4. ASSUME NEW y \in T PROVE x <= y
  <2>1. x \in Nat /\ y \in Nat /\ ~(y < x)
    BY <1>2, <1>3
  <2>2. QED
    BY <2>1
<1>5. QED
  BY <1>4

LEMMA Induction ==
  ASSUME NEW T, 0 \in T, \A n \in Nat : n \in T => n + 1 \in T
  PROVE  Nat \subseteq T
<1> SUFFICES ASSUME Nat \ T # {} PROVE FALSE
  OBVIOUS
<1>1. PICK x \in Nat \ T : \A y \in Nat \ T : x <= y
  BY LeastElement
<1>2. x # 0 /\ x - 1 \in Nat
  BY <1>1
<1>3. x - 1 \in T
  BY <1>1, <1>2
<1>4. QED
  BY <1>1, <1>2, <1>3

\* A set of positions has a last one.
LEMMA GreatestElement ==
  ASSUME NEW n \in Nat, NEW I \in SUBSET (1..n), I # {}
  PROVE  \E x \in I : \A y \in I : x >= y
<1> DEFINE T == {n - x : x \in I}
<1>1. T \in SUBSET Nat /\ T # {}
  <2>1. \A x \in 1..n : n - x \in Nat
    OBVIOUS
  <2>2. \A x \in I : n - x \in Nat
    BY <2>1
  <2>3. QED
    BY <2>2
<1>2. PICK t \in T : \A u \in T : t <= u
  <2> HIDE DEF T
  <2>1. QED
    BY <1>1, LeastElement
<1>3. PICK x \in I : t = n - x
  BY <1>2
<1>4. ASSUME NEW y \in I PROVE x >= y
  <2>1. n - x <= n - y
    BY <1>2, <1>3
  <2>2. x \in 1..n /\ y \in 1..n
    OBVIOUS
  <2>3. QED
    BY <2>1, <2>2
<1>5. QED
  BY <1>4

\* An interval from 1 has one length.
LEMMA SameInterval ==
  ASSUME NEW a \in Nat, NEW b \in Nat, 1..a = 1..b
  PROVE  a = b
<1>1. a > 0 => a <= b
  <2>1. a > 0 => a \in 1..b
    OBVIOUS
  <2>2. QED
    BY <2>1
<1>2. b > 0 => b <= a
  <2>1. b > 0 => b \in 1..a
    OBVIOUS
  <2>2. QED
    BY <2>1
<1>3. QED
  BY <1>1, <1>2

-------------------------------------------------------------------------------
(* Concatenating a sequence of sequences.                                   *)

LEMMA FlattenExists ==
  ASSUME NEW s, NEW l \in Nat
  PROVE  \E f : f = [i \in 1..l |-> IF i = 1 THEN s[i] ELSE f[i - 1] \o s[i]]
<1> DEFINE Step(f, i) == IF i = 1 THEN s[i] ELSE f[i - 1] \o s[i]
           T == {m \in Nat : \E f : f = [i \in 1..m |-> Step(f, i)]}
<1>1. 0 \in T
  <2> DEFINE f == [i \in 1..0 |-> 0]
  <2>1. f = [i \in 1..0 |-> Step(f, i)]
    OBVIOUS
  <2> HIDE DEF f
  <2>2. QED
    BY <2>1
<1>2. ASSUME NEW m \in Nat, m \in T PROVE m + 1 \in T
  <2>1. PICK f : f = [i \in 1..m |-> Step(f, i)]
    BY <1>2
  <2> DEFINE h == [i \in 1..(m + 1) |->
                     IF i = m + 1 THEN IF i = 1 THEN s[i] ELSE f[m] \o s[i] ELSE f[i]]
  <2>2. \A i \in 1..m : h[i] = f[i]
    OBVIOUS
  <2>3. ASSUME NEW i \in 1..(m + 1) PROVE h[i] = Step(h, i)
    <3>1. CASE i = 1
      <4>1. m = 0 => h[i] = s[i]
        BY <3>1
      <4>2. m # 0 => i \in 1..m /\ h[i] = f[i]
        BY <3>1, <2>2
      <4> HIDE DEF h
      <4>3. m # 0 => f[i] = s[i]
        BY <2>1, <3>1, <4>2
      <4>4. QED
        BY <3>1, <4>1, <4>2, <4>3
    <3>2. CASE i # 1 /\ i = m + 1
      <4>a. i - 1 = m /\ m \in 1..m
        BY <3>2
      <4>b. h[i] = f[m] \o s[i]
        BY <3>2
      <4>1. h[i] = f[m] \o s[i] /\ i - 1 = m /\ m \in 1..m
        BY <4>a, <4>b
      <4>2. h[i - 1] = f[m]
        BY <4>1, <2>2
      <4> HIDE DEF h
      <4>3. QED
        BY <3>2, <4>1, <4>2
    <3>3. CASE i # 1 /\ i # m + 1
      <4>1. i \in 1..m /\ i - 1 \in 1..m
        BY <3>3
      <4>2. h[i] = f[i] /\ h[i - 1] = f[i - 1]
        BY <4>1, <2>2
      <4> HIDE DEF h
      <4>3. f[i] = f[i - 1] \o s[i]
        BY <2>1, <3>3, <4>1
      <4>4. QED
        BY <3>3, <4>2, <4>3
    <3>4. QED
      BY <3>1, <3>2, <3>3
  <2>4. h = [i \in 1..(m + 1) |-> Step(h, i)]
    BY <2>3
  <2> HIDE DEF h, Step
  <2>5. QED
    BY <2>4
<1> HIDE DEF T
<1>3. l \in T
  BY <1>1, <1>2, Induction
<1>4. QED
  BY <1>3 DEF T

LEMMA FlattenType ==
  ASSUME NEW S, NEW s \in Seq(Seq(S))
  PROVE  FlattenSeq(s) \in Seq(S)
<1> DEFINE Step(f, i) == IF i = 1 THEN s[i] ELSE f[i - 1] \o s[i]
           flatten == CHOOSE f : f = [i \in 1..Len(s) |-> Step(f, i)]
<1>1. Len(s) \in Nat /\ \A i \in 1..Len(s) : s[i] \in Seq(S)
  BY LenProperties, ElementOfSeq
<1>2. CASE Len(s) = 0
  <2>1. s = << >>
    BY <1>2, EmptySeq
  <2>2. << >> \in Seq(S)
    OBVIOUS
  <2>3. FlattenSeq(s) = s
    BY <1>2 DEF FlattenSeq
  <2>4. QED
    BY <2>1, <2>2, <2>3
<1>3. CASE Len(s) # 0
  <2>1. FlattenSeq(s) = flatten[Len(s)]
    BY <1>3 DEF FlattenSeq
  <2>2. \E f : f = [i \in 1..Len(s) |-> Step(f, i)]
    BY <1>1, FlattenExists
  <2>3. flatten = [i \in 1..Len(s) |-> Step(flatten, i)]
    <3> HIDE DEF Step
    <3> QED BY <2>2
  <2> HIDE DEF flatten
  <2>4. \A i \in 1..Len(s) : flatten[i] = Step(flatten, i)
    BY <2>3
  <2> DEFINE T == {m \in Nat : m + 1 <= Len(s) => flatten[m + 1] \in Seq(S)}
  <2>5. 0 \in T
    <3>1. 1 \in 1..Len(s)
      BY <1>1, <1>3
    <3>2. QED
      BY <3>1, <2>4, <1>1
  <2>6. ASSUME NEW m \in Nat, m \in T PROVE m + 1 \in T
    <3> SUFFICES ASSUME (m + 1) + 1 <= Len(s) PROVE flatten[(m + 1) + 1] \in Seq(S)
      OBVIOUS
    <3>1. /\ (m + 1) + 1 \in 1..Len(s) /\ (m + 1) + 1 # 1 /\ ((m + 1) + 1) - 1 = m + 1
          /\ m + 1 <= Len(s)
      BY <1>1
    <3>2. flatten[(m + 1) + 1] = flatten[m + 1] \o s[(m + 1) + 1]
      BY <3>1, <2>4
    <3>3. flatten[m + 1] \in Seq(S)
      BY <2>6, <3>1
    <3>4. QED
      BY <3>1, <3>2, <3>3, <1>1, ConcatProperties
  <2> HIDE DEF T
  <2>7. Nat \subseteq T
    BY <2>5, <2>6, Induction
  <2>8. Len(s) - 1 \in Nat /\ (Len(s) - 1) + 1 = Len(s)
    BY <1>1, <1>3
  <2>9. flatten[Len(s)] \in Seq(S)
    BY <2>7, <2>8 DEF T
  <2>10. QED
    BY <2>1, <2>9
<1>4. QED
  BY <1>2, <1>3

\* The positions of a sequence that satisfy something are finitely many.
LEMMA PositionsCount ==
  ASSUME NEW S, NEW s \in Seq(S), NEW I \in SUBSET DOMAIN s
  PROVE  Cardinality(I) \in Nat
<1>1. DOMAIN s = 1..Len(s) /\ Len(s) \in Nat
  BY LenProperties
<1>2. IsFiniteSet(1..Len(s))
  BY <1>1, FS_Interval
<1>3. IsFiniteSet(I)
  BY <1>1, <1>2, FS_Subset
<1>4. QED
  BY <1>3, FS_CardinalityType

-------------------------------------------------------------------------------
(* Concatenations: the words of a prefix code read one way only.            *)

\* P lists what has been concatenated after each element of s.
Flattens(P, s) ==
  /\ P[0] = << >>
  /\ \A i \in 1..Len(s) : P[i] = P[i - 1] \o s[i]

\* FlattenSeq concatenates the elements of s one after the other.
LEMMA FlattenSteps ==
  ASSUME NEW S, NEW s \in Seq(Seq(S))
  PROVE  \E P : /\ Flattens(P, s)
                /\ \A i \in 0..Len(s) : P[i] \in Seq(S)
                /\ FlattenSeq(s) = P[Len(s)]
<1> DEFINE Step(f, i) == IF i = 1 THEN s[i] ELSE f[i - 1] \o s[i]
           flatten == CHOOSE f : f = [i \in 1..Len(s) |-> Step(f, i)]
           P == [i \in 0..Len(s) |-> IF i = 0 THEN << >> ELSE flatten[i]]
<1>1. Len(s) \in Nat /\ \A i \in 1..Len(s) : s[i] \in Seq(S)
  BY LenProperties, ElementOfSeq
<1>2. Len(s) # 0 => FlattenSeq(s) = flatten[Len(s)]
  BY DEF FlattenSeq
<1>3. \E f : f = [i \in 1..Len(s) |-> Step(f, i)]
  BY <1>1, FlattenExists
<1>4. flatten = [i \in 1..Len(s) |-> Step(flatten, i)]
  <2> HIDE DEF Step
  <2> QED BY <1>3
<1> HIDE DEF flatten
<1>5. \A i \in 1..Len(s) : flatten[i] = Step(flatten, i)
  BY <1>4
<1>6. P[0] = << >>
  BY <1>1
<1>7. ASSUME NEW i \in 1..Len(s) PROVE P[i] = P[i - 1] \o s[i]
  <2>1. P[i] = flatten[i] /\ i - 1 \in 0..Len(s) /\ s[i] \in Seq(S)
    BY <1>1
  <2>2. CASE i = 1
    <3>1. P[i - 1] = << >> /\ flatten[i] = s[i]
      BY <2>2, <1>5, <1>6
    <3>2. QED
      BY <3>1, <2>1, ConcatEmptySeq
  <2>3. CASE i # 1
    <3>1. i - 1 # 0 /\ P[i - 1] = flatten[i - 1]
      BY <2>1, <2>3
    <3>2. QED
      BY <3>1, <2>1, <2>3, <1>5
  <2>4. QED
    BY <2>2, <2>3
<1>10. FlattenSeq(s) = P[Len(s)]
  <2>1. CASE Len(s) = 0
    <3>1. FlattenSeq(s) = s
      BY <2>1 DEF FlattenSeq
    <3>2. QED
      BY <2>1, <3>1, <1>6, EmptySeq
  <2>2. CASE Len(s) # 0
    BY <2>2, <1>1, <1>2
  <2>3. QED
    BY <2>1, <2>2
<1> HIDE DEF P
<1> DEFINE T == {m \in Nat : m <= Len(s) => P[m] \in Seq(S)}
<1>11. 0 \in T
  <2>1. << >> \in Seq(S)
    OBVIOUS
  <2>2. QED
    BY <1>6, <2>1
<1>12. ASSUME NEW m \in Nat, m \in T PROVE m + 1 \in T
  <2> SUFFICES ASSUME m + 1 <= Len(s) PROVE P[m + 1] \in Seq(S)
    OBVIOUS
  <2>1. m + 1 \in 1..Len(s) /\ (m + 1) - 1 = m /\ m <= Len(s)
    BY <1>1
  <2>2. P[m + 1] = P[m] \o s[m + 1] /\ P[m] \in Seq(S) /\ s[m + 1] \in Seq(S)
    BY <2>1, <1>1, <1>7, <1>12
  <2>3. QED
    BY <2>2, ConcatProperties
<1> HIDE DEF T
<1>13. Nat \subseteq T
  BY <1>11, <1>12, Induction
<1>14. \A i \in 0..Len(s) : P[i] \in Seq(S)
  BY <1>13, <1>1 DEF T
<1>15. QED
  BY <1>6, <1>7, <1>10, <1>14 DEF Flattens

\* The same for sequences of texts over S.
Flattening(S, P, s) ==
  /\ Len(s) \in Nat
  /\ \A i \in 1..Len(s) : s[i] \in Seq(S)
  /\ \A i \in 0..Len(s) : P[i] \in Seq(S)
  /\ Flattens(P, s)

\* The text v begins with u.
Opens(u, v) == Len(u) <= Len(v) /\ \A k \in 1..Len(u) : u[k] = v[k]

\* No word of C, all of them over S, begins another.
PrefixFree(S, C) ==
  /\ C \subseteq Seq(S) /\ << >> \notin C
  /\ \A u, v \in C : Opens(u, v) => u = v

\* The m-th element of s is found again after the ones before it.
WordRead(P, s, m) ==
  /\ Len(P[m - 1]) + Len(s[m]) <= Len(P[Len(s)])
  /\ \A k \in 1..Len(s[m]) : P[Len(s)][Len(P[m - 1]) + k] = s[m][k]

\* What one text adds to another.
LEMMA Joined ==
  ASSUME NEW S, NEW x \in Seq(S), NEW y \in Seq(S)
  PROVE  /\ Len(x) \in Nat /\ Len(y) \in Nat
         /\ Len(x \o y) = Len(x) + Len(y)
         /\ \A k \in 1..Len(x) : (x \o y)[k] = x[k]
         /\ \A k \in 1..Len(y) : (x \o y)[Len(x) + k] = y[k]
<1>1. /\ Len(x) \in Nat /\ Len(y) \in Nat
      /\ Len(x \o y) = Len(x) + Len(y)
      /\ \A k \in 1..(Len(x) + Len(y)) :
           (x \o y)[k] = IF k <= Len(x) THEN x[k] ELSE y[k - Len(x)]
  BY ConcatProperties, LenProperties
<1>2. \A m, n \in Nat : /\ \A k \in 1..m : k \in 1..(m + n) /\ k <= m
                        /\ \A k \in 1..n : /\ m + k \in 1..(m + n) /\ ~(m + k <= m)
                                          /\ (m + k) - m = k
  OBVIOUS
<1>3. QED
  BY <1>1, <1>2

\* What is concatenated first stays in front.
LEMMA FlattenPrefix ==
  ASSUME NEW S, NEW P, NEW s, Flattening(S, P, s), NEW m \in 0..Len(s)
  PROVE  Opens(P[m], P[Len(s)])
<1> DEFINE T == {n \in Nat : m + n <= Len(s) => Opens(P[m], P[m + n])}
<1>1. Len(s) \in Nat
  BY DEF Flattening
<1>2. 0 \in T
  <2>1. m + 0 = m /\ P[m] \in Seq(S)
    BY <1>1 DEF Flattening
  <2>2. Len(P[m]) \in Nat
    BY <2>1, LenProperties
  <2>3. QED
    BY <2>1, <2>2 DEF Opens
<1>3. ASSUME NEW n \in Nat, n \in T PROVE n + 1 \in T
  <2> SUFFICES ASSUME m + (n + 1) <= Len(s) PROVE Opens(P[m], P[m + (n + 1)])
    OBVIOUS
  <2> DEFINE i == m + n
             j == m + (n + 1)
  <2>1. i \in 0..Len(s) /\ m \in 0..Len(s) /\ j \in 1..Len(s) /\ j - 1 = i /\ i <= Len(s)
    BY <1>1
  <2>2. Opens(P[m], P[i])
    BY <2>1, <1>3
  <2> HIDE DEF i, j, T
  <2>3. P[j] = P[i] \o s[j] /\ P[i] \in Seq(S) /\ s[j] \in Seq(S) /\ P[m] \in Seq(S)
    BY <2>1 DEF Flattening, Flattens
  <2>4. /\ Len(P[i]) \in Nat /\ Len(s[j]) \in Nat
        /\ Len(P[j]) = Len(P[i]) + Len(s[j])
        /\ \A k \in 1..Len(P[i]) : P[j][k] = P[i][k]
    <3>1. P[i] \in Seq(S) /\ s[j] \in Seq(S)
      BY <2>3
    <3>2. /\ Len(P[i]) \in Nat /\ Len(s[j]) \in Nat
          /\ Len(P[i] \o s[j]) = Len(P[i]) + Len(s[j])
          /\ \A k \in 1..Len(P[i]) : (P[i] \o s[j])[k] = P[i][k]
      BY <3>1, Joined, ZenonT(60)
    <3>3. QED
      BY <3>2, <2>3
  <2>5. Len(P[m]) \in Nat
    BY <2>3, LenProperties
  <2>6. Len(P[m]) <= Len(P[i]) /\ \A k \in 1..Len(P[m]) : P[i][k] = P[m][k]
    BY <2>2 DEF Opens
  <2>a. \A x, y, z \in Nat : x <= y => x <= y + z /\ \A k \in 1..x : k \in 1..y
    OBVIOUS
  <2>7. Len(P[m]) <= Len(P[j]) /\ \A k \in 1..Len(P[m]) : k \in 1..Len(P[i])
    BY <2>4, <2>5, <2>6, <2>a
  <2>8. Opens(P[m], P[j])
    BY <2>4, <2>6, <2>7 DEF Opens
  <2>9. QED
    BY <2>8 DEF j
<1>4. Nat \subseteq T
  <2> HIDE DEF T
  <2>1. QED
    BY <1>2, <1>3, Induction
<1>5. Len(s) - m \in Nat /\ m + (Len(s) - m) = Len(s) /\ Len(s) <= Len(s)
  BY <1>1
<1>6. QED
  BY <1>4, <1>5

\* Sequences that begin alike flatten alike.
LEMMA FlattenAlike ==
  ASSUME NEW s, Len(s) \in Nat, NEW P, Flattens(P, s),
         NEW t, Len(t) \in Nat, NEW Q, Flattens(Q, t),
         NEW m \in Nat, m <= Len(s), m <= Len(t), \A k \in 1..m : s[k] = t[k]
  PROVE  P[m] = Q[m]
<1> DEFINE T == {n \in Nat : n <= m => P[n] = Q[n]}
<1>2. 0 \in T
  BY DEF Flattens
<1>3. ASSUME NEW n \in Nat, n \in T PROVE n + 1 \in T
  <2> SUFFICES ASSUME n + 1 <= m PROVE P[n + 1] = Q[n + 1]
    OBVIOUS
  <2>1. /\ n + 1 \in 1..Len(s) /\ n + 1 \in 1..Len(t) /\ n + 1 \in 1..m
        /\ (n + 1) - 1 = n /\ n <= m
    OBVIOUS
  <2>2. P[n + 1] = P[n] \o s[n + 1] /\ Q[n + 1] = Q[n] \o t[n + 1]
    BY <2>1 DEF Flattens
  <2>3. QED
    BY <2>1, <2>2, <1>3
<1> HIDE DEF T
<1>4. Nat \subseteq T
  BY <1>2, <1>3, Induction
<1>5. QED
  BY <1>4 DEF T

\* A text flattened with one more word.
LEMMA FlattenAppend ==
  ASSUME NEW S, NEW s \in Seq(Seq(S)), NEW w \in Seq(S)
  PROVE  FlattenSeq(Append(s, w)) = FlattenSeq(s) \o w
<1> DEFINE t == Append(s, w)
<1>1. /\ t \in Seq(Seq(S)) /\ Len(s) \in Nat /\ Len(t) = Len(s) + 1
      /\ \A k \in 1..Len(s) : s[k] = t[k]
      /\ t[Len(s) + 1] = w
  BY AppendProperties, LenProperties
<1> HIDE DEF t
<1>2. PICK P : Flattens(P, s) /\ FlattenSeq(s) = P[Len(s)]
  BY FlattenSteps
<1>3. PICK Q : Flattens(Q, t) /\ FlattenSeq(t) = Q[Len(t)]
  BY <1>1, FlattenSteps
<1>4. P[Len(s)] = Q[Len(s)]
  <2>1. /\ Flattens(P, s) /\ Flattens(Q, t) /\ Len(s) \in Nat /\ Len(t) \in Nat
        /\ Len(s) <= Len(s) /\ Len(s) <= Len(t)
        /\ \A k \in 1..Len(s) : s[k] = t[k]
    BY <1>1, <1>2, <1>3
  <2>2. QED
    BY <2>1, FlattenAlike
<1>5. Len(t) \in 1..Len(t) /\ Len(t) - 1 = Len(s)
  BY <1>1
<1>6. Q[Len(t)] = Q[Len(s)] \o w
  BY <1>1, <1>3, <1>5 DEF Flattens
<1>7. QED
  BY <1>2, <1>3, <1>4, <1>6 DEF t

\* Where the m-th element of s is found again.
LEMMA FlattenElement ==
  ASSUME NEW S, NEW P, NEW s, Flattening(S, P, s), NEW m \in 1..Len(s)
  PROVE  WordRead(P, s, m)
<1>1. /\ Len(s) \in Nat /\ m \in 0..Len(s)
      /\ P[m] = P[m - 1] \o s[m] /\ P[m - 1] \in Seq(S) /\ s[m] \in Seq(S)
  <2>1. Len(s) \in Nat
    BY DEF Flattening
  <2>2. m \in 1..Len(s) /\ m \in 0..Len(s) /\ m - 1 \in 0..Len(s)
    BY <2>1
  <2>3. Flattens(P, s) /\ P[m - 1] \in Seq(S) /\ s[m] \in Seq(S)
    BY <2>2 DEF Flattening
  <2>4. QED
    BY <2>1, <2>2, <2>3 DEF Flattens
<1> DEFINE x == P[m - 1]
           y == s[m]
<1>2. x \in Seq(S) /\ y \in Seq(S)
  BY <1>1
<1>5. P[m] = x \o y
  BY <1>1
<1> HIDE DEF x, y
<1>3. /\ Len(x) \in Nat /\ Len(y) \in Nat
      /\ Len(x \o y) = Len(x) + Len(y)
      /\ \A k \in 1..Len(y) : (x \o y)[Len(x) + k] = y[k]
  BY <1>2, Joined
<1>4. Opens(P[m], P[Len(s)])
  BY <1>1, FlattenPrefix
<1>6. /\ Len(x \o y) <= Len(P[Len(s)])
      /\ \A k \in 1..Len(x \o y) : P[Len(s)][k] = (x \o y)[k]
  BY <1>4, <1>5 DEF Opens
<1>a. \A j, k \in Nat : \A i \in 1..k : j + i \in 1..(j + k)
  OBVIOUS
<1>7. \A k \in 1..Len(y) : Len(x) + k \in 1..Len(x \o y)
  BY <1>3, <1>a
<1>8. /\ Len(x) + Len(y) <= Len(P[Len(s)])
      /\ \A k \in 1..Len(y) : P[Len(s)][Len(x) + k] = y[k]
  BY <1>3, <1>6, <1>7
<1>9. QED
  BY <1>8 DEF WordRead, x, y

\* The steps of a text with the places of its words.
LEMMA FlattenWords ==
  ASSUME NEW S, NEW s \in Seq(Seq(S))
  PROVE  \E P : /\ Flattening(S, P, s)
                /\ FlattenSeq(s) = P[Len(s)]
                /\ \A m \in 1..Len(s) : WordRead(P, s, m)
<1>1. Len(s) \in Nat /\ \A i \in 1..Len(s) : s[i] \in Seq(S)
  BY LenProperties, ElementOfSeq
<1>2. PICK P : /\ Flattens(P, s)
               /\ \A i \in 0..Len(s) : P[i] \in Seq(S)
               /\ FlattenSeq(s) = P[Len(s)]
  BY FlattenSteps
<1>3. Flattening(S, P, s)
  BY <1>1, <1>2 DEF Flattening
<1>4. \A m \in 1..Len(s) : WordRead(P, s, m)
  BY <1>3, FlattenElement
<1>5. QED
  BY <1>2, <1>3, <1>4

\* If no word of C begins another, a text is read as words of C in one way: when
\* one text begins another, so do its words.
LEMMA PrefixCode ==
  ASSUME NEW S, NEW C, PrefixFree(S, C), NEW p \in Seq(C), NEW q \in Seq(C),
         Opens(FlattenSeq(p), FlattenSeq(q))
  PROVE  Opens(p, q)
<1>0. /\ C \subseteq Seq(S) /\ << >> \notin C
      /\ \A u, v \in C :
           Len(u) <= Len(v) /\ (\A k \in 1..Len(u) : u[k] = v[k]) => u = v
  BY DEF PrefixFree, Opens
<1>1. /\ p \in Seq(Seq(S)) /\ q \in Seq(Seq(S)) /\ Len(p) \in Nat /\ Len(q) \in Nat
      /\ \A k \in 1..Len(p) : p[k] \in C
      /\ \A k \in 1..Len(q) : q[k] \in C
  BY <1>0, LenProperties, ElementOfSeq
<1>2. PICK P :
        /\ Flattening(S, P, p)
        /\ FlattenSeq(p) = P[Len(p)]
        /\ \A m \in 1..Len(p) : WordRead(P, p, m)
  BY <1>1, FlattenWords
<1>3. PICK Q :
        /\ Flattening(S, Q, q)
        /\ FlattenSeq(q) = Q[Len(q)]
        /\ \A m \in 1..Len(q) : WordRead(Q, q, m)
  BY <1>1, FlattenWords
<1>4. /\ Len(P[Len(p)]) <= Len(Q[Len(q)])
      /\ \A k \in 1..Len(P[Len(p)]) : P[Len(p)][k] = Q[Len(q)][k]
  BY <1>2, <1>3 DEF Opens
<1> DEFINE T == {m \in Nat : m <= Len(p) => m <= Len(q) /\ \A k \in 1..m : p[k] = q[k]}
<1>5. 0 \in T
  BY <1>1
<1>6. ASSUME NEW m \in Nat, m \in T PROVE m + 1 \in T
  <2> SUFFICES ASSUME m + 1 <= Len(p)
               PROVE  m + 1 <= Len(q) /\ \A k \in 1..(m + 1) : p[k] = q[k]
    OBVIOUS
  <2>a. Len(p) \in Nat /\ Len(q) \in Nat /\ m <= Len(p)
    BY <1>1
  <2>b. m <= Len(q) /\ \A k \in 1..m : p[k] = q[k]
    BY <2>a, <1>6
  <2> HIDE DEF T
  <2>1. /\ m <= Len(p) /\ m <= Len(q) /\ (\A k \in 1..m : p[k] = q[k])
        /\ m + 1 \in 1..Len(p) /\ (m + 1) - 1 = m /\ m \in 0..Len(p) /\ m \in 0..Len(q)
    BY <2>a, <2>b
  <2>2. P[m] = Q[m]
    <3>1. Flattens(P, p) /\ Flattens(Q, q) /\ Len(p) \in Nat /\ Len(q) \in Nat
      BY <1>1, <1>2, <1>3 DEF Flattening
    <3>2. QED
      BY <3>1, <2>1, FlattenAlike
  <2> DEFINE u == p[m + 1]
             v == q[m + 1]
             L == Len(P[m])
             text == Q[Len(q)]
  <2>3. /\ Len(P[(m + 1) - 1]) + Len(u) <= Len(P[Len(p)])
        /\ \A k \in 1..Len(u) : P[Len(p)][Len(P[(m + 1) - 1]) + k] = u[k]
    BY <1>2, <2>1 DEF WordRead
  <2>4. /\ L \in Nat /\ Len(P[Len(p)]) \in Nat /\ Len(text) \in Nat
        /\ u \in C /\ u \in Seq(S) /\ Len(u) \in Nat \ {0}
    <3>a. m \in 0..Len(p) /\ Len(p) \in 0..Len(p) /\ Len(q) \in 0..Len(q)
      BY <2>a, <2>1
    <3>1. P[m] \in Seq(S) /\ P[Len(p)] \in Seq(S) /\ Q[Len(q)] \in Seq(S)
      BY <3>a, <1>2, <1>3 DEF Flattening
    <3>2. u \in C /\ u \in Seq(S)
      BY <1>0, <1>1, <2>1
    <3>3. Len(u) \in Nat /\ Len(u) # 0
      BY <1>0, <3>2, LenProperties, EmptySeq
    <3>4. QED
      BY <3>1, <3>2, <3>3, LenProperties
  <2>5. /\ L + Len(u) <= Len(P[Len(p)])
        /\ \A k \in 1..Len(u) : P[Len(p)][L + k] = u[k]
    BY <2>1, <2>3
  <2>6. L + Len(u) <= Len(text) /\ \A k \in 1..Len(u) : text[L + k] = u[k]
    <3>a. \A x, y, z \in Nat : x + y <= z => \A k \in 1..y : x + k \in 1..z
      OBVIOUS
    <3>1. \A k \in 1..Len(u) : L + k \in 1..Len(P[Len(p)])
      BY <2>4, <2>5, <3>a
    <3>2. L + Len(u) <= Len(text)
      <4> HIDE DEF u, L, text
      <4>1. Len(P[Len(p)]) <= Len(text)
        BY <1>4 DEF text
      <4>2. QED
        BY <2>4, <2>5, <4>1
    <3>3. QED
      BY <3>1, <3>2, <2>5, <1>4
  <2>7. m # Len(q)
    <3> SUFFICES ASSUME m = Len(q) PROVE FALSE
      OBVIOUS
    <3>1. Len(text) = L
      BY <2>2
    <3> HIDE DEF u, L, text
    <3>2. QED
      BY <3>1, <2>4, <2>6
  <2>8. m + 1 \in 1..Len(q)
    BY <1>1, <2>1, <2>7
  <2>9. /\ Len(Q[(m + 1) - 1]) + Len(v) <= Len(Q[Len(q)])
        /\ \A k \in 1..Len(v) : Q[Len(q)][Len(Q[(m + 1) - 1]) + k] = v[k]
    BY <1>3, <2>8 DEF WordRead
  <2>10. v \in C /\ Len(v) \in Nat /\ \A k \in 1..Len(v) : text[L + k] = v[k]
    <3>1. v \in C /\ v \in Seq(S)
      BY <1>0, <1>1, <2>8
    <3>2. QED
      BY <3>1, <2>1, <2>2, <2>9, LenProperties
  <2> HIDE DEF u, v, L, text
  <2>11. u = v
    <3>1. CASE Len(u) <= Len(v)
      <4>1. \A k \in 1..Len(u) : u[k] = v[k]
        BY <3>1, <2>4, <2>6, <2>10
      <4>2. QED
        BY <1>0, <3>1, <4>1, <2>4, <2>10
    <3>2. CASE Len(v) <= Len(u)
      <4>1. \A k \in 1..Len(v) : v[k] = u[k]
        BY <3>2, <2>4, <2>6, <2>10
      <4>2. QED
        BY <1>0, <3>2, <4>1, <2>4, <2>10
    <3>3. QED
      BY <3>1, <3>2, <2>4, <2>10
  <2>12. \A k \in 1..(m + 1) : k \in 1..m \/ k = m + 1
    OBVIOUS
  <2>13. QED
    BY <1>1, <2>1, <2>8, <2>11, <2>12 DEF u, v
<1> HIDE DEF T
<1>7. Nat \subseteq T
  BY <1>5, <1>6, Induction
<1>8. QED
  BY <1>1, <1>7 DEF T, Opens

\* The text w does not hold the delimiter d.
Without(d, w) == \A k \in 1..Len(w) : w[k] # d

\* A text around a delimiter.
LEMMA AroundDelimiter ==
  ASSUME NEW S, NEW d \in S, NEW x \in Seq(S), NEW w \in Seq(S)
  PROVE  /\ Len(x) \in Nat /\ Len(w) \in Nat
         /\ Len((x \o <<d>>) \o w) = Len(x) + 1 + Len(w)
         /\ \A k \in 1..Len(x) : ((x \o <<d>>) \o w)[k] = x[k]
         /\ ((x \o <<d>>) \o w)[Len(x) + 1] = d
         /\ \A k \in 1..Len(w) : ((x \o <<d>>) \o w)[Len(x) + 1 + k] = w[k]
<1> DEFINE head == x \o <<d>>
<1>1. Len(x) \in Nat /\ Len(w) \in Nat
  BY LenProperties
<1>2. /\ head \in Seq(S) /\ Len(head) = Len(x) + 1
      /\ \A k \in 1..Len(x) : head[k] = x[k]
      /\ head[Len(x) + 1] = d
  BY <1>1, ConcatProperties
<1> HIDE DEF head
<1>3. /\ Len(head \o w) = Len(head) + Len(w)
      /\ \A k \in 1 .. Len(head) + Len(w) :
           (head \o w)[k] = IF k <= Len(head) THEN head[k] ELSE w[k - Len(head)]
  BY <1>2, ConcatProperties
<1>4. \A k \in 1..Len(w) : /\ Len(x) + 1 + k \in 1 .. Len(head) + Len(w)
                           /\ ~(Len(x) + 1 + k <= Len(head))
                           /\ Len(x) + 1 + k - Len(head) = k
  BY <1>1, <1>2
<1>5. QED
  BY <1>1, <1>2, <1>3, <1>4 DEF head

\* Texts that end in a delimiter and a word without it are split in one way.
LEMMA LastDelimiter ==
  ASSUME NEW S, NEW d \in S, NEW a \in Seq(S), NEW b \in Seq(S), NEW m \in Seq(S), NEW n \in Seq(S),
         Without(d, m), Without(d, n),
         (a \o <<d>>) \o m = (b \o <<d>>) \o n
  PROVE  a = b /\ m = n
<1> DEFINE id == (a \o <<d>>) \o m
<1>2. /\ Len(a) \in Nat /\ Len(m) \in Nat /\ Len(id) = Len(a) + 1 + Len(m)
      /\ \A k \in 1..Len(a) : id[k] = a[k]
      /\ id[Len(a) + 1] = d
      /\ \A k \in 1..Len(m) : id[Len(a) + 1 + k] = m[k]
  BY AroundDelimiter
<1>3. /\ Len(b) \in Nat /\ Len(n) \in Nat /\ Len(id) = Len(b) + 1 + Len(n)
      /\ \A k \in 1..Len(b) : id[k] = b[k]
      /\ id[Len(b) + 1] = d
      /\ \A k \in 1..Len(n) : id[Len(b) + 1 + k] = n[k]
  <2>1. id = (b \o <<d>>) \o n
    OBVIOUS
  <2> HIDE DEF id
  <2>2. QED
    BY <2>1, AroundDelimiter
<1> HIDE DEF id
<1>4. ~(Len(a) < Len(b))
  <2> SUFFICES ASSUME Len(a) < Len(b) PROVE FALSE
    OBVIOUS
  <2> DEFINE k == Len(b) - Len(a)
  <2>1. k \in 1..Len(m) /\ Len(a) + 1 + k = Len(b) + 1
    BY <1>2, <1>3
  <2>2. m[k] = d
    BY <2>1, <1>2, <1>3
  <2>3. QED
    BY <2>1, <2>2 DEF Without
<1>5. ~(Len(b) < Len(a))
  <2> SUFFICES ASSUME Len(b) < Len(a) PROVE FALSE
    OBVIOUS
  <2> DEFINE k == Len(a) - Len(b)
  <2>1. k \in 1..Len(n) /\ Len(b) + 1 + k = Len(a) + 1
    BY <1>2, <1>3
  <2>2. n[k] = d
    BY <2>1, <1>2, <1>3
  <2>3. QED
    BY <2>1, <2>2 DEF Without
<1>6. Len(a) = Len(b) /\ Len(m) = Len(n)
  BY <1>2, <1>3, <1>4, <1>5
<1>7. a = b
  BY <1>2, <1>3, <1>6, SeqEqual
<1>8. m = n
  BY <1>2, <1>3, <1>6, SeqEqual
<1>9. QED
  BY <1>7, <1>8
\* Texts that begin with a word without the delimiter, and the delimiter.
LEMMA FirstDelimiter ==
  ASSUME NEW S, NEW d \in S, NEW m \in Seq(S), NEW n \in Seq(S), NEW a \in Seq(S), NEW b \in Seq(S),
         Without(d, m), Without(d, n),
         (m \o <<d>>) \o a = (n \o <<d>>) \o b
  PROVE  m = n /\ a = b
<1> DEFINE id == (m \o <<d>>) \o a
<1>1. /\ Len(m) \in Nat /\ Len(a) \in Nat /\ Len(id) = Len(m) + 1 + Len(a)
      /\ \A k \in 1..Len(m) : id[k] = m[k]
      /\ id[Len(m) + 1] = d
      /\ \A k \in 1..Len(a) : id[Len(m) + 1 + k] = a[k]
  BY AroundDelimiter, SMTT(60)
<1>2. /\ Len(n) \in Nat /\ Len(b) \in Nat /\ Len(id) = Len(n) + 1 + Len(b)
      /\ \A k \in 1..Len(n) : id[k] = n[k]
      /\ id[Len(n) + 1] = d
      /\ \A k \in 1..Len(b) : id[Len(n) + 1 + k] = b[k]
  <2>1. id = (n \o <<d>>) \o b
    OBVIOUS
  <2> HIDE DEF id
  <2>2. QED
    BY <2>1, AroundDelimiter, SMTT(60)
<1> HIDE DEF id
<1>3. ~(Len(m) < Len(n))
  <2>1. Len(m) < Len(n) => Len(m) + 1 \in 1..Len(n)
    BY <1>1, <1>2
  <2>2. QED
    BY <2>1, <1>1, <1>2 DEF Without
<1>4. ~(Len(n) < Len(m))
  <2>1. Len(n) < Len(m) => Len(n) + 1 \in 1..Len(m)
    BY <1>1, <1>2
  <2>2. QED
    BY <2>1, <1>1, <1>2 DEF Without
<1>5. Len(m) = Len(n) /\ Len(a) = Len(b)
  BY <1>1, <1>2, <1>3, <1>4
<1>6. m = n
  BY <1>1, <1>2, <1>5, SeqEqual
<1>7. a = b
  BY <1>1, <1>2, <1>5, SeqEqual
<1>8. QED
  BY <1>6, <1>7

\* Texts concatenated from the left or from the right.
Cat(x, y) == x \o y

Concatenated(T) ==
  /\ \A a, b \in T : Cat(a, b) \in T
  /\ \A a, b, c \in T : Cat(Cat(a, b), c) = Cat(a, Cat(b, c))

\* Concatenation is associative.
LEMMA Associative ==
  ASSUME NEW S
  PROVE  Concatenated(Seq(S))
<1>1. \A a, b \in Seq(S) : a \o b \in Seq(S)
  BY ConcatProperties
<1>2. \A a, b, c \in Seq(S) : (a \o b) \o c = a \o (b \o c)
  BY ConcatAssociative
<1>3. QED
  BY <1>1, <1>2 DEF Cat, Concatenated

\* The parts of two concatenated texts around their delimiters, regrouped.
LEMMA Regrouped ==
  ASSUME NEW T, Concatenated(T),
         NEW h \in T, NEW x \in T, NEW d \in T, NEW y \in T, NEW f \in T, NEW w \in T
  PROVE  Cat(Cat(Cat(Cat(Cat(h, x), d), y), Cat(d, f)), w)
           = Cat(h, Cat(Cat(x, d), Cat(Cat(y, d), Cat(f, w))))
<1>1. /\ Cat(f, w) \in T /\ Cat(y, d) \in T /\ Cat(x, d) \in T /\ Cat(h, x) \in T
      /\ Cat(d, f) \in T /\ Cat(Cat(y, d), Cat(f, w)) \in T /\ Cat(Cat(h, x), d) \in T
      /\ Cat(d, Cat(f, w)) \in T /\ Cat(Cat(Cat(h, x), d), y) \in T
  BY DEF Concatenated
<1>2. Cat(Cat(Cat(Cat(Cat(h, x), d), y), Cat(d, f)), w)
        = Cat(Cat(Cat(Cat(h, x), d), y), Cat(Cat(d, f), w))
  BY <1>1 DEF Concatenated
<1>3. Cat(Cat(d, f), w) = Cat(d, Cat(f, w))
  BY DEF Concatenated
<1>4. Cat(Cat(Cat(Cat(h, x), d), y), Cat(d, Cat(f, w)))
        = Cat(Cat(Cat(h, x), d), Cat(y, Cat(d, Cat(f, w))))
  BY <1>1 DEF Concatenated
<1>5. Cat(y, Cat(d, Cat(f, w))) = Cat(Cat(y, d), Cat(f, w))
  BY <1>1 DEF Concatenated
<1>6. Cat(Cat(h, x), d) = Cat(h, Cat(x, d))
  BY DEF Concatenated
<1>7. Cat(Cat(h, Cat(x, d)), Cat(Cat(y, d), Cat(f, w)))
        = Cat(h, Cat(Cat(x, d), Cat(Cat(y, d), Cat(f, w))))
  BY <1>1 DEF Concatenated
<1>8. QED
  BY <1>2, <1>3, <1>4, <1>5, <1>6, <1>7

-------------------------------------------------------------------------------
(* Sorting by rank.                                                         *)

\* Of finitely many positions one has the highest rank.
LEMMA HighestRank ==
  ASSUME NEW n \in Nat, NEW r \in [1..n -> Nat], NEW I \in SUBSET (1..n), I # {}
  PROVE  \E x \in I : \A y \in I : r[y] <= r[x]
<1> DEFINE Upto(m) == I \cap (1..m)
           High(m) == m <= n /\ Upto(m) # {} =>
                        \E x \in Upto(m) : \A y \in Upto(m) : r[y] <= r[x]
           T == {m \in Nat : High(m)}
<1>1. 0 \in T
  <2>1. Upto(0) = {}
    OBVIOUS
  <2>2. QED
    BY <2>1
<1>2. ASSUME NEW m \in Nat, m \in T PROVE m + 1 \in T
  <2> SUFFICES High(m + 1)
    <3> HIDE DEF High
    <3>1. QED
      OBVIOUS
  <2> SUFFICES ASSUME m + 1 <= n, Upto(m + 1) # {}
               PROVE  \E x \in Upto(m + 1) : \A y \in Upto(m + 1) : r[y] <= r[x]
    OBVIOUS
  <2>1. \A y \in Upto(m + 1) : y \in I /\ r[y] \in Nat /\ (y \in Upto(m) \/ y = m + 1)
    OBVIOUS
  <2>2. \A y \in Upto(m) : y \in Upto(m + 1)
    OBVIOUS
  <2>3. Upto(m) # {} => \E x \in Upto(m) : \A y \in Upto(m) : r[y] <= r[x]
    <3>1. High(m) /\ m <= n
      <4> HIDE DEF High
      <4>1. QED
        BY <1>2
    <3>2. QED
      BY <3>1
  <2> HIDE DEF T, High, Upto
  <2>4. CASE m + 1 \notin Upto(m + 1)
    <3>1. \A y \in Upto(m + 1) : y \in Upto(m)
      BY <2>1, <2>4
    <3>2. QED
      BY <3>1, <2>2, <2>3
  <2>5. CASE m + 1 \in Upto(m + 1) /\ Upto(m) = {}
    <3>1. \A y \in Upto(m + 1) : y = m + 1
      BY <2>1, <2>5
    <3>2. r[m + 1] <= r[m + 1]
      BY <2>1, <2>5
    <3>3. QED
      BY <3>1, <3>2, <2>5
  <2>6. CASE m + 1 \in Upto(m + 1) /\ Upto(m) # {}
    <3>1. PICK x \in Upto(m) : \A y \in Upto(m) : r[y] <= r[x]
      BY <2>3, <2>6
    <3>2. x \in Upto(m + 1) /\ r[x] \in Nat /\ r[m + 1] \in Nat
      BY <2>1, <2>2, <2>6
    <3>3. CASE r[m + 1] <= r[x]
      <4>1. \A y \in Upto(m + 1) : r[y] <= r[x]
        BY <3>1, <3>3, <2>1
      <4>2. QED
        BY <4>1, <3>2
    <3>4. CASE ~(r[m + 1] <= r[x])
      <4>1. ASSUME NEW y \in Upto(m + 1) PROVE r[y] <= r[m + 1]
        <5>1. y = m + 1 \/ r[y] <= r[x]
          BY <3>1, <2>1
        <5>2. r[y] \in Nat
          BY <2>1
        <5>3. QED
          BY <5>1, <5>2, <3>2, <3>4
      <4>2. QED
        BY <4>1, <2>6
    <3>5. QED
      BY <3>3, <3>4
  <2>7. QED
    BY <2>4, <2>5, <2>6
<1> HIDE DEF T
<1>3. n \in T
  BY <1>1, <1>2, Induction
<1>4. Upto(n) = I
  OBVIOUS
<1> HIDE DEF High, Upto
<1>5. High(n)
  BY <1>3 DEF T
<1>6. n <= n
  OBVIOUS
<1>7. QED
  BY <1>4, <1>5, <1>6 DEF High

\* The positions ranked below or not above v.
RankedBelow(r, n, v) == {k \in 1..n : r[k] < v}
RankedUpto(r, n, v) == {k \in 1..n : r[k] <= v}

\* The positions of lower rank than v are counted by a number up to n.
LEMMA RankedCount ==
  ASSUME NEW n \in Nat, NEW r, NEW v
  PROVE  /\ IsFiniteSet(RankedBelow(r, n, v)) /\ Cardinality(RankedBelow(r, n, v)) \in Nat
         /\ IsFiniteSet(RankedUpto(r, n, v)) /\ Cardinality(RankedUpto(r, n, v)) \in Nat
<1>1. IsFiniteSet(1..n)
  BY FS_Interval
<1>2. RankedBelow(r, n, v) \in SUBSET (1..n) /\ RankedUpto(r, n, v) \in SUBSET (1..n)
  BY DEF RankedBelow, RankedUpto
<1>3. IsFiniteSet(RankedBelow(r, n, v)) /\ IsFiniteSet(RankedUpto(r, n, v))
  BY <1>1, <1>2, FS_Subset
<1>4. QED
  BY <1>3, FS_CardinalityType

\* For every place i some position has fewer than i below it and at least i not above.
LEMMA PlaceIsTaken ==
  ASSUME NEW n \in Nat, NEW r \in [1..n -> Nat], NEW i \in 1..n
  PROVE  \E k \in 1..n : /\ Cardinality(RankedBelow(r, n, r[k])) < i
                         /\ Cardinality(RankedUpto(r, n, r[k])) >= i
<1> DEFINE A == {k \in 1..n : Cardinality(RankedUpto(r, n, r[k])) >= i}
           V == {r[k] : k \in A}
<1>1. A # {}
  <2>1. 1..n \in SUBSET (1..n) /\ 1..n # {}
    OBVIOUS
  <2>2. PICK x \in 1..n : \A y \in 1..n : r[y] <= r[x]
    BY <2>1, HighestRank
  <2>3. RankedUpto(r, n, r[x]) = 1..n
    BY <2>2 DEF RankedUpto
  <2>4. Cardinality(1..n) = n
    BY FS_Interval
  <2>5. QED
    BY <2>2, <2>3, <2>4
<1>2. PICK k \in A : \A m \in A : r[k] <= r[m]
  <2>1. V \in SUBSET Nat /\ V # {}
    BY <1>1
  <2>2. PICK v \in V : \A w \in V : v <= w
    <3> HIDE DEF V
    <3>1. QED
      BY <2>1, LeastElement
  <2>3. QED
    BY <2>2
<1>3. k \in 1..n /\ Cardinality(RankedUpto(r, n, r[k])) >= i
  OBVIOUS
<1> DEFINE B == RankedBelow(r, n, r[k])
<1>4. Cardinality(B) < i
  <2> SUFFICES ASSUME ~(Cardinality(B) < i) PROVE FALSE
    OBVIOUS
  <2>1. Cardinality(B) \in Nat
    BY RankedCount
  <2>2. B # {}
    <3>1. Cardinality(B) # 0
      BY <2>1
    <3>2. QED
      BY <3>1, FS_EmptySet
  <2>3. B \in SUBSET (1..n)
    BY DEF RankedBelow
  <2>4. PICK m \in B : \A y \in B : r[y] <= r[m]
    <3> HIDE DEF B
    <3>1. QED
      BY <2>2, <2>3, HighestRank
  <2>5. m \in 1..n /\ r[m] < r[k] /\ r[m] \in Nat /\ r[k] \in Nat
    BY <1>3 DEF RankedBelow
  <2>6. RankedUpto(r, n, r[m]) = B
    <3>1. \A y \in 1..n : r[y] <= r[m] => r[y] < r[k]
      BY <2>5
    <3>2. \A y \in 1..n : r[y] < r[k] => r[y] <= r[m]
      BY <2>4 DEF RankedBelow
    <3>3. QED
      BY <3>1, <3>2 DEF RankedUpto, RankedBelow
  <2>7. Cardinality(B) >= i
    BY <2>1
  <2>8. m \in A
    BY <2>5, <2>6, <2>7
  <2>9. r[k] <= r[m]
    <3> HIDE DEF A
    <3>1. QED
      BY <2>8, <1>2
  <2>10. QED
    BY <2>5, <2>9
<1>5. QED
  BY <1>3, <1>4

\* When no two positions have one rank, a position takes one place only.
DistinctRanks(r, n) == \A p, q \in 1..n : r[p] = r[q] => p = q

\* With distinct ranks, one position more is not above a rank than is below it.
LEMMA PlacesDiffer ==
  ASSUME NEW n \in Nat, NEW r \in [1..n -> Nat], DistinctRanks(r, n), NEW k \in 1..n
  PROVE  Cardinality(RankedUpto(r, n, r[k])) = Cardinality(RankedBelow(r, n, r[k])) + 1
<1> DEFINE B == RankedBelow(r, n, r[k])
<1>1. RankedUpto(r, n, r[k]) = B \cup {k}
  <2>1. \A j \in 1..n : r[j] <= r[k] <=> (r[j] < r[k] \/ j = k)
    BY DEF DistinctRanks
  <2>2. QED
    BY <2>1 DEF RankedUpto, RankedBelow
<1>2. k \notin B
  BY DEF RankedBelow
<1>3. IsFiniteSet(B)
  BY RankedCount
<1> HIDE DEF B
<1>4. Cardinality(B \cup {k}) = Cardinality(B) + 1
  BY <1>2, <1>3, FS_AddElement
<1>5. QED
  BY <1>1, <1>4 DEF B
===============================================================================

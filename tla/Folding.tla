------------------------------- MODULE Folding -------------------------------
(***************************************************************************)
(* The folds of the community modules and FlattenSeq are recursive         *)
(* functions.  That they have a value is what this module proves, by       *)
(* induction on the number of elements.                                    *)
(***************************************************************************)
EXTENDS Integers, SequencesExt, FiniteSetTheorems, WellFoundedInduction, TLAPS

-----------------------------------------------------------------------------
(* Numbers, and functions defined by recursion on finite sets.             *)

\* A set of numbers below a bound has a largest one.
LEMMA Largest ==
  ASSUME NEW n \in Nat, NEW S \in SUBSET (0..n), S # {}
  PROVE  \E m \in S : \A q \in S : q <= m
<1> DEFINE T == {n - p : p \in S}
<1>0. \A p \in S : n - p \in Nat
  OBVIOUS
<1>1. T \subseteq Nat /\ T # {}
  BY <1>0
<1>2. PICK x \in T : \A y \in T : ~ (<<y, x>> \in OpToRel(<, Nat))
  BY <1>1, NatLessThanWellFounded, WFMin
<1>3. PICK m \in S : x = n - m
  BY DEF T
<1>4. ASSUME NEW q \in S PROVE q <= m
  <2>1. n - q \in T /\ n - q \in Nat /\ x \in Nat
    BY <1>1, <1>2
  <2>2. ~ (n - q < x)
    BY <1>2, <2>1 DEF OpToRel
  <2> QED BY <1>3, <2>2
<1> QED BY <1>4

\* So has a set of numbers without a bound a smallest one.
LEMMA Smallest ==
  ASSUME NEW T \in SUBSET Nat, T # {}
  PROVE  \E x \in T : \A y \in T : x <= y
<1>1. PICK x \in T : \A y \in T : ~ (<<y, x>> \in OpToRel(<, Nat))
  BY NatLessThanWellFounded, WFMin
<1>2. ASSUME NEW y \in T PROVE x <= y
  <2>1. x \in Nat /\ y \in Nat
    OBVIOUS
  <2>2. ~ (y < x)
    BY <1>1, <2>1 DEF OpToRel
  <2> QED BY <2>1, <2>2
<1> QED BY <1>2

\* A set that holds 0 and, with a number below n, the next one.
LEMMA CountUp ==
  ASSUME NEW n \in Nat, NEW P, 0 \in P, \A k \in 0..(n - 1) : k \in P => k + 1 \in P
  PROVE  0..n \subseteq P
<1> DEFINE T == {k \in 0..n : k \notin P}
<1> SUFFICES ASSUME T # {} PROVE FALSE
  OBVIOUS
<1>1. PICK x \in T : \A y \in T : x <= y
  <2>1. T \in SUBSET Nat
    OBVIOUS
  <2> QED BY <2>1, Smallest
<1>2. x \in 0..n /\ x \notin P /\ x # 0
  BY <1>1
<1>3. x - 1 \in 0..(n - 1) /\ x - 1 \notin T
  BY <1>1, <1>2
<1>4. x - 1 \in P
  BY <1>3
<1>5. (x - 1) + 1 = x
  BY <1>2
<1> QED BY <1>2, <1>3, <1>4, <1>5

\* What a subset without one of its elements counts.
LEMMA SubsetCards ==
  ASSUME NEW S, IsFiniteSet(S), NEW s \in SUBSET S
  PROVE  /\ Cardinality(s) \in Nat /\ Cardinality(s) <= Cardinality(S)
         /\ Cardinality(s) = 0 <=> s = {}
         /\ \A x \in s : Cardinality(s \ {x}) = Cardinality(s) - 1
<1>1. IsFiniteSet(s) /\ Cardinality(s) <= Cardinality(S)
  BY FS_Subset
<1> QED BY <1>1, FS_CardinalityType, FS_EmptySet, FS_RemoveElement

\* A function on the subsets of a finite set, defined from smaller subsets.
Picks(pick, S) == \A s \in SUBSET S : s # {} => pick[s] \in s

Recursive(g, S, base, pick, step) ==
  \A s \in SUBSET S : g[s] = IF s = {} THEN base ELSE step[pick[s]][g[s \ {pick[s]}]]

\* A fold has a value: the recursion by which the library defines it, one element
\* of a finite set at a time, has a solution of the type of its steps.
LEMMA Recursion ==
  ASSUME NEW S, IsFiniteSet(S), NEW V, NEW base \in V,
         NEW pick, Picks(pick, S), NEW step \in [S -> [V -> V]]
  PROVE  \E g \in [SUBSET S -> V] : Recursive(g, S, base, pick, step)
<1> DEFINE D(n) == {s \in SUBSET S : Cardinality(s) <= n}
           Solves(g, n) == \A s \in D(n) :
             g[s] = IF s = {} THEN base ELSE step[pick[s]][g[s \ {pick[s]}]]
           P == {n \in Nat : \E g \in [D(n) -> V] : Solves(g, n)}
           m == Cardinality(S)
<1>1. m \in Nat /\ D(m) = SUBSET S
  BY FS_CardinalityType, SubsetCards
<1>2. 0 \in P
  <2> DEFINE g == [s \in D(0) |-> base]
  <2>1. \A s \in D(0) : s = {}
    BY SubsetCards
  <2>2. g \in [D(0) -> V] /\ Solves(g, 0)
    BY <2>1
  <2> QED BY <2>2
<1>3. ASSUME NEW n \in 0..(m - 1), n \in P PROVE n + 1 \in P
  <2>1. PICK g \in [D(n) -> V] : Solves(g, n)
    BY <1>3
  <2>2. \A s \in D(n + 1) : s # {} => pick[s] \in s /\ pick[s] \in S /\ s \ {pick[s]} \in D(n)
    <3> SUFFICES ASSUME NEW s \in D(n + 1), s # {}
                 PROVE  pick[s] \in s /\ pick[s] \in S /\ s \ {pick[s]} \in D(n)
      OBVIOUS
    <3>1. pick[s] \in s
      BY DEF Picks
    <3>2. Cardinality(s \ {pick[s]}) = Cardinality(s) - 1 /\ Cardinality(s) \in Nat
      BY <3>1, SubsetCards
    <3> QED BY <1>1, <3>1, <3>2
  <2>3. \A s \in D(n) : s \in D(n + 1)
    BY <1>1, SubsetCards
  <2> DEFINE next(s) == IF s = {} THEN base ELSE step[pick[s]][g[s \ {pick[s]}]]
             h == [s \in D(n + 1) |-> next(s)]
  <2>4. \A s \in D(n + 1) : next(s) \in V
    <3> HIDE DEF D
    <3> QED BY <2>1, <2>2
  <2>5. \A s \in D(n) : h[s] = g[s]
    <3> HIDE DEF D
    <3> QED BY <2>1, <2>3
  <2>6. h \in [D(n + 1) -> V]
    <3> HIDE DEF D, next
    <3> QED BY <2>4
  <2>7. Solves(h, n + 1)
    <3> HIDE DEF D
    <3>1. ASSUME NEW s \in D(n + 1)
          PROVE  h[s] = IF s = {} THEN base ELSE step[pick[s]][h[s \ {pick[s]}]]
      <4>1. h[s] = next(s)
        OBVIOUS
      <4> HIDE DEF h
      <4> QED BY <2>2, <2>5, <4>1
    <3> QED BY <3>1
  <2>8. n + 1 \in Nat
    BY <1>1
  <2> HIDE DEF D, h, Solves
  <2> QED BY <2>6, <2>7, <2>8
<1>4. m \in P
  <2> HIDE DEF P
  <2>1. 0..m \subseteq P
    BY <1>1, <1>2, <1>3, CountUp
  <2> QED BY <1>1, <2>1
<1>5. PICK g \in [D(m) -> V] : Solves(g, m)
  BY <1>4
<1> QED BY <1>1, <1>5 DEF Recursive

\* The largest number of an interval and of a subset of it.
LEMMA Maxima ==
  ASSUME NEW n \in Nat
  PROVE  /\ \A s \in SUBSET (1..n) : s # {} => Max(s) \in s
         /\ \A k \in 1..n : Max(1..k) = k /\ (1..k) \ {k} = 1..(k - 1) /\ 1..k # {}
<1>1. ASSUME NEW s \in SUBSET (1..n), s # {} PROVE Max(s) \in s
  <2>1. s \in SUBSET (0..n)
    BY <1>1
  <2>2. \E m \in s : \A q \in s : q <= m
    BY <1>1, <2>1, Largest
  <2> QED BY <2>2 DEF Max
<1>2. ASSUME NEW k \in 1..n PROVE Max(1..k) = k /\ (1..k) \ {k} = 1..(k - 1) /\ 1..k # {}
  <2>1. \A x : (x \in 1..k /\ \A y \in 1..k : x >= y) <=> x = k
    OBVIOUS
  <2>2. Max(1..k) = k
    BY <2>1 DEF Max
  <2> QED BY <2>2
<1> QED BY <1>1, <1>2

\* A power of 2 is a number, and not 0.
LEMMA Powers == \A n \in Nat : 2 ^ n \in Nat \ {0}
<1> SUFFICES ASSUME NEW n \in Nat PROVE 2 ^ n \in Nat \ {0}
  OBVIOUS
<1>1. IsFiniteSet(1..n) /\ Cardinality(1..n) = n
  BY FS_Interval
<1>2. IsFiniteSet(SUBSET (1..n)) /\ Cardinality(SUBSET (1..n)) = 2 ^ n
  BY <1>1, FS_SUBSET
<1>3. SUBSET (1..n) # {}
  OBVIOUS
<1> QED BY <1>2, <1>3, FS_CardinalityType, FS_EmptySet

-----------------------------------------------------------------------------
(* Sequences one behind the other.                                         *)

\* F[i] is made up of the first i sequences.
Chain(F, s) ==
  F[1] = s[1] /\ \A i \in 1..Len(s) : i # 1 => F[i] = F[i - 1] \o s[i]

\* FlattenSeq has a value: it puts the sequences one behind the other.
LEMMA Flattened ==
  ASSUME NEW B, NEW s \in Seq(Seq(B)), s # << >>
  PROVE  \E F \in [1..Len(s) -> Seq(B)] : Chain(F, s) /\ FlattenSeq(s) = F[Len(s)]
<1> DEFINE N == Len(s)
           S == 1..N
           V == Seq(B)
           pick == [u \in SUBSET S |-> Max(u)]
           step == [i \in S |-> [v \in V |-> v \o s[i]]]
           Solves(g) == g = [i \in 1..N |-> IF i = 1 THEN s[i] ELSE g[i - 1] \o s[i]]
           flatten == CHOOSE g : Solves(g)
<1>1. N \in Nat \ {0} /\ IsFiniteSet(S) /\ \A i \in S : s[i] \in V
  BY FS_Interval
<1>2. \A v, w \in V : v \o w \in V
  OBVIOUS
<1>3. step \in [S -> [V -> V]]
  <2> HIDE DEF S, V
  <2> QED BY <1>1, <1>2
<1>4. Picks(pick, S)
  BY <1>1, Maxima DEF Picks
<1>5. << >> \in V
  OBVIOUS
<1>6. PICK h \in [SUBSET S -> V] : Recursive(h, S, << >>, pick, step)
  <2> HIDE DEF pick, step, S, V
  <2> QED BY <1>1, <1>3, <1>4, <1>5, Recursion
<1> DEFINE g == [i \in 1..N |-> h[1..i]]
<1>7. ASSUME NEW i \in S PROVE g[i] = IF i = 1 THEN s[i] ELSE g[i - 1] \o s[i]
  <2>1. 1..i \in SUBSET S /\ 1..i # {} /\ Max(1..i) = i /\ (1..i) \ {i} = 1..(i - 1)
        /\ 1..(i - 1) \in SUBSET S
    <3>1. N \in Nat /\ i \in 1..N
      BY <1>1
    <3>2. Max(1..i) = i /\ (1..i) \ {i} = 1..(i - 1) /\ 1..i # {}
      BY <3>1, Maxima
    <3>3. 1..i \in SUBSET (1..N) /\ 1..(i - 1) \in SUBSET (1..N)
      BY <3>1
    <3> QED BY <3>2, <3>3
  <2>2. h[1..i] = step[i][h[1..(i - 1)]] /\ h[1..(i - 1)] \in V
    <3>1. h[1..i] = step[pick[1..i]][h[(1..i) \ {pick[1..i]}]]
      <4> HIDE DEF step, pick, V
      <4> QED BY <1>6, <2>1 DEF Recursive
    <3>2. pick[1..i] = i
      BY <2>1
    <3> HIDE DEF step, pick, V
    <3> QED BY <1>6, <2>1, <3>1, <3>2
  <2>3. h[1..i] = h[1..(i - 1)] \o s[i]
    <3> HIDE DEF V
    <3> QED BY <2>2
  <2>4. CASE i = 1
    <3>1. 1..0 = {} /\ {} \in SUBSET S
      OBVIOUS
    <3>2. h[{}] = << >>
      <4> HIDE DEF step, pick
      <4> QED BY <1>6, <3>1 DEF Recursive
    <3>3. h[1..(i - 1)] = << >>
      BY <2>4, <3>1, <3>2
    <3>4. s[i] \in Seq(B)
      BY <1>1
    <3>5. << >> \o s[i] = s[i]
      BY <3>4
    <3> QED BY <2>3, <2>4, <3>3, <3>5
  <2>5. CASE i # 1
    <3>1. i - 1 \in 1..N
      BY <1>1, <2>5
    <3> QED BY <2>3, <2>5, <3>1
  <2> QED BY <2>4, <2>5
<1>8. Solves(g)
  <2>1. g = [i \in 1..N |-> g[i]]
    OBVIOUS
  <2> HIDE DEF g
  <2> QED BY <1>7, <2>1
<1>9. Solves(flatten)
  <2> HIDE DEF g
  <2> QED BY <1>8
<1>10. FlattenSeq(s) = flatten[N]
  BY <1>1 DEF FlattenSeq
<1> HIDE DEF flatten
<1>11. flatten[1] = s[1] /\ \A i \in 1..N : i # 1 => flatten[i] = flatten[i - 1] \o s[i]
  <2>1. ASSUME NEW i \in 1..N
        PROVE  flatten[i] = IF i = 1 THEN s[i] ELSE flatten[i - 1] \o s[i]
    BY <1>9
  <2>2. 1 \in 1..N
    BY <1>1
  <2> QED BY <2>1, <2>2
<1> DEFINE P == {k \in 0..N : k = 0 \/ flatten[k] \in V}
<1>12. 0..N \subseteq P
  <2>1. 0 \in P
    BY <1>1
  <2>2. ASSUME NEW k \in 0..(N - 1), k \in P PROVE k + 1 \in P
    <3>1. k + 1 \in 1..N /\ k + 1 \in 0..N /\ (k + 1) - 1 = k
      BY <1>1
    <3> HIDE DEF V
    <3>2. CASE k = 0
      BY <1>1, <1>11, <3>1, <3>2
    <3>3. CASE k # 0
      <4>1. k + 1 # 1 /\ flatten[k] \in V
        BY <2>2, <3>3
      <4>2. flatten[k + 1] = flatten[k] \o s[k + 1]
        BY <1>11, <3>1, <4>1
      <4>3. flatten[k + 1] \in V
        BY <1>1, <1>2, <3>1, <4>1, <4>2
      <4> QED BY <3>1, <4>3
    <3> QED BY <3>2, <3>3
  <2> HIDE DEF P
  <2> QED BY <1>1, <2>1, <2>2, CountUp
<1>13. flatten \in [1..N -> V]
  <2>1. DOMAIN flatten = 1..N /\ flatten = [i \in 1..N |-> flatten[i]]
    BY <1>9
  <2>2. ASSUME NEW i \in 1..N PROVE flatten[i] \in V
    <3>1. i \in 0..N /\ i # 0
      BY <1>1
    <3>2. i \in P
      <4> HIDE DEF P
      <4> QED BY <1>12, <3>1
    <3> HIDE DEF V
    <3> QED BY <3>1, <3>2
  <2> HIDE DEF V
  <2> QED BY <2>1, <2>2
<1> HIDE DEF V
<1>14. flatten \in [1..N -> Seq(B)]
  BY <1>13 DEF V
<1>15. Chain(flatten, s)
  BY <1>11 DEF Chain
<1> QED BY <1>10, <1>14, <1>15

\* u is s and t, one behind the other.
Concat(u, s, t) ==
  /\ Len(u) = Len(s) + Len(t)
  /\ \A j \in 1..Len(s) : u[j] = s[j]
  /\ \A j \in 1..Len(t) : u[Len(s) + j] = t[j]

\* What the concatenation of two sequences is.
LEMMA Concats ==
  ASSUME NEW B, NEW s \in Seq(B), NEW t \in Seq(B)
  PROVE  Concat(s \o t, s, t)
  BY DEF Concat

\* s[i] is in t from e[i - 1] on, up to e[i].
Offsets(e, s, t) ==
  /\ e[0] = 0 /\ e[Len(s)] = Len(t)
  /\ \A i \in 1..Len(s) :
       /\ e[i] = e[i - 1] + Len(s[i])
       /\ \A k \in 1..Len(s[i]) : t[e[i - 1] + k] = s[i][k]

\* Where FlattenSeq puts each of the sequences.
LEMMA Located ==
  ASSUME NEW B, NEW s \in Seq(Seq(B))
  PROVE  /\ FlattenSeq(s) \in Seq(B)
         /\ \E e \in [0..Len(s) -> Nat] : Offsets(e, s, FlattenSeq(s))
<1> DEFINE N == Len(s)
<1>1. CASE s = << >>
  <2>1. FlattenSeq(s) = << >>
    BY <1>1 DEF FlattenSeq
  <2> DEFINE e == [i \in 0..0 |-> 0]
  <2>2. Len(s) = 0 /\ e[0] = 0 /\ e \in [0..0 -> Nat] /\ << >> \in Seq(B) /\ Len(<< >>) = 0
    BY <1>1
  <2> HIDE DEF e
  <2>3. Offsets(e, s, << >>)
    BY <2>2 DEF Offsets
  <2> QED BY <2>1, <2>2, <2>3
<1>2. CASE s # << >>
  <2>1. PICK F \in [1..N -> Seq(B)] : Chain(F, s) /\ FlattenSeq(s) = F[N]
    BY <1>2, Flattened
  <2>2. N \in Nat \ {0} /\ \A i \in 1..N : s[i] \in Seq(B)
    BY <1>2
  <2> DEFINE e == [i \in 0..N |-> IF i = 0 THEN 0 ELSE Len(F[i])]
  <2>3. e \in [0..N -> Nat]
    <3> SUFFICES ASSUME NEW i \in 0..N, i # 0 PROVE Len(F[i]) \in Nat
      OBVIOUS
    <3>1. i \in 1..N
      BY <2>2
    <3>2. F[i] \in Seq(B)
      BY <2>1, <3>1
    <3> QED BY <3>2
  <2> HIDE DEF N
  <2>4. ASSUME NEW i \in 1..N
        PROVE  /\ F[i] \in Seq(B) /\ s[i] \in Seq(B) /\ Len(s[i]) \in Nat /\ e[i] = Len(F[i])
               /\ e[i - 1] \in Nat /\ e[i] = e[i - 1] + Len(s[i])
               /\ \A k \in 1..e[i - 1] : F[i][k] = F[i - 1][k]
               /\ \A k \in 1..Len(s[i]) : F[i][e[i - 1] + k] = s[i][k]
    <3>1. F[i] \in Seq(B) /\ s[i] \in Seq(B) /\ Len(s[i]) \in Nat /\ i \in 0..N /\ i # 0
      BY <2>1, <2>2
    <3>2. e[i] = Len(F[i])
      BY <3>1
    <3>3. CASE i = 1
      <4>1. F[1] = s[1] /\ e[0] = 0
        BY <2>1, <2>2 DEF Chain
      <4> HIDE DEF e
      <4>2. i - 1 = 0 /\ F[i] = s[i] /\ e[i - 1] = 0
        BY <3>3, <4>1
      <4>3. e[i] = 0 + Len(s[i]) /\ \A k \in 1..Len(s[i]) : 0 + k = k
        BY <3>1, <3>2, <4>2
      <4>4. \A k \in 1..Len(s[i]) : F[i][e[i - 1] + k] = s[i][k]
        BY <4>2, <4>3
      <4>5. \A k \in 1..e[i - 1] : F[i][k] = F[i - 1][k]
        BY <4>2
      <4> QED BY <3>1, <3>2, <4>2, <4>3, <4>4, <4>5
    <3>4. CASE i # 1
      <4>1. i - 1 \in 1..N /\ i - 1 \in 0..N /\ i - 1 # 0
        BY <2>2, <3>4
      <4>2. F[i] = F[i - 1] \o s[i]
        BY <2>1, <3>4 DEF Chain, N
      <4>3. F[i - 1] \in Seq(B) /\ e[i - 1] = Len(F[i - 1])
        BY <2>1, <4>1
      <4>4. Concat(F[i], F[i - 1], s[i])
        BY <3>1, <4>2, <4>3, Concats
      <4> HIDE DEF e
      <4>5. e[i - 1] \in Nat /\ e[i] = e[i - 1] + Len(s[i])
        BY <3>2, <4>3, <4>4 DEF Concat
      <4>6. \A k \in 1..e[i - 1] : F[i][k] = F[i - 1][k]
        BY <4>3, <4>4 DEF Concat
      <4>7. \A k \in 1..Len(s[i]) : F[i][e[i - 1] + k] = s[i][k]
        BY <4>3, <4>4 DEF Concat
      <4> QED BY <3>1, <3>2, <4>5, <4>6, <4>7
    <3> QED BY <3>3, <3>4
  <2> HIDE DEF e
  <2> DEFINE In(m) == \A i \in 1..m : \A k \in 1..Len(s[i]) :
                        e[i - 1] + k \in 1..e[m] /\ F[m][e[i - 1] + k] = s[i][k]
             P == {m \in 0..N : In(m)}
  <2>5. 0..N \subseteq P
    <3>1. 0 \in P
      BY <2>2
    <3>2. ASSUME NEW m \in 0..(N - 1), m \in P PROVE m + 1 \in P
      <4>1. m + 1 \in 1..N /\ m + 1 \in 0..N /\ (m + 1) - 1 = m /\ m \in Nat
        BY <2>2
      <4>2. /\ Len(s[m + 1]) \in Nat /\ e[m] \in Nat /\ e[m + 1] = e[m] + Len(s[m + 1])
            /\ \A k \in 1..e[m] : F[m + 1][k] = F[m][k]
            /\ \A k \in 1..Len(s[m + 1]) : F[m + 1][e[m] + k] = s[m + 1][k]
        BY <2>4, <4>1
      <4>3. ASSUME NEW i \in 1..(m + 1), NEW k \in 1..Len(s[i])
            PROVE  e[i - 1] + k \in 1..e[m + 1] /\ F[m + 1][e[i - 1] + k] = s[i][k]
        <5>1. CASE i = m + 1
          BY <4>1, <4>2, <5>1
        <5>2. CASE i # m + 1
          <6>1. i \in 1..m
            BY <4>1, <5>2
          <6>2. e[i - 1] + k \in 1..e[m] /\ F[m][e[i - 1] + k] = s[i][k]
            BY <3>2, <6>1
          <6> DEFINE q == e[i - 1] + k
          <6>3. q \in 1..e[m] /\ F[m][q] = s[i][k]
            BY <6>2
          <6> HIDE DEF q
          <6>4. F[m + 1][q] = s[i][k]
            BY <4>2, <6>3
          <6>5. q \in 1..e[m + 1]
            BY <4>2, <6>3
          <6> QED BY <6>4, <6>5 DEF q
        <5> QED BY <5>1, <5>2
      <4> QED BY <4>1, <4>3
    <3> HIDE DEF P
    <3> QED BY <2>2, <3>1, <3>2, CountUp
  <2>6. In(N)
    <3> HIDE DEF In
    <3> QED BY <2>2, <2>5
  <2>7. N \in 1..N
    BY <2>2
  <2>8. Offsets(e, s, FlattenSeq(s))
    <3>1. e[0] = 0 /\ e[N] = Len(FlattenSeq(s))
      BY <2>1, <2>2, <2>4, <2>7 DEF e
    <3>2. \A i \in 1..N : e[i] = e[i - 1] + Len(s[i])
      BY <2>4
    <3>3. \A i \in 1..N : \A k \in 1..Len(s[i]) : FlattenSeq(s)[e[i - 1] + k] = s[i][k]
      BY <2>1, <2>6
    <3> QED BY <3>1, <3>2, <3>3 DEF Offsets, N
  <2> QED BY <2>1, <2>3, <2>7, <2>8 DEF N
<1> QED BY <1>1, <1>2

=============================================================================

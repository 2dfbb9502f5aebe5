-------------------------- MODULE InductionLemmas --------------------------
(***************************************************************************)
(* Induction and recursion without an operator as a parameter: a predicate *)
(* is given as a set, the step of a recursion as a function.  The models   *)
(* use recursion for the layers of a graph, for sums of usage and for the  *)
(* path of a nested call.                                                  *)
(***************************************************************************)
EXTENDS Integers, Sequences, FiniteSets, FiniteSetsExt, SequencesExt, FiniteSetTheorems,
        WellFoundedInduction, TLAPS

\* The order of the numbers is well founded, as a set of pairs.
LEMMA LessIsWellFounded ==
  IsWellFoundedOn({p \in Nat \X Nat : p[1] < p[2]}, Nat)
BY NatLessThanWellFounded DEF OpToRel

\* A set of numbers that is not empty has a least member.
LEMMA LeastNumber ==
  ASSUME NEW T \in SUBSET Nat, T # {}
  PROVE  \E x \in T : \A y \in T : x <= y
<1>1. PICK x \in T : \A y \in T : <<y, x>> \notin {p \in Nat \X Nat : p[1] < p[2]}
  BY LessIsWellFounded, WFMin
<1>2. ASSUME NEW y \in T PROVE x <= y
  <2>1. <<y, x>> \notin {p \in Nat \X Nat : p[1] < p[2]}
    BY <1>1
  <2> QED BY <2>1
<1> QED BY <1>2

\* A set that has 0, and n + 1 whenever it has n, has every number.
LEMMA NumbersByInduction ==
  ASSUME NEW S, 0 \in S, \A n \in Nat : n \in S => n + 1 \in S
  PROVE  Nat \subseteq S
<1> SUFFICES ASSUME Nat \ S # {} PROVE FALSE
  OBVIOUS
<1>1. PICK x \in Nat \ S : \A y \in Nat \ S : x <= y
  BY LeastNumber
<1>2. x # 0
  BY <1>1
<1>3. x - 1 \in Nat /\ x - 1 \in S
  BY <1>1, <1>2
<1> QED BY <1>1, <1>3

\* The same up to a bound.
LEMMA InductionUpTo ==
  ASSUME NEW n \in Nat, NEW S, 0 \in S, \A i \in 1..n : i - 1 \in S => i \in S
  PROVE  \A i \in 0..n : i \in S
<1> DEFINE T == {i \in Nat : i \in 0..n => i \in S}
<1>1. 0 \in T
  OBVIOUS
<1>2. ASSUME NEW i \in Nat, i \in T PROVE i + 1 \in T
  <2>1. i + 1 \in 0..n => i + 1 \in 1..n /\ i \in S /\ (i + 1) - 1 = i
    BY <1>2
  <2> QED BY <2>1
<1>3. Nat \subseteq T
  <2> HIDE DEF T
  <2> QED BY <1>1, <1>2, NumbersByInduction
<1> QED BY <1>3

\* g begins with c and goes on with the step d.
Recurses(g, c, d, n) == g[0] = c /\ \A i \in 1..n : g[i] = d[<<g[i - 1], i>>]

\* A function on 0..n may be defined by its value at 0 and by a step.
LEMMA RecursionExists ==
  ASSUME NEW V, NEW c \in V, NEW d \in [V \X Nat -> V]
  PROVE  \A n \in Nat : \E g \in [0..n -> V] : Recurses(g, c, d, n)
<1> USE DEF Recurses
<1> DEFINE S == {n \in Nat : \E g \in [0..n -> V] : Recurses(g, c, d, n)}
<1>1. 0 \in S
  <2>1. [i \in 0..0 |-> c] \in [0..0 -> V] /\ Recurses([i \in 0..0 |-> c], c, d, 0)
    OBVIOUS
  <2> QED BY <2>1
<1>2. ASSUME NEW n \in Nat, n \in S PROVE n + 1 \in S
  <2>1. PICK g \in [0..n -> V] : Recurses(g, c, d, n)
    BY <1>2
  <2> DEFINE h == [i \in 0..(n + 1) |-> IF i = n + 1 THEN d[<<g[n], n + 1>>] ELSE g[i]]
  <2>2. d[<<g[n], n + 1>>] \in V
    OBVIOUS
  <2>3. h \in [0..(n + 1) -> V]
    BY <2>2
  <2>4. h[0] = c
    <3>1. 0 \in 0..(n + 1) /\ 0 # n + 1
      OBVIOUS
    <3>2. h[0] = g[0]
      BY <3>1
    <3> HIDE DEF h
    <3> QED BY <2>1, <3>2
  <2>5. ASSUME NEW i \in 1..(n + 1) PROVE h[i] = d[<<h[i - 1], i>>]
    <3>1. CASE i = n + 1
      <4>1. i - 1 = n /\ n \in 0..(n + 1) /\ n # n + 1
        BY <3>1
      <4>2. h[i] = d[<<g[n], n + 1>>] /\ h[n] = g[n]
        BY <3>1, <4>1
      <4> HIDE DEF h
      <4> QED BY <3>1, <4>1, <4>2
    <3>2. CASE i # n + 1
      <4>1. i \in 1..n /\ i - 1 \in 0..n /\ i - 1 # n + 1
        BY <3>2
      <4>2. h[i] = g[i] /\ h[i - 1] = g[i - 1]
        BY <4>1
      <4> QED BY <2>1, <4>1, <4>2
    <3> QED BY <3>1, <3>2
  <2>6. Recurses(h, c, d, n + 1)
    BY <2>4, <2>5
  <2>7. \E g2 \in [0..(n + 1) -> V] : Recurses(g2, c, d, n + 1)
    <3> HIDE DEF h, Recurses
    <3> QED BY <2>3, <2>6
  <2> QED BY <2>7
<1>3. Nat \subseteq S
  <2> HIDE DEF S
  <2> QED BY <1>1, <1>2, NumbersByInduction
<1> QED BY <1>3


\* FlattenSeq joins the sequences from left to right.
LEMMA FlattenedFromLeft ==
  ASSUME NEW V, NEW s \in Seq(Seq(V)), Len(s) > 0
  PROVE  \E f \in [1..Len(s) -> Seq(V)] :
           /\ f[1] = s[1]
           /\ \A i \in 2..Len(s) : f[i] = f[i - 1] \o s[i]
           /\ FlattenSeq(s) = f[Len(s)]
<1>0. PICK L \in Nat \ {0} : L = Len(s) /\ \A i \in 1..L : s[i] \in Seq(V)
  <2>1. Len(s) \in Nat \ {0}
    OBVIOUS
  <2>2. \A i \in 1..Len(s) : s[i] \in Seq(V)
    OBVIOUS
  <2> QED BY <2>1, <2>2
<1> DEFINE d == [p \in Seq(V) \X Nat |->
                   IF p[2] + 1 \in 1..L THEN p[1] \o s[p[2] + 1] ELSE p[1]]
           Joins(f) == f = [i \in 1..L |-> IF i = 1 THEN s[i] ELSE f[i - 1] \o s[i]]
<1>1. \A i \in 1..L : s[i] \in Seq(V)
  BY <1>0
<1>2. d \in [Seq(V) \X Nat -> Seq(V)]
  <2>1. ASSUME NEW u \in Seq(V), NEW v \in Seq(V) PROVE u \o v \in Seq(V)
    OBVIOUS
  <2> QED BY <1>1, <2>1
<1>3. PICK g \in [0..(L - 1) -> Seq(V)] :
        g[0] = s[1] /\ \A i \in 1..(L - 1) : g[i] = d[<<g[i - 1], i>>]
  <2>1. s[1] \in Seq(V) /\ L - 1 \in Nat
    BY <1>1
  <2> HIDE DEF d
  <2>2. \A n \in Nat : \E g \in [0..n -> Seq(V)] : Recurses(g, s[1], d, n)
    BY <1>2, <2>1, RecursionExists
  <2>3. PICK g \in [0..(L - 1) -> Seq(V)] : Recurses(g, s[1], d, L - 1)
    BY <2>1, <2>2
  <2> QED BY <2>3 DEF Recurses
<1> DEFINE h == [i \in 1..L |-> g[i - 1]]
<1>4. h \in [1..L -> Seq(V)]
  BY <1>1, <1>3
<1>5. ASSUME NEW i \in 2..L PROVE h[i] = h[i - 1] \o s[i]
  <2>1. i \in 1..L /\ i - 1 \in 1..L /\ i - 1 \in 1..(L - 1) /\ i - 2 \in 0..(L - 1)
    BY <1>1
  <2>2. h[i] = g[i - 1] /\ h[i - 1] = g[i - 2]
    BY <2>1
  <2>3. g[i - 1] = d[<<g[(i - 1) - 1], i - 1>>]
    <3> HIDE DEF d
    <3> QED BY <1>3, <2>1
  <2>6. (i - 1) - 1 = i - 2 /\ (i - 1) + 1 = i
    OBVIOUS
  <2>4. g[i - 2] \in Seq(V) /\ i - 1 \in Nat
    BY <2>1
  <2>5. d[<<g[i - 2], i - 1>>] = g[i - 2] \o s[i]
    BY <2>1, <2>4, <2>6
  <2> QED BY <2>2, <2>3, <2>5, <2>6
<1>6. h[1] = s[1]
  BY <1>1, <1>3
<1>7. Joins(h)
  <2>1. \A i \in 1..L : h[i] = IF i = 1 THEN s[i] ELSE h[i - 1] \o s[i]
    <3> HIDE DEF h
    <3> TAKE i \in 1..L
    <3>1. i = 1 \/ i \in 2..L
      OBVIOUS
    <3> QED BY <1>5, <1>6, <3>1
  <2> DEFINE k == [i \in 1..L |-> IF i = 1 THEN s[i] ELSE h[i - 1] \o s[i]]
  <2>2. \A i \in 1..L : h[i] = k[i]
    BY <2>1
  <2>3. h = k
    BY <2>2
  <2> QED BY <2>3
<1> DEFINE f == CHOOSE f : Joins(f)
<1>8. Joins(f)
  <2> HIDE DEF Joins, h
  <2> QED BY <1>7
<1>9. \A i \in 1..L : f[i] = h[i]
  <2> DEFINE S == {i \in Nat : i + 1 \in 1..L => f[i + 1] = h[i + 1]}
  <2>0. \A i \in 1..L : f[i] = IF i = 1 THEN s[i] ELSE f[i - 1] \o s[i]
    <3> HIDE DEF f
    <3> QED BY <1>8
  <2>1. 0 \in S
    <3> HIDE DEF f, h
    <3> QED BY <1>1, <1>6, <2>0
  <2>2. ASSUME NEW i \in Nat, i \in S PROVE i + 1 \in S
    <3> SUFFICES ASSUME i + 2 \in 1..L PROVE f[i + 2] = h[i + 2]
      OBVIOUS
    <3>0. i + 1 \in 1..L /\ (i + 2) - 1 = i + 1 /\ i + 2 # 1 /\ i + 2 \in 2..L
      OBVIOUS
    <3>1. f[i + 1] = h[i + 1]
      <4> HIDE DEF f, h
      <4> QED BY <2>2, <3>0
    <3>2. f[i + 2] = f[i + 1] \o s[i + 2]
      <4> HIDE DEF f
      <4> QED BY <2>0, <3>0
    <3>3. h[i + 2] = h[i + 1] \o s[i + 2]
      <4> HIDE DEF h
      <4> QED BY <1>5, <3>0
    <3> QED BY <3>1, <3>2, <3>3
  <2>3. Nat \subseteq S
    <3> HIDE DEF S
    <3> QED BY <2>1, <2>2, NumbersByInduction
  <2> QED
    <3> TAKE i \in 1..L
    <3>1. i - 1 \in Nat /\ (i - 1) + 1 = i
      OBVIOUS
    <3>2. i - 1 \in S
      <4> HIDE DEF S
      <4> QED BY <2>3, <3>1
    <3> HIDE DEF f, h
    <3> QED BY <3>1, <3>2
<1>10. FlattenSeq(s) = f[L]
  BY <1>0 DEF FlattenSeq
<1>11. FlattenSeq(s) = h[L]
  <2> HIDE DEF f, h
  <2> QED BY <1>1, <1>9, <1>10
<1> HIDE DEF h
<1> QED BY <1>0, <1>4, <1>5, <1>6, <1>11


\* A sequence of no length is the empty one.
LEMMA NoLength == ASSUME NEW W, NEW u \in Seq(W), Len(u) = 0 PROVE u = <<>>
  OBVIOUS

\* Sequences joined from left to right: empty ones at the end add nothing.
LEMMA FlattenPadded ==
  ASSUME NEW V, NEW s \in Seq(Seq(V)), NEW t \in Seq(Seq(V)), Len(s) <= Len(t),
         \A i \in 1..Len(s) : t[i] = s[i],
         \A i \in 1..Len(t) : i > Len(s) => t[i] = <<>>
  PROVE  FlattenSeq(s) = FlattenSeq(t)
  <1>1. PICK m \in Nat, n \in Nat : m = Len(s) /\ n = Len(t) /\ m <= n
    OBVIOUS
  <1>2. CASE n = 0
    <2>1. s = <<>>
      BY <1>1, <1>2, NoLength
    <2>2. t = <<>>
      BY <1>1, <1>2, NoLength
    <2> QED
      BY <2>1, <2>2
  <1>3. ASSUME n > 0
        PROVE  \E g \in [1..n -> Seq(V)] :
                 /\ g[1] = t[1]
                 /\ \A i \in 2..n : g[i] = g[i - 1] \o t[i]
                 /\ FlattenSeq(t) = g[n]
    BY <1>1, <1>3, FlattenedFromLeft
  <1>4. CASE n > 0 /\ m = 0
    <2>1. PICK g \in [1..n -> Seq(V)] :
            /\ g[1] = t[1]
            /\ \A i \in 2..n : g[i] = g[i - 1] \o t[i]
            /\ FlattenSeq(t) = g[n]
      BY <1>3, <1>4
    <2> DEFINE S == {i \in Nat : i \in 1..n => g[i] = <<>>}
    <2>2. 0 \in S
      OBVIOUS
    <2>3. ASSUME NEW i \in 1..n, i - 1 \in S PROVE i \in S
      <3>1. t[i] = <<>>
        BY <1>1, <1>4
      <3>2. CASE i = 1
        BY <2>1, <3>1, <3>2
      <3>3. CASE i # 1
        <4>1. i \in 2..n /\ i - 1 \in 1..n
          BY <3>3
        <4>2. g[i - 1] = <<>>
          BY <2>3, <4>1
        <4>3. g[i] = <<>> \o <<>>
          BY <2>1, <3>1, <4>1, <4>2
        <4> QED
          BY <4>3
      <3> QED
        BY <3>2, <3>3
    <2>4. n \in S
      <3> HIDE DEF S
      <3>1. \A i \in 0..n : i \in S
        BY <2>2, <2>3, InductionUpTo
      <3> QED
        BY <3>1
    <2>5. FlattenSeq(t) = <<>>
      BY <1>4, <2>1, <2>4
    <2>6. s = <<>>
      BY <1>1, <1>4, NoLength
    <2>7. FlattenSeq(s) = <<>>
      BY <2>6 DEF FlattenSeq
    <2> QED
      BY <2>5, <2>7
  <1>5. CASE m > 0
    <2>1. PICK f \in [1..m -> Seq(V)] :
            /\ f[1] = s[1]
            /\ \A i \in 2..m : f[i] = f[i - 1] \o s[i]
            /\ FlattenSeq(s) = f[m]
      BY <1>1, <1>5, FlattenedFromLeft
    <2>2. PICK g \in [1..n -> Seq(V)] :
            /\ g[1] = t[1]
            /\ \A i \in 2..n : g[i] = g[i - 1] \o t[i]
            /\ FlattenSeq(t) = g[n]
      <3>1. n > 0
        BY <1>1, <1>5
      <3> QED
        BY <1>3, <3>1
    <2> DEFINE S == {i \in Nat : i \in 1..n => g[i] = f[IF i <= m THEN i ELSE m]}
    <2>3. 0 \in S
      OBVIOUS
    <2>4. ASSUME NEW i \in 1..n, i - 1 \in S PROVE i \in S
      <3>1. CASE i = 1
        <4>1. t[1] = s[1]
          BY <1>1, <1>5
        <4> QED
          BY <1>5, <2>1, <2>2, <3>1, <4>1
      <3>2. CASE i # 1 /\ i <= m
        <4>1. i \in 2..m /\ i \in 2..n /\ i - 1 \in 1..n /\ i - 1 <= m
          BY <3>2
        <4>2. g[i - 1] = f[i - 1] /\ t[i] = s[i]
          BY <1>1, <2>4, <4>1
        <4>3. g[i] = f[i]
          BY <2>1, <2>2, <4>1, <4>2
        <4> QED
          BY <3>2, <4>3
      <3>3. CASE i > m
        <4>0. t[i] = <<>>
          BY <1>1, <3>3
        <4>1. i \in 2..n /\ i - 1 \in 1..n /\ m \in 1..m
          BY <1>5, <3>3
        <4>2. g[i - 1] = f[m]
          <5>1. g[i - 1] = f[IF i - 1 <= m THEN i - 1 ELSE m]
            BY <2>4, <4>1
          <5>2. i - 1 <= m => i - 1 = m
            BY <3>3
          <5> HIDE DEF S
          <5> QED
            BY <5>1, <5>2
        <4>3. g[i] = g[i - 1] \o <<>> /\ g[i - 1] \in Seq(V)
          BY <2>2, <4>0, <4>1
        <4>4. g[i] = f[m]
          BY <4>2, <4>3
        <4> QED
          BY <3>3, <4>4
      <3> QED
        BY <3>1, <3>2, <3>3
    <2>5. n \in S
      <3> HIDE DEF S
      <3>1. \A i \in 0..n : i \in S
        BY <2>3, <2>4, InductionUpTo
      <3> QED
        BY <3>1
    <2>6. g[n] = f[m]
      BY <1>1, <1>5, <2>5
    <2> QED
      BY <2>1, <2>2, <2>6
  <1> QED
    BY <1>1, <1>2, <1>4, <1>5


\* g takes the members off a set one by one: ch chooses the next, d adds it.
SetRecurses(g, c, d, ch, F) ==
  \A s \in F : g[s] = IF s = {} THEN c ELSE d[<<ch[s], g[s \ {ch[s]}]>>]

\* A function on the subsets of a finite set may be defined that way.
LEMMA SetRecursionExists ==
  ASSUME NEW S, IsFiniteSet(S), NEW V, NEW c \in V, NEW d \in [S \X V -> V],
         NEW ch, \A s \in SUBSET S : s # {} => ch[s] \in s
  PROVE  \E g \in [SUBSET S -> V] : SetRecurses(g, c, d, ch, SUBSET S)
<1> DEFINE F(n) == {s \in SUBSET S : Cardinality(s) <= n}
<1>1. ASSUME NEW s, s \subseteq S
      PROVE  /\ IsFiniteSet(s) /\ Cardinality(s) \in Nat /\ Cardinality(s) <= Cardinality(S)
             /\ Cardinality(s) = 0 <=> s = {}
             /\ s # {} => Cardinality(s \ {ch[s]}) = Cardinality(s) - 1
  <2>1. IsFiniteSet(s) /\ Cardinality(s) <= Cardinality(S)
    BY <1>1, FS_Subset
  <2>2. Cardinality(s) \in Nat
    BY <2>1, FS_CardinalityType
  <2>3. Cardinality(s) = 0 <=> s = {}
    BY <2>1, FS_EmptySet
  <2>4. ASSUME s # {} PROVE Cardinality(s \ {ch[s]}) = Cardinality(s) - 1
    BY <1>1, <2>1, <2>4, FS_RemoveElement
  <2> QED BY <2>1, <2>2, <2>3, <2>4
<1> DEFINE N == {n \in Nat : \E g \in [F(n) -> V] : SetRecurses(g, c, d, ch, F(n))}
<1>2. 0 \in N
  <2> DEFINE g == [s \in F(0) |-> c]
  <2>1. ASSUME NEW s \in F(0) PROVE s = {}
    <3>1. s \subseteq S /\ Cardinality(s) <= 0
      OBVIOUS
    <3>2. Cardinality(s) \in Nat /\ (Cardinality(s) = 0 <=> s = {})
      BY <1>1, <3>1
    <3> QED BY <3>1, <3>2
  <2>2. g \in [F(0) -> V]
    OBVIOUS
  <2>3. SetRecurses(g, c, d, ch, F(0))
    BY <2>1 DEF SetRecurses
  <2>4. \E g2 \in [F(0) -> V] : SetRecurses(g2, c, d, ch, F(0))
    <3> HIDE DEF g, F
    <3> QED BY <2>2, <2>3
  <2> QED BY <2>4
<1>3. ASSUME NEW n \in Nat, n \in N PROVE n + 1 \in N
  <2>1. PICK g \in [F(n) -> V] : SetRecurses(g, c, d, ch, F(n))
    BY <1>3
  <2> DEFINE h == [s \in F(n + 1) |-> IF Cardinality(s) = n + 1
                                        THEN d[<<ch[s], g[s \ {ch[s]}]>>] ELSE g[s]]
  <2>2. ASSUME NEW s \in F(n + 1)
        PROVE  /\ Cardinality(s) # n + 1 => s \in F(n)
               /\ s # {} => s \ {ch[s]} \in F(n) /\ s \ {ch[s]} \in F(n + 1) /\ ch[s] \in S
               /\ s # {} => h[s \ {ch[s]}] = g[s \ {ch[s]}]
    <3>0. s \subseteq S /\ Cardinality(s) <= n + 1
      OBVIOUS
    <3>a. Cardinality(s) \in Nat
      BY <1>1, <3>0
    <3>1. Cardinality(s) # n + 1 => s \in F(n)
      BY <3>0, <3>a
    <3>2. ASSUME s # {}
          PROVE  /\ s \ {ch[s]} \in SUBSET S /\ ch[s] \in S
                 /\ Cardinality(s \ {ch[s]}) <= n
      <4>1. ch[s] \in s /\ s \ {ch[s]} \subseteq S
        BY <3>0, <3>2
      <4>2. Cardinality(s \ {ch[s]}) = Cardinality(s) - 1
        BY <1>1, <3>0, <3>2
      <4> QED BY <3>0, <3>a, <4>1, <4>2
    <3>3. ASSUME s # {}
          PROVE  /\ s \ {ch[s]} \in F(n) /\ s \ {ch[s]} \in F(n + 1)
                 /\ Cardinality(s \ {ch[s]}) # n + 1
      <4>1. Cardinality(s \ {ch[s]}) \in Nat
        BY <1>1, <3>2, <3>3
      <4> QED BY <3>2, <3>3, <4>1
    <3>4. ASSUME s # {} PROVE h[s \ {ch[s]}] = g[s \ {ch[s]}]
      BY <3>3, <3>4
    <3> QED BY <3>1, <3>2, <3>3, <3>4
  <2>3. h \in [F(n + 1) -> V]
    <3> SUFFICES ASSUME NEW s \in F(n + 1) PROVE h[s] \in V
      OBVIOUS
    <3>1. CASE Cardinality(s) = n + 1
      <4>1. s # {}
        <5>1. s \subseteq S
          OBVIOUS
        <5>2. Cardinality(s) = 0 <=> s = {}
          BY <1>1, <5>1
        <5> QED BY <3>1, <5>2
      <4>2. g[s \ {ch[s]}] \in V /\ ch[s] \in S
        <5> HIDE DEF F, h
        <5> QED BY <2>2, <4>1
      <4> QED BY <3>1, <4>2
    <3>2. CASE Cardinality(s) # n + 1
      <4>1. g[s] \in V
        <5> HIDE DEF F, h
        <5> QED BY <2>2, <3>2
      <4> QED BY <3>2, <4>1
    <3> QED BY <3>1, <3>2
  <2>4. ASSUME NEW s \in F(n + 1)
        PROVE  h[s] = IF s = {} THEN c ELSE d[<<ch[s], h[s \ {ch[s]}]>>]
    <3>1. CASE Cardinality(s) = n + 1
      <4>1. s # {}
        <5>1. s \subseteq S
          OBVIOUS
        <5>2. Cardinality(s) = 0 <=> s = {}
          BY <1>1, <5>1
        <5> QED BY <3>1, <5>2
      <4>2. h[s] = d[<<ch[s], g[s \ {ch[s]}]>>]
        BY <3>1
      <4> HIDE DEF F, h
      <4> QED BY <2>2, <4>1, <4>2
    <3>2. CASE Cardinality(s) # n + 1
      <4>1. h[s] = g[s]
        BY <3>2
      <4> HIDE DEF F, h
      <4> QED BY <2>1, <2>2, <3>2, <4>1 DEF SetRecurses
    <3> QED BY <3>1, <3>2
  <2>5. SetRecurses(h, c, d, ch, F(n + 1))
    <3> HIDE DEF F, h
    <3> QED BY <2>4 DEF SetRecurses
  <2>6. \E g2 \in [F(n + 1) -> V] : SetRecurses(g2, c, d, ch, F(n + 1))
    <3> HIDE DEF F, h
    <3> QED BY <2>3, <2>5
  <2>7. n + 1 \in Nat
    OBVIOUS
  <2> HIDE DEF F
  <2> QED BY <2>6, <2>7
<1>4. Nat \subseteq N
  <2> HIDE DEF N
  <2> QED BY <1>2, <1>3, NumbersByInduction
<1>5. Cardinality(S) \in N
  <2> HIDE DEF N
  <2> QED BY <1>4, FS_CardinalityType
<1>6. F(Cardinality(S)) = SUBSET S
  <2>1. ASSUME NEW s \in SUBSET S PROVE s \in F(Cardinality(S))
    <3>1. Cardinality(s) <= Cardinality(S)
      BY <1>1
    <3> QED BY <3>1
  <2> QED BY <2>1
<1>7. \E g \in [F(Cardinality(S)) -> V] : SetRecurses(g, c, d, ch, F(Cardinality(S)))
  <2> HIDE DEF F
  <2> QED BY <1>5
<1> HIDE DEF F
<1> QED BY <1>6, <1>7


\* F has a subset of U whenever it has all that are one member smaller.
Grows(F, U) == \A s \in SUBSET U : (\A x \in s : s \ {x} \in F) => s \in F

\* g adds to some member of the set what it gives for the rest.
Adds(g, U) == \A t \in SUBSET U : t # {} => \E z \in t : g[t] = z + g[t \ {z}]

\* The same for any member.
AddsAny(g, U) == \A s \in SUBSET U : \A x \in s : g[s] = x + g[s \ {x}]

\* A collection of subsets of a finite set that has a set whenever it has all
\* that are one member smaller has every subset.
LEMMA SubsetsByInduction ==
  ASSUME NEW U, IsFiniteSet(U), NEW F, Grows(F, U)
  PROVE  SUBSET U \subseteq F
<1> DEFINE N == {n \in Nat : \A s \in SUBSET U : Cardinality(s) = n => s \in F}
<1>1. ASSUME NEW s \in SUBSET U
      PROVE  /\ IsFiniteSet(s) /\ Cardinality(s) \in Nat
             /\ Cardinality(s) = 0 => s = {}
             /\ \A x \in s : Cardinality(s \ {x}) = Cardinality(s) - 1
  <2>1. IsFiniteSet(s)
    BY FS_Subset
  <2>2. \A x \in s : Cardinality(s \ {x}) = Cardinality(s) - 1
    BY <2>1, FS_RemoveElement
  <2> QED BY <2>1, <2>2, FS_CardinalityType, FS_EmptySet
<1>2. 0 \in N
  <2> SUFFICES ASSUME NEW s \in SUBSET U, Cardinality(s) = 0 PROVE s \in F
    OBVIOUS
  <2>1. s = {}
    BY <1>1
  <2> QED BY <2>1 DEF Grows
<1>3. ASSUME NEW n \in Nat, n \in N PROVE n + 1 \in N
  <2> SUFFICES ASSUME NEW s \in SUBSET U, Cardinality(s) = n + 1 PROVE s \in F
    OBVIOUS
  <2>1. ASSUME NEW x \in s PROVE s \ {x} \in F
    <3>1. Cardinality(s \ {x}) = Cardinality(s) - 1
      BY <1>1
    <3>2. Cardinality(s \ {x}) = n /\ s \ {x} \in SUBSET U
      BY <3>1
    <3> QED BY <1>3, <3>2
  <2> QED BY <2>1 DEF Grows
<1>4. Nat \subseteq N
  <2> HIDE DEF N
  <2> QED BY <1>2, <1>3, NumbersByInduction
<1> SUFFICES ASSUME NEW s \in SUBSET U PROVE s \in F
  OBVIOUS
<1>5. Cardinality(s) \in N
  <2> HIDE DEF N
  <2> QED BY <1>1, <1>4
<1> QED BY <1>5

\* A sum that takes one member of the set out, whichever, could have taken any.
LEMMA AnyOrder ==
  ASSUME NEW U, U \subseteq Nat, IsFiniteSet(U), NEW g \in [SUBSET U -> Nat],
         Adds(g, U)
  PROVE  AddsAny(g, U)
<1> DEFINE F == {t \in SUBSET U : \A y \in t : g[t] = y + g[t \ {y}]}
<1>1. ASSUME NEW t \in SUBSET U, \A y \in t : t \ {y} \in F PROVE t \in F
  <2> SUFFICES ASSUME NEW y \in t PROVE g[t] = y + g[t \ {y}]
    OBVIOUS
  <2>1. PICK z \in t : g[t] = z + g[t \ {z}]
    BY DEF Adds
  <2>2. CASE z # y
    <3>1. y \in t \ {z} /\ z \in t \ {y} /\ t \ {z} \in F /\ t \ {y} \in F
      BY <1>1, <2>2
    <3>2. g[t \ {z}] = y + g[(t \ {z}) \ {y}] /\ g[t \ {y}] = z + g[(t \ {y}) \ {z}]
      BY <3>1
    <3>3. PICK r \in SUBSET U : r = (t \ {z}) \ {y} /\ r = (t \ {y}) \ {z}
      <4>1. (t \ {z}) \ {y} = (t \ {y}) \ {z} /\ (t \ {z}) \ {y} \in SUBSET U
        OBVIOUS
      <4> QED BY <4>1
    <3>4. g[r] \in Nat /\ y \in Nat /\ z \in Nat
      OBVIOUS
    <3>5. g[t \ {z}] = y + g[r] /\ g[t \ {y}] = z + g[r]
      BY <3>2, <3>3
    <3> QED BY <2>1, <3>4, <3>5
  <2> QED BY <2>1, <2>2
<1>2. SUBSET U \subseteq F
  <2> HIDE DEF F
  <2>1. Grows(F, U)
    BY <1>1 DEF Grows
  <2> QED BY <2>1, SubsetsByInduction
<1>3. ASSUME NEW s \in SUBSET U PROVE s \in F
  <2> HIDE DEF F
  <2> QED BY <1>2
<1> QED BY <1>3 DEF AddsAny

\* A sum over a set does not depend on the order in which it is taken.
Sums(g, U) ==
  /\ g[{}] = 0
  /\ AddsAny(g, U)
  /\ \A s \in SUBSET U : MapThenSumSet(LAMBDA i : i, s) = g[s]

\* MapThenSumSet of numbers is such a sum.
LEMMA SumsExist ==
  ASSUME NEW U, U \subseteq Nat, IsFiniteSet(U)
  PROVE  \E g \in [SUBSET U -> Nat] : Sums(g, U)
<1> DEFINE ch == [s \in SUBSET U |-> CHOOSE x \in s : TRUE]
           d == [p \in U \X Nat |-> p[1] + p[2]]
           First(s) == CHOOSE x \in s : TRUE
           Loop(f, S) == f = [s \in SUBSET S |-> IF s = {} THEN 0
                                                 ELSE First(s) + f[s \ {First(s)}]]
<1>1. \A s : s # {} => First(s) \in s
  OBVIOUS
<1>2. PICK g \in [SUBSET U -> Nat] : SetRecurses(g, 0, d, ch, SUBSET U)
  <2>1. d \in [U \X Nat -> Nat]
    <3> SUFFICES ASSUME NEW x \in U, NEW y \in Nat PROVE x + y \in Nat
      OBVIOUS
    <3> QED OBVIOUS
  <2>2. \A s \in SUBSET U : s # {} => ch[s] \in s
    BY <1>1
  <2>3. 0 \in Nat
    OBVIOUS
  <2> HIDE DEF ch, d
  <2> QED BY <2>1, <2>2, <2>3, SetRecursionExists
<1>3. g[{}] = 0
  BY <1>2 DEF SetRecurses
<1>4. ASSUME NEW s \in SUBSET U, s # {} PROVE g[s] = First(s) + g[s \ {First(s)}]
  <2>1. g[s] = d[<<ch[s], g[s \ {ch[s]}]>>]
    <3> HIDE DEF ch, d
    <3> QED BY <1>2, <1>4 DEF SetRecurses
  <2>2. ch[s] = First(s) /\ First(s) \in U
    BY <1>1, <1>4
  <2>3. g[s \ {First(s)}] \in Nat
    OBVIOUS
  <2> HIDE DEF First, ch
  <2> QED BY <2>1, <2>2, <2>3
<1>5. AddsAny(g, U)
  <2>1. Adds(g, U)
    <3> HIDE DEF First, ch, d
    <3> QED BY <1>1, <1>4 DEF Adds
  <2> HIDE DEF ch, d, First, Loop
  <2> QED BY <2>1, AnyOrder
<1>6. ASSUME NEW S \in SUBSET U PROVE MapThenSumSet(LAMBDA i : i, S) = g[S]
  <2> DEFINE h == [s \in SUBSET S |-> g[s]]
             f == CHOOSE f : Loop(f, S)
  <2> HIDE DEF ch, d
  <2>1. Loop(h, S)
    <3>1. ASSUME NEW s \in SUBSET S
          PROVE  h[s] = IF s = {} THEN 0 ELSE First(s) + h[s \ {First(s)}]
      <4>1. CASE s # {}
        <5>1. s \in SUBSET U /\ s \ {First(s)} \in SUBSET S
          OBVIOUS
        <5> HIDE DEF First
        <5>2. h[s \ {First(s)}] = g[s \ {First(s)}] /\ h[s] = g[s]
          BY <5>1
        <5> QED BY <1>4, <4>1, <5>1, <5>2
      <4>2. CASE s = {}
        BY <1>3, <4>2
      <4> QED BY <4>1, <4>2
    <3> DEFINE k == [s \in SUBSET S |-> IF s = {} THEN 0
                                        ELSE First(s) + h[s \ {First(s)}]]
    <3>2. \A s \in SUBSET S : h[s] = k[s]
      <4> HIDE DEF h, First
      <4> QED BY <3>1
    <3>3. h = k
      <4> HIDE DEF First
      <4> QED BY <3>2
    <3> QED BY <3>3
  <2>2. Loop(f, S)
    <3> HIDE DEF Loop, h
    <3> QED BY <2>1
  <2>3. MapThenSumSet(LAMBDA i : i, S) = f[S]
    BY DEF MapThenSumSet, MapThenFoldSet
  <2> HIDE DEF f
  <2>4. ASSUME NEW s \in SUBSET S
        PROVE  f[s] = IF s = {} THEN 0 ELSE First(s) + f[s \ {First(s)}]
    <3> HIDE DEF First
    <3> QED BY <2>2
  <2> DEFINE F == {s \in SUBSET S : f[s] = g[s]}
  <2>5. ASSUME NEW s \in SUBSET S, \A x \in s : s \ {x} \in F PROVE s \in F
    <3>1. CASE s = {}
      BY <1>3, <2>4, <3>1
    <3>2. CASE s # {}
      <4>1. First(s) \in s /\ s \in SUBSET U
        BY <1>1, <3>2
      <4> HIDE DEF First
      <4>2. f[s \ {First(s)}] = g[s \ {First(s)}]
        BY <2>5, <4>1
      <4> QED BY <1>4, <2>4, <3>2, <4>1, <4>2
    <3> QED BY <3>1, <3>2
  <2>6. IsFiniteSet(S)
    BY FS_Subset
  <2>7. SUBSET S \subseteq F
    <3> HIDE DEF F, f, h, First, Loop
    <3>1. Grows(F, S)
      BY <2>5 DEF Grows
    <3> QED BY <3>1, <2>6, SubsetsByInduction
  <2>8. S \in F
    <3> HIDE DEF F
    <3> QED BY <2>7
  <2> QED BY <2>3, <2>8
<1>7. Sums(g, U)
  <2> HIDE DEF ch, d
  <2> QED BY <1>3, <1>5, <1>6 DEF Sums
<1> QED BY <1>7

\* MapThenSumSet over numbers.
Total(s) == MapThenSumSet(LAMBDA i : i, s)

\* A total of numbers below a bound is a number, and grows by the number that
\* is added to the set.
LEMMA TotalGrows ==
  ASSUME NEW B \in Nat, NEW s \in SUBSET (1..B)
  PROVE  /\ Total(s) \in Nat
         /\ \A x \in (1..B) \ s : Total(s \cup {x}) = Total(s) + x
         /\ Total({}) = 0
<1> DEFINE U == 1..B
<1>1. U \subseteq Nat /\ IsFiniteSet(U)
  BY FS_Interval
<1>2. PICK g \in [SUBSET U -> Nat] : Sums(g, U)
  <2> HIDE DEF U
  <2> QED BY <1>1, SumsExist
<1>3. \A t \in SUBSET U : Total(t) = g[t]
  BY <1>2 DEF Sums, Total
<1>4. AddsAny(g, U) /\ g[{}] = 0
  BY <1>2 DEF Sums
<1>5. ASSUME NEW x \in U \ s PROVE Total(s \cup {x}) = Total(s) + x
  <2>1. s \cup {x} \in SUBSET U /\ (s \cup {x}) \ {x} = s /\ x \in s \cup {x}
    OBVIOUS
  <2>2. g[s \cup {x}] = x + g[s]
    <3>1. PICK t \in SUBSET U : t = s \cup {x}
      BY <2>1
    <3>2. g[t] = x + g[t \ {x}]
      BY <1>4, <2>1, <3>1 DEF AddsAny
    <3> QED BY <2>1, <3>1, <3>2
  <2> QED BY <1>3, <2>1, <2>2, <1>1
<1> HIDE DEF U
<1>6. Total(s) \in Nat
  <2>1. s \in SUBSET U
    BY DEF U
  <2> QED BY <2>1, <1>3
<1>7. Total({}) = 0
  BY <1>3, <1>4
<1> QED BY <1>5, <1>6, <1>7 DEF U
=============================================================================

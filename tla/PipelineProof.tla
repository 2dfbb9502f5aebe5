--------------------------- MODULE PipelineProof ---------------------------
(***************************************************************************)
(* Proofs about Runner.Execute, for every workflow, store and moment at    *)
(* which the context ends. The inductive invariant PipeInv says that only  *)
(* the step at the head of the queue has a record that is not final, that  *)
(* the queue is the rest of an order in which every step comes after its   *)
(* dependencies, and that what Execute returns is what it stored. That     *)
(* dag.Resolve gives such an order, of all steps if none depends on a      *)
(* missing one, is proved first, by induction over its layers.             *)
(***************************************************************************)
EXTENDS Pipeline, InductionLemmas

-----------------------------------------------------------------------------
(* Sequences of step IDs.                                                  *)

Has(u, x)   == \E j \in 1..Len(u) : u[j] = x
Distinct(u) == \A i, j \in 1..Len(u) : u[i] = u[j] => i = j

\* How the model says it.
LEMMA SaidOfSequences ==
  ASSUME NEW V, NEW u \in Seq(V)
  PROVE  /\ \A x : x \in ToSet(u) <=> Has(u, x)
         /\ IsInjective(u) <=> Distinct(u)
         /\ \A x : Has(u, x) => x \in V
<1>1. DOMAIN u = 1..Len(u)
  OBVIOUS
<1>2. \A x : x \in ToSet(u) <=> Has(u, x)
  BY <1>1 DEF ToSet, Has
<1>3. IsInjective(u) <=> Distinct(u)
  BY <1>1 DEF IsInjective, Distinct
<1>4. \A x : Has(u, x) => x \in V
  BY DEF Has
<1> QED BY <1>2, <1>3, <1>4

\* A step is appended to a list.
LEMMA Appended ==
  ASSUME NEW V, NEW u \in Seq(V), NEW v \in V
  PROVE  /\ \A x : Has(Append(u, v), x) <=> Has(u, x) \/ x = v
         /\ Distinct(u) /\ ~Has(u, v) => Distinct(Append(u, v))
<1> DEFINE w == Append(u, v)
<1>1. /\ Len(u) \in Nat /\ Len(w) = Len(u) + 1 /\ w[Len(u) + 1] = v
      /\ \A j \in 1..Len(u) : w[j] = u[j]
  OBVIOUS
<1> HIDE DEF w
<1>2. \A x : Has(w, x) <=> Has(u, x) \/ x = v
  <2>1. ASSUME NEW x, Has(w, x) PROVE Has(u, x) \/ x = v
    <3>1. PICK j \in 1..Len(w) : w[j] = x
      BY <2>1 DEF Has
    <3>2. j = Len(u) + 1 \/ j \in 1..Len(u)
      BY <1>1
    <3> QED BY <1>1, <3>1, <3>2 DEF Has
  <2>2. ASSUME NEW x, Has(u, x) PROVE Has(w, x)
    <3>1. PICK j \in 1..Len(u) : u[j] = x
      BY <2>2 DEF Has
    <3>2. j \in 1..Len(w) /\ w[j] = x
      BY <1>1, <3>1
    <3> QED BY <3>2 DEF Has
  <2>3. Has(w, v)
    <3>1. Len(u) + 1 \in 1..Len(w)
      BY <1>1
    <3> QED BY <1>1, <3>1 DEF Has
  <2> QED BY <2>1, <2>2, <2>3
<1>3. ASSUME Distinct(u), ~Has(u, v) PROVE Distinct(w)
  <2> SUFFICES ASSUME NEW i \in 1..Len(w), NEW j \in 1..Len(w), w[i] = w[j]
               PROVE  i = j
    BY DEF Distinct
  <2>1. i = Len(u) + 1 \/ i \in 1..Len(u)
    BY <1>1
  <2>2. j = Len(u) + 1 \/ j \in 1..Len(u)
    BY <1>1
  <2> QED BY <1>1, <1>3, <2>1, <2>2 DEF Distinct, Has
<1> QED BY <1>2, <1>3 DEF w

\* Two lists are joined.
LEMMA Joined ==
  ASSUME NEW V, NEW u \in Seq(V), NEW v \in Seq(V)
  PROVE  /\ u \o v \in Seq(V)
         /\ \A x : Has(u \o v, x) <=> Has(u, x) \/ Has(v, x)
         /\ Distinct(u) /\ Distinct(v) /\ (\A x : ~(Has(u, x) /\ Has(v, x))) => Distinct(u \o v)
<1> DEFINE w == u \o v
<1>0. w \in Seq(V)
  OBVIOUS
<1>1. /\ Len(u) \in Nat /\ Len(v) \in Nat /\ Len(w) = Len(u) + Len(v)
      /\ \A j \in 1..Len(u) : w[j] = u[j]
      /\ \A j \in 1..Len(v) : w[Len(u) + j] = v[j]
  OBVIOUS
<1> HIDE DEF w
<1>2. ASSUME NEW i \in 1..Len(w)
      PROVE  \/ i \in 1..Len(u) /\ w[i] = u[i]
             \/ i - Len(u) \in 1..Len(v) /\ w[i] = v[i - Len(u)]
  <2>1. CASE i <= Len(u)
    BY <1>1, <2>1
  <2>2. CASE ~(i <= Len(u))
    <3>1. i - Len(u) \in 1..Len(v) /\ Len(u) + (i - Len(u)) = i
      BY <1>1, <2>2
    <3> QED BY <1>1, <3>1
  <2> QED BY <2>1, <2>2
<1>3. \A x : Has(w, x) <=> Has(u, x) \/ Has(v, x)
  <2>1. ASSUME NEW x, Has(w, x) PROVE Has(u, x) \/ Has(v, x)
    <3>1. PICK j \in 1..Len(w) : w[j] = x
      BY <2>1 DEF Has
    <3> QED BY <1>2, <3>1 DEF Has
  <2>2. ASSUME NEW x, Has(u, x) PROVE Has(w, x)
    <3>1. PICK j \in 1..Len(u) : u[j] = x
      BY <2>2 DEF Has
    <3>2. j \in 1..Len(w) /\ w[j] = x
      BY <1>1, <3>1
    <3> QED BY <3>2 DEF Has
  <2>3. ASSUME NEW x, Has(v, x) PROVE Has(w, x)
    <3>1. PICK j \in 1..Len(v) : v[j] = x
      BY <2>3 DEF Has
    <3>2. Len(u) + j \in 1..Len(w) /\ w[Len(u) + j] = x
      BY <1>1, <3>1
    <3> QED BY <3>2 DEF Has
  <2> QED BY <2>1, <2>2, <2>3
<1>4. ASSUME Distinct(u), Distinct(v), \A x : ~(Has(u, x) /\ Has(v, x)) PROVE Distinct(w)
  <2> SUFFICES ASSUME NEW i \in 1..Len(w), NEW j \in 1..Len(w), w[i] = w[j]
               PROVE  i = j
    BY DEF Distinct
  <2>1. CASE i \in 1..Len(u) /\ w[i] = u[i] /\ j \in 1..Len(u) /\ w[j] = u[j]
    BY <1>4, <2>1 DEF Distinct
  <2>2. CASE /\ i \in 1..Len(u) /\ w[i] = u[i]
             /\ j - Len(u) \in 1..Len(v) /\ w[j] = v[j - Len(u)]
    <3>1. Has(u, w[i]) /\ Has(v, w[i])
      BY <2>2 DEF Has
    <3> QED BY <1>4, <3>1
  <2>3. CASE /\ j \in 1..Len(u) /\ w[j] = u[j]
             /\ i - Len(u) \in 1..Len(v) /\ w[i] = v[i - Len(u)]
    <3>1. Has(u, w[i]) /\ Has(v, w[i])
      BY <2>3 DEF Has
    <3> QED BY <1>4, <3>1
  <2>4. CASE /\ i - Len(u) \in 1..Len(v) /\ w[i] = v[i - Len(u)]
             /\ j - Len(u) \in 1..Len(v) /\ w[j] = v[j - Len(u)]
    <3>1. i - Len(u) = j - Len(u)
      BY <1>4, <2>4 DEF Distinct
    <3> QED BY <1>1, <3>1
  <2> QED BY <1>2, <2>1, <2>2, <2>3, <2>4
<1> QED BY <1>0, <1>3, <1>4 DEF w

-----------------------------------------------------------------------------
(* The result of dag.Resolve.                                              *)

\* The turns of the loop that fills a layer.
Fills(f, s, T) ==
  /\ f[0] = <<>>
  /\ \A i \in 1..Len(s) : f[i] = IF s[i] \in T THEN Append(f[i - 1], s[i]) ELSE f[i - 1]
  /\ Keep(s, T) = f[Len(s)]

\* Keep is what that loop leaves.
LEMMA KeepLoop ==
  ASSUME NEW V, NEW s \in Seq(V), NEW T
  PROVE  \E f \in [0..Len(s) -> Seq(V)] : Fills(f, s, T)
<1>0. PICK L \in Nat : L = Len(s) /\ \A i \in 1..L : s[i] \in V
  <2>1. Len(s) \in Nat
    OBVIOUS
  <2>2. \A i \in 1..Len(s) : s[i] \in V
    OBVIOUS
  <2> QED BY <2>1, <2>2
<1> DEFINE d == [p \in Seq(V) \X Nat |->
                   IF p[2] \in 1..L /\ s[p[2]] \in T THEN Append(p[1], s[p[2]]) ELSE p[1]]
           Loop(f) == f = [i \in 0..L |->
                             IF i = 0 THEN <<>>
                             ELSE IF s[i] \in T THEN Append(f[i - 1], s[i]) ELSE f[i - 1]]
           Turn(f, i) == f[i] = IF s[i] \in T THEN Append(f[i - 1], s[i]) ELSE f[i - 1]
<1>1. d \in [Seq(V) \X Nat -> Seq(V)]
  <2>1. ASSUME NEW u \in Seq(V), NEW v \in V PROVE Append(u, v) \in Seq(V)
    OBVIOUS
  <2> QED BY <1>0, <2>1
<1>2. PICK g \in [0..L -> Seq(V)] : Recurses(g, <<>>, d, L)
  <2>1. <<>> \in Seq(V)
    OBVIOUS
  <2>2. \A n \in Nat : \E g \in [0..n -> Seq(V)] : Recurses(g, <<>>, d, n)
    <3> HIDE DEF d
    <3> QED BY <1>1, <2>1, RecursionExists
  <2> QED BY <2>2
<1>3. ASSUME NEW i \in 1..L PROVE Turn(g, i)
  <2>1. g[i] = d[<<g[i - 1], i>>]
    <3> HIDE DEF d
    <3> QED BY <1>2 DEF Recurses
  <2>2. g[i - 1] \in Seq(V) /\ i \in Nat
    OBVIOUS
  <2>3. d[<<g[i - 1], i>>] = IF i \in 1..L /\ s[i] \in T THEN Append(g[i - 1], s[i]) ELSE g[i - 1]
    BY <2>2
  <2> QED BY <2>1, <2>3
<1>4. g[0] = <<>>
  <2> HIDE DEF d
  <2> QED BY <1>2 DEF Recurses
<1>5. Loop(g)
  <2> HIDE DEF d
  <2> DEFINE h == [i \in 0..L |-> IF i = 0 THEN <<>>
                                 ELSE IF s[i] \in T THEN Append(g[i - 1], s[i]) ELSE g[i - 1]]
  <2>1. ASSUME NEW i \in 0..L PROVE g[i] = h[i]
    <3>1. i = 0 \/ i \in 1..L
      OBVIOUS
    <3> QED BY <1>3, <1>4, <3>1
  <2>2. g = h
    BY <2>1
  <2> QED BY <2>2
<1> DEFINE f == CHOOSE f : Loop(f)
<1>6. Loop(f)
  <2> HIDE DEF Loop
  <2> QED BY <1>5
<1>7. DOMAIN f = 0..L /\ f[0] = <<>> /\ \A i \in 1..L : Turn(f, i)
  <2> HIDE DEF f
  <2>1. DOMAIN f = 0..L /\ f[0] = <<>>
    BY <1>6
  <2>2. ASSUME NEW i \in 1..L PROVE Turn(f, i)
    <3>1. i \in 0..L /\ i # 0
      OBVIOUS
    <3> QED BY <1>6, <3>1
  <2> QED BY <2>1, <2>2
<1>8. \A i \in 0..L : f[i] = g[i]
  <2> DEFINE S == {i \in 0..L : f[i] = g[i]}
  <2> HIDE DEF f, d
  <2>1. 0 \in S
    BY <1>4, <1>7
  <2>2. ASSUME NEW i \in 1..L, i - 1 \in S PROVE i \in S
    <3>1. i \in 0..L /\ f[i - 1] = g[i - 1]
      BY <2>2
    <3>2. f[i] = IF s[i] \in T THEN Append(f[i - 1], s[i]) ELSE f[i - 1]
      BY <1>7
    <3> QED BY <1>3, <3>1, <3>2
  <2>3. \A i \in 0..L : i \in S
    <3> HIDE DEF S
    <3> QED BY <2>1, <2>2, InductionUpTo
  <2> QED BY <2>3
<1>9. Keep(s, T) = f[L]
  BY <1>0 DEF Keep
<1>10. Keep(s, T) = g[L]
  <2> HIDE DEF f
  <2> QED BY <1>8, <1>9
<1>11. Fills(g, s, T)
  <2> HIDE DEF f, d
  <2> QED BY <1>0, <1>3, <1>4, <1>10 DEF Fills
<1> QED BY <1>0, <1>11


\* A layer has the steps it should, in the order of the file.
LEMMA KeepRight ==
  ASSUME NEW V, NEW s \in Seq(V), NEW T
  PROVE  /\ Keep(s, T) \in Seq(V)
         /\ \A x : Has(Keep(s, T), x) <=> x \in T /\ Has(s, x)
         /\ Distinct(s) => Distinct(Keep(s, T))
<1>0. PICK L \in Nat : L = Len(s) /\ \A i \in 1..L : s[i] \in V
  <2>1. Len(s) \in Nat
    OBVIOUS
  <2>2. \A i \in 1..Len(s) : s[i] \in V
    OBVIOUS
  <2> QED BY <2>1, <2>2
<1>1. PICK f \in [0..L -> Seq(V)] :
        /\ f[0] = <<>>
        /\ \A i \in 1..L : f[i] = IF s[i] \in T THEN Append(f[i - 1], s[i]) ELSE f[i - 1]
        /\ Keep(s, T) = f[L]
  <2>1. PICK f \in [0..Len(s) -> Seq(V)] : Fills(f, s, T)
    BY KeepLoop
  <2> QED BY <1>0, <2>1 DEF Fills
<1> DEFINE Met(i, x) == \E j \in 1..i : s[j] = x
           S == {i \in 0..L : /\ \A x : Has(f[i], x) <=> x \in T /\ Met(i, x)
                              /\ Distinct(s) => Distinct(f[i])}
<1>2. 0 \in S
  <2>1. Len(f[0]) = 0
    BY <1>1
  <2> QED BY <2>1 DEF Has, Distinct
<1>3. ASSUME NEW i \in 1..L, i - 1 \in S PROVE i \in S
  <2>1. f[i - 1] \in Seq(V) /\ i - 1 \in 0..L /\ s[i] \in V
    BY <1>0
  <2>2. \A x : Met(i, x) <=> Met(i - 1, x) \/ s[i] = x
    <3> TAKE x
    <3>1. \A j : j \in 1..i <=> j \in 1..(i - 1) \/ j = i
      OBVIOUS
    <3> QED BY <3>1
  <2>3. /\ \A x : Has(f[i - 1], x) <=> x \in T /\ Met(i - 1, x)
        /\ Distinct(s) => Distinct(f[i - 1])
    BY <1>3
  <2>4. Distinct(s) => ~Met(i - 1, s[i])
    BY <1>0 DEF Distinct
  <2> HIDE DEF Met
  <2>5. CASE s[i] \in T
    <3>1. f[i] = Append(f[i - 1], s[i])
      BY <1>1, <2>5
    <3>2. \A x : Has(f[i], x) <=> Has(f[i - 1], x) \/ x = s[i]
      BY <2>1, <3>1, Appended
    <3>3. Distinct(f[i - 1]) /\ ~Has(f[i - 1], s[i]) => Distinct(f[i])
      BY <2>1, <3>1, Appended
    <3> QED BY <2>2, <2>3, <2>4, <2>5, <3>2, <3>3
  <2>6. CASE s[i] \notin T
    <3>1. f[i] = f[i - 1]
      BY <1>1, <2>6
    <3>2. \A x : Has(f[i], x) <=> x \in T /\ Met(i, x)
      BY <2>2, <2>3, <2>6, <3>1
    <3> QED BY <2>3, <3>1, <3>2
  <2> QED BY <2>5, <2>6
<1>4. L \in S
  <2> HIDE DEF S
  <2>1. \A i \in 0..L : i \in S
    BY <1>2, <1>3, InductionUpTo
  <2> QED BY <2>1
<1>5. \A x : Met(L, x) <=> Has(s, x)
  BY <1>0 DEF Has
<1> QED BY <1>1, <1>4, <1>5

\* What Placed is: a step is placed when what it depends on was placed before.
LEMMA PlacedLayers ==
  ASSUME wf \in WorkflowSet
  PROVE  /\ Cardinality(Steps) \in Nat
         /\ Placed[0] = {}
         /\ \A k \in 1..Cardinality(Steps) :
              Placed[k] = {n \in Members : Deps(n) \subseteq Placed[k - 1]}
         /\ \A k \in 0..Cardinality(Steps) : Placed[k] \in SUBSET Members
<1>0. PICK C \in Nat : C = Cardinality(Steps)
  BY PipelineAssumption, FS_CardinalityType
<1> DEFINE Ready(P) == {n \in Members : Deps(n) \subseteq P}
           d == [p \in (SUBSET Members) \X Nat |-> Ready(p[1])]
           Loop(f) == f = [k \in 0..C |-> IF k = 0 THEN {} ELSE Ready(f[k - 1])]
<1>1. d \in [(SUBSET Members) \X Nat -> SUBSET Members]
  OBVIOUS
<1>2. PICK g \in [0..C -> SUBSET Members] : Recurses(g, {}, d, C)
  <2>1. {} \in SUBSET Members
    OBVIOUS
  <2>2. \A n \in Nat : \E g \in [0..n -> SUBSET Members] : Recurses(g, {}, d, n)
    <3> HIDE DEF d
    <3> QED BY <1>1, <2>1, RecursionExists
  <2> QED BY <2>2
<1>3. ASSUME NEW k \in 1..C PROVE g[k] = Ready(g[k - 1])
  <2>1. g[k] = d[<<g[k - 1], k>>]
    <3> HIDE DEF d
    <3> QED BY <1>2 DEF Recurses
  <2>2. g[k - 1] \in SUBSET Members /\ k \in Nat
    OBVIOUS
  <2>3. d[<<g[k - 1], k>>] = Ready(g[k - 1])
    BY <2>2
  <2> QED BY <2>1, <2>3
<1>4. g[0] = {}
  <2> HIDE DEF d
  <2> QED BY <1>2 DEF Recurses
<1>5. Loop(g)
  <2> HIDE DEF d
  <2> DEFINE h == [k \in 0..C |-> IF k = 0 THEN {} ELSE Ready(g[k - 1])]
  <2>1. ASSUME NEW k \in 0..C PROVE g[k] = h[k]
    <3>1. k = 0 \/ k \in 1..C
      OBVIOUS
    <3> HIDE DEF Ready
    <3> QED BY <1>3, <1>4, <3>1
  <2>2. g = h
    <3> HIDE DEF Ready
    <3> QED BY <2>1
  <2> QED BY <2>2
<1>6. Loop(Placed)
  <2>1. Placed = CHOOSE f : Loop(f)
    BY <1>0 DEF Placed
  <2> HIDE DEF Loop
  <2> QED BY <1>5, <2>1
<1> HIDE DEF d
<1>7. Placed[0] = {} /\ \A k \in 1..C : Placed[k] = Ready(Placed[k - 1])
  <2>1. PICK P : P = Placed
    OBVIOUS
  <2>2. Loop(P)
    BY <1>6, <2>1
  <2>3. P[0] = {}
    BY <2>2
  <2>4. ASSUME NEW k \in 1..C PROVE P[k] = Ready(P[k - 1])
    <3>1. k \in 0..C /\ k # 0
      OBVIOUS
    <3> HIDE DEF Ready
    <3> QED BY <2>2, <3>1
  <2> QED BY <2>1, <2>3, <2>4
<1>8. \A k \in 0..C : Placed[k] \in SUBSET Members
  <2> TAKE k \in 0..C
  <2>1. k = 0 \/ k \in 1..C
    OBVIOUS
  <2> QED BY <1>7, <2>1
<1> QED BY <1>0, <1>7, <1>8


\* What is placed stays placed.
LEMMA PlacedGrows ==
  ASSUME wf \in WorkflowSet
  PROVE  \A k \in 1..Cardinality(Steps) : Placed[k - 1] \subseteq Placed[k]
<1>0. PICK C \in Nat : C = Cardinality(Steps)
  BY PlacedLayers
<1>1. /\ Placed[0] = {}
      /\ \A k \in 1..C : Placed[k] = {n \in Members : Deps(n) \subseteq Placed[k - 1]}
  BY <1>0, PlacedLayers
<1> DEFINE S == {k \in 0..C : k # 0 => Placed[k - 1] \subseteq Placed[k]}
<1>2. 0 \in S
  OBVIOUS
<1>3. ASSUME NEW k \in 1..C, k - 1 \in S PROVE k \in S
  <2>1. CASE k = 1
    <3>1. Placed[k - 1] = {}
      BY <1>1, <2>1
    <3> QED BY <3>1
  <2>2. CASE k # 1
    <3>1. k - 1 \in 1..C
      BY <2>2
    <3>2. Placed[(k - 1) - 1] \subseteq Placed[k - 1]
      BY <1>3, <3>1
    <3>3. Placed[k - 1] = {n \in Members : Deps(n) \subseteq Placed[(k - 1) - 1]}
      BY <1>1, <3>1
    <3>4. Placed[k] = {n \in Members : Deps(n) \subseteq Placed[k - 1]}
      BY <1>1
    <3> QED BY <3>2, <3>3, <3>4
  <2> QED BY <2>1, <2>2
<1>4. \A k \in 0..C : k \in S
  <2> HIDE DEF S
  <2> QED BY <1>2, <1>3, InductionUpTo
<1> QED BY <1>0, <1>4

\* The list of an ID with one entry is what the ID depends on.
LEMMA OneList ==
  ASSUME wf \in WorkflowSet, UniqueIDs, NEW n \in Members
  PROVE  LastList(n) = Deps(n)
<1>1. /\ wf.order \in Seq(Steps) /\ DOMAIN wf.order = 1..Len(wf.order)
      /\ Has(wf.order, n) /\ Distinct(wf.order)
  <2>1. wf.order \in Seq(Steps)
    BY DEF WorkflowSet
  <2> QED BY <2>1, SaidOfSequences DEF Members, UniqueIDs
<1>2. PICK i \in 1..Len(wf.order) : wf.order[i] = n
  BY <1>1 DEF Has
<1>3. Entries(n) = {i}
  BY <1>1, <1>2 DEF Entries, Distinct
<1>4. (CHOOSE k \in Entries(n) : \A j \in Entries(n) : j <= k) = i
  BY <1>2, <1>3
<1>5. UNION {wf.depends[k] : k \in {i}} = wf.depends[i]
  OBVIOUS
<1> QED BY <1>3, <1>4, <1>5 DEF LastList, Deps

\* With no cycle, no repeated ID and no unknown name every step is placed: a layer
\* that adds nothing would leave a set of steps that wait for each other.
LEMMA EveryStepPlaced ==
  ASSUME wf \in WorkflowSet, ~Cyclic, KnownDeps, UniqueIDs
  PROVE  Placed[Cardinality(Steps)] = Members
<1>0. PICK C \in Nat : C = Cardinality(Steps)
  BY PlacedLayers
<1>1. /\ Placed[0] = {}
      /\ \A k \in 1..C : Placed[k] = {n \in Members : Deps(n) \subseteq Placed[k - 1]}
      /\ \A k \in 0..C : Placed[k] \in SUBSET Members
  BY <1>0, PlacedLayers
<1>2. Members \subseteq Steps /\ IsFiniteSet(Members)
  <2>1. wf.order \in Seq(Steps)
    BY DEF WorkflowSet
  <2>2. Members \subseteq Steps
    BY <2>1, SaidOfSequences DEF Members
  <2> QED BY <2>2, PipelineAssumption, FS_Subset
<1>3. \A k \in 0..C : IsFiniteSet(Placed[k]) /\ Cardinality(Placed[k]) \in Nat
  <2> TAKE k \in 0..C
  <2>1. Placed[k] \subseteq Members
    BY <1>1
  <2>2. IsFiniteSet(Placed[k])
    BY <1>2, <2>1, FS_Subset
  <2> QED BY <2>2, FS_CardinalityType
<1> DEFINE S == {k \in 0..C : Placed[k] = Members \/ Cardinality(Placed[k]) >= k}
<1>4. 0 \in S
  BY <1>3
<1>5. ASSUME NEW k \in 1..C, k - 1 \in S PROVE k \in S
  <2>0. /\ k - 1 \in 0..C /\ k \in 0..C
        /\ Placed[k - 1] \subseteq Placed[k]
        /\ Placed[k - 1] \subseteq Members /\ Placed[k] \subseteq Members
        /\ Placed[k] = {n \in Members : Deps(n) \subseteq Placed[k - 1]}
    BY <1>0, <1>1, PlacedGrows
  <2>1. CASE Placed[k - 1] = Members
    BY <2>0, <2>1
  <2>2. CASE Placed[k - 1] # Members
    <3> DEFINE R == Members \ Placed[k - 1]
    <3>1. R # {} /\ R \subseteq Members
      BY <2>0, <2>2
    <3>2. PICK n \in R : Deps(n) \cap R = {}
      <4>1. ~\E Q \in (SUBSET Members) \ {{}} : \A n \in Q : LastList(n) \cap Q # {}
        BY DEF Cyclic
      <4>2. PICK n \in R : LastList(n) \cap R = {}
        <5> HIDE DEF R
        <5> QED BY <3>1, <4>1
      <4>3. LastList(n) = Deps(n)
        BY OneList
      <4> QED BY <4>2, <4>3
    <3>3. n \in Placed[k] /\ n \notin Placed[k - 1]
      <4>1. Deps(n) \subseteq Members
        BY DEF KnownDeps
      <4> QED BY <2>0, <3>2, <4>1
    <3>4. Cardinality(Placed[k - 1] \cup {n}) = Cardinality(Placed[k - 1]) + 1
      <4>1. IsFiniteSet(Placed[k - 1])
        BY <1>3, <2>0
      <4> QED BY <3>3, <4>1, FS_AddElement
    <3>5. Cardinality(Placed[k - 1] \cup {n}) <= Cardinality(Placed[k])
      <4>1. Placed[k - 1] \cup {n} \subseteq Placed[k]
        BY <2>0, <3>3
      <4> QED BY <1>3, <2>0, <4>1, FS_Subset
    <3>6. Cardinality(Placed[k - 1]) >= k - 1
      BY <1>5, <2>2
    <3>7. Cardinality(Placed[k - 1]) \in Nat /\ Cardinality(Placed[k]) \in Nat
      BY <1>3, <2>0
    <3>8. Cardinality(Placed[k]) >= k
      BY <3>4, <3>5, <3>6, <3>7
    <3> QED BY <2>0, <3>8
  <2> QED BY <2>1, <2>2
<1>6. C \in S
  <2> HIDE DEF S
  <2>1. \A k \in 0..C : k \in S
    BY <1>4, <1>5, InductionUpTo
  <2> QED BY <2>1
<1>7. CASE Cardinality(Placed[C]) >= C
  <2>1. Placed[C] \subseteq Steps
    BY <1>1, <1>2
  <2>2. Cardinality(Placed[C]) = Cardinality(Steps)
    BY <1>0, <1>3, <1>7, <2>1, PipelineAssumption, FS_Subset
  <2>3. Placed[C] = Steps
    <3>1. PICK P : P = Placed[C]
      OBVIOUS
    <3>2. P \in SUBSET Steps /\ IsFiniteSet(Steps) /\ Cardinality(Steps) = Cardinality(P)
      BY <2>1, <2>2, <3>1, PipelineAssumption
    <3>3. Steps = P
      BY <3>2, FS_Subset
    <3> QED BY <3>1, <3>3
  <2>4. Placed[C] \subseteq Members
    BY <1>1
  <2>5. Placed[C] = Members
    BY <1>2, <2>3, <2>4
  <2> QED BY <1>0, <2>5
<1> QED BY <1>0, <1>6, <1>7


\* Every step stands behind what it depends on; what is in out need not be there.
InOrder(u, out) ==
  \A i \in 1..Len(u) : \A d \in Deps(u[i]) :
    d \in out \/ \E j \in 1..(i - 1) : u[j] = d

\* The order of execution: every step that can be placed, none before a step it
\* depends on, and once if its ID is unique.
LEMMA ResolvedRight ==
  ASSUME wf \in WorkflowSet
  PROVE  /\ Resolved \in Seq(Steps)
         /\ InOrder(Resolved, {})
         /\ UniqueIDs => Distinct(Resolved)
         /\ ~Cyclic /\ KnownDeps /\ UniqueIDs => \A x \in Members : Has(Resolved, x)
<1>0. PICK C \in Nat : C = Cardinality(Steps)
  BY PlacedLayers
<1>1. /\ Placed[0] = {}
      /\ \A k \in 1..C : Placed[k] = {n \in Members : Deps(n) \subseteq Placed[k - 1]}
      /\ \A k \in 1..C : Placed[k - 1] \subseteq Placed[k]
      /\ ~Cyclic /\ KnownDeps /\ UniqueIDs => Placed[C] = Members
  BY <1>0, PlacedLayers, PlacedGrows, EveryStepPlaced
<1>2. /\ wf.order \in Seq(Steps)
      /\ \A x : x \in Members <=> Has(wf.order, x)
      /\ UniqueIDs <=> Distinct(wf.order)
  <2>1. wf.order \in Seq(Steps)
    BY DEF WorkflowSet
  <2> QED BY <2>1, SaidOfSequences DEF Members, UniqueIDs
<1>3. ASSUME NEW k \in 1..C
      PROVE  /\ LayerSteps(k) \in Seq(Steps)
             /\ \A x : Has(LayerSteps(k), x) <=> x \in Placed[k] \ Placed[k - 1]
             /\ UniqueIDs => Distinct(LayerSteps(k))
  <2>1. Placed[k] \subseteq Members
    BY <1>1
  <2>2. /\ Keep(wf.order, Placed[k] \ Placed[k - 1]) \in Seq(Steps)
        /\ \A x : Has(Keep(wf.order, Placed[k] \ Placed[k - 1]), x)
                    <=> x \in Placed[k] \ Placed[k - 1] /\ Has(wf.order, x)
        /\ Distinct(wf.order) => Distinct(Keep(wf.order, Placed[k] \ Placed[k - 1]))
    BY <1>2, KeepRight
  <2> QED BY <1>2, <2>1, <2>2 DEF LayerSteps
<1> DEFINE ls == [k \in 1..C |-> LayerSteps(k)]
<1>4. ls \in Seq(Seq(Steps)) /\ Len(ls) = C /\ \A k \in 1..C : ls[k] = LayerSteps(k)
  <2>1. ls \in [1..C -> Seq(Steps)]
    BY <1>3
  <2> HIDE DEF LayerSteps
  <2>2. Len(ls) = C /\ \A k \in 1..C : ls[k] = LayerSteps(k)
    OBVIOUS
  <2>3. ls \in Seq(Seq(Steps))
    BY <2>1
  <2> QED BY <2>2, <2>3
<1>5. Resolved = FlattenSeq(ls)
  BY <1>0 DEF Resolved
<1> HIDE DEF ls
<1>6. CASE C = 0
  <2>1. Len(ls) = 0
    BY <1>4, <1>6
  <2>2. Resolved = <<>>
    BY <1>4, <1>5, <2>1 DEF FlattenSeq
  <2>3. ~Cyclic /\ KnownDeps /\ UniqueIDs => Members = {}
    BY <1>1, <1>6
  <2> QED BY <2>2, <2>3 DEF InOrder, Distinct, Has
<1>7. CASE C > 0
  <2>1. PICK f \in [1..C -> Seq(Steps)] :
          /\ f[1] = LayerSteps(1)
          /\ \A k \in 2..C : f[k] = f[k - 1] \o LayerSteps(k)
          /\ Resolved = f[C]
    <3>1. PICK f \in [1..Len(ls) -> Seq(Steps)] :
            /\ f[1] = ls[1]
            /\ \A i \in 2..Len(ls) : f[i] = f[i - 1] \o ls[i]
            /\ FlattenSeq(ls) = f[Len(ls)]
      BY <1>4, <1>7, FlattenedFromLeft
    <3>2. f[1] = LayerSteps(1)
      BY <1>4, <1>7, <3>1
    <3>3. ASSUME NEW k \in 2..C PROVE f[k] = f[k - 1] \o LayerSteps(k)
      <4>1. k \in 1..C /\ ls[k] = LayerSteps(k)
        BY <1>4
      <4> QED BY <1>4, <3>1, <4>1
    <3> QED BY <1>4, <1>5, <3>1, <3>2, <3>3
  <2> DEFINE Good(k) == /\ \A x : Has(f[k], x) <=> x \in Placed[k]
                        /\ InOrder(f[k], {})
                        /\ UniqueIDs => Distinct(f[k])
             S == {k \in 0..C : k # 0 => Good(k)}
  <2>2. ASSUME NEW k \in 1..C PROVE InOrder(LayerSteps(k), Placed[k - 1])
    <3> SUFFICES ASSUME NEW i \in 1..Len(LayerSteps(k)), NEW d \in Deps(LayerSteps(k)[i])
                 PROVE  d \in Placed[k - 1]
      BY DEF InOrder
    <3>1. Has(LayerSteps(k), LayerSteps(k)[i])
      BY DEF Has
    <3>2. LayerSteps(k)[i] \in Placed[k]
      BY <1>3, <3>1
    <3> QED BY <1>1, <3>2
  <2>3. 0 \in S
    OBVIOUS
  <2>4. ASSUME NEW k \in 1..C, k - 1 \in S PROVE k \in S
    <3>1. CASE k = 1
      <4>1. f[k] = LayerSteps(k) /\ Placed[k - 1] = {}
        BY <1>1, <2>1, <3>1
      <4>2. \A x : Has(f[k], x) <=> x \in Placed[k]
        <5>1. \A x : Has(LayerSteps(k), x) <=> x \in Placed[k] \ Placed[k - 1]
          BY <1>3
        <5> QED BY <4>1, <5>1
      <4>3. InOrder(f[k], {}) /\ (UniqueIDs => Distinct(f[k]))
        <5>1. InOrder(LayerSteps(k), Placed[k - 1]) /\ (UniqueIDs => Distinct(LayerSteps(k)))
          BY <1>3, <2>2
        <5> QED BY <4>1, <5>1, Zenon
      <4> QED BY <4>2, <4>3
    <3>2. CASE k # 1
      <4>1. k - 1 \in 1..C /\ k \in 2..C
        BY <3>2
      <4>2. /\ \A x : Has(f[k - 1], x) <=> x \in Placed[k - 1]
            /\ InOrder(f[k - 1], {})
            /\ UniqueIDs => Distinct(f[k - 1])
        BY <2>4, <4>1
      <4>3. f[k] = f[k - 1] \o LayerSteps(k) /\ f[k - 1] \in Seq(Steps)
        BY <2>1, <4>1
      <4>4. \A x : Has(f[k], x) <=> Has(f[k - 1], x) \/ Has(LayerSteps(k), x)
        BY <1>3, <4>3, Joined
      <4>5. \A x : Has(f[k], x) <=> x \in Placed[k]
        BY <1>1, <1>3, <4>2, <4>4
      <4>6. UniqueIDs => Distinct(f[k])
        <5>1. \A x : ~(Has(f[k - 1], x) /\ Has(LayerSteps(k), x))
          BY <1>3, <4>2
        <5>2. LayerSteps(k) \in Seq(Steps) /\ (UniqueIDs => Distinct(LayerSteps(k)))
          BY <1>3
        <5>3. Distinct(f[k - 1]) /\ Distinct(LayerSteps(k)) => Distinct(f[k - 1] \o LayerSteps(k))
          BY <4>3, <5>1, <5>2, Joined
        <5> QED BY <4>2, <4>3, <5>2, <5>3, Zenon
      <4>7. InOrder(f[k], {})
        <5> DEFINE u == f[k - 1]
                   v == LayerSteps(k)
        <5>1. /\ u \in Seq(Steps) /\ v \in Seq(Steps) /\ f[k] = u \o v
              /\ Len(u) \in Nat /\ Len(v) \in Nat /\ Len(f[k]) = Len(u) + Len(v)
              /\ \A j \in 1..Len(u) : f[k][j] = u[j]
              /\ \A j \in 1..Len(v) : f[k][Len(u) + j] = v[j]
          <6>1. u \in Seq(Steps) /\ v \in Seq(Steps) /\ f[k] = u \o v
            BY <1>3, <4>3
          <6> HIDE DEF u, v
          <6> QED BY <6>1
        <5> SUFFICES ASSUME NEW i \in 1..Len(f[k]), NEW d \in Deps(f[k][i])
                     PROVE  \E j \in 1..(i - 1) : f[k][j] = d
          BY DEF InOrder
        <5>2. CASE i <= Len(u)
          <6>1. i \in 1..Len(u) /\ f[k][i] = u[i]
            BY <5>1, <5>2
          <6>2. PICK j \in 1..(i - 1) : u[j] = d
            BY <4>2, <6>1 DEF InOrder
          <6>3. j \in 1..Len(u)
            BY <5>1, <5>2
          <6> QED BY <5>1, <6>2, <6>3
        <5>3. CASE ~(i <= Len(u))
          <6>1. i - Len(u) \in 1..Len(v) /\ f[k][i] = v[i - Len(u)]
            <7> HIDE DEF u, v
            <7>1. i - Len(u) \in 1..Len(v) /\ Len(u) + (i - Len(u)) = i
              BY <5>1, <5>3
            <7>2. f[k][Len(u) + (i - Len(u))] = v[i - Len(u)]
              BY <5>1, <7>1
            <7> QED BY <7>1, <7>2
          <6>2. Has(v, f[k][i])
            BY <6>1 DEF Has
          <6>3. d \in Placed[k - 1]
            BY <1>1, <1>3, <6>2
          <6>4. PICK j \in 1..Len(u) : u[j] = d
            BY <4>2, <6>3 DEF Has
          <6>5. j \in 1..(i - 1)
            BY <5>1, <5>3
          <6> QED BY <5>1, <6>4, <6>5
        <5> QED BY <5>2, <5>3
      <4> QED BY <4>5, <4>6, <4>7
    <3> QED BY <3>1, <3>2
  <2>5. C \in S
    <3> HIDE DEF S
    <3>1. \A k \in 0..C : k \in S
      BY <2>3, <2>4, InductionUpTo
    <3> QED BY <3>1
  <2>6. Good(C) /\ f[C] \in Seq(Steps)
    BY <1>7, <2>5
  <2> QED BY <1>1, <2>1, <2>6
<1> QED BY <1>6, <1>7


-----------------------------------------------------------------------------
(* The inductive invariant.  Execute works on the step at the head of the  *)
(* queue: it alone has a record that is not complete or skipped, but for a *)
(* step whose second leg asks for approval after its wait has ended.       *)

Busy == {"condition", "execute", "reserved", "store", "fail", "failRun"}
Open == {"running", "pending_approval", "failed"}
Good == {"complete", "skipped"}

\* What is done, what is in hand and what is to come.
QueueInv ==
  /\ pc = "create" => run = "none" /\ queue = <<>> /\ outputs = {} /\ stray = {}
  /\ pc \in Busy => queue # <<>>
  /\ InOrder(queue, outputs)
  /\ run # "none" /\ ~Cyclic /\ KnownDeps /\ UniqueIDs =>
       \A x \in Members : x \in outputs \/ Has(queue, x)

\* What the records say.
RecordInv ==
  /\ \A s \in Steps : step[s] \in Good => s \in outputs
  /\ \A s \in Steps : s \in outputs => Passed(s)
  /\ \A s \in Steps : step[s] \in Open =>
       (queue # <<>> /\ s = cur /\ pc \in Busy \cup {"done"}) \/ s \in outputs
  /\ \A s \in Steps : step[s] = "pending_approval" => s \in wf.agents
  /\ \A s \in stray : step[s] # "none" /\ s \in wf.agents
  /\ \A s \in Steps : step[s] # "none" => Deps(s) \subseteq outputs
  /\ \A s \in Steps : step[s] = "failed" => pc \in {"failRun", "done"}
  /\ pc \in Busy => step[cur] \in Open /\ cur \notin outputs
  /\ pc = "store" => finalRec \in Good

\* The record of the step in hand explains how the run ends.
EndInv ==
  /\ pc \notin {"create", "done"} => run = "running"
  /\ run = "complete" => pc = "done" /\ queue = <<>>
  /\ run = "failed" => /\ pc = "done" /\ queue # <<>>
                       /\ step[cur] = "failed" \/ (cur \in stray /\ step[cur] = "pending_approval")
  /\ pc = "failRun" => \/ step[cur] = "failed" \/ ~WritesSucceed
                       \/ cur \in stray /\ step[cur] = "pending_approval"
  /\ returned = "none" <=> pc # "done"
  /\ returned = "nil" <=> run = "complete"
  /\ Cyclic => pc \in {"create", "done"} /\ run \in {"none", "running"}

\* With unique IDs no record is in the way of a step to come.
FreshInv ==
  UniqueIDs =>
    /\ Distinct(queue)
    /\ \A i \in 1..Len(queue) : step[queue[i]] = "none" \/ (i = 1 /\ pc # "next")
    /\ pc = "done" /\ store = "mem" /\ ~Cyclic => run \in {"complete", "failed"}

PipeInv == TypeOK /\ QueueInv /\ RecordInv /\ EndInv /\ FreshInv


-----------------------------------------------------------------------------

\* The step in hand and the queue without it.
LEMMA QueueFacts ==
  ASSUME queue \in Seq(Steps), queue # <<>>
  PROVE  /\ cur \in Steps /\ queue[1] = cur /\ Len(queue) \in Nat \ {0}
         /\ Tail(queue) \in Seq(Steps) /\ Len(Tail(queue)) = Len(queue) - 1
         /\ \A i \in 1..Len(Tail(queue)) : Tail(queue)[i] = queue[i + 1]
         /\ \A x : Has(queue, x) => x = cur \/ Has(Tail(queue), x)
<1>1. /\ cur \in Steps /\ queue[1] = cur /\ Len(queue) \in Nat \ {0}
      /\ Tail(queue) \in Seq(Steps) /\ Len(Tail(queue)) = Len(queue) - 1
      /\ \A i \in 1..Len(Tail(queue)) : Tail(queue)[i] = queue[i + 1]
  BY DEF cur
<1>2. ASSUME NEW x, Has(queue, x) PROVE x = cur \/ Has(Tail(queue), x)
  <2>1. PICK j \in 1..Len(queue) : queue[j] = x
    BY <1>2 DEF Has
  <2>2. CASE j # 1
    <3>1. j - 1 \in 1..Len(Tail(queue)) /\ (j - 1) + 1 = j
      BY <1>1, <2>2
    <3> QED BY <1>1, <2>1, <3>1 DEF Has
  <2> QED BY <1>1, <2>1, <2>2
<1> QED BY <1>1, <1>2

\* The workflow is read once: what is said of it stays true.
LEMMA SameWorkflow ==
  ASSUME wf' = wf
  PROVE  /\ Members' = Members /\ (Cyclic' <=> Cyclic)
         /\ (KnownDeps' <=> KnownDeps) /\ (UniqueIDs' <=> UniqueIDs)
         /\ \A u, out : InOrder(u, out)' <=> InOrder(u, out)
         /\ \A n : Deps(n)' = Deps(n)
BY DEF Members, Cyclic, KnownDeps, UniqueIDs, InOrder, Deps, LastList, Entries

\* The inductive invariant holds when Execute is entered.
LEMMA PipeInit == Init => PipeInv
<1> SUFFICES ASSUME Init PROVE PipeInv
  OBVIOUS
<1> USE DEF Init
<1>1. TypeOK
  <2>1. queue \in Seq(Steps)
    OBVIOUS
  <2>2. stray \in SUBSET Steps /\ expired \in BOOLEAN
    OBVIOUS
  <2>3. step \in [Steps -> {"none"} \cup StepStatus]
    OBVIOUS
  <2> QED BY <2>1, <2>2, <2>3 DEF TypeOK, PC
<1>2. Len(queue) = 0
  OBVIOUS
<1>3. QueueInv
  BY <1>2 DEF QueueInv, Busy, InOrder
<1>4. RecordInv
  BY DEF RecordInv, Busy, Open, Good
<1>5. EndInv
  BY DEF EndInv
<1>6. FreshInv
  BY <1>2 DEF FreshInv, Distinct
<1> QED BY <1>1, <1>3, <1>4, <1>5, <1>6 DEF PipeInv

\* Every step keeps the types.
LEMMA TypeStep == PipeInv /\ [Next]_vars => TypeOK'
<1> SUFFICES ASSUME PipeInv, [Next]_vars PROVE TypeOK'
  OBVIOUS
<1>0. /\ TypeOK /\ wf \in WorkflowSet
      /\ queue # <<>> => cur \in Steps /\ Tail(queue) \in Seq(Steps)
      /\ pc \in Busy => queue # <<>>
      /\ pc = "store" => finalRec \in Good
  BY PipelineAssumption, QueueFacts DEF PipeInv, TypeOK, QueueInv, RecordInv
<1> USE DEF TypeOK, PC, StepStatus, input
<1>1. CASE CreateRun
  <2>1. Resolved \in Seq(Steps)
    BY <1>0, ResolvedRight
  <2> QED BY <1>0, <1>1, <2>1 DEF CreateRun, Return
<1>2. CASE CreateStep
  BY <1>0, <1>2 DEF CreateStep, Return
<1>3. CASE EvalCondition
  BY <1>0, <1>3 DEF EvalCondition
<1>4. CASE StepReturns
  BY <1>0, <1>4 DEF StepReturns, Busy
<1>5. CASE StepErrors
  <2>1. queue # <<>> /\ {cur} \cap wf.agents \in SUBSET Steps
    BY <1>0, <1>5 DEF StepErrors, Busy
  <2> QED BY <1>0, <1>5, <2>1 DEF StepErrors
<1>6. CASE Judge
  BY <1>0, <1>6 DEF Judge
<1>7. CASE StoreStep
  BY <1>0, <1>7 DEF StoreStep, Return, Busy, Good
<1>8. CASE FailStep
  BY <1>0, <1>8 DEF FailStep, Busy
<1>9. CASE FailRun
  BY <1>0, <1>9 DEF FailRun, Return
<1>10. CASE CompleteRun
  BY <1>0, <1>10 DEF CompleteRun, Return
<1>11. CASE Suspend
  BY <1>0, <1>11 DEF Suspend, Busy
<1>12. CASE SuspendLate
  BY <1>0, <1>12 DEF SuspendLate
<1>13. CASE Expire
  BY <1>0, <1>13 DEF Expire
<1>14. CASE Returned \/ UNCHANGED vars
  BY <1>0, <1>14 DEF Returned, vars
<1> QED BY <1>1, <1>2, <1>3, <1>4, <1>5, <1>6, <1>7, <1>8, <1>9, <1>10, <1>11, <1>12,
           <1>13, <1>14 DEF Next, ExecuteStep


\* Every step keeps the steps that are left the rest of the resolved order.
LEMMA QueueStep == PipeInv /\ [Next]_vars => QueueInv'
<1> SUFFICES ASSUME PipeInv, [Next]_vars PROVE QueueInv'
  OBVIOUS
<1>0. /\ TypeOK /\ QueueInv /\ RecordInv /\ EndInv /\ wf \in WorkflowSet /\ wf' = wf
      /\ Members' = Members /\ (Cyclic' <=> Cyclic) /\ (KnownDeps' <=> KnownDeps)
      /\ (UniqueIDs' <=> UniqueIDs) /\ (\A n : Deps(n)' = Deps(n))
      /\ \A u, out : InOrder(u, out)' <=> InOrder(u, out)
  <2>1. wf \in WorkflowSet
    BY PipelineAssumption DEF PipeInv, TypeOK
  <2>2. wf' = wf
    BY DEF Next, ExecuteStep, CreateRun, CreateStep, EvalCondition, StepReturns, StepErrors,
           Judge, StoreStep, FailStep, FailRun, CompleteRun, Suspend, SuspendLate, Expire,
           Returned, vars, input
  <2> QED BY <2>1, <2>2, SameWorkflow DEF PipeInv
<1>a. ASSUME UNCHANGED <<queue, outputs>>,
             pc' # "create", pc' \in Busy => queue # <<>>,
             run' # "none" => run # "none" \/ Cyclic
      PROVE  QueueInv'
  <2>1. InOrder(queue, outputs)'
    BY <1>0, <1>a DEF QueueInv, InOrder
  <2>2. ASSUME run' # "none", ~Cyclic, KnownDeps, UniqueIDs, NEW x \in Members
        PROVE  x \in outputs' \/ Has(queue', x)
    BY <1>0, <1>a, <2>2 DEF QueueInv
  <2> QED BY <1>0, <1>a, <2>1, <2>2 DEF QueueInv
<1>1. CASE CreateRun
  <2>0. queue = <<>> /\ outputs = {} /\ outputs' = outputs
    BY <1>0, <1>1 DEF CreateRun, QueueInv
  <2>1. CASE WritesSucceed /\ ~Cyclic
    <3>1. run' = "running" /\ queue' = Resolved /\ pc' = "next"
      BY <1>1, <2>1 DEF CreateRun
    <3>2. InOrder(queue, outputs)'
      <4>1. InOrder(Resolved, {})
        BY <1>0, ResolvedRight
      <4>2. InOrder(queue', outputs')
        BY <2>0, <3>1, <4>1, Zenon
      <4>3. InOrder(queue, outputs)' <=> InOrder(queue', outputs')
        BY <1>0 DEF InOrder
      <4> QED BY <4>2, <4>3
    <3>3. KnownDeps /\ UniqueIDs => \A x \in Members : Has(queue', x)
      BY <1>0, <2>1, <3>1, ResolvedRight
    <3> QED BY <1>0, <2>0, <3>1, <3>2, <3>3 DEF QueueInv, Busy
  <2>2. CASE ~(WritesSucceed /\ ~Cyclic)
    <3>1. queue' = queue /\ pc' = "done" /\ (run' # "none" => run # "none" \/ Cyclic)
      BY <1>1, <2>2 DEF CreateRun, Return
    <3> QED BY <1>a, <2>0, <3>1 DEF Busy
  <2> QED BY <2>1, <2>2
<1>2. CASE CreateStep
  <2>1. pc' # "create" /\ queue # <<>> /\ UNCHANGED <<queue, outputs, run>>
    BY <1>2 DEF CreateStep, Return
  <2> QED BY <1>a, <2>1
<1>3. CASE EvalCondition
  <2>1. /\ queue # <<>> /\ UNCHANGED <<queue, outputs, run>>
        /\ pc' # "create"
    BY <1>0, <1>3 DEF EvalCondition, QueueInv, Busy
  <2> QED BY <1>a, <2>1
<1>4. CASE StepReturns
  <2>1. /\ queue # <<>> /\ UNCHANGED <<queue, outputs, run>>
        /\ pc' # "create"
    BY <1>0, <1>4 DEF StepReturns, QueueInv, Busy
  <2> QED BY <1>a, <2>1
<1>5. CASE StepErrors
  <2>1. queue # <<>> /\ pc' = "fail" /\ UNCHANGED <<queue, outputs, run>>
    BY <1>0, <1>5 DEF StepErrors, QueueInv, Busy
  <2> QED BY <1>a, <2>1
<1>6. CASE Judge
  <2>1. /\ queue # <<>> /\ UNCHANGED <<queue, outputs, run>>
        /\ pc' # "create"
    BY <1>0, <1>6 DEF Judge, QueueInv, Busy
  <2> QED BY <1>a, <2>1
<1>7. CASE StoreStep
  <2>0. queue # <<>> /\ UNCHANGED run
    BY <1>0, <1>7 DEF StoreStep, QueueInv, Busy
  <2>1. CASE WritesSucceed
    <3>1. outputs' = outputs \cup {cur} /\ queue' = Tail(queue) /\ pc' = "next"
      BY <1>7, <2>1 DEF StoreStep
    <3>2. /\ cur \in Steps /\ queue[1] = cur /\ Len(queue) \in Nat \ {0}
          /\ Len(queue') = Len(queue) - 1
          /\ \A i \in 1..Len(queue') : queue'[i] = queue[i + 1]
          /\ \A x : Has(queue, x) => x = cur \/ Has(queue', x)
      BY <1>0, <2>0, <3>1, QueueFacts DEF TypeOK
    <3>3. ASSUME NEW i \in 1..Len(queue'), NEW d \in Deps(queue'[i])
          PROVE  d \in outputs' \/ \E j \in 1..(i - 1) : queue'[j] = d
      <4>1. i + 1 \in 1..Len(queue) /\ d \in Deps(queue[i + 1]) /\ (i + 1) - 1 = i
        BY <3>2
      <4>2. d \in outputs \/ \E j \in 1..i : queue[j] = d
        BY <1>0, <4>1 DEF QueueInv, InOrder
      <4>3. ASSUME NEW j \in 1..i, queue[j] = d, j # 1
            PROVE  j - 1 \in 1..(i - 1) /\ queue'[j - 1] = d
        <5>1. j - 1 \in 1..(i - 1) /\ j - 1 \in 1..Len(queue') /\ (j - 1) + 1 = j
          BY <4>3
        <5> QED BY <3>2, <4>3, <5>1
      <4> QED BY <3>1, <3>2, <4>2, <4>3
    <3>4. InOrder(queue, outputs)'
      BY <1>0, <3>3 DEF InOrder
    <3>5. ASSUME run' # "none", ~Cyclic, KnownDeps, UniqueIDs, NEW x \in Members
          PROVE  x \in outputs' \/ Has(queue', x)
      BY <1>0, <2>0, <3>1, <3>2, <3>5 DEF QueueInv
    <3> QED BY <1>0, <2>0, <3>1, <3>4, <3>5 DEF QueueInv, Busy
  <2>2. CASE ~WritesSucceed
    <3>1. UNCHANGED <<queue, outputs>> /\ pc' = "done"
      BY <1>7, <2>2 DEF StoreStep, Return
    <3> QED BY <1>a, <2>0, <3>1
  <2> QED BY <2>1, <2>2
<1>8. CASE FailStep
  <2>1. queue # <<>> /\ pc' = "failRun" /\ UNCHANGED <<queue, outputs, run>>
    BY <1>0, <1>8 DEF FailStep, QueueInv, Busy
  <2> QED BY <1>a, <2>1
<1>9. CASE FailRun
  <2>1. queue # <<>> /\ pc' = "done" /\ run # "none" /\ UNCHANGED <<queue, outputs>>
    BY <1>0, <1>9 DEF FailRun, Return, QueueInv, EndInv, Busy
  <2> QED BY <1>a, <2>1
<1>10. CASE CompleteRun
  <2>1. pc' = "done" /\ run # "none" /\ UNCHANGED <<queue, outputs>>
    BY <1>0, <1>10 DEF CompleteRun, Return, QueueInv, EndInv
  <2> QED BY <1>a, <2>1 DEF Busy
<1>11. CASE Suspend
  <2>1. pc # "create" /\ UNCHANGED <<queue, outputs, pc, run>>
    BY <1>11 DEF Suspend
  <2> QED BY <1>0, <1>a, <2>1 DEF QueueInv
<1>12. CASE SuspendLate
  <2>1. pc # "create" /\ UNCHANGED <<queue, outputs, pc, run>>
    BY <1>0, <1>12 DEF SuspendLate, QueueInv
  <2> QED BY <1>0, <1>a, <2>1 DEF QueueInv
<1>13. CASE Expire \/ Returned \/ UNCHANGED vars
  <2>1. UNCHANGED <<queue, outputs, stray, pc, run>>
    BY <1>13 DEF Expire, Returned, vars
  <2>2. CASE pc = "create"
    <3>1. InOrder(queue, outputs)'
      BY <1>0, <2>1 DEF QueueInv, InOrder
    <3> QED BY <1>0, <2>1, <2>2, <3>1 DEF QueueInv
  <2>3. CASE pc # "create"
    BY <1>0, <1>a, <2>1, <2>3 DEF QueueInv
  <2> QED BY <2>2, <2>3
<1> QED BY <1>1, <1>2, <1>3, <1>4, <1>5, <1>6, <1>7, <1>8, <1>9, <1>10, <1>11, <1>12,
           <1>13 DEF Next, ExecuteStep


\* Every step keeps the records those of steps before the one in hand.
LEMMA RecordStep == PipeInv /\ [Next]_vars => RecordInv'
<1> SUFFICES ASSUME PipeInv, [Next]_vars PROVE RecordInv'
  OBVIOUS
<1>0. /\ TypeOK /\ QueueInv /\ RecordInv /\ EndInv /\ TypeOK' /\ QueueInv'
      /\ queue # <<>> => cur \in Steps
  BY TypeStep, QueueStep, QueueFacts DEF PipeInv, TypeOK
<1>w. wf' = wf /\ \A n : Deps(n)' = Deps(n)
  <2>1. wf' = wf
    BY DEF Next, ExecuteStep, CreateRun, CreateStep, EvalCondition, StepReturns, StepErrors,
           Judge, StoreStep, FailStep, FailRun, CompleteRun, Suspend, SuspendLate, Expire,
           Returned, vars, input
  <2> QED BY <2>1, SameWorkflow
<1>c. queue' = queue => cur' = cur
  BY DEF cur
<1> USE DEF Open, Good
<1>a. ASSUME UNCHANGED <<step, queue, outputs>>, stray \subseteq stray',
             \A s \in stray' : step[s] # "none" /\ s \in wf.agents,
             pc' \in Busy => pc \in Busy,
             pc \in Busy \cup {"done"} => pc' \in Busy \cup {"done"},
             pc \in {"failRun", "done"} => pc' \in {"failRun", "done"},
             pc' = "store" => finalRec' \in Good
      PROVE  RecordInv'
  <2>1. \A s \in Steps : Passed(s) => Passed(s)'
    BY <1>a DEF Passed
  <2> QED BY <1>0, <1>a, <1>c, <1>w, <2>1 DEF RecordInv
<1>1. CASE CreateRun
  <2>1. /\ queue = <<>> /\ outputs = {} /\ UNCHANGED <<step, outputs, stray>>
        /\ pc = "create" /\ pc' \in {"next", "done"}
    BY <1>0, <1>1 DEF CreateRun, Return, QueueInv
  <2>2. \A s \in Steps : step[s] = "none"
    BY <1>0, <2>1 DEF RecordInv, TypeOK, StepStatus
  <2> QED BY <1>0, <1>w, <2>1, <2>2 DEF RecordInv, Busy, TypeOK
<1>2. CASE CreateStep
  <2>1. queue # <<>> /\ pc = "next" /\ UNCHANGED <<queue, outputs, stray>>
    BY <1>0, <1>2 DEF CreateStep, QueueInv
  <2>2. CASE WritesSucceed /\ step[cur] = "none"
    <3>1. /\ step' = [step EXCEPT ![cur] = "running"]
          /\ pc' \in {"condition", "execute"}
      BY <1>2, <2>2 DEF CreateStep
    <3>2. cur' = cur /\ cur \in Steps
      BY <1>c, <1>0, <2>1
    <3>3. Deps(cur) \subseteq outputs
      <4>1. queue[1] = cur /\ 1 \in 1..Len(queue)
        BY <1>0, <2>1, QueueFacts DEF TypeOK
      <4>2. \A d \in Deps(queue[1]) : d \in outputs \/ \E j \in 1..(1 - 1) : queue[j] = d
        BY <1>0, <4>1 DEF QueueInv, InOrder
      <4> QED BY <4>1, <4>2
    <3>4. /\ step'[cur] = "running"
          /\ \A s \in Steps : s # cur => step'[s] = step[s]
      BY <1>0, <3>1, <3>2 DEF TypeOK
    <3>5. cur \notin outputs
      BY <1>0, <2>2, <3>2 DEF RecordInv, Passed
    <3>6. \A s \in Steps : s # cur /\ Passed(s) => Passed(s)'
      BY <2>1, <3>4 DEF Passed
    <3>7. \A s \in Steps : step[s] \in Open => s \in outputs
      BY <1>0, <2>1 DEF RecordInv, Busy
    <3>8. stray \subseteq Steps /\ outputs' = outputs /\ stray' = stray
      BY <1>0, <2>1 DEF TypeOK
    <3>9. \A s \in stray' : step'[s] # "none" /\ s \in wf.agents
      BY <1>0, <3>4, <3>8 DEF RecordInv
    <3> QED BY <1>0, <1>w, <2>1, <3>1, <3>2, <3>3, <3>4, <3>5, <3>6, <3>7, <3>8, <3>9
            DEF RecordInv, Busy
  <2>3. CASE ~(WritesSucceed /\ step[cur] = "none")
    <3>1. UNCHANGED step /\ pc' = "done"
      BY <1>2, <2>3 DEF CreateStep, Return
    <3> QED BY <1>0, <1>a, <2>1, <3>1 DEF RecordInv, Busy
  <2> QED BY <2>2, <2>3
<1>3. CASE EvalCondition \/ Judge
  <2>1. /\ UNCHANGED <<step, queue, outputs, stray>> /\ pc \in Busy
        /\ pc' \in {"execute", "fail", "store"} /\ (pc' = "store" => finalRec' \in Good)
        /\ pc \notin {"failRun", "done"}
    BY <1>3 DEF EvalCondition, Judge, Busy
  <2> QED BY <1>0, <1>a, <2>1 DEF RecordInv, Busy
<1>4. CASE StepReturns \/ StepErrors
  <2>1. /\ UNCHANGED <<step, queue, outputs>> /\ pc = "execute"
        /\ pc' \in {"reserved", "fail"}
        /\ stray \subseteq stray'
        /\ \A s \in stray' : s \in stray \/ (s = cur /\ s \in wf.agents)
                            \/ (s = cur /\ step[cur] = "pending_approval")
    BY <1>4 DEF StepReturns, StepErrors
  <2>2. step[cur] # "none" /\ cur \in Steps
    BY <1>0, <2>1 DEF RecordInv, QueueInv, Busy
  <2>3. \A s \in stray' : step[s] # "none" /\ s \in wf.agents
    BY <1>0, <2>1, <2>2 DEF RecordInv
  <2> QED BY <1>a, <2>1, <2>3 DEF Busy
<1>7. CASE StoreStep
  <2>1. queue # <<>> /\ stray' = stray /\ pc = "store" /\ pc \in Busy
    BY <1>0, <1>7 DEF StoreStep, QueueInv, Busy
  <2>2. CASE WritesSucceed
    <3>1. /\ step' = [step EXCEPT ![cur] = finalRec] /\ finalRec \in Good
          /\ outputs' = outputs \cup {cur} /\ pc' = "next"
      BY <1>0, <1>7, <2>1, <2>2 DEF StoreStep, RecordInv
    <3>2. /\ step'[cur] \in Good
          /\ \A s \in Steps : s # cur => step'[s] = step[s]
      BY <1>0, <2>1, <3>1 DEF TypeOK
    <3>3. \A s \in Steps : step'[s] \in Open => s \in outputs
      BY <1>0, <2>1, <3>2 DEF RecordInv
    <3>4. step[cur] # "none"
      BY <1>0, <2>1 DEF RecordInv
    <3>5. \A s \in Steps : step'[s] # "none" => Deps(s) \subseteq outputs'
      BY <1>0, <2>1, <3>1, <3>2, <3>4 DEF RecordInv
    <3>6. \A s \in Steps : s \in outputs' => Passed(s)'
      BY <1>0, <2>1, <3>1, <3>2 DEF RecordInv, Passed
    <3>7. stray \subseteq Steps
      BY <1>0 DEF TypeOK
    <3>8. \A s \in stray' : step'[s] # "none" /\ s \in wf.agents
      BY <1>0, <2>1, <3>2, <3>7 DEF RecordInv
    <3> QED BY <1>0, <1>w, <2>1, <3>1, <3>2, <3>3, <3>5, <3>6, <3>8 DEF RecordInv, Busy
  <2>3. CASE ~WritesSucceed
    <3>1. UNCHANGED <<step, outputs, queue>> /\ pc' = "done"
      BY <1>7, <2>3 DEF StoreStep, Return
    <3> QED BY <1>0, <1>a, <2>1, <3>1 DEF RecordInv, Busy
  <2> QED BY <2>2, <2>3
<1>8. CASE FailStep
  <2>1. /\ queue # <<>> /\ UNCHANGED <<queue, outputs, stray>> /\ pc = "fail" /\ pc \in Busy
        /\ pc' = "failRun" /\ cur' = cur /\ cur \in Steps
    BY <1>c, <1>0, <1>8 DEF FailStep, QueueInv, Busy
  <2>2. CASE WritesSucceed
    <3>1. /\ step'[cur] = "failed"
          /\ \A s \in Steps : s # cur => step'[s] = step[s]
      BY <1>0, <1>8, <2>1, <2>2 DEF FailStep, TypeOK
    <3>2. step[cur] \in Open /\ cur \notin outputs
      BY <1>0, <2>1 DEF RecordInv
    <3>3. \A s \in Steps : s # cur /\ Passed(s) => Passed(s)'
      BY <2>1, <3>1 DEF Passed
    <3>4. stray \subseteq Steps
      BY <1>0 DEF TypeOK
    <3>5. \A s \in stray' : step'[s] # "none" /\ s \in wf.agents
      BY <1>0, <2>1, <3>1, <3>4 DEF RecordInv
    <3> QED BY <1>0, <1>w, <2>1, <3>1, <3>2, <3>3, <3>5 DEF RecordInv, Busy
  <2>3. CASE ~WritesSucceed
    <3>1. step' = step
      BY <1>8, <2>3 DEF FailStep
    <3> QED BY <1>0, <1>a, <2>1, <3>1 DEF RecordInv, Busy
  <2> QED BY <2>2, <2>3
<1>9. CASE FailRun \/ CompleteRun
  <2>1. /\ UNCHANGED <<step, queue, outputs, stray>> /\ pc' = "done"
    BY <1>9 DEF FailRun, CompleteRun, Return
  <2> QED BY <1>0, <1>a, <2>1 DEF RecordInv, Busy
<1>10. ASSUME NEW c \in Steps, step[c] # "none", c \in wf.agents,
              step' = [step EXCEPT ![c] = "pending_approval"],
              UNCHANGED <<queue, outputs, stray, pc, finalRec>>,
              c \in stray \/ (queue # <<>> /\ c = cur /\ pc = "execute")
       PROVE  RecordInv'
  <2>1. /\ step'[c] = "pending_approval"
        /\ \A s \in Steps : s # c => step'[s] = step[s]
    BY <1>0, <1>10 DEF TypeOK
  <2>2. \A s \in Steps : s # c /\ Passed(s) => Passed(s)'
    BY <1>10, <2>1 DEF Passed
  <2>3. c \in outputs => Passed(c)'
    BY <1>0, <1>10, <2>1 DEF RecordInv, Passed, Busy
  <2>4. \/ queue # <<>> /\ c = cur /\ pc \in Busy \cup {"done"}
        \/ c \in outputs
    <3>1. step[c] \in Open \/ step[c] \in Good
      BY <1>0, <1>10 DEF TypeOK, StepStatus
    <3> QED BY <1>0, <1>10, <3>1 DEF RecordInv, Busy
  <2>5. stray' = stray /\ stray \subseteq Steps /\ outputs' = outputs /\ cur' = cur
    BY <1>0, <1>10, <1>c DEF TypeOK
  <2>6. \A s \in stray' : step'[s] # "none" /\ s \in wf.agents
    BY <1>0, <2>1, <2>5 DEF RecordInv
  <2> QED BY <1>0, <1>w, <1>10, <2>1, <2>2, <2>3, <2>4, <2>5, <2>6 DEF RecordInv, Busy
<1>11. CASE Suspend
  <2>1. /\ pc = "execute" /\ pc \in Busy /\ cur \in wf.agents
        /\ step' = [step EXCEPT ![cur] = "pending_approval"]
        /\ UNCHANGED <<queue, outputs, stray, pc, finalRec>>
    BY <1>11 DEF Suspend, Busy
  <2>2. queue # <<>> /\ cur \in Steps /\ step[cur] # "none"
    BY <1>0, <2>1 DEF QueueInv, RecordInv
  <2> QED BY <1>10, <2>1, <2>2
<1>12. CASE SuspendLate
  <2>1. PICK s \in stray : step' = [step EXCEPT ![s] = "pending_approval"]
    BY <1>12 DEF SuspendLate
  <2>2. /\ s \in Steps /\ step[s] # "none" /\ s \in wf.agents
        /\ UNCHANGED <<queue, outputs, stray, pc, finalRec>>
    BY <1>0, <1>12, <2>1 DEF SuspendLate, TypeOK, RecordInv
  <2> QED BY <1>10, <2>1, <2>2
<1>13. CASE Expire \/ Returned \/ UNCHANGED vars
  <2>1. UNCHANGED <<step, queue, outputs, stray, pc, finalRec>>
    BY <1>13 DEF Expire, Returned, vars
  <2> QED BY <1>0, <1>a, <2>1 DEF RecordInv
<1> QED BY <1>1, <1>2, <1>3, <1>4, <1>7, <1>8, <1>9, <1>11, <1>12, <1>13
        DEF Next, ExecuteStep

\* Every step keeps what is returned in line with what is stored.
LEMMA EndStep == PipeInv /\ [Next]_vars => EndInv'
<1> SUFFICES ASSUME PipeInv, [Next]_vars PROVE EndInv'
  OBVIOUS
<1>0. /\ TypeOK /\ QueueInv /\ RecordInv /\ EndInv /\ TypeOK' /\ QueueInv'
      /\ queue # <<>> => cur \in Steps
      /\ store' = store /\ (Cyclic' <=> Cyclic)
  <2>1. store' = store /\ wf' = wf
    BY DEF Next, ExecuteStep, CreateRun, CreateStep, EvalCondition, StepReturns, StepErrors,
           Judge, StoreStep, FailStep, FailRun, CompleteRun, Suspend, SuspendLate, Expire,
           Returned, vars, input
  <2> QED BY <2>1, TypeStep, QueueStep, QueueFacts, SameWorkflow DEF PipeInv, TypeOK
<1>c. queue' = queue => cur' = cur
  BY DEF cur
<1>1. CASE CreateRun
  BY <1>0, <1>1 DEF CreateRun, Return, EndInv, QueueInv
<1>2. CASE CreateStep
  BY <1>0, <1>2 DEF CreateStep, Return, EndInv, QueueInv
<1>3. CASE EvalCondition
  BY <1>0, <1>3 DEF EvalCondition, EndInv
<1>4. CASE Judge
  BY <1>0, <1>4 DEF Judge, EndInv
<1>5. CASE StepReturns
  BY <1>0, <1>5 DEF StepReturns, EndInv
<1>6. CASE StepErrors
  BY <1>0, <1>6 DEF StepErrors, EndInv
<1>7. CASE StoreStep
  BY <1>0, <1>7 DEF StoreStep, Return, EndInv
<1>8. CASE FailStep
  <2>1. queue # <<>> /\ cur' = cur /\ pc = "fail" /\ pc' = "failRun"
        /\ UNCHANGED <<run, queue, returned, stray, expired>>
    BY <1>c, <1>0, <1>8 DEF FailStep, QueueInv, Busy
  <2>2. WritesSucceed => step'[cur] = "failed"
    BY <1>0, <1>8, <2>1 DEF FailStep, TypeOK
  <2>3. ~WritesSucceed => ~WritesSucceed'
    BY <1>0, <2>1 DEF WritesSucceed
  <2> QED BY <1>0, <2>1, <2>2, <2>3 DEF EndInv
<1>9. CASE FailRun
  <2>1. queue # <<>> /\ cur' = cur /\ pc = "failRun" /\ pc' = "done" /\ returned' = "error"
        /\ UNCHANGED <<step, queue, stray, expired>>
        /\ run' = IF WritesSucceed THEN "failed" ELSE run
    BY <1>c, <1>0, <1>9 DEF FailRun, Return, QueueInv, Busy
  <2> QED BY <1>0, <2>1 DEF EndInv
<1>10. CASE CompleteRun
  BY <1>0, <1>10 DEF CompleteRun, Return, EndInv
<1>11. CASE Suspend
  BY <1>0, <1>11 DEF Suspend, EndInv
<1>12. CASE SuspendLate
  <2>1. PICK s \in stray : step' = [step EXCEPT ![s] = "pending_approval"]
    BY <1>12 DEF SuspendLate
  <2>2. cur' = cur /\ UNCHANGED <<run, queue, pc, returned, stray, expired>>
    BY <1>c, <1>12 DEF SuspendLate
  <2>3. queue # <<>> =>
          \/ step'[cur] = step[cur]
          \/ cur \in stray /\ step'[cur] = "pending_approval"
    BY <1>0, <2>1 DEF TypeOK
  <2>4. pc = "failRun" => queue # <<>>
    BY <1>0 DEF QueueInv, Busy
  <2>5. WritesSucceed' = WritesSucceed
    BY <1>0, <2>2 DEF WritesSucceed
  <2> QED BY <1>0, <2>2, <2>3, <2>4, <2>5 DEF EndInv
<1>13. CASE Expire \/ Returned \/ UNCHANGED vars
  <2>1. UNCHANGED <<run, step, queue, pc, returned, stray>> /\ cur' = cur
        /\ (~WritesSucceed => ~WritesSucceed')
    BY <1>c, <1>0, <1>13 DEF Expire, Returned, vars, WritesSucceed, input
  <2> QED BY <1>0, <2>1 DEF EndInv
<1> QED BY <1>1, <1>2, <1>3, <1>4, <1>5, <1>6, <1>7, <1>8, <1>9, <1>10, <1>11, <1>12,
           <1>13 DEF Next, ExecuteStep


\* Every step keeps the steps that are left without records, if the IDs are unique.
LEMMA FreshStep == PipeInv /\ [Next]_vars => FreshInv'
<1> SUFFICES ASSUME PipeInv, [Next]_vars, UniqueIDs'
             PROVE  /\ Distinct(queue')
                    /\ \A i \in 1..Len(queue') : step'[queue'[i]] = "none" \/ (i = 1 /\ pc' # "next")
                    /\ pc' = "done" /\ store' = "mem" /\ ~Cyclic' => run' \in {"complete", "failed"}
  BY DEF FreshInv, Distinct
<1>0. /\ TypeOK /\ QueueInv /\ RecordInv /\ EndInv /\ TypeOK' /\ wf \in WorkflowSet
      /\ queue # <<>> => cur \in Steps /\ queue[1] = cur
      /\ store' = store /\ (Cyclic' <=> Cyclic) /\ UniqueIDs
  <2>1. store' = store /\ wf' = wf
    BY DEF Next, ExecuteStep, CreateRun, CreateStep, EvalCondition, StepReturns, StepErrors,
           Judge, StoreStep, FailStep, FailRun, CompleteRun, Suspend, SuspendLate, Expire,
           Returned, vars, input
  <2>2. wf \in WorkflowSet
    BY PipelineAssumption DEF PipeInv, TypeOK
  <2> QED BY <2>1, <2>2, TypeStep, QueueFacts, SameWorkflow DEF PipeInv, TypeOK
<1>m. store = "mem" => WritesSucceed
  BY DEF WritesSucceed
<1>f. /\ Distinct(queue)
      /\ \A i \in 1..Len(queue) : step[queue[i]] = "none" \/ (i = 1 /\ pc # "next")
      /\ pc = "done" /\ store = "mem" /\ ~Cyclic => run \in {"complete", "failed"}
  BY <1>0 DEF PipeInv, FreshInv
<1>q. \A i \in 1..Len(queue) : queue[i] \in Steps
  BY <1>0 DEF TypeOK
<1>a. ASSUME queue' = queue, queue # <<>>,
             \A s \in Steps : s # cur => step'[s] = step[s],
             pc' # "next",
             pc' = "done" /\ store = "mem" /\ ~Cyclic => run' \in {"complete", "failed"}
      PROVE  /\ Distinct(queue')
             /\ \A i \in 1..Len(queue') : step'[queue'[i]] = "none" \/ (i = 1 /\ pc' # "next")
             /\ pc' = "done" /\ store' = "mem" /\ ~Cyclic' => run' \in {"complete", "failed"}
  <2>1. ASSUME NEW i \in 1..Len(queue), i # 1 PROVE step'[queue[i]] = "none"
    <3>1. queue[i] # cur
      <4>1. 1 \in 1..Len(queue) /\ queue[1] = cur
        BY <1>0, <1>a, QueueFacts DEF TypeOK
      <4> QED BY <1>f, <2>1, <4>1 DEF Distinct
    <3> QED BY <1>f, <1>a, <1>q, <2>1, <3>1
  <2> QED BY <1>0, <1>f, <1>a, <2>1
<1>1. CASE CreateRun
  <2>1. /\ pc = "create" /\ queue = <<>> /\ outputs = {} /\ step' = step
        /\ WritesSucceed \/ (queue' = queue /\ store # "mem" /\ pc' = "done")
        /\ ~Cyclic \/ (queue' = queue /\ pc' = "done")
    BY <1>0, <1>1, <1>m DEF CreateRun, Return, QueueInv
  <2>2. \A s \in Steps : step[s] = "none"
    BY <1>0, <2>1 DEF RecordInv, TypeOK, Open, Good, StepStatus
  <2>3. CASE WritesSucceed /\ ~Cyclic
    <3>1. queue' = Resolved /\ pc' = "next"
      BY <1>1, <2>3 DEF CreateRun
    <3>2. Distinct(queue')
      BY <1>0, <3>1, ResolvedRight
    <3>3. \A i \in 1..Len(queue') : queue'[i] \in Steps
      BY <1>0 DEF TypeOK
    <3> QED BY <2>1, <2>2, <3>1, <3>2, <3>3
  <2>4. CASE ~(WritesSucceed /\ ~Cyclic)
    <3>1. Len(queue') = 0
      BY <2>1, <2>4
    <3> QED BY <1>0, <1>m, <2>1, <2>4, <3>1 DEF Distinct
  <2> QED BY <2>3, <2>4
<1>2. CASE CreateStep
  <2>1. /\ queue # <<>> /\ queue' = queue /\ pc = "next" /\ pc' # "next"
        /\ \A s \in Steps : s # cur => step'[s] = step[s]
        /\ pc' = "done" => ~WritesSucceed \/ step[cur] # "none"
    BY <1>0, <1>2 DEF CreateStep, Return, TypeOK
  <2>2. step[cur] = "none"
    <3>1. 1 \in 1..Len(queue) /\ queue[1] = cur
      BY <1>0, <2>1, QueueFacts DEF TypeOK
    <3> QED BY <1>f, <2>1, <3>1
  <2> QED BY <1>a, <1>m, <2>1, <2>2
<1>3. CASE EvalCondition \/ Judge \/ StepReturns \/ StepErrors
  <2>1. queue # <<>> /\ queue' = queue /\ pc' \notin {"next", "done"} /\ step' = step
    BY <1>0, <1>3 DEF EvalCondition, Judge, StepReturns, StepErrors, QueueInv, Busy
  <2> QED BY <1>a, <2>1
<1>7. CASE StoreStep
  <2>1. queue # <<>>
    BY <1>0, <1>7 DEF StoreStep, QueueInv, Busy
  <2>2. CASE WritesSucceed
    <3>1. /\ step' = [step EXCEPT ![cur] = finalRec]
          /\ queue' = Tail(queue) /\ pc' = "next"
      BY <1>7, <2>2 DEF StoreStep
    <3>2. /\ queue[1] = cur /\ Len(queue) \in Nat \ {0} /\ Len(queue') = Len(queue) - 1
          /\ \A i \in 1..Len(queue') : queue'[i] = queue[i + 1]
      BY <1>0, <2>1, <3>1, QueueFacts DEF TypeOK
    <3>3. Distinct(queue')
      <4> SUFFICES ASSUME NEW i \in 1..Len(queue'), NEW j \in 1..Len(queue'),
                          queue'[i] = queue'[j]
                   PROVE  i = j
        BY DEF Distinct
      <4>1. i + 1 \in 1..Len(queue) /\ j + 1 \in 1..Len(queue)
        BY <3>2
      <4>2. queue[i + 1] = queue[j + 1]
        BY <3>2
      <4>3. i + 1 = j + 1
        BY <1>f, <4>1, <4>2 DEF Distinct
      <4> QED BY <3>2, <4>3
    <3>4. ASSUME NEW i \in 1..Len(queue') PROVE step'[queue'[i]] = "none"
      <4>1. i + 1 \in 1..Len(queue) /\ i + 1 # 1 /\ queue'[i] = queue[i + 1] /\ 1 \in 1..Len(queue)
        BY <3>2
      <4>2. queue[i + 1] # cur /\ queue[i + 1] \in Steps
        BY <1>f, <1>q, <3>2, <4>1 DEF Distinct
      <4>3. step[queue[i + 1]] = "none"
        BY <1>f, <4>1
      <4> QED BY <1>0, <3>1, <4>1, <4>2, <4>3 DEF TypeOK
    <3> QED BY <3>1, <3>3, <3>4
  <2>3. CASE ~WritesSucceed
    <3>1. step' = step /\ queue' = queue /\ pc' = "done"
      BY <1>7, <2>3 DEF StoreStep, Return
    <3> QED BY <1>a, <1>m, <2>1, <2>3, <3>1
  <2> QED BY <2>2, <2>3
<1>8. CASE FailStep
  <2>1. /\ queue # <<>> /\ queue' = queue /\ pc' = "failRun"
        /\ \A s \in Steps : s # cur => step'[s] = step[s]
    BY <1>0, <1>8 DEF FailStep, QueueInv, Busy, TypeOK
  <2> QED BY <1>a, <2>1
<1>9. CASE FailRun
  <2>1. /\ queue # <<>> /\ queue' = queue /\ pc' = "done" /\ step' = step
        /\ WritesSucceed => run' = "failed"
    BY <1>0, <1>9 DEF FailRun, Return, QueueInv, Busy
  <2> QED BY <1>a, <1>m, <2>1
<1>10. CASE CompleteRun
  <2>1. /\ queue = <<>> /\ queue' = queue /\ pc' = "done"
        /\ WritesSucceed => run' = "complete"
    BY <1>10 DEF CompleteRun, Return
  <2>2. Len(queue') = 0
    BY <2>1
  <2> QED BY <1>0, <1>m, <2>1, <2>2 DEF Distinct
<1>11. CASE Suspend
  <2>1. /\ queue # <<>> /\ queue' = queue /\ pc' = pc /\ run' = run /\ pc # "next"
        /\ \A s \in Steps : s # cur => step'[s] = step[s]
    BY <1>0, <1>11 DEF Suspend, QueueInv, Busy, TypeOK
  <2> QED BY <1>a, <1>f, <2>1
<1>13. CASE SuspendLate
  <2>1. PICK s \in stray : step' = [step EXCEPT ![s] = "pending_approval"]
    BY <1>13 DEF SuspendLate
  <2>2. step[s] # "none" /\ UNCHANGED <<queue, pc, run>>
    BY <1>0, <1>13, <2>1 DEF SuspendLate, RecordInv
  <2>3. \A t \in Steps : step[t] = "none" => step'[t] = "none"
    BY <1>0, <2>1, <2>2 DEF TypeOK
  <2> QED BY <1>0, <1>f, <1>q, <2>2, <2>3
<1>12. CASE Expire \/ Returned \/ UNCHANGED vars
  <2>1. UNCHANGED <<step, queue, pc, run>>
    BY <1>12 DEF Expire, Returned, vars
  <2> QED BY <1>0, <1>f, <2>1
<1> QED BY <1>1, <1>2, <1>3, <1>7, <1>8, <1>9, <1>10, <1>11, <1>12, <1>13
        DEF Next, ExecuteStep

\* The inductive invariant is one.
LEMMA PipeStep == PipeInv /\ [Next]_vars => PipeInv'
BY TypeStep, QueueStep, RecordStep, EndStep, FreshStep DEF PipeInv

-----------------------------------------------------------------------------

\* Execute keeps the invariant, for every set of workflows and both stores.
THEOREM PipelineInvariance == Spec => []PipeInv
<1>1. Init => PipeInv
  BY PipeInit
<1>2. PipeInv /\ [Next]_vars => PipeInv'
  BY PipeStep
<1> QED BY <1>1, <1>2, PTL DEF Spec

\* The variables of Execute keep their types.
THEOREM PipelineTypeCorrect == Spec => []TypeOK
<1>1. PipeInv => TypeOK
  BY DEF PipeInv
<1> QED BY <1>1, PipelineInvariance, PTL

\* A step with a record is past its dependencies, by the order of the queue.
LEMMA StartsAfterFromInv == PipeInv => StartsAfterDepends
<1> SUFFICES ASSUME PipeInv, NEW s \in Steps, step[s] # "none", NEW d \in Deps(s)
             PROVE  d \in outputs /\ Passed(d)
  BY DEF StartsAfterDepends
<1>1. d \in outputs /\ outputs \subseteq Steps
  BY DEF PipeInv, RecordInv, TypeOK
<1> QED BY <1>1 DEF PipeInv, RecordInv

\* Execute starts a step when everything the step depends on is complete or
\* skipped: the layers of dag.Resolve are executed in order and the first
\* failure ends the run.
THEOREM DependsFirst == Spec => []StartsAfterDepends
BY StartsAfterFromInv, PipelineInvariance, PTL

\* A run with a failed step is failed, or at the label that makes it so, or the
\* write was lost.
LEMMA ExplicitFromInv == PipeInv => FailureIsExplicit
<1> SUFFICES ASSUME PipeInv PROVE FailureIsExplicit
  OBVIOUS
<1>0. /\ step \in [Steps -> {"none"} \cup StepStatus]
      /\ queue # <<>> => cur \in Steps
  BY QueueFacts DEF PipeInv, TypeOK
<1>1. ASSUME NEW s \in Steps, step[s] = "failed"
      PROVE  /\ run # "complete" /\ pc \in {"failRun", "done"}
             /\ \A t \in Steps \ {s} : step[t] = "none" \/ Passed(t)
  <2>1. s = cur /\ queue # <<>> /\ pc \in {"failRun", "done"}
    BY <1>1 DEF PipeInv, RecordInv, Open, Passed
  <2>2. ASSUME NEW t \in Steps \ {s}, step[t] # "none" PROVE Passed(t)
    <3>1. step[t] \in Open \/ step[t] \in Good
      BY <1>0, <2>2 DEF Open, Good, StepStatus
    <3> QED BY <2>1, <2>2, <3>1 DEF PipeInv, RecordInv
  <2> QED BY <2>1, <2>2 DEF PipeInv, EndInv
<1>2. ASSUME run = "failed"
      PROVE  \E s \in Steps : step[s] = "failed" \/ (s \in stray /\ step[s] = "pending_approval")
  BY <1>0, <1>2 DEF PipeInv, EndInv
<1> QED BY <1>1, <1>2 DEF FailureIsExplicit

\* failRun: the record of a step that failed, or of the one whose late request
\* for approval hid it, explains why a run failed; a complete run has none.
THEOREM FailuresExplicit == Spec => []FailureIsExplicit
BY ExplicitFromInv, PipelineInvariance, PTL

\* A complete run has an empty queue, so every step has a final record.
LEMMA DidEveryFromInv == PipeInv => CompleteDidEveryStep
<1> SUFFICES ASSUME PipeInv, run = "complete", KnownDeps, UniqueIDs, NEW s \in Members
             PROVE  Passed(s)
  BY DEF CompleteDidEveryStep
<1>1. queue = <<>> /\ run # "none"
  BY DEF PipeInv, EndInv
<1>2. ~Cyclic
  BY DEF PipeInv, EndInv
<1>4. s \in outputs \/ Has(queue, s)
  BY <1>1, <1>2 DEF PipeInv, QueueInv
<1>3. ~Has(queue, s)
  BY <1>1 DEF Has
<1> QED BY <1>3, <1>4 DEF PipeInv, RecordInv, TypeOK


\* With unique IDs and known names, a run is stored as complete when every step
\* of the file is complete or skipped: none is left out of the layers.
THEOREM CompleteRunsDidAll == Spec => []CompleteDidEveryStep
BY DidEveryFromInv, PipelineInvariance, PTL

\* What Execute returned is what it stored.
LEMMA ReturnFromInv == PipeInv => ReturnMatchesRun
<1> SUFFICES ASSUME PipeInv, pc = "done"
             PROVE  /\ returned = "nil" <=> run = "complete"
                    /\ store = "mem" /\ ~Cyclic /\ UniqueIDs => run \in {"complete", "failed"}
  BY DEF ReturnMatchesRun
<1>1. returned = "nil" <=> run = "complete"
  BY DEF PipeInv, EndInv
<1>2. store = "mem" /\ ~Cyclic /\ UniqueIDs => run \in {"complete", "failed"}
  BY DEF PipeInv, FreshInv
<1> QED BY <1>1, <1>2

\* Execute returns nil when it stored the run as complete and only then; with a
\* MemStore, no cycle and unique IDs the run has ended when it returns.
THEOREM ReturnsMatch == Spec => []ReturnMatchesRun
BY ReturnFromInv, PipelineInvariance, PTL

\* One step of the run leaves an entry that shows an end as it is.
EntryKept ==
  \A s \in Envelope : step[s] \in Ended =>
    \/ step'[s] = step[s]
    \/ s \in stray /\ step'[s] = "pending_approval"

\* The only steps that write a record again are a late suspension and a failure.
LEMMA EntriesKept == PipeInv /\ [Next]_vars => EntryKept
<1> SUFFICES ASSUME PipeInv, [Next]_vars, NEW s \in Steps, step[s] \in Ended,
                    step'[s] # step[s]
             PROVE  s \in stray /\ step'[s] = "pending_approval"
  BY DEF EntryKept, Envelope
<1>0. TypeOK /\ QueueInv /\ RecordInv /\ (queue # <<>> => cur \in Steps)
  BY QueueFacts DEF PipeInv, TypeOK
<1> USE DEF Ended, Open, Good
<1>1. CASE CreateStep
  <2>1. queue # <<>> /\ step[cur] = "none" /\ step' = [step EXCEPT ![cur] = "running"]
    BY <1>1 DEF CreateStep
  <2> QED BY <1>0, <2>1 DEF TypeOK
<1>2. CASE Suspend
  <2>1. queue # <<>> /\ pc = "execute" /\ step' = [step EXCEPT ![cur] = "pending_approval"]
    BY <1>0, <1>2 DEF Suspend, QueueInv, Busy
  <2>2. s = cur
    BY <1>0, <2>1 DEF TypeOK
  <2> QED BY <1>0, <2>1, <2>2 DEF RecordInv, Busy
<1>3. CASE SuspendLate
  <2>1. PICK x \in stray : step' = [step EXCEPT ![x] = "pending_approval"]
    BY <1>3 DEF SuspendLate
  <2>2. s = x
    BY <1>0, <2>1 DEF TypeOK
  <2> QED BY <1>0, <2>1, <2>2 DEF TypeOK
<1>4. CASE StoreStep
  <2>1. queue # <<>> /\ pc = "store" /\ step' = [step EXCEPT ![cur] = finalRec]
    BY <1>0, <1>4 DEF StoreStep, QueueInv, Busy
  <2>2. s = cur
    BY <1>0, <2>1 DEF TypeOK
  <2> QED BY <1>0, <2>1, <2>2 DEF RecordInv, Busy
<1>5. CASE FailStep
  <2>1. queue # <<>> /\ pc = "fail" /\ step' = [step EXCEPT ![cur] = "failed"]
    BY <1>0, <1>5 DEF FailStep, QueueInv, Busy
  <2>2. s = cur
    BY <1>0, <2>1 DEF TypeOK
  <2> QED BY <1>0, <2>1, <2>2 DEF RecordInv, Busy
<1>6. CASE UNCHANGED step
  BY <1>6
<1> QED BY <1>1, <1>2, <1>3, <1>4, <1>5, <1>6
        DEF Next, ExecuteStep, CreateRun, EvalCondition, StepReturns, StepErrors, Judge,
            FailRun, CompleteRun, Expire, Returned, vars

\* An entry of the envelope that shows an end stays what it is, unless a leg that
\* outlived the wait for its step, given up or answered by another leg, asks for
\* approval: handlePendingApproval replaces the record of a complete step too.
THEOREM EntriesFinal == Spec => EnvelopeEntriesFinal
<1>1. PipeInv /\ [Next]_vars => [EntryKept]_vars
  BY EntriesKept
<1> QED BY <1>1, PipelineInvariance, PTL DEF Spec, EnvelopeEntriesFinal, EntryKept
=============================================================================

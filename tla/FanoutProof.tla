---------------------------- MODULE FanoutProof ----------------------------
(***************************************************************************)
(* executeFanout never has more dispatches under way than the semaphore    *)
(* has slots, for every array, every concurrency and every number of       *)
(* tolerated failures, leaves no item behind, and reports the usage of     *)
(* every answer.  That the usage adds up is a sum over a set: it rests on  *)
(* TotalGrows of InductionLemmas, proved by induction on the set.          *)
(***************************************************************************)
EXTENDS Fanout, InductionLemmas, FiniteSetTheorems, TLAPS

FanTypes ==
  /\ items \subseteq 1..MaxLength
  /\ limit \in Nat
  /\ pc \in [items -> ItemPC]
  /\ sem \in Nat
  /\ result \in [items -> Results]

\* The slots taken are those of the goroutines that took one and did not give
\* it back, and a goroutine that is past its dispatch stored a result.
FanInv ==
  /\ FanTypes
  /\ sem = Cardinality(Active) /\ sem <= limit
  /\ \A i \in items : pc[i] \in {"release", "done"} => result[i] # "none"
  /\ returned.status # "none" => \A i \in items : pc[i] = "done"

\* What one goroutine does to the set of those that hold a slot: a goroutine
\* that takes one (Acquire) adds itself, one that gives it back removes itself.
LEMMA SlotTaken ==
  ASSUME NEW S, NEW i, IsFiniteSet(S), i \notin S
  PROVE  Cardinality(S \cup {i}) = Cardinality(S) + 1 /\ Cardinality(S) \in Nat
  BY FS_AddElement, FS_CardinalityType

\* One that gives its slot back leaves one fewer.
LEMMA SlotFreed ==
  ASSUME NEW S, NEW i \in S, IsFiniteSet(S)
  PROVE  Cardinality(S \ {i}) = Cardinality(S) - 1 /\ Cardinality(S) \in Nat \ {0}
  <1>1. Cardinality(S \ {i}) = Cardinality(S) - 1 /\ Cardinality(S) \in Nat
    BY FS_RemoveElement, FS_CardinalityType
  <1>2. Cardinality(S) # 0
    BY FS_EmptySet
  <1> QED
    BY <1>1, <1>2

\* The goroutines that hold a slot are finitely many: items is an index set of
\* the array.
LEMMA FewItems ==
  ASSUME MaxLength \in Nat, items \subseteq 1..MaxLength
  PROVE  IsFiniteSet(items) /\ IsFiniteSet(Active)
  <1>1. IsFiniteSet(items)
    <2>1. IsFiniteSet(1..MaxLength)
      BY FS_Interval
    <2> QED
      BY <2>1, FS_Subset
  <1>2. Active \subseteq items
    BY DEF Active
  <1> QED
    BY <1>1, <1>2, FS_Subset

\* Nothing is dispatched when executeFanout starts.
LEMMA FanInit == Init => FanInv
  <1> SUFFICES ASSUME Init PROVE FanInv
    OBVIOUS
  <1>1. items \subseteq 1..MaxLength
    <2>1. PICK length \in 1..MaxLength, max \in MaxItems :
            items = 1..(IF max > 0 /\ length > max THEN max ELSE length)
      BY DEF Init
    <2> QED
      BY <2>1, FanoutAssumption
  <1>2. IsFiniteSet(items)
    BY <1>1, FewItems, FanoutAssumption
  <1>3. Cardinality(items) \in Nat
    BY <1>2, FS_CardinalityType
  <1>4. limit \in Nat
    BY <1>3, FanoutAssumption DEF Init
  <1>5. Active = {}
    BY DEF Init, Active
  <1>6. sem = Cardinality(Active) /\ sem <= limit
    BY <1>4, <1>5, FS_EmptySet DEF Init
  <1> QED
    BY <1>1, <1>4, <1>6 DEF Init, FanInv, FanTypes, ItemPC, Results

\* A slot is taken only while one is free, and given back once.
LEMMA FanStep == FanInv /\ [Next]_vars => FanInv'
  <1> SUFFICES ASSUME FanInv, [Next]_vars PROVE FanInv'
    OBVIOUS
  <1>1. FanTypes /\ IsFiniteSet(items) /\ IsFiniteSet(Active)
    BY FewItems, FanoutAssumption DEF FanInv, FanTypes
  <1>2. CASE UNCHANGED vars
    <2>1. Active' = Active
      BY <1>2 DEF vars, Active
    <2> QED
      BY <1>2, <2>1 DEF FanInv, FanTypes, vars
  <1>3. ASSUME NEW i \in items, Acquire(i) PROVE FanInv'
    <2>1. i \notin Active /\ Active' = Active \cup {i}
      BY <1>1, <1>3 DEF Acquire, Active, FanTypes
    <2>2. sem' = Cardinality(Active') /\ sem' <= limit' /\ sem' \in Nat
      BY <1>1, <1>3, <2>1, SlotTaken DEF Acquire, FanInv, FanTypes
    <2>3. pc' \in [items' -> ItemPC]
      BY <1>1, <1>3 DEF Acquire, FanTypes, ItemPC
    <2>4. \A j \in items' : pc'[j] \in {"release", "done"} => result'[j] # "none"
      BY <1>1, <1>3 DEF Acquire, FanInv, FanTypes
    <2>5. returned'.status # "none" => \A j \in items' : pc'[j] = "done"
      BY <1>1, <1>3 DEF Acquire, FanInv, FanTypes
    <2> QED
      BY <1>1, <1>3, <2>2, <2>3, <2>4, <2>5 DEF Acquire, FanInv, FanTypes
  <1>4. ASSUME NEW i \in items, DispatchReturns(i) PROVE FanInv'
    <2>1. Active' = Active
      BY <1>1, <1>4 DEF DispatchReturns, Active, FanTypes
    <2>2. PICK r \in {"ok", "failed", "canceled"} : result' = [result EXCEPT ![i] = r]
      BY <1>4 DEF DispatchReturns
    <2>3. pc' \in [items' -> ItemPC] /\ result' \in [items' -> Results]
      BY <1>1, <1>4, <2>2 DEF DispatchReturns, FanTypes, ItemPC, Results
    <2>4. \A j \in items' : pc'[j] \in {"release", "done"} => result'[j] # "none"
      BY <1>1, <1>4, <2>2 DEF DispatchReturns, FanInv, FanTypes
    <2>5. returned'.status # "none" => \A j \in items' : pc'[j] = "done"
      BY <1>1, <1>4 DEF DispatchReturns, FanInv, FanTypes
    <2> QED
      BY <1>1, <1>4, <2>1, <2>3, <2>4, <2>5 DEF DispatchReturns, FanInv, FanTypes
  <1>5. ASSUME NEW i \in items, Release(i) PROVE FanInv'
    <2>1. i \in Active /\ Active' = Active \ {i}
      BY <1>1, <1>5 DEF Release, Active, FanTypes
    <2>2. /\ Cardinality(Active') = Cardinality(Active) - 1
          /\ Cardinality(Active) \in Nat \ {0}
      BY <1>1, <2>1, SlotFreed
    <2>3. sem' = Cardinality(Active') /\ sem' <= limit' /\ sem' \in Nat
      BY <1>5, <2>2 DEF Release, FanInv, FanTypes
    <2>4. pc' \in [items' -> ItemPC]
      BY <1>1, <1>5 DEF Release, FanTypes, ItemPC
    <2>5. \A j \in items' : pc'[j] \in {"release", "done"} => result'[j] # "none"
      BY <1>1, <1>5 DEF Release, FanInv, FanTypes
    <2>6. returned'.status # "none" => \A j \in items' : pc'[j] = "done"
      BY <1>1, <1>5 DEF Release, FanInv, FanTypes
    <2> QED
      BY <1>1, <1>5, <2>3, <2>4, <2>5, <2>6 DEF Release, FanInv, FanTypes
  <1>6. CASE Aggregate
    <2>1. Active' = Active
      BY <1>6 DEF Aggregate, Active
    <2> QED
      BY <1>6, <2>1 DEF Aggregate, FanInv, FanTypes
  <1>7. CASE Expire
    <2>1. Active' = Active
      BY <1>7 DEF Expire, Active
    <2> QED
      BY <1>7, <2>1 DEF Expire, FanInv, FanTypes
  <1> QED
    BY <1>2, <1>3, <1>4, <1>5, <1>6, <1>7 DEF Next, Item, Done

\* The items the runtime answered for.
AnsweredItems == {i \in items : result[i] \in {"ok", "failed"}}

\* The usage counted so far is that of the items with an answer, an item has
\* no result before its dispatch returned, and executeFanout returned the sum.
UsageInv ==
  /\ expired \in BOOLEAN
  /\ tolerated \in MaxFailures
  /\ returned \in Return
  /\ answered \in Nat
  /\ answered = Total(AnsweredItems)
  /\ \A i \in items : pc[i] \in {"start", "dispatch"} => result[i] = "none"
  /\ returned.status # "none" => returned.usage = answered

\* The usage that Aggregate adds up is the total of the answered items.
LEMMA UsageIsTotal == Usage = Total(AnsweredItems)
  BY DEF Usage, Total, AnsweredItems

\* No usage is counted when executeFanout starts.
LEMMA UsageInit == Init => UsageInv
  <1> SUFFICES ASSUME Init PROVE UsageInv
    OBVIOUS
  <1>1. AnsweredItems = {}
    BY DEF Init, AnsweredItems
  <1>2. Total({}) = 0
    <2>1. {} \in SUBSET (1..MaxLength)
      OBVIOUS
    <2> QED
      BY <2>1, TotalGrows, FanoutAssumption
  <1>3. /\ expired \in BOOLEAN /\ tolerated \in MaxFailures
        /\ returned \in Return /\ answered \in Nat
    BY DEF Init, Return
  <1>4. \A i \in items : pc[i] \in {"start", "dispatch"} => result[i] = "none"
    BY DEF Init
  <1>5. answered = 0 /\ returned.status = "none"
    BY DEF Init
  <1> QED
    BY <1>1, <1>2, <1>3, <1>4, <1>5 DEF UsageInv

\* An answer adds the usage of its item once, an error of the context none.
LEMMA UsageStep == FanInv /\ UsageInv /\ [Next]_vars => UsageInv'
  <1> SUFFICES ASSUME FanInv, UsageInv, [Next]_vars PROVE UsageInv'
    OBVIOUS
  <1>1. FanTypes
    BY DEF FanInv
  <1>2. ASSUME UNCHANGED <<items, result, answered, tolerated>>,
               expired' \in BOOLEAN, returned' \in Return,
               returned'.status # "none" => returned'.usage = answered,
               \A i \in items : pc'[i] \in {"start", "dispatch"} =>
                                pc[i] \in {"start", "dispatch"}
        PROVE  UsageInv'
    <2>1. AnsweredItems' = AnsweredItems
      BY <1>2 DEF AnsweredItems
    <2> QED
      BY <1>2, <2>1 DEF UsageInv
  <1>3. ASSUME NEW i \in items, Acquire(i) PROVE UsageInv'
    <2>1. \A j \in items : pc'[j] \in {"start", "dispatch"} =>
                           pc[j] \in {"start", "dispatch"}
      BY <1>1, <1>3 DEF Acquire, FanTypes
    <2> QED
      BY <1>2, <1>3, <2>1 DEF Acquire, UsageInv
  <1>4. ASSUME NEW i \in items, DispatchReturns(i) PROVE UsageInv'
    <2>1. result[i] = "none" /\ i \notin AnsweredItems /\ returned.status = "none"
      BY <1>4 DEF DispatchReturns, UsageInv, AnsweredItems, FanInv
    <2>2. \A j \in items' : pc'[j] \in {"start", "dispatch"} => result'[j] = "none"
      BY <1>1, <1>4 DEF DispatchReturns, UsageInv, FanTypes
    <2>3. answered' \in Nat /\ answered' = Total(AnsweredItems')
      <3>1. AnsweredItems \in SUBSET (1..MaxLength) /\ i \in 1..MaxLength
        BY <1>1 DEF AnsweredItems, FanTypes
      <3>2. CASE \E r \in {"ok", "failed"} : /\ result' = [result EXCEPT ![i] = r]
                                            /\ answered' = answered + i
        <4>1. AnsweredItems' = AnsweredItems \cup {i}
          BY <1>1, <1>4, <3>2 DEF AnsweredItems, DispatchReturns, FanTypes
        <4>2. Total(AnsweredItems \cup {i}) = Total(AnsweredItems) + i
          BY <2>1, <3>1, TotalGrows, FanoutAssumption
        <4> QED
          BY <3>1, <3>2, <4>1, <4>2, FanoutAssumption DEF UsageInv
      <3>3. CASE result' = [result EXCEPT ![i] = "canceled"] /\ UNCHANGED answered
        <4>1. AnsweredItems' = AnsweredItems
          BY <1>1, <1>4, <2>1, <3>3 DEF AnsweredItems, DispatchReturns, FanTypes
        <4> QED
          BY <3>3, <4>1 DEF UsageInv
      <3> QED
        BY <1>4, <3>2, <3>3 DEF DispatchReturns
    <2> QED
      BY <1>4, <2>1, <2>2, <2>3 DEF DispatchReturns, UsageInv
  <1>5. ASSUME NEW i \in items, Release(i) PROVE UsageInv'
    <2>1. \A j \in items : pc'[j] \in {"start", "dispatch"} =>
                           pc[j] \in {"start", "dispatch"}
      BY <1>1, <1>5 DEF Release, FanTypes
    <2> QED
      BY <1>2, <1>5, <2>1 DEF Release, UsageInv
  <1>6. CASE Aggregate
    <2>1. returned'.usage = answered
      BY <1>6, UsageIsTotal DEF Aggregate, UsageInv
    <2>2. returned' \in Return
      <3>1. Usage \in Nat
        BY UsageIsTotal DEF UsageInv
      <3> QED
        BY <1>6, <3>1 DEF Aggregate, Return
    <2> QED
      BY <1>2, <1>6, <2>1, <2>2 DEF Aggregate, UsageInv
  <1>7. CASE Expire
    BY <1>2, <1>7 DEF Expire, UsageInv
  <1>8. CASE UNCHANGED vars
    BY <1>2, <1>8 DEF vars, UsageInv
  <1> QED
    BY <1>3, <1>4, <1>5, <1>6, <1>7, <1>8 DEF Next, Item, Done

\* The invariants of the semaphore and of the usage hold in every state of
\* executeFanout.
THEOREM FanoutInvariance == Spec => [](FanInv /\ UsageInv)
  <1>1. Init => FanInv /\ UsageInv
    BY FanInit, UsageInit
  <1>2. FanInv /\ UsageInv /\ [Next]_vars => (FanInv /\ UsageInv)'
    BY FanStep, UsageStep
  <1> QED
    BY <1>1, <1>2, PTL DEF Spec

\* At most as many goroutines are inside runtimeDispatcher.Dispatch as
\* for_each.concurrency allows, whatever the dispatches answer and however the
\* goroutines interleave.
THEOREM ConcurrencyLimited == Spec => []ConcurrencyBounded
  <1>1. FanInv => ConcurrencyBounded
    BY DEF FanInv, ConcurrencyBounded
  <1> QED
    BY <1>1, FanoutInvariance, PTL

\* executeFanout returns only after every item ended with an output or an error
\* of its own: no goroutine is left behind, and none writes its result after
\* the results were read.
THEOREM NoItemLeftBehind ==
  Spec => [](returned.status # "none" =>
               \A i \in items : pc[i] = "done" /\ result[i] # "none")
  <1>1. FanInv => (returned.status # "none" =>
                     \A i \in items : pc[i] = "done" /\ result[i] # "none")
    BY DEF FanInv
  <1> QED
    BY <1>1, FanoutInvariance, PTL

\* executeFanout reports the usage of every item the runtime answered for, of
\* those that failed too, whatever the order the answers come in.
THEOREM UsageAddsUp == Spec => []UsageAdditive
  <1>1. FanInv /\ UsageInv => UsageAdditive
    BY DEF FanInv, UsageInv, UsageAdditive
  <1> QED
    BY <1>1, FanoutInvariance, PTL

\* The variables of executeFanout keep their types: the sum of the usage is a
\* number, and the semaphore is never given back below zero.
THEOREM FanoutTypeCorrect == Spec => []TypeOK
  <1>1. FanInv /\ UsageInv => TypeOK
    BY DEF FanInv, FanTypes, UsageInv, TypeOK
  <1> QED
    BY <1>1, FanoutInvariance, PTL
=============================================================================

------------------------------- MODULE Fanout -------------------------------
(***************************************************************************)
(* executeFanout: one goroutine per item, a semaphore of the configured    *)
(* concurrency around runtimeDispatcher.Dispatch, and the aggregation of   *)
(* the results once every goroutine is done.  A dispatch ends with an      *)
(* output or an error; when the context of the run is done it ends with an *)
(* error at the latest.  Item i uses i units, known when it is answered.   *)
(***************************************************************************)
EXTENDS Integers, FiniteSets, FiniteSetsExt

CONSTANTS
  MaxLength,     \* bound on the length of the array
  MaxItems,      \* values of for_each.max_items, 0 for none
  Concurrency,   \* values of for_each.concurrency, 0 for all at once
  MaxFailures    \* values of for_each.max_failures

ASSUME FanoutAssumption ==
  /\ MaxLength \in Nat
  /\ MaxItems \subseteq Nat
  /\ Concurrency \subseteq Nat
  /\ MaxFailures \subseteq Int

VARIABLES
  items,      \* the items that are dispatched: 1..n after max_items
  limit,      \* the capacity of the semaphore
  tolerated,  \* max_failures
  pc,         \* [items -> where the goroutine of the item is]
  sem,        \* how many slots of the semaphore are taken
  result,     \* [items -> "none", "ok", "failed", "canceled"], by index
  expired,    \* the context of the run is done
  answered,   \* the usage the runtime reported, over all items so far
  returned    \* "none" until Wait returned, then what executeFanout returned

vars == <<items, limit, tolerated, pc, sem, result, expired, answered, returned>>

ItemPC  == {"start", "dispatch", "release", "done"}
Results == {"none", "ok", "failed", "canceled"}
Return  == [status : {"none", "ok", "failed"}, usage : Nat]

TypeOK ==
  /\ items \subseteq 1..MaxLength
  /\ limit \in Nat
  /\ tolerated \in MaxFailures
  /\ pc \in [items -> ItemPC]
  /\ sem \in Nat
  /\ result \in [items -> Results]
  /\ expired \in BOOLEAN
  /\ answered \in Nat
  /\ returned \in Return

\* The array is cut at max_items, and the concurrency at the array; an empty
\* array returns before anything starts and is left out.
Init ==
  /\ \E length \in 1..MaxLength, max \in MaxItems :
       items = 1..(IF max > 0 /\ length > max THEN max ELSE length)
  /\ \E c \in Concurrency :
       limit = IF c = 0 \/ c > Cardinality(items) THEN Cardinality(items) ELSE c
  /\ tolerated \in MaxFailures
  /\ pc = [i \in items |-> "start"]
  /\ sem = 0
  /\ result = [i \in items |-> "none"]
  /\ expired = FALSE
  /\ answered = 0
  /\ returned = [status |-> "none", usage |-> 0]

-----------------------------------------------------------------------------

\* Mutant: the semaphore has one slot more.
AcquireOneMore(i) ==
  /\ pc[i] = "start"
  /\ sem <= limit
  /\ sem' = sem + 1
  /\ pc' = [pc EXCEPT ![i] = "dispatch"]
  /\ UNCHANGED <<items, limit, tolerated, result, expired, answered, returned>>

\* sem <- struct{}{}
Acquire(i) ==
  /\ pc[i] = "start"
  /\ sem < limit
  /\ sem' = sem + 1
  /\ pc' = [pc EXCEPT ![i] = "dispatch"]
  /\ UNCHANGED <<items, limit, tolerated, result, expired, answered, returned>>

\* Dispatch returns: with the answer of the runtime, or because the context
\* is done, then without usage.
DispatchReturns(i) ==
  /\ pc[i] = "dispatch"
  /\ \/ /\ \E r \in {"ok", "failed"} : result' = [result EXCEPT ![i] = r]
        /\ answered' = answered + i
     \/ /\ expired
        /\ result' = [result EXCEPT ![i] = "canceled"]
        /\ UNCHANGED answered
  /\ pc' = [pc EXCEPT ![i] = "release"]
  /\ UNCHANGED <<items, limit, tolerated, sem, expired, returned>>

\* Mutant: an item that fails keeps its slot.
ReleaseOnSuccess(i) ==
  /\ pc[i] = "release"
  /\ sem' = IF result[i] = "ok" THEN sem - 1 ELSE sem
  /\ pc' = [pc EXCEPT ![i] = "done"]
  /\ UNCHANGED <<items, limit, tolerated, result, expired, answered, returned>>

Release(i) ==
  /\ pc[i] = "release"
  /\ sem' = sem - 1
  /\ pc' = [pc EXCEPT ![i] = "done"]
  /\ UNCHANGED <<items, limit, tolerated, result, expired, answered, returned>>

Failures == {i \in items : result[i] \in {"failed", "canceled"}}
\* Mutant: the usage of failed items is forgotten.
UsageOfOutputs == MapThenSumSet(LAMBDA i : i, {i \in items : result[i] = "ok"})

Usage    == MapThenSumSet(LAMBDA i : i, {i \in items : result[i] \in {"ok", "failed"}})

\* wg.Wait() and the loop over the results.
Aggregate ==
  /\ returned.status = "none"
  /\ \A i \in items : pc[i] = "done"
  /\ returned' =
       [status |-> IF \/ tolerated = 0 /\ Failures # {}
                      \/ tolerated > 0 /\ Cardinality(Failures) > tolerated
                   THEN "failed" ELSE "ok",
        usage  |-> Usage]
  /\ UNCHANGED <<items, limit, tolerated, pc, sem, result, expired, answered>>

Expire ==
  /\ ~expired /\ returned.status = "none"
  /\ expired' = TRUE
  /\ UNCHANGED <<items, limit, tolerated, pc, sem, result, answered, returned>>

Done == returned.status # "none" /\ UNCHANGED vars

Item(i) == Acquire(i) \/ DispatchReturns(i) \/ Release(i)

Next == (\E i \in items : Item(i)) \/ Aggregate \/ Expire \/ Done

\* The scheduler runs every goroutine and every dispatch ends.  An item takes
\* a slot once, so that a free slot reaches every item that waits.
Spec ==
  /\ Init /\ [][Next]_vars
  /\ \A i \in 1..MaxLength : WF_vars(i \in items /\ Item(i))
  /\ WF_vars(Aggregate)

-----------------------------------------------------------------------------

Active == {i \in items : pc[i] \in {"dispatch", "release"}}

\* No more dispatches are under way than for_each.concurrency allows.
ConcurrencyBounded == Cardinality(Active) <= limit

\* Fanout usage is additive: what was answered for, by items that failed too,
\* is what the step reports, and no item was left without a result.
UsageAdditive ==
  returned.status # "none" => /\ returned.usage = answered
                       /\ \A i \in items : result[i] # "none"

\* The step ends.
Returns == <>(returned.status # "none")
=============================================================================

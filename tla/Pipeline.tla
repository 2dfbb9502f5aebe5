------------------------------ MODULE Pipeline ------------------------------
(***************************************************************************)
(* Runner.Execute: one run of a workflow through its pipeline.  The steps  *)
(* are executed one after another, layer by layer (Dag); what a step does  *)
(* inside is left open (AgentStep, Fanout) but for how it can end.         *)
(* The store is a MemStore, which ignores the context, or a SQLiteStore,   *)
(* which refuses to write once the context of the run is done.  GetEnvelope*)
(* may be called at any time and shows the stored steps.  The handler of   *)
(* approval requests writes step records too, at times of its own.         *)
(***************************************************************************)
EXTENDS Naturals, Sequences, FiniteSets, SequencesExt

CONSTANTS
  Steps,      \* step IDs
  Ghosts,     \* names in depends_on that are no step
  Workflows,  \* the workflows that may be invoked
  Stores,     \* the stores the orchestrator may use, of {"mem", "sqlite"}
  MayExpire   \* the workflow has a timeout_s that may pass

\* order: the IDs as the file lists them, depends: the depends_on of each entry,
\* agents and fanouts: the steps that call one agent or one for each item,
\* condition: the steps that have a condition.
WorkflowSet ==
  [order : Seq(Steps), depends : Seq(SUBSET (Steps \cup Ghosts)),
   agents : SUBSET Steps, fanouts : SUBSET Steps, condition : SUBSET Steps]

ASSUME PipelineAssumption ==
  /\ IsFiniteSet(Steps)
  /\ Workflows \subseteq WorkflowSet
  /\ \A w \in Workflows : Len(w.depends) = Len(w.order)
  /\ Stores \subseteq {"mem", "sqlite"}
  /\ MayExpire \in BOOLEAN

VARIABLES
  wf,        \* the workflow of the run
  store,     \* the store of the orchestrator
  run,       \* the stored status of the run, "none" before CreateRun
  step,      \* the stored status of each step, "none" before CreateStep
  queue,     \* the steps still to execute, in the order of the layers
  pc,        \* where Execute is, for the step at the head of queue
  outputs,   \* stepOutputs: the steps whose output others can refer to
  finalRec,  \* the status of the step record that is about to be stored
  stray,     \* the agent steps of which a leg may work on after Dispatch returned
  expired,   \* the context of the run is done
  returned   \* what Execute returned: "none", "nil" or "error"

input == <<wf, store>>
vars  == <<input, run, step, queue, pc, outputs, finalRec, stray, expired, returned>>

StepStatus == {"running", "pending_approval", "complete", "skipped", "failed"}
PC == {"create", "next", "condition", "execute", "reserved", "store", "fail", "failRun",
       "finish", "done"}

TypeOK ==
  /\ wf \in Workflows /\ store \in Stores
  /\ run \in {"none", "running", "complete", "failed"}
  /\ step \in [Steps -> {"none"} \cup StepStatus]
  /\ queue \in Seq(Steps)
  /\ pc \in PC
  /\ outputs \in SUBSET Steps
  /\ finalRec \in {"none", "complete", "skipped"}
  /\ stray \in SUBSET Steps /\ expired \in BOOLEAN
  /\ returned \in {"none", "nil", "error"}

Init ==
  /\ wf \in Workflows /\ store \in Stores
  /\ run = "none"
  /\ step = [s \in Steps |-> "none"]
  /\ queue = <<>>
  /\ pc = "create"
  /\ outputs = {}
  /\ finalRec = "none"
  /\ stray = {} /\ expired = FALSE
  /\ returned = "none"

-----------------------------------------------------------------------------
(* The result of dag.Resolve: after k layers the steps placed are those    *)
(* whose dependencies were placed before (module Dag).                     *)

Members == ToSet(wf.order)

\* What an ID depends on: all that its entries list.  The search for cycles
\* looks at the list of the last entry only.
Entries(n)  == {i \in DOMAIN wf.order : wf.order[i] = n}
Deps(n)     == UNION {wf.depends[i] : i \in Entries(n)}
LastList(n) == wf.depends[CHOOSE i \in Entries(n) : \A j \in Entries(n) : j <= i]

Cyclic == \E S \in (SUBSET Members) \ {{}} : \A n \in S : LastList(n) \cap S # {}

Placed == LET f[k \in 0..Cardinality(Steps)] ==
                IF k = 0 THEN {} ELSE {n \in Members : Deps(n) \subseteq f[k - 1]}
          IN f

\* The members of T, appended one by one in the order of s.
Keep(s, T) == LET f[i \in 0..Len(s)] ==
                    IF i = 0 THEN <<>>
                    ELSE IF s[i] \in T THEN Append(f[i - 1], s[i]) ELSE f[i - 1]
              IN f[Len(s)]

LayerSteps(k) == Keep(wf.order, Placed[k] \ Placed[k - 1])

\* Mutant: the steps in the order of the file.
InFileOrder == wf.order

\* Mutant: the last layer is left out.
AllButLastLayer == FlattenSeq([k \in 1..(Cardinality(Steps) - 1) |-> LayerSteps(k)])

Resolved == FlattenSeq([k \in 1..Cardinality(Steps) |-> LayerSteps(k)])

-----------------------------------------------------------------------------

WritesSucceed == ~(store = "sqlite" /\ expired)
cur == Head(queue)

Return(r) == pc' = "done" /\ returned' = r

\* CreateRun, then dag.Resolve: its error leaves the run as it is.
CreateRun ==
  /\ pc = "create"
  /\ IF ~WritesSucceed
       THEN Return("error") /\ UNCHANGED <<run, queue>>
       ELSE /\ run' = "running"
            /\ IF Cyclic THEN Return("error") /\ UNCHANGED queue
                         ELSE queue' = Resolved /\ pc' = "next" /\ UNCHANGED returned
  /\ UNCHANGED <<input, step, outputs, finalRec, stray, expired>>

\* Mutant: a record that exists is replaced.
CreateStepAnew ==
  /\ pc = "next" /\ queue # <<>>
  /\ IF WritesSucceed
       THEN /\ step' = [step EXCEPT ![cur] = "running"]
            /\ pc' = IF cur \in wf.condition THEN "condition" ELSE "execute"
            /\ UNCHANGED returned
       ELSE Return("error") /\ UNCHANGED step
  /\ UNCHANGED <<input, run, queue, outputs, finalRec, stray, expired>>

\* CreateStep refuses an ID that has a record; Execute then returns at once.
CreateStep ==
  /\ pc = "next" /\ queue # <<>>
  /\ IF WritesSucceed /\ step[cur] = "none"
       THEN /\ step' = [step EXCEPT ![cur] = "running"]
            /\ pc' = IF cur \in wf.condition THEN "condition" ELSE "execute"
            /\ UNCHANGED returned
       ELSE Return("error") /\ UNCHANGED step
  /\ UNCHANGED <<input, run, queue, outputs, finalRec, stray, expired>>

\* The condition is evaluated before any kind of step is executed.
EvalCondition ==
  /\ pc = "condition"
  /\ \/ pc' = "store" /\ finalRec' = "skipped"
     \/ pc' = "execute" /\ UNCHANGED finalRec
  /\ UNCHANGED <<input, run, step, queue, outputs, stray, expired, returned>>

\* handlePendingApproval, while the step waits in Dispatch.  An item of a fanout
\* has no record to suspend.
Suspend ==
  /\ pc = "execute" /\ cur \in wf.agents
  /\ step' = [step EXCEPT ![cur] = "pending_approval"]
  /\ UNCHANGED <<input, run, queue, pc, outputs, finalRec, stray, expired, returned>>

\* The same handler, for a leg that outlived the wait for its step: the record
\* is replaced whatever it says, and wherever the run is.
SuspendLate ==
  /\ \E s \in stray : step' = [step EXCEPT ![s] = "pending_approval"]
  /\ UNCHANGED <<input, run, queue, pc, outputs, finalRec, stray, expired, returned>>

\* The step waits for agents, which only they or the context of the run end.
AwaitsAgent == pc = "execute" /\ cur \in wf.agents \cup wf.fanouts

\* The step returns an output: a transform does not look at the context, an
\* agent answered before its dispatcher saw the end of it, a webhook got its
\* response.  A step that was suspended is answered after a decision, of which
\* there may be two, each with a leg (AgentStep); sqlite keeps no approvals.
StepReturns ==
  /\ pc = "execute"
  /\ pc' = "reserved"
  /\ \/ step[cur] # "pending_approval" /\ UNCHANGED stray
     \/ step[cur] = "pending_approval" /\ store = "mem" /\ stray' \in {stray, stray \cup {cur}}
  /\ UNCHANGED <<input, run, step, queue, outputs, finalRec, expired, returned>>

\* Any step can fail by itself; one that waits fails when the context ends.  An
\* agent whose dispatch ended with the context or a failed POST works on, and
\* so may a second leg.
StepErrors ==
  /\ pc = "execute"
  /\ pc' = "fail"
  /\ stray' \in {stray, stray \cup ({cur} \cap wf.agents)}
  /\ UNCHANGED <<input, run, step, queue, outputs, finalRec, expired, returned>>

\* "skipped": true in the output, a reserved field, and the Air-Lock decide
\* what becomes of the output.
Judge ==
  /\ pc = "reserved"
  /\ \/ pc' = "store" /\ finalRec' \in {"complete", "skipped"}
     \/ pc' = "fail" /\ UNCHANGED finalRec
  /\ UNCHANGED <<input, run, step, queue, outputs, stray, expired, returned>>

\* UpdateStep and stepOutputs: a write that fails ends Execute.
StoreStep ==
  /\ pc = "store"
  /\ IF WritesSucceed
       THEN /\ step' = [step EXCEPT ![cur] = finalRec]
            /\ outputs' = outputs \cup {cur}
            /\ queue' = Tail(queue)
            /\ pc' = "next"
            /\ UNCHANGED returned
       ELSE Return("error") /\ UNCHANGED <<step, outputs, queue>>
  /\ finalRec' = "none"
  /\ UNCHANGED <<input, run, stray, expired>>

\* Mutant: the run goes on after a step that failed.
FailStepGoesOn ==
  /\ pc = "fail"
  /\ step' = IF WritesSucceed THEN [step EXCEPT ![cur] = "failed"] ELSE step
  /\ pc' = "next"
  /\ queue' = Tail(queue)
  /\ UNCHANGED <<input, run, outputs, finalRec, stray, expired, returned>>

\* failRun: both writes are made, and their errors dropped.
FailStep ==
  /\ pc = "fail"
  /\ step' = IF WritesSucceed THEN [step EXCEPT ![cur] = "failed"] ELSE step
  /\ pc' = "failRun"
  /\ UNCHANGED <<input, run, queue, outputs, finalRec, stray, expired, returned>>

\* Mutant: the error of the step is not returned.
FailRunNil ==
  /\ pc = "failRun"
  /\ run' = IF WritesSucceed THEN "failed" ELSE run
  /\ Return("nil")
  /\ UNCHANGED <<input, step, queue, outputs, finalRec, stray, expired>>

FailRun ==
  /\ pc = "failRun"
  /\ run' = IF WritesSucceed THEN "failed" ELSE run
  /\ Return("error")
  /\ UNCHANGED <<input, step, queue, outputs, finalRec, stray, expired>>

\* Mutant: the run waits for every step of the file.
CompleteRunWaits ==
  /\ pc = "next" /\ queue = <<>>
  /\ \A s \in Members : step[s] # "none"
  /\ IF WritesSucceed THEN run' = "complete" /\ Return("nil")
                      ELSE UNCHANGED run /\ Return("error")
  /\ UNCHANGED <<input, step, queue, outputs, finalRec, stray, expired>>

CompleteRun ==
  /\ pc = "next" /\ queue = <<>>
  /\ IF WritesSucceed THEN run' = "complete" /\ Return("nil")
                      ELSE UNCHANGED run /\ Return("error")
  /\ UNCHANGED <<input, step, queue, outputs, finalRec, stray, expired>>

Expire ==
  /\ MayExpire /\ ~expired /\ pc # "done"
  /\ expired' = TRUE
  /\ UNCHANGED <<input, run, step, queue, pc, outputs, finalRec, stray, returned>>

Returned == pc = "done" /\ UNCHANGED vars

ExecuteStep ==
  \/ CreateRun \/ CreateStep \/ EvalCondition \/ StepReturns \/ StepErrors \/ Judge
  \/ StoreStep \/ FailStep \/ FailRun \/ CompleteRun

Next == ExecuteStep \/ Suspend \/ SuspendLate \/ Expire \/ Returned

\* The goroutine runs, and a transform, a webhook or a condition ends by itself.
\* An agent step ends with the context; without it nobody has to answer
\* (AgentStep tells when somebody does).
Proceed == (AwaitsAgent => expired) /\ ExecuteStep

Spec == Init /\ [][Next]_vars /\ WF_vars(Proceed)

-----------------------------------------------------------------------------
(* What GetEnvelope returns.                                               *)

Envelope == {s \in Steps : step[s] \notin {"none", "running"}}

Ended    == {"complete", "skipped", "failed"}
KnownDeps == \A n \in Members : Deps(n) \subseteq Members
UniqueIDs == IsInjective(wf.order)

\* The step was recorded as complete or skipped; a stray leg may have written
\* over it since.
Passed(s) ==
  step[s] \in {"complete", "skipped"} \/ (s \in stray /\ step[s] = "pending_approval")

\* A step is executed only when everything it depends on was recorded as
\* complete or skipped, and every output it can refer to is there.
StartsAfterDepends ==
  \A s \in Steps : step[s] # "none" => \A d \in Deps(s) : d \in outputs /\ Passed(d)

\* A failed step is the last one, a run that completed has none, and a run
\* that failed shows the step, unless a late request for approval hid it.
FailureIsExplicit ==
  /\ \A s \in Steps : step[s] = "failed" =>
       /\ run # "complete"
       /\ pc \in {"failRun", "done"}
       /\ \A t \in Steps \ {s} : step[t] = "none" \/ Passed(t)
  /\ run = "failed" =>
       \E s \in Steps : step[s] = "failed" \/ (s \in stray /\ step[s] = "pending_approval")

\* With unique IDs and no unknown name, a run completes with every step of
\* the file complete or skipped.
CompleteDidEveryStep ==
  run = "complete" /\ KnownDeps /\ UniqueIDs => \A s \in Members : Passed(s)

\* Execute returns nil exactly when the stored run is complete, and with a
\* MemStore, an acyclic graph and unique IDs the run it leaves has ended.
ReturnMatchesRun ==
  pc = "done" =>
    /\ returned = "nil" <=> run = "complete"
    /\ store = "mem" /\ ~Cyclic /\ UniqueIDs => run \in {"complete", "failed"}

\* An entry of the envelope that shows the end of a step stays what it is,
\* unless a leg of the step outlived its wait and asks for approval.
EnvelopeEntriesFinal ==
  [][\A s \in Envelope : step[s] \in Ended =>
       \/ step'[s] = step[s]
       \/ s \in stray /\ step'[s] = "pending_approval"]_vars

\* Execute returns, unless it waits for an agent for ever.
ExecuteReturns == <>(pc = "done") \/ <>[](AwaitsAgent /\ ~expired)
=============================================================================

----------------------------- MODULE AgentStep -----------------------------
(***************************************************************************)
(* One agent step of one run, from the dispatch of the runner to the       *)
(* terminal status of the step and the run:                                *)
(*                                                                         *)
(*  - the runner goroutine: runtimeDispatcher.Dispatch registers a channel *)
(*    of capacity 1 in pendingCallbacks, POSTs /invoke and waits for the   *)
(*    callback or for the end of its context; Runner.Execute records what  *)
(*    it returned;                                                         *)
(*  - the legs: the runtime goroutines that run the agent loop.  The first *)
(*    leg is started by the dispatcher, every other one by an actor that   *)
(*    decided the approval; a leg ends with one callback;                  *)
(*  - the callback handlers (handleStepComplete, handlePendingApproval);   *)
(*  - the actors: decide requests of reviewers and the goroutine of the    *)
(*    approval timeout.                                                    *)
(*                                                                         *)
(* Handlers and actors read the store, leave it, and act on what they read *)
(* in later steps, as the code does.  A gated tool call is named by the    *)
(* leg that asked for it, usage (tokens, cost) by the set of the legs that *)
(* spent it.  "complete" of a step stands for complete and skipped, which  *)
(* differ in nothing that happens here.                                    *)
(***************************************************************************)
EXTENDS Naturals, Sequences, FiniteSets

CONSTANTS
  Deciders,   \* decide requests that reviewers send
  Dispatch,   \* the originator of the first leg
  Timer,      \* the approval timeout goroutine
  Policies,   \* the approval rules a gated tool may carry
  Store,      \* "mem" or "sqlite"
  Recorded,   \* the step has a stored record of its own; an item of a fanout,
              \* dispatched as "step.i", has none, and step is its parent's
  Events      \* the disturbances that may happen

Decisions    == {"approved", "rejected"}
PolicySet    == [onReject : {"fail", "recover"}, timeout : {"none", "fail", "reject"}]
\* deadline: model_policy.timeout_s of the run passes;  post: a POST to the
\* runtime fails;  lost: a callback or its runtime is lost;  reask: a
\* resumed leg meets another gated call;  config: the dispatcher cannot load
\* or resolve the agent;  refuse: the runner refuses an output the agent sent.
EventSet     == {"deadline", "post", "lost", "reask", "config", "refuse"}

ASSUME AgentStepAssumption ==
  /\ Dispatch # Timer
  /\ Dispatch \notin Deciders
  /\ Timer \notin Deciders
  /\ Policies \subseteq PolicySet
  /\ Store \in {"mem", "sqlite"}
  /\ Recorded \in BOOLEAN
  /\ Events \subseteq EventSet

Actors == Deciders \cup {Timer}
Legs   == Actors \cup {Dispatch}

VARIABLES
  step,      \* the stored step: status, gated calls in its messages, usage
  run,       \* the stored status of the run
  approval,  \* the stored approval record of the step
  waiter,    \* pendingCallbacks holds the channel of the step
  inbox,     \* the channel of the step
  runner,    \* where the runner goroutine is
  result,    \* what Dispatch returned to the runner
  expired,   \* the context of the run is done
  leg,       \* where each leg, and then its callback, is
  out,       \* the status each leg put in its callback
  calls,     \* the gated calls in the messages of each leg
  actor,     \* where each actor is
  verdict,   \* what each actor decides
  executed   \* <<c, l>>: leg l executed the gated call c

vars == <<step, run, approval, waiter, inbox, runner, result, expired,
          leg, out, calls, actor, verdict, executed>>

runnerVars == <<run, runner, result>>
legVars    == <<leg, out, calls, executed>>
actorVars  == <<actor, verdict>>

StepStatus     == {"running", "pending_approval", "complete", "failed"}
RunStatus      == {"running", "complete", "failed"}
DecidedStatus  == {"approved", "rejected", "timeout"}
ApprovalStatus == {"none", "pending"} \cup DecidedStatus
RunnerPC       == {"register", "post", "wait", "unregister", "recordStep", "recordRun", "done"}
LegPC          == {"none", "resuming", "running", "update", "create",
                   "lookup", "send", "done", "lost"}
ActorPC        == {"off", "idle", "armed", "update", "post", "lookup", "send",
                   "ok", "conflict", "notfound", "error"}
Payload        == [status : {"ok", "failed"}, usage : SUBSET Legs]
Approval       == [status : ApprovalStatus, call : Legs, policy : PolicySet,
                   usage : SUBSET Legs]

NoPolicy   == [onReject |-> "fail", timeout |-> "none"]
NoApproval == [status |-> "none", call |-> Dispatch, policy |-> NoPolicy, usage |-> {}]
Failed(u)  == [status |-> "failed", usage |-> u]

TypeOK ==
  /\ step \in [status : StepStatus, calls : SUBSET Legs, usage : SUBSET Legs]
  /\ run \in RunStatus
  /\ approval \in Approval
  /\ waiter \in BOOLEAN
  /\ inbox \in {<<>>} \cup {<<p>> : p \in Payload}
  /\ runner \in RunnerPC
  /\ result \in Payload
  /\ expired \in BOOLEAN
  /\ leg \in [Legs -> LegPC]
  /\ out \in [Legs -> {"none", "ok", "failed", "pending_approval"}]
  /\ calls \in [Legs -> SUBSET Legs]
  /\ actor \in [Actors -> ActorPC]
  /\ verdict \in [Actors -> {"none"} \cup DecidedStatus]
  /\ executed \in SUBSET (Legs \X Legs)

\* CreateRun and CreateStep are done; the runner is about to call Dispatch.
Init ==
  /\ step = [status |-> "running", calls |-> {}, usage |-> {}]
  /\ run = "running"
  /\ approval = NoApproval
  /\ waiter = FALSE
  /\ inbox = <<>>
  /\ runner = "register"
  /\ result = Failed({})
  /\ expired = FALSE
  /\ leg = [l \in Legs |-> "none"]
  /\ out = [l \in Legs |-> "none"]
  /\ calls = [l \in Legs |-> {}]
  /\ actor = [a \in Actors |-> IF a = Timer THEN "off" ELSE "idle"]
  /\ verdict = [a \in Actors |-> "none"]
  /\ executed = {}

-----------------------------------------------------------------------------
(* The store.  MemStore ignores the context it is given; SQLiteStore runs  *)
(* its statements under it and has no approvals.                           *)

WritesSucceed     == ~(Store = "sqlite" /\ expired)
ApprovalsStored   == Store = "mem"

-----------------------------------------------------------------------------
(* The runner goroutine.                                                   *)

Register ==
  /\ runner = "register"
  /\ waiter' = TRUE
  /\ runner' = "post"
  /\ UNCHANGED <<step, run, approval, inbox, result, expired, legVars, actorVars>>

\* Dispatch returns an error before it waits: agent or server file, secret or
\* parameter that does not resolve.
DispatchConfigError ==
  /\ "config" \in Events
  /\ runner = "post"
  /\ runner' = "unregister"
  /\ result' = Failed({})
  /\ UNCHANGED <<step, run, approval, waiter, inbox, expired, legVars, actorVars>>

PostInvoke ==
  /\ runner = "post"
  /\ runner' = "wait"
  /\ leg' = [leg EXCEPT ![Dispatch] = "running"]
  /\ UNCHANGED <<step, run, approval, waiter, inbox, result, expired, out, calls,
                 executed, actorVars>>

\* The POST fails, before or after the runtime accepted it.
PostInvokeError ==
  /\ "post" \in Events \/ expired
  /\ runner = "post"
  /\ runner' = "unregister"
  /\ result' = Failed({})
  /\ \/ leg' = [leg EXCEPT ![Dispatch] = "running"]
     \/ leg' = leg
  /\ UNCHANGED <<step, run, approval, waiter, inbox, expired, out, calls, executed,
                 actorVars>>

Receive ==
  /\ runner = "wait"
  /\ inbox # <<>>
  /\ result' = Head(inbox)
  /\ inbox' = Tail(inbox)
  /\ runner' = "unregister"
  /\ UNCHANGED <<step, run, approval, waiter, expired, legVars, actorVars>>

\* Mutant: the end of the context is not taken for an error.
ContextDoneOk ==
  /\ runner = "wait"
  /\ expired
  /\ result' = [status |-> "ok", usage |-> {}]
  /\ runner' = "unregister"
  /\ UNCHANGED <<step, run, approval, waiter, inbox, expired, legVars, actorVars>>

\* Mutant: Dispatch waits for the callback only.
ContextIgnored == FALSE

ContextDone ==
  /\ runner = "wait"
  /\ expired
  /\ result' = Failed({})
  /\ runner' = "unregister"
  /\ UNCHANGED <<step, run, approval, waiter, inbox, expired, legVars, actorVars>>

\* The deferred delete of Dispatch.
Unregister ==
  /\ runner = "unregister"
  /\ waiter' = FALSE
  /\ runner' = "recordStep"
  /\ UNCHANGED <<step, run, approval, inbox, result, expired, legVars, actorVars>>

\* ProcessReservedFields or airlock.Validate of the runner turns an answer
\* into a failure; the usage stays in the step record.
RefuseOutput ==
  /\ "refuse" \in Events
  /\ runner = "recordStep"
  /\ result.status = "ok"
  /\ result' = [result EXCEPT !.status = "failed"]
  /\ UNCHANGED <<step, run, approval, waiter, inbox, runner, expired, legVars,
                 actorVars>>

\* The step record of the runner replaces the stored one, messages included.
\* A failed write is ignored on the way to a failed run (failRun) and ends
\* Execute at once on the way to a complete one.
RecordStep ==
  /\ runner = "recordStep"
  /\ IF WritesSucceed
       THEN step' = [status |-> IF result.status = "ok" THEN "complete" ELSE "failed",
                     calls |-> {}, usage |-> result.usage]
       ELSE step' = step
  /\ runner' = IF WritesSucceed \/ result.status = "failed" THEN "recordRun" ELSE "done"
  /\ UNCHANGED <<run, approval, waiter, inbox, result, expired, legVars, actorVars>>

RecordRun ==
  /\ runner = "recordRun"
  /\ run' = IF ~WritesSucceed THEN run
            ELSE IF result.status = "ok" THEN "complete" ELSE "failed"
  /\ runner' = "done"
  /\ UNCHANGED <<step, approval, waiter, inbox, result, expired, legVars, actorVars>>

Deadline ==
  /\ "deadline" \in Events
  /\ ~expired
  /\ runner # "done"
  /\ expired' = TRUE
  /\ UNCHANGED <<step, run, approval, waiter, inbox, runner, result, legVars, actorVars>>

-----------------------------------------------------------------------------
(* The legs: Loop.Run in the runtime.  A leg that ended is on its way to   *)
(* the first access its callback handler makes to shared state.            *)

\* A resumed leg executes the approved call before its first turn; a tool
\* error ends the leg, whether the tool had run or not.
ExecuteApproved(l) ==
  /\ leg[l] = "resuming"
  /\ executed' = executed \cup {<<approval.call, l>>}
  /\ leg' = [leg EXCEPT ![l] = "running"]
  /\ UNCHANGED <<step, run, approval, waiter, inbox, runner, result, expired, out,
                 calls, actorVars>>

LegEnds(l, status) ==
  /\ leg[l] = "running" \/ (leg[l] = "resuming" /\ status = "failed")
  /\ out' = [out EXCEPT ![l] = status]
  /\ leg' = [leg EXCEPT ![l] = "lookup"]
  /\ UNCHANGED <<step, run, approval, waiter, inbox, runner, result, expired, calls,
                 executed, actorVars>>

\* The loop meets a gated call: it appends the call to its messages and ends
\* with status pending_approval instead of executing it.
AskApproval(l) ==
  /\ leg[l] = "running"
  /\ l = Dispatch \/ "reask" \in Events
  /\ out' = [out EXCEPT ![l] = "pending_approval"]
  /\ calls' = [calls EXCEPT ![l] = @ \cup {l}]
  /\ leg' = [leg EXCEPT ![l] = "update"]
  /\ UNCHANGED <<step, run, approval, waiter, inbox, runner, result, expired, executed,
                 actorVars>>

\* The runtime dies or its POST of the callback fails: postCallback does not
\* retry.  A callback that reached no shared state is as good as lost.
LegLost(l) ==
  /\ "lost" \in Events
  /\ leg[l] \in {"resuming", "running", "update", "lookup"}
  /\ leg' = [leg EXCEPT ![l] = "lost"]
  /\ UNCHANGED <<step, run, approval, waiter, inbox, runner, result, expired, out,
                 calls, executed, actorVars>>

-----------------------------------------------------------------------------
(* handleStepComplete and handlePendingApproval, one step per access to    *)
(* shared state.                                                           *)

\* Mutant: a request for approval puts the run back to running.
MarkPendingRun(l) ==
  /\ leg[l] = "update"
  /\ step' = [status |-> "pending_approval", calls |-> calls[l], usage |-> {l}]
  /\ run' = "running"
  /\ leg' = [leg EXCEPT ![l] = "create"]
  /\ UNCHANGED <<approval, waiter, inbox, runner, result, expired, out, calls, executed,
                 actorVars>>

\* Mutant: the channel of a step that is suspended is dropped.
MarkPendingDrops(l) ==
  /\ leg[l] = "update"
  /\ step' = [status |-> "pending_approval", calls |-> calls[l], usage |-> {l}]
  /\ waiter' = FALSE
  /\ leg' = [leg EXCEPT ![l] = "create"]
  /\ UNCHANGED <<run, approval, inbox, runner, result, expired, out, calls, executed,
                 actorVars>>

\* Mutant: the messages are not stored with the step.
MarkPendingForgets(l) ==
  /\ leg[l] = "update"
  /\ step' = [status |-> "pending_approval", calls |-> {}, usage |-> {l}]
  /\ leg' = [leg EXCEPT ![l] = "create"]
  /\ UNCHANGED <<run, approval, waiter, inbox, runner, result, expired, out, calls,
                 executed, actorVars>>

\* GetStep, then UpdateStep with status, usage and messages replaced,
\* whatever the status was.  Without a record nothing is saved.
MarkPending(l) ==
  /\ leg[l] = "update"
  /\ step' = IF Recorded
               THEN [status |-> "pending_approval", calls |-> calls[l], usage |-> {l}]
               ELSE step
  /\ leg' = [leg EXCEPT ![l] = "create"]
  /\ UNCHANGED <<run, approval, waiter, inbox, runner, result, expired, out, calls,
                 executed, actorVars>>

\* Mutant: handleStepComplete goes on after handlePendingApproval.
CreateApprovalGoesOn(l) ==
  /\ leg[l] = "create"
  /\ leg' = [leg EXCEPT ![l] = "lookup"]
  /\ IF approval = NoApproval
       THEN \E p \in Policies :
              approval' = [status |-> "pending", call |-> l, policy |-> p, usage |-> {l}]
       ELSE UNCHANGED approval
  /\ UNCHANGED <<step, run, waiter, inbox, runner, result, expired, out, calls, executed,
                 actorVars>>

\* Mutant: a record that exists is replaced.
CreateApprovalAnew(l) ==
  /\ leg[l] = "create"
  /\ leg' = [leg EXCEPT ![l] = "done"]
  /\ \E p \in Policies :
       approval' = [status |-> "pending", call |-> l, policy |-> p, usage |-> {l}]
  /\ UNCHANGED <<step, run, waiter, inbox, runner, result, expired, out, calls, executed,
                 actorVars>>

\* CreateApproval fails when the step has a record already, or in sqlite; the
\* error is dropped.  Only a created record starts the timeout goroutine.
CreateApproval(l) ==
  /\ leg[l] = "create"
  /\ leg' = [leg EXCEPT ![l] = "done"]
  /\ IF approval = NoApproval /\ ApprovalsStored
       THEN \E p \in Policies :
              /\ approval' = [status |-> "pending", call |-> l, policy |-> p,
                              usage |-> {l}]
              /\ actor' = [actor EXCEPT ![Timer] = IF p.timeout = "none" THEN @
                                                   ELSE "armed"]
       ELSE UNCHANGED <<approval, actor>>
  /\ UNCHANGED <<step, run, waiter, inbox, runner, result, expired, out, calls,
                 executed, verdict>>

\* Mutant: the usage of the leg that asked is not added.
CallbackAlone(l) == [status |-> out[l], usage |-> {l}]

\* The usage of a resumed leg is reported with that of the leg that asked.
CallbackOf(l) ==
  [status |-> out[l],
   usage  |-> {l} \cup (IF l # Dispatch THEN approval.usage ELSE {})]

LookupWaiter(l) ==
  /\ leg[l] = "lookup"
  /\ leg' = [leg EXCEPT ![l] = IF waiter THEN "send" ELSE "done"]
  /\ UNCHANGED <<step, run, approval, waiter, inbox, runner, result, expired, out,
                 calls, executed, actorVars>>

\* Mutant: the channel has no buffer.
SendUnbuffered(l) ==
  /\ leg[l] = "send"
  /\ inbox = <<>> /\ runner = "wait"
  /\ inbox' = <<CallbackOf(l)>>
  /\ leg' = [leg EXCEPT ![l] = "done"]
  /\ UNCHANGED <<step, run, approval, waiter, runner, result, expired, out, calls,
                 executed, actorVars>>

\* ch <- payload: blocks while the channel is full.
SendCallback(l) ==
  /\ leg[l] = "send"
  /\ inbox = <<>>
  /\ inbox' = <<CallbackOf(l)>>
  /\ leg' = [leg EXCEPT ![l] = "done"]
  /\ UNCHANGED <<step, run, approval, waiter, runner, result, expired, out, calls,
                 executed, actorVars>>

-----------------------------------------------------------------------------
(* handleDecideApproval and runApprovalTimeout.                            *)

\* GetApproval and the test that the approval is pending.
Decide(d, v) ==
  /\ actor[d] = "idle"
  /\ \/ /\ approval.status = "none"
        /\ actor' = [actor EXCEPT ![d] = "notfound"]
        /\ UNCHANGED verdict
     \/ /\ approval.status \in DecidedStatus
        /\ actor' = [actor EXCEPT ![d] = "conflict"]
        /\ UNCHANGED verdict
     \/ /\ approval.status = "pending"
        /\ actor' = [actor EXCEPT ![d] = "update"]
        /\ verdict' = [verdict EXCEPT ![d] = v]
  /\ UNCHANGED <<step, run, approval, waiter, inbox, runner, result, expired, legVars>>

TimerFires ==
  /\ actor[Timer] = "armed"
  /\ IF approval.status = "pending"
       THEN /\ actor' = [actor EXCEPT ![Timer] = "update"]
            /\ verdict' = [verdict EXCEPT ![Timer] = "timeout"]
       ELSE /\ actor' = [actor EXCEPT ![Timer] = "conflict"]
            /\ UNCHANGED verdict
  /\ UNCHANGED <<step, run, approval, waiter, inbox, runner, result, expired, legVars>>

\* Does the verdict start another leg, or does it fail the step?
Resumes(v) ==
  \/ v = "approved"
  \/ v = "rejected" /\ approval.policy.onReject = "recover"
  \/ v = "timeout" /\ approval.policy = [onReject |-> "recover", timeout |-> "reject"]

\* UpdateApproval: the record read earlier is written back with the verdict.
UpdateApproval(a) ==
  /\ actor[a] = "update"
  /\ approval' = [approval EXCEPT !.status = verdict[a]]
  /\ actor' = [actor EXCEPT ![a] = IF Resumes(verdict[a]) THEN "post" ELSE "lookup"]
  /\ UNCHANGED <<step, run, waiter, inbox, runner, result, expired, legVars, verdict>>

\* Mutant: every resumed leg gets the call as approved.
StartLegApproved(a) ==
  /\ calls' = [calls EXCEPT ![a] = step.calls]
  /\ leg' = [leg EXCEPT ![a] = IF approval.call \in step.calls THEN "resuming"
                               ELSE "running"]

\* redispatchApproved, redispatchRecover: the leg starts from the messages
\* stored with the step, and executes the approved call if they hold it.
StartLeg(a) ==
  /\ calls' = [calls EXCEPT ![a] = step.calls]
  /\ leg' = [leg EXCEPT ![a] = IF verdict[a] = "approved" /\ approval.call \in step.calls
                               THEN "resuming" ELSE "running"]

PostResume(a) ==
  /\ actor[a] = "post"
  /\ StartLeg(a)
  /\ actor' = [actor EXCEPT ![a] = "ok"]
  /\ UNCHANGED <<step, run, approval, waiter, inbox, runner, result, expired, out,
                 executed, verdict>>

\* The POST fails, before or after the runtime accepted it: an approval that
\* was granted is left at that, a rejection falls back to failing the step.
PostResumeError(a) ==
  /\ "post" \in Events
  /\ actor[a] = "post"
  /\ StartLeg(a) \/ UNCHANGED <<leg, calls>>
  /\ actor' = [actor EXCEPT ![a] = IF verdict[a] = "approved" THEN "error" ELSE "lookup"]
  /\ UNCHANGED <<step, run, approval, waiter, inbox, runner, result, expired, out,
                 executed, verdict>>

\* Mutant: the failure is not signalled.
SignalDropped(a) ==
  /\ actor[a] = "lookup"
  /\ actor' = [actor EXCEPT ![a] = "ok"]
  /\ UNCHANGED <<step, run, approval, waiter, inbox, runner, result, expired, legVars,
                 verdict>>

SignalLookup(a) ==
  /\ actor[a] = "lookup"
  /\ actor' = [actor EXCEPT ![a] = IF waiter THEN "send" ELSE "ok"]
  /\ UNCHANGED <<step, run, approval, waiter, inbox, runner, result, expired, legVars,
                 verdict>>

\* signalStepFailed: the same blocking send as the callback's.
SignalSend(a) ==
  /\ actor[a] = "send"
  /\ inbox = <<>>
  /\ inbox' = <<Failed(approval.usage)>>
  /\ actor' = [actor EXCEPT ![a] = "ok"]
  /\ UNCHANGED <<step, run, approval, waiter, runner, result, expired, legVars, verdict>>

-----------------------------------------------------------------------------

LegWorking(l)   == leg[l] \in {"resuming", "running", "update", "create",
                               "lookup", "send"}
ActorWorking(a) == actor[a] \in {"update", "post", "lookup", "send"}

\* The run is over and everybody who worked for it has finished.
AllQuiet ==
  /\ runner = "done"
  /\ \A l \in Legs : ~LegWorking(l)
  /\ \A a \in Actors : ~ActorWorking(a)
  /\ UNCHANGED vars

RunnerStep ==
  \/ Register \/ PostInvoke \/ PostInvokeError \/ DispatchConfigError \/ Receive
  \/ ContextDone \/ Unregister \/ RefuseOutput \/ RecordStep \/ RecordRun

LegStep(l) ==
  \/ ExecuteApproved(l) \/ AskApproval(l)
  \/ \E s \in {"ok", "failed"} : LegEnds(l, s)

HandlerStep(l) ==
  \/ MarkPending(l) \/ CreateApproval(l)
  \/ LookupWaiter(l) \/ SendCallback(l)

ActorStep(a) ==
  \/ UpdateApproval(a) \/ PostResume(a) \/ PostResumeError(a)
  \/ SignalLookup(a) \/ SignalSend(a)

Next ==
  \/ RunnerStep
  \/ Deadline
  \/ \E l \in Legs : LegStep(l) \/ HandlerStep(l) \/ LegLost(l)
  \/ \E d \in Deciders, v \in Decisions : Decide(d, v)
  \/ TimerFires
  \/ \E a \in Actors : ActorStep(a)
  \/ AllQuiet

Spec == Init /\ [][Next]_vars

\* Goroutines run, timers fire, an agent loop ends within its turns.  That a
\* reviewer ever answers is not assumed, nor that a message is not lost, nor
\* that a deadline ever passes: timeout_s is optional.
Fairness ==
  /\ WF_vars(RunnerStep)
  /\ \A l \in Legs : WF_vars(LegStep(l)) /\ WF_vars(HandlerStep(l))
  /\ WF_vars(TimerFires)
  /\ \A a \in Actors : WF_vars(ActorStep(a))

FairSpec == Spec /\ Fairness

-----------------------------------------------------------------------------
(* What holds whatever happens.                                            *)

\* A gated tool call is executed only by a leg that an approving actor
\* started, and it is the call the approval record names
\* (redispatchApproved, Loop.run).
ToolNeedsApproval ==
  \A x \in executed : /\ x[2] \in Actors
                      /\ verdict[x[2]] = "approved"
                      /\ x[1] = approval.call

\* No step proceeds past a pending approval: while the record is pending the
\* step is not complete, nor is the run, and no leg has an answer on the way.
NoStepPastPendingApproval ==
  approval.status = "pending" =>
    /\ step.status # "complete"
    /\ run # "complete"
    /\ \A l \in Legs : leg[l] \notin {"lookup", "send"}

\* A run that completed got its answer from a leg whose loop ended well.
CompleteNeedsAnswer ==
  run = "complete" => \E l \in Legs : leg[l] = "done" /\ out[l] = "ok"

\* The terminal status of a run is never taken back: late callbacks and late
\* decisions change the step or the approval, never the run.
RunStatusFinal == [][run # "running" => run' = run]_vars

\* The inductive invariant behind the five properties above.
\* Where the runner is tells whether the first leg was started and what was
\* recorded; an answer in the channel came from a leg that is done.
RunnerInv ==
  /\ runner \in {"register", "post"} => leg[Dispatch] = "none"
  /\ runner # "done" => run = "running"
  /\ \A i \in DOMAIN inbox : inbox[i].status = "ok" =>
       \E l \in Legs : leg[l] = "done" /\ out[l] = "ok"
  /\ result.status = "ok" \/ step.status = "complete" \/ run = "complete" =>
       \E l \in Legs : leg[l] = "done" /\ out[l] = "ok"

\* What a leg put in its callback agrees with where the leg is.
LegInv ==
  \A l \in Legs :
    /\ leg[l] \in {"none", "resuming", "running"} => out[l] = "none"
    /\ leg[l] \in {"update", "create"} => out[l] = "pending_approval"
    /\ leg[l] \in {"lookup", "send"} => out[l] \in {"ok", "failed"}

\* Only the first leg opens the approval, and an actor that went past the
\* check of the status, or a leg it started, means that it was decided.
ApprovalInv ==
  /\ approval.status # "none" => out[Dispatch] = "pending_approval"
  /\ leg[Dispatch] # "resuming"
  /\ \A a \in Actors :
       /\ actor[a] = "update" => approval.status # "none" /\ verdict[a] \in DecidedStatus
       /\ actor[a] \in {"off", "idle", "armed", "conflict", "notfound", "update", "post"} =>
            leg[a] = "none"
       /\ actor[a] = "post" => approval.status \in DecidedStatus
       /\ leg[a] # "none" => approval.status \in DecidedStatus
       /\ leg[a] = "resuming" => verdict[a] = "approved"

\* A leg that executed was started by an actor, and the record is decided.
ExecutedInv ==
  \A x \in executed : leg[x[2]] # "none" /\ approval.status \in DecidedStatus

IInv == /\ TypeOK /\ RunnerInv /\ LegInv /\ ApprovalInv /\ ExecutedInv
        /\ ToolNeedsApproval

\* The end of timeout_s ends the run, whatever was lost (MemStore).
DeadlineEndsRun == expired ~> run # "running"

-----------------------------------------------------------------------------
(* What holds when no decision races with another one: a single reviewer,  *)
(* and no timer armed.  NoPolicy has no timer.                             *)

Uncontended == approval.policy.timeout = "none"

\* Before the deadline a step that ended is not put back to pending_approval
\* by a late callback; after it, one the runner gave up may be.
StepNeverReopens ==
  [][Uncontended /\ ~expired /\ step.status \in {"complete", "failed"} =>
       step'.status = step.status]_vars

\* A run that completed although its gated call was approved executed it.
ApprovedRunExecuted ==
  Uncontended /\ run = "complete" /\ approval.status = "approved" => executed # {}

\* Before the deadline whoever looks for the channel of the step finds it: no
\* answer is dropped.
AnswerFindsWaiter ==
  Uncontended /\ ~expired =>
    /\ \A l \in Legs : leg[l] = "lookup" => waiter
    /\ \A a \in Actors : actor[a] = "lookup" => waiter

\* The usage recorded with a run that ended before the deadline is that of all
\* legs that ran for it.
UsageAccounted ==
  Uncontended /\ ~expired /\ run # "running" =>
    step.usage = {l \in Legs : leg[l] # "none"}

\* The step as GatedCall sees it.
Gated == INSTANCE GatedCall WITH
           decision  <- approval.status,
           contended <- approval.policy.timeout # "none",
           executed  <- Cardinality(executed),
           outcome   <- run

\* One reviewer: of all the gated calls of a step one is asked for, that one is
\* executed at most once and after a decision, which was an approval and is the
\* only one where no timer runs; and the run ends once, not as complete before
\* the decision.
ImplementsGatedCall == Gated!Spec

-----------------------------------------------------------------------------
(* What holds with a race of the reviewer and the timer, too.              *)

\* The run ends, unless a leg or its callback is lost, a resumed leg asks for
\* approval once more, or an approval waits for a reviewer for ever; one that
\* can time out does not.
RunEnds ==
  \/ <>(run # "running" \/ \E l \in Legs : leg[l] = "lost")
  \/ <>(\E a \in Actors : out[a] = "pending_approval")
  \/ <>[](approval.status = "pending" /\ Uncontended)

\* A send on the channel of the step goes through, also one whose step the
\* runner gave up after the sender had found the channel: its buffer takes it.
\* Only where the reviewer and the timer both decided and the deadline passed
\* may the second of two senders find the buffer full and nobody to empty it.
SendersDrain ==
  /\ \A l \in Legs : leg[l] = "send" ~> leg[l] # "send" \/ (expired /\ ~Uncontended)
  /\ \A a \in Actors : actor[a] = "send" ~> actor[a] # "send" \/ (expired /\ ~Uncontended)

-----------------------------------------------------------------------------
(* What the documentation says and the code does not do.                   *)

\* A decision on an approval that is already decided is refused ("approval
\* already decided"), so at most one actor has decided.
DecidedOnce ==
  Cardinality({a \in Actors : /\ verdict[a] # "none"
                              /\ actor[a] # "update"}) <= 1

\* A run whose timeout_s passed is stored as failed.
DeadlineFailsRun == expired /\ runner = "wait" ~> run # "running"
=============================================================================

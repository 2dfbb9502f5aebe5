---------------------------- MODULE SubWorkflow ----------------------------
(***************************************************************************)
(* Workflow steps: Runner.executeWorkflow calls executeSubWorkflow, which  *)
(* runs the pipeline of another workflow inline, as a run of its own whose *)
(* ID is that of the caller, a slash and the step, and which may have      *)
(* workflow steps itself.  Pipeline is the root; frames is the stack of    *)
(* the nested calls.  The goroutine, the context and the store are one for *)
(* all of them.                                                            *)
(***************************************************************************)
EXTENDS Pipeline

CONSTANTS
  SubSteps,      \* step IDs of sub-workflows
  Subs,          \* the sub-workflows that workflow steps refer to
  Compositions,  \* root workflows and what their workflow steps call
  Answered       \* the dispatcher can be answered for a step of a sub-run: one
                 \* that calls the agent itself can, runtimeDispatcher cannot,
                 \* as no route matches a run ID with a slash

\* order: the IDs by layers, or cyclic;  allows: "webhooks: execute" of the
\* workflow;  calls: for its workflow steps the sub-workflow and whether the
\* step says "webhooks: execute".
Call(S) == [sub : S, optsIn : BOOLEAN]
SubSet  == [order : Seq(SubSteps), cyclic : BOOLEAN, allows : BOOLEAN,
            agents : SUBSET SubSteps, webhooks : SUBSET SubSteps,
            condition : SUBSET SubSteps,
            calls : UNION {[S -> Call(Subs)] : S \in SUBSET SubSteps}]

ASSUME SubWorkflowAssumption ==
  /\ IsFiniteSet(SubSteps)
  /\ Subs \subseteq SubSet
  /\ \A k \in Compositions :
       /\ k.wf \in Workflows /\ k.call \in UNION {[S -> Call(Subs)] : S \in SUBSET Steps}
       /\ DOMAIN k.call \cap (k.wf.agents \cup k.wf.fanouts) = {}
  /\ Answered \in BOOLEAN

VARIABLES
  call,     \* what the workflow steps of the root call
  frames,   \* the calls of executeSubWorkflow
  subRun,   \* the stored status of each sub-run, by its path
  subStep,  \* the stored status of each step of a sub-run
  metrics,  \* the usage in the step records of the root
  burnt,    \* history: the agents of sub-runs that spent tokens
  fired     \* history: the webhooks of sub-runs that were sent

subVars == <<call, frames, subRun, subStep, metrics, burnt, fired>>
allVars == <<vars, subVars>>

\* Where the innermost call is, and the step it is at.
top     == Last(frames)
topStep == Head(top.queue)
entry   == <<top.path, topStep>>
runVars == <<input, run, step, queue, outputs, finalRec, stray, expired, returned>>

SubInit ==
  /\ \E k \in Compositions : wf = k.wf /\ call = k.call
  /\ Init
  /\ frames = <<>>
  /\ subRun = <<>> /\ subStep = <<>>
  /\ metrics = [s \in Steps |-> {}]
  /\ burnt = {} /\ fired = {}

-----------------------------------------------------------------------------
(* Calls and returns.                                                      *)

Goto(frame) == frames' = [frames EXCEPT ![Len(frames)] = frame]
At(label)   == [top EXCEPT !.pc = label]
NextStep    == [top EXCEPT !.pc = "next", !.queue = Tail(@)]

\* A record is added to those there are.
Put(recs, key, status) ==
  [k \in DOMAIN recs \cup {key} |-> IF k \in DOMAIN recs THEN recs[k] ELSE status]

\* Mutant: one of the two is enough.
SuppressedUnlessEither(k) == ~(k.sub.allows \/ k.optsIn)

\* Webhooks are sent if the workflow and the step that calls it say so, what
\* the callers of the caller say is not looked at.
Suppressed(k) == ~(k.sub.allows /\ k.optsIn)

\* executeWorkflow: the reference, the parameters and the inputs resolve.
Push(k, path) ==
  frames' = Append(frames,
    [path |-> path, sub |-> k.sub, suppress |-> Suppressed(k), queue |-> k.sub.order,
     pc |-> "create", spent |-> {}])

\* The frame that called the innermost one goes on.
caller        == frames[Len(frames) - 1]
Resume(frame) == frames' = [Front(frames) EXCEPT ![Len(frames) - 1] = frame]

\* executeSubWorkflow returns an output and the usage of all its steps.
ReturnOutput(used) ==
  IF Len(frames) = 1
    THEN /\ frames' = <<>>
         /\ metrics' = [metrics EXCEPT ![cur] = used]
         /\ pc' = "reserved"
    ELSE /\ Resume([caller EXCEPT !.pc = "reserved", !.spent = @ \cup used])
         /\ UNCHANGED <<metrics, pc>>

\* An error, with no usage.
ReturnError ==
  IF Len(frames) = 1
    THEN frames' = <<>> /\ pc' = "fail"
    ELSE /\ Resume([caller EXCEPT !.pc = "fail"])
         /\ UNCHANGED pc

\* A workflow step of the root: executeWorkflow refuses it, or calls.
CallRoot ==
  /\ pc = "execute" /\ cur \in DOMAIN call /\ frames = <<>>
  /\ \/ Push(call[cur], <<cur>>) /\ UNCHANGED pc
     \/ pc' = "fail" /\ UNCHANGED frames
  /\ UNCHANGED <<runVars, call, subRun, subStep, metrics, burnt, fired>>

\* A workflow step of a sub-workflow.
CallNested ==
  /\ frames # <<>> /\ top.pc = "execute" /\ topStep \in DOMAIN top.sub.calls
  /\ \/ Push(top.sub.calls[topStep], Append(top.path, topStep))
     \/ Goto(At("fail"))
  /\ UNCHANGED <<vars, call, subRun, subStep, metrics, burnt, fired>>

-----------------------------------------------------------------------------
(* executeSubWorkflow                                                      *)

\* CreateRun, then dag.Resolve: its error leaves the sub-run as it is.
SubCreateRun ==
  /\ frames # <<>> /\ top.pc = "create"
  /\ subRun' = IF WritesSucceed THEN Put(subRun, top.path, "running") ELSE subRun
  /\ IF WritesSucceed /\ ~top.sub.cyclic
       THEN Goto(At("next")) /\ UNCHANGED pc
       ELSE ReturnError
  /\ UNCHANGED <<runVars, call, subStep, metrics, burnt, fired>>

\* CreateStep; a webhook that is suppressed is created as skipped, and its
\* condition is not looked at.
SubCreateStep ==
  /\ frames # <<>> /\ top.pc = "next" /\ top.queue # <<>>
  /\ LET skip == top.suppress /\ topStep \in top.sub.webhooks
     IN IF WritesSucceed /\ entry \notin DOMAIN subStep
          THEN /\ subStep' = Put(subStep, entry, IF skip THEN "skipped" ELSE "running")
               /\ Goto(IF skip THEN NextStep
                       ELSE At(IF topStep \in top.sub.condition THEN "condition"
                               ELSE "execute"))
               /\ UNCHANGED pc
          ELSE ReturnError /\ UNCHANGED subStep
  /\ UNCHANGED <<runVars, call, subRun, metrics, burnt, fired>>

\* The write of a skipped step may fail: its error is dropped.
Skip ==
  /\ subStep' = IF WritesSucceed THEN [subStep EXCEPT ![entry] = "skipped"] ELSE subStep
  /\ Goto(NextStep)

SubCondition ==
  /\ frames # <<>> /\ top.pc = "condition"
  /\ \/ Skip
     \/ Goto(At("execute")) /\ UNCHANGED subStep
  /\ UNCHANGED <<vars, call, subRun, metrics, burnt, fired>>

\* Mutant: the usage of the step is not added to that of the run.
SubExecuteForgets ==
  /\ frames # <<>> /\ top.pc = "execute" /\ topStep \notin DOMAIN top.sub.calls
  /\ burnt' = burnt \cup (IF topStep \in top.sub.agents THEN {entry} ELSE {})
  /\ fired' = fired \cup (IF topStep \in top.sub.webhooks THEN {entry} ELSE {})
  /\ Goto(At("reserved")) \/ Goto(At("fail"))
  /\ UNCHANGED <<vars, call, subRun, subStep, metrics>>

\* A transform, a webhook or an agent returns, with the usage of the agent, or
\* fails; an agent whose callback cannot arrive waits for the context.
SubExecute ==
  /\ frames # <<>> /\ top.pc = "execute" /\ topStep \notin DOMAIN top.sub.calls
  /\ LET used == IF topStep \in top.sub.agents THEN {entry} ELSE {}
     IN /\ used # {} => Answered \/ expired
        /\ burnt' = burnt \cup used
        /\ \/ /\ used # {} => Answered
              /\ Goto([At("reserved") EXCEPT !.spent = @ \cup used])
           \/ Goto(At("fail"))
  /\ fired' = fired \cup (IF topStep \in top.sub.webhooks THEN {entry} ELSE {})
  /\ UNCHANGED <<vars, call, subRun, subStep, metrics>>

\* The dispatch of an agent fails before it waits.
SubDispatchFails ==
  /\ frames # <<>> /\ top.pc = "execute" /\ topStep \in top.sub.agents
  /\ Goto(At("fail"))
  /\ UNCHANGED <<vars, call, subRun, subStep, metrics, burnt, fired>>

\* The output says that it is skipped, is refused, or is stored.
SubJudge ==
  /\ frames # <<>> /\ top.pc = "reserved"
  /\ \/ Skip
     \/ Goto(At("fail")) /\ UNCHANGED subStep
     \/ Goto(At("store")) /\ UNCHANGED subStep
  /\ UNCHANGED <<vars, call, subRun, metrics, burnt, fired>>

SubStore ==
  /\ frames # <<>> /\ top.pc = "store"
  /\ IF WritesSucceed
       THEN /\ subStep' = [subStep EXCEPT ![entry] = "complete"]
            /\ Goto(NextStep) /\ UNCHANGED pc
       ELSE ReturnError /\ UNCHANGED subStep
  /\ UNCHANGED <<runVars, call, subRun, metrics, burnt, fired>>

\* markFailed: both writes are made, and their errors dropped.
SubFailStep ==
  /\ frames # <<>> /\ top.pc = "fail"
  /\ subStep' = IF WritesSucceed THEN [subStep EXCEPT ![entry] = "failed"] ELSE subStep
  /\ Goto(At("failRun"))
  /\ UNCHANGED <<vars, call, subRun, metrics, burnt, fired>>

\* Mutant: the error is recorded and an output returned.
SubFailRunReturns ==
  /\ frames # <<>> /\ top.pc = "failRun"
  /\ subRun' = IF WritesSucceed THEN [subRun EXCEPT ![top.path] = "failed"] ELSE subRun
  /\ ReturnOutput(top.spent)
  /\ UNCHANGED <<runVars, call, subStep, burnt, fired>>

SubFailRun ==
  /\ frames # <<>> /\ top.pc = "failRun"
  /\ subRun' = IF WritesSucceed THEN [subRun EXCEPT ![top.path] = "failed"] ELSE subRun
  /\ ReturnError
  /\ UNCHANGED <<runVars, call, subStep, metrics, burnt, fired>>

\* output.map picks values, which changes nothing here.
SubComplete ==
  /\ frames # <<>> /\ top.pc = "next" /\ top.queue = <<>>
  /\ IF WritesSucceed
       THEN /\ subRun' = [subRun EXCEPT ![top.path] = "complete"]
            /\ ReturnOutput(top.spent)
       ELSE ReturnError /\ UNCHANGED <<subRun, metrics>>
  /\ UNCHANGED <<runVars, call, subStep, burnt, fired>>

-----------------------------------------------------------------------------

\* What Pipeline does by itself: everything but the execution of a workflow
\* step.
RootStep ==
  /\ frames = <<>> /\ (pc = "execute" => cur \notin DOMAIN call)
  /\ ExecuteStep
  /\ UNCHANGED subVars

SubStep ==
  \/ CallRoot \/ CallNested \/ SubCreateRun \/ SubCreateStep \/ SubCondition
  \/ SubExecute \/ SubJudge \/ SubStore \/ SubFailStep \/ SubFailRun \/ SubComplete

SubNext ==
  \/ RootStep
  \/ SubStep
  \/ SubDispatchFails
  \/ (Suspend \/ SuspendLate \/ Expire \/ Returned) /\ UNCHANGED subVars

\* The goroutine of the run executes both; that a dispatch fails is not forced,
\* nor that an agent of the root answers.
SubProceed == (AwaitsAgent => expired) /\ (RootStep \/ SubStep)

SubSpec == SubInit /\ [][SubNext]_allVars /\ WF_allVars(SubProceed)

-----------------------------------------------------------------------------

\* The call that a sub-run belongs to, and the part of a set of entries that
\* lies below a step of the root.
Caller(path) ==
  LET k[i \in 1..Len(path)] ==
        IF i = 1 THEN call[path[1]] ELSE k[i - 1].sub.calls[path[i]]
  IN k[Len(path)]
Below(s, set) == {e \in set : e[1][1] = s}

\* A workflow step and the run it called agree: step and run are complete only
\* when the sub-runs are, with every step of them complete or skipped.  With a
\* MemStore, an acyclic graph and unique IDs a sub-run ends before its caller.
CallsAgree ==
  /\ \A s \in DOMAIN call :
       step[s] = "complete" \/ run = "complete" =>
         /\ \A p \in DOMAIN subRun : p[1] = s => subRun[p] = "complete"
         /\ \A e \in DOMAIN subStep : e[1][1] = s => subStep[e] \in {"complete", "skipped"}
  /\ frames = <<>> /\ store = "mem" =>
       \A p \in DOMAIN subRun :
         subRun[p] = "running" => Caller(p).sub.cyclic \/ ~IsInjective(Caller(p).sub.order)

\* The usage in the record of a workflow step that completed is that of all
\* agents below it, each once, however deep.
UsageRollsUp ==
  \A s \in DOMAIN call : step[s] = "complete" => metrics[s] = Below(s, burnt)

\* A webhook of a sub-run was sent only if its workflow and the step that
\* called it opted in; one that was not is skipped, never failed.
WebhooksOptIn ==
  \A e \in DOMAIN subStep :
    LET k == Caller(e[1])
    IN e[2] \in k.sub.webhooks =>
         /\ e \in fired => k.sub.allows /\ k.optsIn
         /\ ~(k.sub.allows /\ k.optsIn) => subStep[e] = "skipped"

-----------------------------------------------------------------------------
(* What the documentation says and the code does not do.                   *)

\* A workflow step executes the full pipeline of another workflow: a sub-run
\* that was started ends.
SubRunEnds ==
  \A s \in Steps : (<<s>> \in DOMAIN subRun) ~> (frames = <<>>)
=============================================================================

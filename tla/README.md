# A TLA+ model of ktsu

ktsu runs workflows whose steps are LLM agents, data transforms, webhooks and
other workflows. This directory holds TLA+ modules translated from its Go
sources (`src/` below is the root of the repository), TLC configurations that
check them on small instances, and proofs that TLAPS checks for every instance.

## The system

| Component | State it keeps | Operations | Talks to |
|---|---|---|---|
| orchestrator HTTP server (`internal/orchestrator/server.go`) | `pendingCallbacks`: one channel per step that waits; timeout goroutines | invoke, step callback, decide approval, read envelope, heartbeat | runner (goroutine per run), runtime (POST `/invoke`), store |
| pipeline runner (`internal/orchestrator/runner/runner.go`) | the run and step records it writes, `stepOutputs` | `Execute`: resolve, create, evaluate, execute, judge, store; `executeFanout`, `executeWorkflow` | dispatcher, store |
| DAG (`internal/orchestrator/dag`) | none | `Resolve`, `detectCycle` | runner |
| stores (`internal/orchestrator/state`) | runs, steps, approvals | create, update, get, envelope | everything in the orchestrator |
| Air-Lock and reserved fields (`internal/orchestrator/airlock`, `ProcessReservedFields`) | none | judge an output | callback handler, runner |
| agent runtime (`internal/runtime`) | `activeInvocations` | accept a leg, run the loop, post the callback, heartbeat | orchestrator, gateway, MCP servers |
| agent loop (`internal/runtime/agent/loop.go`) | the conversation, the metrics of the leg | turns, tool calls, approval gate, resume, JSON correction, reflect | gateway, MCP client |
| MCP client (`internal/runtime/agent/mcp`) | bridges, connections, waiters | discover, call, retry | tool servers |
| LLM gateway (`internal/gateway`) | a round-robin counter per group | invoke | providers |
| configuration, hub, command line | files | load, validate, install, update | - |

A run is a goroutine of the orchestrator. For an agent step it registers a
channel, POSTs to the runtime and waits. The runtime runs the loop (a *leg*) and
POSTs one callback. A leg that meets a tool under `require_approval` ends with
`pending_approval`: the handler stores the conversation and an approval record
and does not wake the runner. A reviewer's decide request, or the timeout
goroutine, later updates the record and either starts another leg or wakes the
runner with a failure.

What is hard here: handlers and actors read the store, let go of it and act on
what they read; messages between the processes are sent once and can be lost;
the deadline of a run ends a wait and leaves the agent at work; store errors on
the way to a failure are dropped; two stores treat the same context
differently; one output is judged at three places. `PROJECT.json` lists the
hazards line by line.

What makes each component correct:

* agent step: no gated call without approval, no end before a decision, a final
  status for every run, an answer that finds the runner while it waits, usage
  counted once;
* runner: steps after what they depend on, failures explicit, the store agrees
  with what `Execute` returns;
* DAG: cycles exactly, layers in order, nothing left out silently;
* sub-workflows: a caller agrees with the sub-run it called, usage reaches the
  root, a webhook is sent only when it is opted in to;
* fanout: bounded concurrency, additive metrics, an end;
* loop: a well-formed conversation, bounded calls, exact counts;
* judgement of outputs: fatal fields fail the step, and what agents say in
  reserved fields reaches no other step;
* transforms: each op does what a reference definition of it says;
* parameters: everything is resolved before the runtime is called, a secret stays
  out of the user message, and a reference to a parameter does not lose its mark;
* MCP client: a call gets its own answer, a working server answers every call,
  and every call returns.

## The modules

**AgentStep** (with **GatedCall**, **MCAgentStep**, **AgentStepProof**) is the core:
one agent step from dispatch to the terminal status of step and run.

| In the model | In the code |
|---|---|
| `runner`: register, post, wait, unregister, recordStep, recordRun | `runtimeDispatcher.Dispatch`, the tail of `Runner.Execute`, `failRun` |
| `waiter`, `inbox` | the entry of `pendingCallbacks` and its channel of capacity 1 |
| `leg[l]`, `out[l]`, `calls[l]` | the goroutine of `/invoke`, then the callback handler of its answer; the status it reports; the gated calls in its messages |
| `actor[a]`, `verdict[a]` | a decide request or the approval timeout goroutine |
| `step`, `run`, `approval` | the stored records |
| `executed` | tool calls made by `Loop.run` from `ApprovedToolCalls` |
| `expired` | the context of `model_policy.timeout_s` is done |

Each access to shared state (a store call, a look at the map, a channel
operation) is one step, so that every interleaving the code allows is a
behaviour. `Events` switches the disturbances: the deadline, failing POSTs
(accepted by the other side or not), lost legs, a second gated call, a dispatch
that fails early, an output the runner refuses. Legs are named after whoever
started them, a gated call after the leg that asked for it, usage is a set of
legs: that is all the properties tell apart. An actor starts one leg at most, so
that the number of legs is bounded by the reviewers and not by a counter.

**AgentLoop** is one step inside the runtime: the turns of `Loop.run`, over
every sequence of answers of the model, in the first leg and in the one that a
decision resumes. `messages` keeps of each message what a provider's pairing
rule looks at: use, result or text. `Resume` takes the stored messages or none:
an item of a fanout has no record, and the record of a step that ended has none.
Then an approved call is not in the conversation, which starts anew and never
executes it, and a rejection with `on_reject: recover` starts from a lone result.
`forgotten` remembers the calls that were lost this way.

**Dag** is `detectCycle` and `Resolve`; the stack of the recursion is explicit.
Names that are no step (`Ghosts`) are visited and counted as in the code. Every
entry of the file has a list of dependencies of its own: for an ID that is there
twice the search follows the last list (`Depends`), the in-degrees count all of
them (`Waits`).
**Resolution** adds the order of the file and the two loops of `Execute` over the
layers, and maps the state of Dag to that of Pipeline: until the search or the
loop ends nothing has happened, then `CreateRun` has. `ImplementsCreateRun` says
that this is a behaviour of Pipeline, so that its definition of the order is the
one the code computes.

**Pipeline** is `Runner.Execute` over whole workflows and both stores: order of
the layers, conditions, the store and error paths, the deadline, and
`handlePendingApproval`, which replaces the record of a step whatever it says:
while the step waits (`Suspend`), and later, wherever the run is (`SuspendLate`),
for the steps in `stray`. A step is there when a leg may still be at work after
`Dispatch` returned: because its wait ended with the context or a POST failed, or
because two decisions on its approval each started a leg (AgentStep shows both).
It takes the result of `dag.Resolve` as an operator (`Resolved`), from the lists
of all entries; Resolution shows that Dag comes to it.

**SubWorkflow** extends Pipeline with `executeWorkflow` and
`executeSubWorkflow`. The nested calls are a stack, `frames`; a frame has the
path of its step (`parentRunID + "/" + step.ID`), the sub-workflow, the step it is
at and the usage it has added up. `CallRoot` and `CallNested` push a frame,
`ReturnOutput` and `ReturnError` pop one, each action in between is one store
call or one choice of the function. The goroutine, the store and the context are
those of the root, so that a deadline or a store that refuses unwinds the stack
with what the code drops on the way. `Answered = FALSE` is the
`runtimeDispatcher`, whose callbacks cannot reach a sub-run; `TRUE` is a
dispatcher that calls the agent itself, as the tests of the runner have.

**Fanout** is `executeFanout`: one goroutine per item, the semaphore, the
aggregation.

**McpClient** is `mcp.Client`: concurrent `rpc` calls to one server URL. Each
access to `bridges`, `connections` and `waiters` is a step; a *request* is one turn
of `rpcWithRetry`, and a stream is named after the request that opened it. The
reader goroutine of a stream is `Announce` and `Deliver`, and the capacity of a
waiter's channel is in `Deliver`. The server is external: it keeps one session
per stream, answers in the body or on the stream of the session that was posted
to, and `faults` says what it may do wrong.

**Transforms** is `executeTransform`: values are trees, ops are actions that apply
one operator each. Its constant `Merge` stands for `deepMerge`, of which
`MergeLevel` is one level; **DeepMerge** closes the recursion for TLC. **Params** is the part of `Dispatch` that resolves
parameters; a value is known by its source (a text, a variable that is set or
not, nothing).

**OutputPath** follows one output from the agent's draft through
`checkFatalReservedFields`, `handleStepComplete`, `Dispatch` and `Execute` to
the step record and `stepOutputs`, as the set of fields that somebody looks at.
An item of a fanout leaves its output in `results`, which the runner stores
without a look inside.

**MCComputations** puts Resolution, OutputPath, Transforms and Params, which are
sequential and share nothing, into one run: `sample` says which of them runs, the
others stand still at one state.

**GatedCall** is the abstract specification of an agent step with a gated call:
asked once, decided once, executed at most once and only when approved, and a
run that ends once and not as complete before the decision; `contended` says that
a reviewer and a timeout may decide together, which the code does not exclude. AgentStep
implements it with `decision <- approval.status`, `executed <-
Cardinality(executed)`, `outcome <- run` (`AgentStep!ImplementsGatedCall`).

The operators marked "Mutant" in the modules are plausible mistakes in the
definition that follows them; `PROJECT.json` pairs each property with one that
breaks it. No specification uses them.

## The runs

| Run | What it asks | Size |
|---|---|---|
| AgentStepSafety | every policy, one reviewer, the timer, all disturbances: is anything executed without approval, can a run complete without an answer or be taken back, does the deadline always end it? | 414 000 states |
| AgentStepOneReviewer | every policy, a reviewer who may stay away and the approval timeout, every disturbance but a failing POST: does the step implement GatedCall, does every answer up to the deadline find its channel, is usage exact, does the run end, and when may a sender stay blocked? | 36 000 |
| Pipeline | every graph on three steps and an unknown name, a repeated ID, an agent and a condition, workflow steps that call workflows that call workflows with every setting of `webhooks`, a cycle or a repeated ID in a sub-workflow, both stores, a deadline at any time, late requests for approval | 209 000 |
| Fanout | arrays of 1 to 4, three limits of concurrency, four of failures | 52 500 |
| AgentLoop | three turns, up to two calls in a response, reflect on and off, a second leg with and without the messages of the first | 86 000 |
| McpClient | two calls to one server, which works or has one of six faults, or two of them | 200 000 |
| Computations | every graph on three steps and an unknown name, in a file with a repeated ID whose two entries list the same, or what they like as long as the names are known and a third step has no list; every set of fields and step configuration; transforms of up to four ops on up to four items or on objects of two levels; an agent with one or two params and a server with one, of every kind | 667 000 |
| AgentStepTwoReviewers | expected to fail: two reviewers decide at the same time | |
| AgentStepFanoutItem | expected to fail: the gated call of a fanout item | |
| AgentStepSqliteDeadline | expected to fail: the deadline under SQLite | |
| OutputPathStatus | expected to fail: skip reason and confidence of an agent step | |
| SubWorkflowCallback | expected to fail: the callback of an agent in a sub-workflow | |

In AgentStepOneReviewer the policies without a timeout (`Uncontended`) are those
for which `StepNeverReopens`, `ApprovedRunExecuted`, `AnswerFindsWaiter` and
`UsageAccounted` are stated: when a timer decides as well, two verdicts may be
carried out (AgentStepTwoReviewers). But for `ApprovedRunExecuted` they speak of
the time before the deadline, after which a leg works on for a step that was given
up. `RunEnds` excepts a run that nobody answers. `SendersDrain` says of two senders
that both get through, unless both the reviewer and the timer decided and the
deadline passed: `Dispatch` may then be gone with the first message still in the
buffer.

Why the bounds are enough. AgentStep: an actor passes the check of the status
at most once, so one reviewer and the timer give every race of two, the smallest
that the check-then-act allows.
Dag and
Pipeline: three steps and a ghost hold cycles of length one to three, a
diamond's order, a chain, and a step behind one that is left out. Fanout: four
items are more than each limit, and equal to it, and below it. AgentLoop: three
turns have a first, a middle and a forced last turn; two calls have one after a
gated one. SubWorkflow: two levels of calls have a frame that returns to
the root and one that returns to another frame. McpClient: two calls of two turns
are four requests and four streams, so that discoveries overlap, a stream is
replaced, a retry meets the other's stream and an answer comes late; a third call
adds no new pair, and its state space is too large for a run. Transforms: three
items with a number, its text and nothing hold the mixed comparisons, four a
stable order; `MaxOps = 4` lets an op follow every other. `sort.SliceStable` is an
insertion sort up to 20 elements and is modelled as one; beyond, any stable sort
gives the same ascending result (`SortIsTheStableSort`), while a descending one,
whose comparison is no order, depends on how the library compares. Params: the second
parameter has a name that the first one is a prefix of. `MaxCalls`, `MaxLength`,
`MaxOps` are the only bounds on data; the state spaces are finite without others.

Runs that do not check deadlock (`CHECK_DEADLOCK FALSE`) are those where the
model really may stop: a lost leg, a second gated call nobody can decide, a
pending approval that no reviewer answers (AgentStep); all calls have returned
(McpClient); a computation has its result (Computations).

### Fairness

`FairSpec` of AgentStep is weak fairness of the runner goroutine, of each leg
and its handler, of each actor that has passed its check, and of the timer:
goroutines are scheduled, timers fire, and the loop ends within `max_turns`
(`LegCostBounded`). A workflow may have no `timeout_s`: that its deadline passes is
not forced, and `DeadlineEndsRun` speaks of what follows when it does. Fairness of a
step that is blocked on a full channel says nothing, so that `SendersDrain` is
earned. Not assumed: that a reviewer decides, that a message arrives, or which of
the outcomes of a leg happens.

Pipeline and SubWorkflow have weak fairness of the goroutine of the run, which
executes Pipeline and the stack alike, but not while an agent step waits in a
context that has not ended (`Proceed`, `SubProceed`): `Dispatch` waits for a callback
or the context, and when the step is suspended or its leg is lost and there is no
`timeout_s`, for ever. `ExecuteReturns` says that nothing else keeps `Execute` from
returning. Not forced either is that the dispatch of an agent fails before it waits.
With `Answered = TRUE` the agents of sub-runs do answer: the dispatcher of the tests
calls them itself.

Fanout has it for each item: an item takes a slot once, so that weak fairness is
as much as Go's channels give. McpClient has it for each call (goroutines run,
timers fire, every HTTP exchange ends) and for what is under way on a stream
that stays open; not for a server that breaks a stream or forgets a session.
`http.DefaultClient` has no timeout, so that the end of an exchange is an
assumption about the server. The computations need none.

## What is proved

Every theorem holds for every value of the constants that the module's named
`ASSUME` admits: any number of steps, items, calls, reviewers, policies. Those
assumptions say that the inputs have the types of the code's structs, that sets
of step IDs, nodes and concurrent calls are finite, and that names that stand for
different things differ. Each of the seven proof modules extends the module it is
about and follows one pattern: an inductive invariant, which TLC checked on the
instance of the run first, a lemma per action or per part, and theorems drawn
from the invariant. Every safety property, every action property and both
refinements that a passing run checks are proved, some of them under hypotheses
that are named below.

**AgentStepProof.** For any set of reviewers: `Invariance`, `TypeCorrect`,
`ToolSafety` (no gated call is executed but by a leg that an approving actor
started), `CompleteSafety` (a complete run has a leg that ended well),
`PendingSafety` (nothing goes past a pending approval), `RunStatusStays` (a run's
end is final). None of the properties is inductive. A run is completed from
`result`, which came from `inbox`, which was filled by a leg: `RunnerInv` carries
"some leg ended well" from the channel to the stored status and says that the run
stays running until the runner is done, which also gives finality, as only the
runner writes it. `LegInv` ties the callback status of a leg to where it is.
`ApprovalInv` says that only the first leg opens the approval, and that an actor
past the check, and any leg it started, implies that the record exists or is
decided; so while it is pending nobody has an answer. `ExecutedInv` keeps what
was executed attached to a leg that exists and a decided record.

With one decide request (`SoleReviewer`: the reviewers are one or none):
`GatedCallImplemented`, the refinement of GatedCall step by step, with every
disturbance. `SoleInv` is what it needs: the approval changes only where GatedCall
changes `decision`, and of two legs at most one executes. Two requests at once
break it, as the run AgentStepTwoReviewers shows, so the hypothesis is needed.

If moreover every POST reaches the runtime (`RuntimeReached`; legs may be lost,
outputs refused, second calls gated, and the deadline may pass) three more hold:
`NoAnswerDropped`, `UsageComplete`, `StepStaysClosed`. They are properties of the
time up to the deadline. The argument is a baton (`OrderInv`): at any time one leg,
actor or message has the step, and only its deadline makes the runner return before
the one that holds it has sent. `UsageInv` says that the holder carries the usage of
all legs that ran. The hypothesis is needed: after a POST that failed although the
runtime took it, Dispatch has returned and a leg still works.

`ApprovalNotForgotten` needs neither: whatever is lost, fails or passes its
deadline, a complete run whose call was approved has executed it. `CallInv` follows
the messages: while the runner would still act on an answer (`Early`), the record
of the step holds the call until the leg the reviewer starts has read it; later the
record is overwritten and the call with it, but then the result is fixed already.
The theorem needs a step with a record (`Recorded`); without one it is false
(AgentStepFanoutItem). The properties themselves speak of policies without a
timeout (`Uncontended`). The run AgentStepOneReviewer has these hypotheses, and
reaches the states they are about.

**PipelineProof.** First `ResolvedRight`, about the operator: what `dag.Resolve`
returns has every step after what any of its entries lists, no ID twice that is
there once, and all steps if the IDs are unique, there is no cycle and no unknown
name. It is an induction over
the layers, each of which is an induction over the steps of the file. Then
`PipelineInvariance`: `PipeInv` says that the queue is the rest of such an order,
that only its head has a record that is not final, but for those that a stray leg
suspended once they had passed (`RecordInv`), what run, label
and returned value may be together (`EndInv`), and that with unique IDs no record
is in the way (`FreshInv`). From it `DependsFirst`, `FailuresExplicit`,
`CompleteRunsDidAll`, `ReturnsMatch` and the action property `EntriesFinal`: of the
records that show an end only those of steps in `stray` are written again.

**SubWorkflowProof.** `CompositionRuns` is a refinement: with the nested calls
hidden, a composition does what Pipeline says; the whole call of a workflow step,
however deep, is the one step that returns or fails, and all before it stutters.
It rests on the shape of the stack (`ShapeInv`: the root waits in the step that
called, and so does every frame but the innermost). Hence `CompositionSafe` and
`CompositionEntriesFinal` without a second proof. `SubInv` adds, for
`WebhooksOptedIn`, that a frame runs what its path names and that no suppressed
webhook is in hand (`CallInv`, `WebInv`); for `UsageRolledUp`, that the usage in
the frames together is what was burnt below the step, as long as the innermost
does not fail (`BurntInv`); for `CallsAgreed`, that what lies below a step that
did not fail is complete, skipped or in hand (`DoneInv`), and that a sub-run that
is neither ended nor in hand was cyclic or had an ID twice: for this the records
must be those of the steps that the frames have been at, in order (`TraceInv`,
`MemInv`).

**AgentLoopProof.** For every `MaxTurns` and number of calls: `Conversations`,
`GatedCallsApproved`, `CallsCounted`, `LegCostBounded`, `LoopTypeCorrect`. `LoopInv`
ties the count of model calls to the turn, and says that the messages are paired
but for a call in hand, and for the rejection that opens the second leg when the
messages of the first are lost.

**FanoutProof.** `ConcurrencyLimited`, `NoItemLeftBehind`, `UsageAddsUp`,
`FanoutTypeCorrect`. The slots taken are counted as a cardinality; the usage is a
sum over a set (`Total`), which grows by what an item adds (`TotalGrows`).

**McpClientProof.** `AnswersMatchRequests`, `HealthyServer`,
`LossNeedsAnotherCall`, for any number of calls. IDs are fresh and a call keeps
its waiters until it returns (`WaiterInv`), so the reader finds the request that
an answer is for, or nobody (`AnswerInv`); maps name streams that were opened,
and a stream that does not break is closed only by a call that retries
(`StreamInv`); an answer that was promised has arrived or is on its way over the
stream of the session it was posted to (`PromiseInv`).

**ComputationsProof.** Dag: `CyclesReported`, `LayersOrdered`, `NothingLeftOut`,
for every finite graph and every file, whose entries of one ID may differ. The
stack of the search is a path in which each node depends on the next, so a gray node closes a cycle; black nodes have none, shown
by the last of a set of them to turn black (`BlackInv`); an in-degree counts the
dependencies that are not placed, of each entry (`WaitsInv`). No layer is empty (`FilledInv`), so
that there are at most as many as steps (`DagTypeCorrect`).
`ResolutionCreatesRun` is the refinement of Pipeline's `CreateRun`: the first k
layers hold exactly the nodes whose dependencies are in the first k - 1
(`StagesClosed`), which is the equation that Pipeline's `Placed` solves, a layer is
what one stage adds to the one before (`LayerIsStage`), and what Pipeline goes on to
count beyond the last layer is empty. With it the theorems of PipelineProof speak
of the order that the code computes. OutputPath: `FatalFails`,
`ReservedStripped` (of agent steps and items of fanouts), `PathTypeCorrect`.
Params: `ParamsResolved`. Transforms:
`OpsAgreed`, for arrays of any length, any number of ops and values of any depth.
An insertion puts an item behind all that it does not precede (`InsertStops`), so
that the prefix stays arranged by a permutation (`InsertArranges`), which is then
the stable one (`SortIsStable`); `StableSortIsUnique` says that there is only one.
The rows that `deduplicate` keeps grow with the first items of each text
(`DeduplicateLoop`, `RowsGrow`). The theorem speaks of a set `V` of values that the
inputs are in and that is closed under what the ops do (`Values`), for instance all
finite trees whose field "f" is an atom, and of a `Merge` that satisfies the equation
of `deepMerge` on `V` (`MergesDeep`), as the recursion in the code does. With a field
that is an array or an object an item would be sorted by its formatted text, which
the model does not build.

**InductionLemmas.** The induction theorems of the library take an operator as a
parameter, which the installed provers cannot instantiate. The lemmas here say the
same with sets and functions in its place: a set of numbers that has 0 and the
successor of each member up to n has all of them; a recursive function on the
numbers, or on the subsets of a finite set, exists if its step is a function; a
sum does not depend on the order. From these come the facts about the recursive
functions of the models (`Placed`, `Keep`, `Total`, `Caller`, and the folds of the
community modules `FlattenSeq` and `MapThenSumSet`).

### What stays with TLC

* Liveness (`RunEnds`, `SendersDrain`, `DeadlineEndsRun`, `ExecuteReturns`,
  `Returns`, `CallsReturn`): it needs `ENABLED` and fairness, beyond the prover.
* That the recursion of `DeepMerge` satisfies the equation that `OpsAgreed` takes as
  a hypothesis: it is its definition, but tlapm has no SMT backend in a module with
  a RECURSIVE operator, and no induction over data.
* With several reviewers or an approval timeout, the properties that are stated
  for one; the violation runs show that they fail.
* The runs that expect a violation.

## Where the code disagrees with its documents

Checked by a run:

* **two decisions** (AgentStepTwoReviewers): "approval already decided" is
  tested in one store call and the decision written in another;
* **fanout items** (AgentStepFanoutItem): an item has no step record, so its
  messages are not stored and an approved call is not executed;
* **deadline under SQLite** (AgentStepSqliteDeadline): `failRun` writes with the
  context that just ended, and drops the errors;
* **skip and confidence** (OutputPathStatus): the callback handler strips what
  the runner looks for;
* **agents of sub-workflows** (SubWorkflowCallback): the run ID of a sub-workflow
  has a slash, and the callback URL made of it matches no route.

Seen while modelling, and visible in the models as what the code does:

* `docs/deployment/README.md:188` has the orchestrator fail the steps of a silent
  runtime; `handleHeartbeat` logs the message. Without `timeout_s` a lost leg
  leaves its run running (`lost` in AgentStep, where only the deadline helps).
* `docs/concepts/reserved-outputs.md:53` skips what depends on a skipped step;
  `Execute` runs it (`StartsAfterDepends` says "complete or skipped").
* `docs/cost-management.md:53` stops a fanout after `max_failures`; the limit is
  looked at when every item is done (`Fanout!Aggregate`).
* `docs/concepts/transforms.md:85` sorts `nil` last; a descending sort puts it
  first (`Transforms!Precedes`). `:28` has the inputs of a transform deep-merged;
  they are merged flat (`Transforms!CollectInputs`).
* `internal/config/params.go:128` has literals for secret agent parameters rejected
  and `:168` secret server parameters fed by secret agent parameters;
  `docs/concepts/variables.md:178` calls a value that is not secret, passed into a
  secret parameter, an error. The marks are compared where one parameter names
  another and where a step gives a literal; a default, and a literal or a variable
  in the agent file, are taken for a secret as they are (`Params!AgentParamRefused`,
  `Params!ServerParamRefused`). `DispatchResolved` claims no more.
* `docs/architecture/tool-servers.md:56` says that `env:` is no longer supported
  there; `ResolveServerParams` looks the variable up.
* Two entries with one ID and different `depends_on`: the search for cycles keeps
  the last list (`dag.go:73`), the in-degrees count all. A cycle through the other
  list is not reported; its steps are in no layer, and the run completes without
  them (`Dag!Depends`, `Pipeline!LastList`; `CompleteDidEveryStep` excepts it).
* A rejected call of a fanout item, or of a step that ended, under
  `on_reject: recover` resumes without the stored messages: the conversation of
  that leg is a result whose call is not there (`AgentLoop!Resume`).
* `handlePendingApproval` replaces a record whatever it says. A leg that outlived
  the wait for its step, or the second of two that two decisions started, puts a
  complete step back to `pending_approval` after the run went on
  (`Pipeline!SuspendLate`).
* A channel of `pendingCallbacks` holds one message and `Dispatch` reads once. A
  sender that found the channel before `Dispatch` gave up, and finds the buffer
  full, blocks for ever (`server.go:452`, `signalStepFailed`): the second of two
  after the deadline, or after a POST that failed although the runtime took it, and
  the third of three. `SendersDrain` claims only what two senders have before that.
* A default that names an unset variable fails the dispatch although the step
  gives another value (`Params!AgentParamRefused`).
* The usage of a sub-workflow that failed is not in the record of its caller
  (`SubWorkflow!ReturnError`).
* A cached bridge is used whatever `persistentID` a call has; after a retry the new
  session is not initialized; `Close` misses streams that were replaced in the map
  (`McpClient!OpenStream`).
* A second gated call in a resumed leg overwrites the step and cannot create its
  approval; a failed POST after an approval cannot be repeated. Both wait for the
  deadline.
* `MemStore.GetEnvelope` lists steps that await approval although its comment
  says finished steps.

## Not modelled, and why

* Providers and prices translate formats and keep no state; the gateway keeps an
  atomic counter per model group and makes one call. AgentLoop takes the result as
  an input.
* Files: configuration loading and validation, the hub (git and a lock file) and
  the command line happen before a run exists. That a file cannot be loaded is
  `DispatchConfigError` and `SubDispatchFails`.
* JMESPath and templates (`expr.go`) are external: a condition is a choice, and a
  parameter of a workflow step resolves or does not.
* The body of a webhook, and `fireApprovalWebhooks`, which sends requests beside
  the step and logs what comes back: no state depends on them.
* Authentication, listing, logging and the heartbeat, which is only logged, change
  nothing in a run.
* Restarts: nothing is recovered, the channels and timers are gone, and stored
  runs stay as they are; there is no action to model after a crash.
* `mcp.Client.Close` and the decoding of tool results.

## What comes next

* AgentStep: what still holds of the usage and of late answers after a POST failed
  although the runtime had accepted it; which of the two verdicts stands when a
  timeout and a reviewer race.

--------------------------- MODULE AgentStepProof ---------------------------
(***************************************************************************)
(* Proofs about AgentStep, for every set of reviewers, approval policy,    *)
(* store and disturbance.  With one decider (SoleReviewer), whatever else  *)
(* may happen, it implements GatedCall and no approved call is             *)
(* forgotten; and when besides every POST reaches the runtime              *)
(* (RuntimeReached), no answer or usage is lost before the deadline.  The  *)
(* violation runs show what two reviewers and a deadline do.               *)
(***************************************************************************)
EXTENDS AgentStep, FiniteSetTheorems, TLAPS

\* The initial state has the declared types.
LEMMA TypeInit == Init => TypeOK
  <1> SUFFICES ASSUME Init PROVE TypeOK
    OBVIOUS
  <1> USE DEF Init
  <1>1. NoApproval \in Approval
    BY DEF NoApproval, NoPolicy, PolicySet, Approval, ApprovalStatus, DecidedStatus, Legs
  <1>2. Failed({}) \in Payload
    BY DEF Failed, Payload
  <1>3. /\ leg \in [Legs -> LegPC]
        /\ out \in [Legs -> {"none", "ok", "failed", "pending_approval"}]
        /\ calls \in [Legs -> SUBSET Legs]
    BY DEF LegPC
  <1>4. /\ actor \in [Actors -> ActorPC]
        /\ verdict \in [Actors -> {"none"} \cup DecidedStatus]
    BY DEF ActorPC
  <1> QED
    BY <1>1, <1>2, <1>3, <1>4 DEF TypeOK, StepStatus, RunStatus, RunnerPC

\* Every step keeps the types of the variables.  That the callback of a leg
\* in "send" says "ok" or "failed" is LegInv.
LEMMA TypeStep == TypeOK /\ LegInv /\ [Next]_vars => TypeOK'
  <1> SUFFICES ASSUME TypeOK, LegInv, [Next]_vars PROVE TypeOK'
    OBVIOUS
  <1> USE AgentStepAssumption
      DEF TypeOK, Legs, Actors, Approval, ApprovalStatus, DecidedStatus, StepStatus,
          RunStatus, RunnerPC, LegPC, ActorPC, Payload, Failed
  <1>1. CASE RunnerStep
    <2>1. CASE Register
      BY <2>1 DEF Register, legVars, actorVars
    <2>2. CASE PostInvoke
      BY <2>2 DEF PostInvoke, actorVars
    <2>3. CASE PostInvokeError
      BY <2>3 DEF PostInvokeError, actorVars
    <2>4. CASE DispatchConfigError
      BY <2>4 DEF DispatchConfigError, legVars, actorVars
    <2>5. CASE Receive
      <3>1. PICK p \in Payload : inbox = <<p>>
        BY <2>5 DEF Receive
      <3>2. Head(inbox) = p /\ Tail(inbox) = <<>>
        BY <3>1
      <3> QED
        BY <2>5, <3>1, <3>2 DEF Receive, legVars, actorVars
    <2>6. CASE ContextDone
      BY <2>6 DEF ContextDone, legVars, actorVars
    <2>7. CASE Unregister
      <3>1. waiter' \in BOOLEAN /\ runner' = "recordStep"
        BY <2>7 DEF Unregister
      <3>2. UNCHANGED <<step, run, approval, inbox, result, expired, leg, out, calls,
                        executed, actor, verdict>>
        BY <2>7 DEF Unregister, legVars, actorVars
      <3> QED
        BY <3>1, <3>2
    <2>8. CASE RefuseOutput
      BY <2>8 DEF RefuseOutput, legVars, actorVars
    <2>9. CASE RecordStep
      BY <2>9 DEF RecordStep, legVars, actorVars
    <2>10. CASE RecordRun
      BY <2>10 DEF RecordRun, legVars, actorVars
    <2> QED
      BY <1>1, <2>1, <2>2, <2>3, <2>4, <2>5, <2>6, <2>7, <2>8, <2>9, <2>10 DEF RunnerStep
  <1>2. CASE Deadline
    BY <1>2 DEF Deadline, legVars, actorVars
  <1>3. ASSUME NEW l \in Legs, LegStep(l) PROVE TypeOK'
    <2>1. CASE ExecuteApproved(l)
      BY <2>1 DEF ExecuteApproved, actorVars
    <2>2. CASE AskApproval(l)
      BY <2>2 DEF AskApproval, actorVars
    <2>3. ASSUME NEW s \in {"ok", "failed"}, LegEnds(l, s) PROVE TypeOK'
      BY <2>3 DEF LegEnds, actorVars
    <2> QED
      BY <1>3, <2>1, <2>2, <2>3 DEF LegStep
  <1>4. ASSUME NEW l \in Legs, HandlerStep(l) PROVE TypeOK'
    <2>1. CASE MarkPending(l)
      BY <2>1 DEF MarkPending, actorVars
    <2>2. CASE CreateApproval(l)
      BY <2>2 DEF CreateApproval, NoApproval, NoPolicy
    <2>3. CASE LookupWaiter(l)
      BY <2>3 DEF LookupWaiter, actorVars
    <2>4. CASE SendCallback(l)
      <3>1. CallbackOf(l) \in Payload
        BY <2>4 DEF SendCallback, CallbackOf, LegInv
      <3> QED
        BY <2>4, <3>1 DEF SendCallback, actorVars
    <2> QED
      BY <1>4, <2>1, <2>2, <2>3, <2>4 DEF HandlerStep
  <1>5. ASSUME NEW l \in Legs, LegLost(l) PROVE TypeOK'
    BY <1>5 DEF LegLost, actorVars
  <1>6. ASSUME NEW d \in Deciders, NEW v \in Decisions, Decide(d, v) PROVE TypeOK'
    BY <1>6 DEF Decide, Decisions, legVars
  <1>7. CASE TimerFires
    BY <1>7 DEF TimerFires, legVars
  <1>8. ASSUME NEW a \in Actors, ActorStep(a) PROVE TypeOK'
    <2>1. CASE UpdateApproval(a)
      BY <2>1 DEF UpdateApproval, legVars
    <2>2. CASE PostResume(a)
      BY <2>2 DEF PostResume, StartLeg
    <2>3. CASE PostResumeError(a)
      BY <2>3 DEF PostResumeError, StartLeg
    <2>4. CASE SignalLookup(a)
      BY <2>4 DEF SignalLookup, legVars
    <2>5. CASE SignalSend(a)
      BY <2>5 DEF SignalSend, legVars
    <2> QED
      BY <1>8, <2>1, <2>2, <2>3, <2>4, <2>5 DEF ActorStep
  <1>9. CASE UNCHANGED vars
    BY <1>9 DEF vars
  <1>10. CASE AllQuiet
    BY <1>10 DEF AllQuiet, vars
  <1> QED
    BY <1>1, <1>2, <1>3, <1>4, <1>5, <1>6, <1>7, <1>8, <1>9, <1>10 DEF Next

-----------------------------------------------------------------------------
(* The inductive step, action by action and conjunct by conjunct.          *)

NonTypeInv == RunnerInv /\ LegInv /\ ApprovalInv /\ ExecutedInv /\ ToolNeedsApproval

\* RunnerStep keeps the invariant.
LEMMA RunnerStepInv ==
  ASSUME IInv, RunnerStep PROVE NonTypeInv'
  <1> USE AgentStepAssumption DEF IInv, TypeOK, Legs, Actors, Payload, NonTypeInv
  <1>1. CASE Register
    <2>1. RunnerInv'
      BY <1>1 DEF RunnerInv, Register, legVars, actorVars
    <2>2. LegInv'
      BY <1>1 DEF LegInv, Register, legVars, actorVars
    <2>3. ApprovalInv'
      BY <1>1 DEF ApprovalInv, Register, legVars, actorVars, DecidedStatus
    <2>4. ExecutedInv'
      BY <1>1 DEF ExecutedInv, Register, legVars, actorVars, DecidedStatus
    <2>5. ToolNeedsApproval'
      BY <1>1 DEF ToolNeedsApproval, Register, legVars, actorVars
    <2> QED
      BY <2>1, <2>2, <2>3, <2>4, <2>5
  <1>2. CASE PostInvoke
    <2>1. RunnerInv'
      BY <1>2 DEF RunnerInv, PostInvoke, actorVars
    <2>2. LegInv'
      BY <1>2 DEF LegInv, PostInvoke, actorVars, RunnerInv
    <2>3. ApprovalInv'
      BY <1>2 DEF ApprovalInv, PostInvoke, actorVars, DecidedStatus
    <2>4. ExecutedInv'
      BY <1>2 DEF ExecutedInv, PostInvoke, actorVars, DecidedStatus
    <2>5. ToolNeedsApproval'
      BY <1>2 DEF ToolNeedsApproval, PostInvoke, actorVars
    <2> QED
      BY <2>1, <2>2, <2>3, <2>4, <2>5
  <1>3. CASE PostInvokeError
    <2>1. RunnerInv'
      BY <1>3 DEF RunnerInv, PostInvokeError, actorVars, Failed
    <2>2. LegInv'
      BY <1>3 DEF LegInv, PostInvokeError, actorVars, Failed, RunnerInv
    <2>3. ApprovalInv'
      BY <1>3 DEF ApprovalInv, PostInvokeError, actorVars, Failed, DecidedStatus
    <2>4. ExecutedInv'
      BY <1>3 DEF ExecutedInv, PostInvokeError, actorVars, Failed, DecidedStatus
    <2>5. ToolNeedsApproval'
      BY <1>3 DEF ToolNeedsApproval, PostInvokeError, actorVars, Failed
    <2> QED
      BY <2>1, <2>2, <2>3, <2>4, <2>5
  <1>4. CASE DispatchConfigError
    <2>1. RunnerInv'
      BY <1>4 DEF RunnerInv, DispatchConfigError, legVars, actorVars, Failed
    <2>2. LegInv'
      BY <1>4 DEF LegInv, DispatchConfigError, legVars, actorVars, Failed
    <2>3. ApprovalInv'
      BY <1>4 DEF ApprovalInv, DispatchConfigError, legVars, actorVars, Failed, DecidedStatus
    <2>4. ExecutedInv'
      BY <1>4 DEF ExecutedInv, DispatchConfigError, legVars, actorVars, Failed, DecidedStatus
    <2>5. ToolNeedsApproval'
      BY <1>4 DEF ToolNeedsApproval, DispatchConfigError, legVars, actorVars, Failed
    <2> QED
      BY <2>1, <2>2, <2>3, <2>4, <2>5
  <1>5. CASE Receive
    <2>1. RunnerInv'
      <3>1. PICK p \in Payload : inbox = <<p>>
        BY <1>5 DEF Receive
      <3>2. Head(inbox) = p /\ Tail(inbox) = <<>> /\ inbox[1] = p /\ 1 \in DOMAIN inbox
        BY <3>1
      <3> QED
        BY <1>5, <3>1, <3>2 DEF RunnerInv, Receive, legVars, actorVars
    <2>2. LegInv'
      BY <1>5 DEF LegInv, Receive, legVars, actorVars
    <2>3. ApprovalInv'
      BY <1>5 DEF ApprovalInv, Receive, legVars, actorVars, DecidedStatus
    <2>4. ExecutedInv'
      BY <1>5 DEF ExecutedInv, Receive, legVars, actorVars, DecidedStatus
    <2>5. ToolNeedsApproval'
      BY <1>5 DEF ToolNeedsApproval, Receive, legVars, actorVars
    <2> QED
      BY <2>1, <2>2, <2>3, <2>4, <2>5
  <1>6. CASE ContextDone
    <2>1. RunnerInv'
      BY <1>6 DEF RunnerInv, ContextDone, legVars, actorVars, Failed
    <2>2. LegInv'
      BY <1>6 DEF LegInv, ContextDone, legVars, actorVars, Failed
    <2>3. ApprovalInv'
      BY <1>6 DEF ApprovalInv, ContextDone, legVars, actorVars, Failed, DecidedStatus
    <2>4. ExecutedInv'
      BY <1>6 DEF ExecutedInv, ContextDone, legVars, actorVars, Failed, DecidedStatus
    <2>5. ToolNeedsApproval'
      BY <1>6 DEF ToolNeedsApproval, ContextDone, legVars, actorVars, Failed
    <2> QED
      BY <2>1, <2>2, <2>3, <2>4, <2>5
  <1>7. CASE Unregister
    <2>1. RunnerInv'
      BY <1>7 DEF RunnerInv, Unregister, legVars, actorVars
    <2>2. LegInv'
      BY <1>7 DEF LegInv, Unregister, legVars, actorVars
    <2>3. ApprovalInv'
      BY <1>7 DEF ApprovalInv, Unregister, legVars, actorVars, DecidedStatus
    <2>4. ExecutedInv'
      BY <1>7 DEF ExecutedInv, Unregister, legVars, actorVars, DecidedStatus
    <2>5. ToolNeedsApproval'
      BY <1>7 DEF ToolNeedsApproval, Unregister, legVars, actorVars
    <2> QED
      BY <2>1, <2>2, <2>3, <2>4, <2>5
  <1>8. CASE RefuseOutput
    <2>1. RunnerInv'
      BY <1>8 DEF RunnerInv, RefuseOutput, legVars, actorVars
    <2>2. LegInv'
      BY <1>8 DEF LegInv, RefuseOutput, legVars, actorVars
    <2>3. ApprovalInv'
      BY <1>8 DEF ApprovalInv, RefuseOutput, legVars, actorVars, DecidedStatus
    <2>4. ExecutedInv'
      BY <1>8 DEF ExecutedInv, RefuseOutput, legVars, actorVars, DecidedStatus
    <2>5. ToolNeedsApproval'
      BY <1>8 DEF ToolNeedsApproval, RefuseOutput, legVars, actorVars
    <2> QED
      BY <2>1, <2>2, <2>3, <2>4, <2>5
  <1>9. CASE RecordStep
    <2>1. RunnerInv'
      BY <1>9 DEF RunnerInv, RecordStep, legVars, actorVars
    <2>2. LegInv'
      BY <1>9 DEF LegInv, RecordStep, legVars, actorVars
    <2>3. ApprovalInv'
      BY <1>9 DEF ApprovalInv, RecordStep, legVars, actorVars, DecidedStatus
    <2>4. ExecutedInv'
      BY <1>9 DEF ExecutedInv, RecordStep, legVars, actorVars, DecidedStatus
    <2>5. ToolNeedsApproval'
      BY <1>9 DEF ToolNeedsApproval, RecordStep, legVars, actorVars
    <2> QED
      BY <2>1, <2>2, <2>3, <2>4, <2>5
  <1>10. CASE RecordRun
    <2>1. RunnerInv'
      BY <1>10 DEF RunnerInv, RecordRun, legVars, actorVars
    <2>2. LegInv'
      BY <1>10 DEF LegInv, RecordRun, legVars, actorVars
    <2>3. ApprovalInv'
      BY <1>10 DEF ApprovalInv, RecordRun, legVars, actorVars, DecidedStatus
    <2>4. ExecutedInv'
      BY <1>10 DEF ExecutedInv, RecordRun, legVars, actorVars, DecidedStatus
    <2>5. ToolNeedsApproval'
      BY <1>10 DEF ToolNeedsApproval, RecordRun, legVars, actorVars
    <2> QED
      BY <2>1, <2>2, <2>3, <2>4, <2>5
  <1> QED
    BY <1>1, <1>2, <1>3, <1>4, <1>5, <1>6, <1>7, <1>8, <1>9, <1>10 DEF RunnerStep

\* LegStep keeps the invariant.
LEMMA LegStepInv ==
  ASSUME IInv, NEW l \in Legs, LegStep(l) PROVE NonTypeInv'
  <1> USE AgentStepAssumption DEF IInv, TypeOK, Legs, Actors, Payload, NonTypeInv
  <1>1. CASE ExecuteApproved(l)
    <2>1. RunnerInv'
      BY <1>1 DEF RunnerInv, ExecuteApproved, actorVars
    <2>2. LegInv'
      BY <1>1 DEF LegInv, ExecuteApproved, actorVars
    <2>3. ApprovalInv'
      BY <1>1 DEF ApprovalInv, ExecuteApproved, actorVars, DecidedStatus
    <2>4. ExecutedInv'
      BY <1>1 DEF ExecutedInv, ExecuteApproved, actorVars, ApprovalInv, DecidedStatus
    <2>5. ToolNeedsApproval'
      BY <1>1 DEF ToolNeedsApproval, ExecuteApproved, actorVars, ApprovalInv
    <2> QED
      BY <2>1, <2>2, <2>3, <2>4, <2>5
  <1>2. CASE AskApproval(l)
    <2>1. RunnerInv'
      BY <1>2 DEF RunnerInv, AskApproval, actorVars
    <2>2. LegInv'
      BY <1>2 DEF LegInv, AskApproval, actorVars
    <2>3. ApprovalInv'
      BY <1>2 DEF ApprovalInv, AskApproval, actorVars, DecidedStatus
    <2>4. ExecutedInv'
      BY <1>2 DEF ExecutedInv, AskApproval, actorVars, DecidedStatus
    <2>5. ToolNeedsApproval'
      BY <1>2 DEF ToolNeedsApproval, AskApproval, actorVars
    <2> QED
      BY <2>1, <2>2, <2>3, <2>4, <2>5
  <1>3. ASSUME NEW s \in {"ok", "failed"}, LegEnds(l, s) PROVE NonTypeInv'
    <2>1. RunnerInv'
      BY <1>3 DEF RunnerInv, LegEnds, actorVars
    <2>2. LegInv'
      BY <1>3 DEF LegInv, LegEnds, actorVars
    <2>3. ApprovalInv'
      BY <1>3 DEF ApprovalInv, LegEnds, actorVars, LegInv, DecidedStatus
    <2>4. ExecutedInv'
      BY <1>3 DEF ExecutedInv, LegEnds, actorVars, DecidedStatus
    <2>5. ToolNeedsApproval'
      BY <1>3 DEF ToolNeedsApproval, LegEnds, actorVars
    <2> QED
      BY <2>1, <2>2, <2>3, <2>4, <2>5
  <1> QED
    BY <1>1, <1>2, <1>3 DEF LegStep

\* HandlerStep keeps the invariant.
LEMMA HandlerStepInv ==
  ASSUME IInv, NEW l \in Legs, HandlerStep(l) PROVE NonTypeInv'
  <1> USE AgentStepAssumption DEF IInv, TypeOK, Legs, Actors, Payload, NonTypeInv
  <1>1. CASE MarkPending(l)
    <2>1. RunnerInv'
      BY <1>1 DEF RunnerInv, MarkPending, actorVars
    <2>2. LegInv'
      BY <1>1 DEF LegInv, MarkPending, actorVars
    <2>3. ApprovalInv'
      BY <1>1 DEF ApprovalInv, MarkPending, actorVars, DecidedStatus
    <2>4. ExecutedInv'
      BY <1>1 DEF ExecutedInv, MarkPending, actorVars, DecidedStatus
    <2>5. ToolNeedsApproval'
      BY <1>1 DEF ToolNeedsApproval, MarkPending, actorVars
    <2> QED
      BY <2>1, <2>2, <2>3, <2>4, <2>5
  <1>2. CASE CreateApproval(l)
    <2>1. RunnerInv'
      BY <1>2 DEF RunnerInv, CreateApproval, NoApproval
    <2>2. LegInv'
      BY <1>2 DEF LegInv, CreateApproval, NoApproval
    <2>3. ApprovalInv'
      BY <1>2 DEF ApprovalInv, CreateApproval, NoApproval, LegInv, DecidedStatus
    <2>4. ExecutedInv'
      BY <1>2 DEF ExecutedInv, CreateApproval, NoApproval, DecidedStatus
    <2>5. ToolNeedsApproval'
      BY <1>2 DEF ToolNeedsApproval, CreateApproval, NoApproval, ExecutedInv, DecidedStatus
    <2> QED
      BY <2>1, <2>2, <2>3, <2>4, <2>5
  <1>3. CASE LookupWaiter(l)
    <2>1. RunnerInv'
      BY <1>3 DEF RunnerInv, LookupWaiter, actorVars
    <2>2. LegInv'
      BY <1>3 DEF LegInv, LookupWaiter, actorVars
    <2>3. ApprovalInv'
      BY <1>3 DEF ApprovalInv, LookupWaiter, actorVars, DecidedStatus
    <2>4. ExecutedInv'
      BY <1>3 DEF ExecutedInv, LookupWaiter, actorVars, DecidedStatus
    <2>5. ToolNeedsApproval'
      BY <1>3 DEF ToolNeedsApproval, LookupWaiter, actorVars
    <2> QED
      BY <2>1, <2>2, <2>3, <2>4, <2>5
  <1>4. CASE SendCallback(l)
    <2>1. RunnerInv'
      BY <1>4 DEF RunnerInv, SendCallback, CallbackOf, actorVars
    <2>2. LegInv'
      BY <1>4 DEF LegInv, SendCallback, CallbackOf, actorVars
    <2>3. ApprovalInv'
      BY <1>4 DEF ApprovalInv, SendCallback, CallbackOf, actorVars, DecidedStatus
    <2>4. ExecutedInv'
      BY <1>4 DEF ExecutedInv, SendCallback, CallbackOf, actorVars, DecidedStatus
    <2>5. ToolNeedsApproval'
      BY <1>4 DEF ToolNeedsApproval, SendCallback, CallbackOf, actorVars
    <2> QED
      BY <2>1, <2>2, <2>3, <2>4, <2>5
  <1> QED
    BY <1>1, <1>2, <1>3, <1>4 DEF HandlerStep

\* ActorStep keeps the invariant.
LEMMA ActorStepInv ==
  ASSUME IInv, NEW a \in Actors, ActorStep(a) PROVE NonTypeInv'
  <1> USE AgentStepAssumption DEF IInv, TypeOK, Legs, Actors, Payload, NonTypeInv
  <1>1. CASE UpdateApproval(a)
    <2>1. RunnerInv'
      BY <1>1 DEF RunnerInv, UpdateApproval, legVars
    <2>2. LegInv'
      BY <1>1 DEF LegInv, UpdateApproval, legVars
    <2>3. ApprovalInv'
      BY <1>1 DEF ApprovalInv, UpdateApproval, legVars, DecidedStatus
    <2>4. ExecutedInv'
      BY <1>1 DEF ExecutedInv, UpdateApproval, legVars, ApprovalInv, DecidedStatus
    <2>5. ToolNeedsApproval'
      BY <1>1 DEF ToolNeedsApproval, UpdateApproval, legVars
    <2> QED
      BY <2>1, <2>2, <2>3, <2>4, <2>5
  <1>2. CASE PostResume(a)
    <2>1. RunnerInv'
      BY <1>2 DEF RunnerInv, PostResume, StartLeg, ApprovalInv
    <2>2. LegInv'
      BY <1>2 DEF LegInv, PostResume, StartLeg, ApprovalInv
    <2>3. ApprovalInv'
      BY <1>2 DEF ApprovalInv, PostResume, StartLeg, DecidedStatus
    <2>4. ExecutedInv'
      BY <1>2 DEF ExecutedInv, PostResume, StartLeg, DecidedStatus
    <2>5. ToolNeedsApproval'
      BY <1>2 DEF ToolNeedsApproval, PostResume, StartLeg
    <2> QED
      BY <2>1, <2>2, <2>3, <2>4, <2>5
  <1>3. CASE PostResumeError(a)
    <2>1. RunnerInv'
      BY <1>3 DEF RunnerInv, PostResumeError, StartLeg, ApprovalInv
    <2>2. LegInv'
      BY <1>3 DEF LegInv, PostResumeError, StartLeg, ApprovalInv
    <2>3. ApprovalInv'
      BY <1>3 DEF ApprovalInv, PostResumeError, StartLeg, DecidedStatus
    <2>4. ExecutedInv'
      BY <1>3 DEF ExecutedInv, PostResumeError, StartLeg, DecidedStatus
    <2>5. ToolNeedsApproval'
      BY <1>3 DEF ToolNeedsApproval, PostResumeError, StartLeg
    <2> QED
      BY <2>1, <2>2, <2>3, <2>4, <2>5
  <1>4. CASE SignalLookup(a)
    <2>1. RunnerInv'
      BY <1>4 DEF RunnerInv, SignalLookup, legVars
    <2>2. LegInv'
      BY <1>4 DEF LegInv, SignalLookup, legVars
    <2>3. ApprovalInv'
      BY <1>4 DEF ApprovalInv, SignalLookup, legVars, DecidedStatus
    <2>4. ExecutedInv'
      BY <1>4 DEF ExecutedInv, SignalLookup, legVars, DecidedStatus
    <2>5. ToolNeedsApproval'
      BY <1>4 DEF ToolNeedsApproval, SignalLookup, legVars
    <2> QED
      BY <2>1, <2>2, <2>3, <2>4, <2>5
  <1>5. CASE SignalSend(a)
    <2>1. RunnerInv'
      BY <1>5 DEF RunnerInv, SignalSend, legVars, Failed
    <2>2. LegInv'
      BY <1>5 DEF LegInv, SignalSend, legVars, Failed
    <2>3. ApprovalInv'
      BY <1>5 DEF ApprovalInv, SignalSend, legVars, Failed, DecidedStatus
    <2>4. ExecutedInv'
      BY <1>5 DEF ExecutedInv, SignalSend, legVars, Failed, DecidedStatus
    <2>5. ToolNeedsApproval'
      BY <1>5 DEF ToolNeedsApproval, SignalSend, legVars, Failed
    <2> QED
      BY <2>1, <2>2, <2>3, <2>4, <2>5
  <1> QED
    BY <1>1, <1>2, <1>3, <1>4, <1>5 DEF ActorStep

\* Deadline keeps the invariant.
LEMMA DeadlineInv ==
  ASSUME IInv, Deadline PROVE NonTypeInv'
  <1> USE AgentStepAssumption DEF IInv, TypeOK, Legs, Actors, Payload, NonTypeInv
  <1>1. RunnerInv'
    BY DEF RunnerInv, Deadline, legVars, actorVars
  <1>2. LegInv'
    BY DEF LegInv, Deadline, legVars, actorVars
  <1>3. ApprovalInv'
    BY DEF ApprovalInv, Deadline, legVars, actorVars, DecidedStatus
  <1>4. ExecutedInv'
    BY DEF ExecutedInv, Deadline, legVars, actorVars, DecidedStatus
  <1>5. ToolNeedsApproval'
    BY DEF ToolNeedsApproval, Deadline, legVars, actorVars
  <1> QED
    BY <1>1, <1>2, <1>3, <1>4, <1>5

\* LegLost keeps the invariant.
LEMMA LegLostInv ==
  ASSUME IInv, NEW l \in Legs, LegLost(l) PROVE NonTypeInv'
  <1> USE AgentStepAssumption DEF IInv, TypeOK, Legs, Actors, Payload, NonTypeInv
  <1>1. RunnerInv'
    BY DEF RunnerInv, LegLost, actorVars
  <1>2. LegInv'
    BY DEF LegInv, LegLost, actorVars
  <1>3. ApprovalInv'
    BY DEF ApprovalInv, LegLost, actorVars, DecidedStatus
  <1>4. ExecutedInv'
    BY DEF ExecutedInv, LegLost, actorVars, DecidedStatus
  <1>5. ToolNeedsApproval'
    BY DEF ToolNeedsApproval, LegLost, actorVars
  <1> QED
    BY <1>1, <1>2, <1>3, <1>4, <1>5

\* Decide keeps the invariant.
LEMMA DecideInv ==
  ASSUME IInv, NEW d \in Deciders, NEW v \in Decisions, Decide(d, v) PROVE NonTypeInv'
  <1> USE AgentStepAssumption DEF IInv, TypeOK, Legs, Actors, Payload, NonTypeInv
  <1>1. RunnerInv'
    BY DEF RunnerInv, Decide, legVars, Decisions
  <1>2. LegInv'
    BY DEF LegInv, Decide, legVars, Decisions
  <1>3. ApprovalInv'
    BY DEF ApprovalInv, Decide, legVars, Decisions, DecidedStatus
  <1>4. ExecutedInv'
    BY DEF ExecutedInv, Decide, legVars, Decisions, DecidedStatus
  <1>5. ToolNeedsApproval'
    BY DEF ToolNeedsApproval, Decide, legVars, Decisions, ExecutedInv, ApprovalInv
  <1> QED
    BY <1>1, <1>2, <1>3, <1>4, <1>5

\* TimerFires keeps the invariant.
LEMMA TimerFiresInv ==
  ASSUME IInv, TimerFires PROVE NonTypeInv'
  <1> USE AgentStepAssumption DEF IInv, TypeOK, Legs, Actors, Payload, NonTypeInv
  <1>1. RunnerInv'
    BY DEF RunnerInv, TimerFires, legVars
  <1>2. LegInv'
    BY DEF LegInv, TimerFires, legVars
  <1>3. ApprovalInv'
    BY DEF ApprovalInv, TimerFires, legVars, DecidedStatus
  <1>4. ExecutedInv'
    BY DEF ExecutedInv, TimerFires, legVars, DecidedStatus
  <1>5. ToolNeedsApproval'
    BY DEF ToolNeedsApproval, TimerFires, legVars, ExecutedInv, ApprovalInv
  <1> QED
    BY <1>1, <1>2, <1>3, <1>4, <1>5

\* IInv is inductive.
LEMMA InvInit == Init => IInv
  <1> SUFFICES ASSUME Init PROVE IInv
    OBVIOUS
  <1>1. TypeOK
    BY TypeInit
  <1>2. RunnerInv
    BY AgentStepAssumption DEF Init, RunnerInv, Failed, Legs
  <1>3. LegInv
    BY DEF Init, LegInv
  <1>4. ApprovalInv
    BY AgentStepAssumption DEF Init, ApprovalInv, NoApproval, Legs, Actors
  <1>5. ExecutedInv /\ ToolNeedsApproval
    BY DEF Init, ExecutedInv, ToolNeedsApproval
  <1> QED
    BY <1>1, <1>2, <1>3, <1>4, <1>5 DEF IInv

\* Every step of the specification preserves the inductive invariant.
LEMMA InvStep == IInv /\ [Next]_vars => IInv'
  <1> SUFFICES ASSUME IInv, [Next]_vars PROVE IInv'
    OBVIOUS
  <1>1. TypeOK'
    BY TypeStep DEF IInv
  <1>2. NonTypeInv'
    <2>1. CASE RunnerStep
      BY <2>1, RunnerStepInv
    <2>2. CASE Deadline
      BY <2>2, DeadlineInv
    <2>3. ASSUME NEW l \in Legs, LegStep(l) \/ HandlerStep(l) \/ LegLost(l)
          PROVE  NonTypeInv'
      BY <2>3, LegStepInv, HandlerStepInv, LegLostInv
    <2>4. ASSUME NEW d \in Deciders, NEW v \in Decisions, Decide(d, v) PROVE NonTypeInv'
      BY <2>4, DecideInv
    <2>5. CASE TimerFires
      BY <2>5, TimerFiresInv
    <2>6. ASSUME NEW a \in Actors, ActorStep(a) PROVE NonTypeInv'
      BY <2>6, ActorStepInv
    <2>7. CASE UNCHANGED vars
      BY <2>7 DEF vars, IInv, NonTypeInv, RunnerInv, LegInv, ApprovalInv, ExecutedInv,
                  ToolNeedsApproval
    <2>8. CASE AllQuiet
      BY <2>7, <2>8 DEF AllQuiet
    <2> QED
      BY <2>1, <2>2, <2>3, <2>4, <2>5, <2>6, <2>7, <2>8 DEF Next
  <1> QED
    BY <1>1, <1>2 DEF IInv, NonTypeInv

\* The inductive invariant holds in every reachable state.
THEOREM Invariance == Spec => []IInv
  BY InvInit, InvStep, PTL DEF Spec

-----------------------------------------------------------------------------

\* The variables keep their types.
THEOREM TypeCorrect == Spec => []TypeOK
  <1>1. IInv => TypeOK
    BY DEF IInv
  <1> QED
    BY <1>1, Invariance, PTL

\* Whatever is lost, fails or races, a gated call is executed only by a leg
\* that an approving actor started.
THEOREM ToolSafety == Spec => []ToolNeedsApproval
  <1>1. IInv => ToolNeedsApproval
    BY DEF IInv
  <1> QED
    BY <1>1, Invariance, PTL

\* A run completes only on the answer of a leg whose loop ended well.
THEOREM CompleteSafety == Spec => []CompleteNeedsAnswer
  <1>1. IInv => CompleteNeedsAnswer
    BY DEF IInv, RunnerInv, CompleteNeedsAnswer
  <1> QED
    BY <1>1, Invariance, PTL

\* While the approval is pending no answer that would complete the step
\* exists: the only leg that ran is the one that asked.
THEOREM PendingSafety == Spec => []NoStepPastPendingApproval
  <1>1. IInv => NoStepPastPendingApproval
    <2> SUFFICES ASSUME IInv, approval.status = "pending"
                 PROVE  NoStepPastPendingApproval
      BY DEF NoStepPastPendingApproval
    <2>1. out[Dispatch] = "pending_approval"
      BY DEF IInv, ApprovalInv
    <2>2. \A a \in Actors : leg[a] = "none"
      BY DEF IInv, ApprovalInv, DecidedStatus
    <2>3. \A l \in Legs : leg[l] # "none" => out[l] = "pending_approval"
      BY <2>1, <2>2 DEF Legs
    <2> QED
      BY <2>3 DEF IInv, RunnerInv, LegInv, NoStepPastPendingApproval
  <1> QED
    BY <1>1, Invariance, PTL

\* No step takes back the terminal status of a run: only the runner writes it,
\* and it wrote it last.
THEOREM RunStatusStays == Spec => RunStatusFinal
  <1>1. IInv /\ [Next]_vars => [run # "running" => run' = run]_vars
    <2> SUFFICES ASSUME IInv, Next, run # "running" PROVE run' = run
      BY DEF vars
    <2>1. runner = "done"
      BY DEF IInv, RunnerInv
    <2>2. CASE RunnerStep
      BY <2>1, <2>2 DEF RunnerStep, Register, PostInvoke, PostInvokeError, Receive,
         DispatchConfigError, ContextDone, Unregister, RefuseOutput, RecordStep, RecordRun
    <2>3. CASE Deadline
      BY <2>3 DEF Deadline
    <2>4. ASSUME NEW l \in Legs, LegStep(l) \/ HandlerStep(l) \/ LegLost(l)
          PROVE  run' = run
      BY <2>4 DEF LegStep, ExecuteApproved, AskApproval, LegEnds, HandlerStep, MarkPending,
                  CreateApproval, LookupWaiter, SendCallback, LegLost
    <2>5. ASSUME NEW d \in Deciders, NEW v \in Decisions, Decide(d, v) PROVE run' = run
      BY <2>5 DEF Decide
    <2>6. CASE TimerFires
      BY <2>6 DEF TimerFires
    <2>7. ASSUME NEW a \in Actors, ActorStep(a) PROVE run' = run
      BY <2>7 DEF ActorStep, UpdateApproval, PostResume, PostResumeError, SignalLookup,
                  SignalSend
    <2>8. CASE AllQuiet
      BY <2>8 DEF AllQuiet, vars
    <2> QED
      BY <2>2, <2>3, <2>4, <2>5, <2>6, <2>7, <2>8 DEF Next
  <1> QED
    BY <1>1, Invariance, PTL DEF Spec, RunStatusFinal

-----------------------------------------------------------------------------
(* One decide request: the refinement of GatedCall.                        *)

SoleReviewer == \A d, e \in Deciders : d = e

\* While no timer runs, the reviewer who read "pending" is the one who decides:
\* nobody else changes the record before or after; and of the two actors that
\* may start a leg only the reviewer starts one that executes.
SoleInv ==
  /\ verdict[Timer] \in {"none", "timeout"}
  /\ approval.status = "none" => Uncontended
  /\ \A l \in Legs : leg[l] = "resuming" => executed = {}
  /\ Uncontended =>
       /\ actor[Timer] = "off"
       /\ \A d \in Deciders :
            /\ actor[d] = "update" => approval.status = "pending"
            /\ actor[d] = "post" \/ leg[d] # "none" => approval.status = verdict[d]

\* Nothing is decided and no timer is armed at the start.
LEMMA SoleInit == Init => SoleInv
  BY AgentStepAssumption
     DEF Init, SoleInv, Uncontended, NoApproval, NoPolicy, Actors, Legs

\* Every step keeps SoleInv, whatever is lost or fails.
LEMMA SoleStep ==
  ASSUME SoleReviewer, IInv, SoleInv, [Next]_vars PROVE SoleInv'
  <1> USE AgentStepAssumption DEF SoleInv, IInv, TypeOK, Actors, Legs, Uncontended
  <1>1. CASE RunnerStep
    <2>1. UNCHANGED <<approval, actor, verdict, executed>>
      BY <1>1 DEF RunnerStep, Register, PostInvoke, PostInvokeError,
         DispatchConfigError, Receive, ContextDone, Unregister, RefuseOutput, RecordStep,
         RecordRun, legVars, actorVars
    <2>2. \/ leg' = leg
          \/ leg' = [leg EXCEPT ![Dispatch] = "running"]
      BY <1>1 DEF RunnerStep, Register, PostInvoke, PostInvokeError,
         DispatchConfigError, Receive, ContextDone, Unregister, RefuseOutput, RecordStep,
         RecordRun, legVars, actorVars
    <2> QED
      BY <2>1, <2>2
  <1>2. CASE Deadline
    BY <1>2 DEF Deadline, legVars, actorVars
  <1>3. ASSUME NEW l \in Legs, LegStep(l) PROVE SoleInv'
    <2>1. CASE ExecuteApproved(l)
      <3>1. \E r \in Deciders : l = r
        BY <2>1 DEF ExecuteApproved, ApprovalInv
      <3>2. \A m \in Legs \ {l} : leg[m] # "resuming"
        BY <3>1 DEF ApprovalInv, SoleReviewer
      <3> QED
        BY <2>1, <3>2 DEF ExecuteApproved, actorVars
    <2>2. CASE AskApproval(l)
      BY <2>2 DEF AskApproval, actorVars
    <2>3. ASSUME NEW s \in {"ok", "failed"}, LegEnds(l, s) PROVE SoleInv'
      BY <2>3 DEF LegEnds, actorVars
    <2> QED
      BY <1>3, <2>1, <2>2, <2>3 DEF LegStep
  <1>4. ASSUME NEW l \in Legs, HandlerStep(l) PROVE SoleInv'
    <2>1. CASE MarkPending(l)
      BY <2>1 DEF MarkPending, actorVars
    <2>2. CASE CreateApproval(l)
      <3>1. CASE UNCHANGED <<approval, actor>>
        BY <2>2, <3>1 DEF CreateApproval
      <3>2. CASE approval = NoApproval /\ ApprovalsStored
        BY <2>2, <3>2 DEF CreateApproval, NoApproval, NoPolicy, ApprovalInv, DecidedStatus
      <3> QED
        BY <2>2, <3>1, <3>2 DEF CreateApproval
    <2>3. CASE LookupWaiter(l)
      BY <2>3 DEF LookupWaiter, actorVars
    <2>4. CASE SendCallback(l)
      BY <2>4 DEF SendCallback, actorVars
    <2> QED
      BY <1>4, <2>1, <2>2, <2>3, <2>4 DEF HandlerStep
  <1>5. ASSUME NEW l \in Legs, LegLost(l) PROVE SoleInv'
    BY <1>5 DEF LegLost, actorVars
  <1>6. ASSUME NEW d \in Deciders, NEW v \in Decisions, Decide(d, v) PROVE SoleInv'
    BY <1>6 DEF Decide, legVars, Decisions, ApprovalInv
  <1>7. CASE TimerFires
    BY <1>7 DEF TimerFires, legVars, ApprovalInv
  <1>8. ASSUME NEW a \in Actors, ActorStep(a) PROVE SoleInv'
    <2>1. CASE UpdateApproval(a)
      BY <2>1 DEF UpdateApproval, legVars, ApprovalInv, SoleReviewer, Approval,
                  DecidedStatus, ApprovalStatus
    <2>2. CASE PostResume(a)
      BY <2>2 DEF PostResume, StartLeg, ApprovalInv, ExecutedInv, ToolNeedsApproval,
                  SoleReviewer
    <2>3. CASE PostResumeError(a)
      BY <2>3 DEF PostResumeError, StartLeg, ApprovalInv, ExecutedInv, ToolNeedsApproval,
                  SoleReviewer
    <2>4. CASE SignalLookup(a)
      BY <2>4 DEF SignalLookup, legVars
    <2>5. CASE SignalSend(a)
      BY <2>5 DEF SignalSend, legVars
    <2> QED
      BY <1>8, <2>1, <2>2, <2>3, <2>4, <2>5 DEF ActorStep
  <1>9. CASE UNCHANGED vars
    BY <1>9 DEF vars
  <1>10. CASE AllQuiet
    BY <1>10 DEF AllQuiet, vars
  <1> QED
    BY <1>1, <1>2, <1>3, <1>4, <1>5, <1>6, <1>7, <1>8, <1>9, <1>10 DEF Next

\* With IInv it holds in every reachable state.
LEMMA SoleInvariance == ASSUME SoleReviewer PROVE Spec => [](IInv /\ SoleInv)
  <1>1. Init => IInv /\ SoleInv
    BY InvInit, SoleInit
  <1>2. IInv /\ SoleInv /\ [Next]_vars => (IInv /\ SoleInv)'
    BY InvStep, SoleStep
  <1> QED
    BY <1>1, <1>2, PTL DEF Spec

\* While the approval is pending nobody has an answer to the step.
LEMMA NoAnswerWhilePending ==
  ASSUME IInv, approval.status = "pending" PROVE result.status # "ok"
  <1>1. out[Dispatch] = "pending_approval"
    BY DEF IInv, ApprovalInv
  <1>2. \A a \in Actors : leg[a] = "none"
    BY DEF IInv, ApprovalInv, DecidedStatus
  <1> QED
    BY <1>1, <1>2 DEF IInv, RunnerInv, Legs

\* The step starts as GatedCall starts.
LEMMA GatedInit == Init => Gated!Init
  BY FS_EmptySet DEF Init, Gated!Init, NoApproval, NoPolicy

\* Every step of the agent step is a step of GatedCall, or none.
LEMMA GatedStep ==
  ASSUME SoleReviewer, IInv, SoleInv, [Next]_vars PROVE [Gated!Next]_(Gated!vars)
  <1> USE AgentStepAssumption DEF Gated!vars
  <1>1. CASE RunnerStep
    <2>1. UNCHANGED <<approval, executed>>
      BY <1>1 DEF RunnerStep, Register, PostInvoke, PostInvokeError,
         DispatchConfigError, Receive, ContextDone, Unregister, RefuseOutput, RecordStep,
         RecordRun, legVars
    <2>2. CASE RecordRun
      <3>1. run = "running"
        BY <2>2 DEF RecordRun, IInv, RunnerInv
      <3>2. CASE run' = run
        BY <2>1, <3>2
      <3>3. CASE run' = "failed"
        BY <2>1, <3>1, <3>3 DEF Gated!Next, Gated!End
      <3>4. CASE run' = "complete" /\ result.status = "ok"
        <4>1. approval.status # "pending"
          BY <3>4, NoAnswerWhilePending
        <4> QED
          BY <2>1, <3>1, <3>4, <4>1 DEF Gated!Next, Gated!End
      <3> QED
        BY <2>2, <3>2, <3>3, <3>4 DEF RecordRun
    <2>3. CASE UNCHANGED run
      BY <2>1, <2>3
    <2> QED
      BY <1>1, <2>2, <2>3 DEF RunnerStep, Register, PostInvoke, PostInvokeError,
         DispatchConfigError, Receive, ContextDone, Unregister, RefuseOutput, RecordStep
  <1>2. CASE Deadline
    BY <1>2 DEF Deadline, legVars
  <1>3. ASSUME NEW l \in Legs, LegStep(l) PROVE [Gated!Next]_(Gated!vars)
    <2>1. CASE ExecuteApproved(l)
      <3>1. /\ UNCHANGED <<approval, run>>
            /\ executed = {} /\ executed' = {<<approval.call, l>>}
        BY <2>1 DEF ExecuteApproved, SoleInv
      <3>2. Cardinality(executed) = 0 /\ Cardinality(executed') = 1
        BY <3>1, FS_EmptySet, FS_Singleton
      <3>3. l \in Actors /\ verdict[l] = "approved" /\ approval.status \in DecidedStatus
        BY <2>1 DEF ExecuteApproved, IInv, ApprovalInv, Legs
      <3>4. approval.status = "approved" \/ ~Uncontended
        BY <2>1, <3>3 DEF ExecuteApproved, SoleInv, Actors
      <3> QED
        BY <3>1, <3>2, <3>3, <3>4 DEF Gated!Next, Gated!Execute, Uncontended, DecidedStatus
    <2>2. CASE UNCHANGED <<approval, executed, run>>
      BY <2>2
    <2> QED
      BY <1>3, <2>1, <2>2 DEF LegStep, AskApproval, LegEnds
  <1>4. ASSUME NEW l \in Legs, HandlerStep(l) PROVE [Gated!Next]_(Gated!vars)
    <2>1. CASE CreateApproval(l) /\ approval = NoApproval /\ ApprovalsStored
      <3>1. UNCHANGED <<executed, run>> /\ approval'.status = "pending"
        BY <2>1 DEF CreateApproval
      <3>2. approval.status = "none"
        BY <2>1 DEF NoApproval
      <3>3. (approval'.policy.timeout # "none") \in BOOLEAN
        OBVIOUS
      <3> QED
        BY <3>1, <3>2, <3>3 DEF Gated!Next, Gated!Ask
    <2>2. CASE UNCHANGED <<approval, executed, run>>
      BY <2>2
    <2> QED
      BY <1>4, <2>1, <2>2 DEF HandlerStep, MarkPending, CreateApproval, LookupWaiter,
                              SendCallback
  <1>5. ASSUME NEW l \in Legs, LegLost(l) PROVE [Gated!Next]_(Gated!vars)
    BY <1>5 DEF LegLost
  <1>6. ASSUME NEW d \in Deciders, NEW v \in Decisions, Decide(d, v)
        PROVE  [Gated!Next]_(Gated!vars)
    BY <1>6 DEF Decide, legVars
  <1>7. CASE TimerFires
    BY <1>7 DEF TimerFires, legVars
  <1>8. ASSUME NEW a \in Actors, ActorStep(a) PROVE [Gated!Next]_(Gated!vars)
    <2>1. CASE UpdateApproval(a)
      <3>1. /\ UNCHANGED <<executed, run>>
            /\ approval'.status = verdict[a] /\ UNCHANGED approval.policy
        BY <2>1 DEF UpdateApproval, legVars, IInv, TypeOK, Approval
      <3>2. approval.status # "none" /\ verdict[a] \in DecidedStatus
        BY <2>1 DEF UpdateApproval, IInv, ApprovalInv
      <3>3. approval.status = "pending" \/ ~Uncontended
        BY <2>1 DEF UpdateApproval, SoleInv, Actors
      <3> QED
        BY <3>1, <3>2, <3>3 DEF Gated!Next, Gated!Decide, DecidedStatus, Uncontended
    <2>2. CASE UNCHANGED <<approval, executed, run>>
      BY <2>2
    <2> QED
      BY <1>8, <2>1, <2>2 DEF ActorStep, PostResume, PostResumeError, SignalLookup,
                              SignalSend, legVars
  <1>9. CASE UNCHANGED vars
    BY <1>9 DEF vars
  <1>10. CASE AllQuiet
    BY <1>10 DEF AllQuiet, vars
  <1> QED
    BY <1>1, <1>2, <1>3, <1>4, <1>5, <1>6, <1>7, <1>8, <1>9, <1>10 DEF Next

\* With one reviewer, and whatever else is lost, fails, passes its deadline or
\* asks again, the step keeps the promises of GatedCall.
THEOREM GatedCallImplemented == ASSUME SoleReviewer PROVE Spec => ImplementsGatedCall
  <1>1. IInv /\ SoleInv /\ [Next]_vars => [Gated!Next]_(Gated!vars)
    BY GatedStep
  <1> QED
    BY <1>1, GatedInit, SoleInvariance, PTL DEF Spec, ImplementsGatedCall, Gated!Spec

-----------------------------------------------------------------------------
(* No answer, usage or approval is lost.                                   *)

\* Every POST reaches the runtime once; legs and callbacks may be lost, a leg
\* may ask again, the dispatcher or the runner may fail the step.
RuntimeReached == "post" \notin Events

\* The baton.  One leg, actor or message has the step at any time: the first
\* leg until it answers or its request for approval is recorded, then the
\* reviewer, then the leg the reviewer started, then the channel, and at last
\* the runner, which waits until then or until the deadline.
OrderInv ==
  /\ runner \in {"register", "post", "wait"} => result.status = "failed"
  /\ Uncontended /\ ~expired =>
       /\ waiter <=> runner \in {"post", "wait", "unregister"}
       /\ inbox # <<>> => runner = "wait"
       /\ \A l \in Legs : LegWorking(l) => runner = "wait" /\ inbox = <<>>
       /\ \A a \in Actors : ActorWorking(a) => runner = "wait" /\ inbox = <<>>
       /\ approval.status = "pending" => runner = "wait" /\ inbox = <<>>
       /\ runner \in {"register", "post"} => approval = NoApproval
       /\ \/ approval = NoApproval
          \/ /\ approval.status # "none" /\ approval.call = Dispatch
             /\ approval.usage = {Dispatch} /\ leg[Dispatch] = "done"
       /\ \A a \in Actors :
            /\ actor[a] \in {"post", "lookup", "send"} => approval.status \in DecidedStatus
            /\ ActorWorking(a) => leg[a] = "none"
            /\ leg[a] # "none" => actor[a] = "ok"
       /\ step.status \in {"complete", "failed"} => runner \in {"recordRun", "done"}

\* At the start the step is the runner's.
LEMMA OrderInit == Init => OrderInv
  BY AgentStepAssumption
     DEF Init, OrderInv, LegWorking, ActorWorking, Failed, NoApproval, Legs, Actors

\* Every step passes the baton on or leaves it.
LEMMA OrderStep ==
  ASSUME SoleReviewer, RuntimeReached, IInv, SoleInv, OrderInv, [Next]_vars PROVE OrderInv'
  <1> USE AgentStepAssumption
      DEF RuntimeReached, OrderInv, SoleInv, IInv, TypeOK, Actors, Legs, Uncontended,
          LegWorking, ActorWorking
  <1>1. CASE RunnerStep
    <2>1. CASE Register
      BY <2>1 DEF Register, legVars, actorVars
    <2>2. CASE PostInvoke
      BY <2>2 DEF PostInvoke, actorVars, NoApproval
    <2>3. CASE PostInvokeError
      BY <2>3 DEF PostInvokeError
    <2>4. CASE DispatchConfigError
      BY <2>4 DEF DispatchConfigError, legVars, actorVars, NoApproval
    <2>5. CASE Receive
      <3>1. PICK p \in Payload : inbox = <<p>>
        BY <2>5 DEF Receive
      <3>2. inbox # <<>> /\ inbox' = <<>>
        BY <2>5, <3>1 DEF Receive
      <3> QED
        BY <2>5, <3>2 DEF Receive, legVars, actorVars
    <2>6. CASE ContextDone
      BY <2>6 DEF ContextDone
    <2>7. CASE Unregister
      BY <2>7 DEF Unregister, legVars, actorVars
    <2>8. CASE RefuseOutput
      BY <2>8 DEF RefuseOutput, legVars, actorVars
    <2>9. CASE RecordStep
      BY <2>9 DEF RecordStep, WritesSucceed, legVars, actorVars
    <2>10. CASE RecordRun
      BY <2>10 DEF RecordRun, legVars, actorVars
    <2> QED
      BY <1>1, <2>1, <2>2, <2>3, <2>4, <2>5, <2>6, <2>7, <2>8, <2>9, <2>10 DEF RunnerStep
  <1>2. CASE Deadline
    BY <1>2 DEF Deadline
  <1>3. ASSUME NEW l \in Legs, LegStep(l) PROVE OrderInv'
    <2>1. CASE ExecuteApproved(l)
      BY <2>1 DEF ExecuteApproved, actorVars
    <2>2. CASE AskApproval(l)
      BY <2>2 DEF AskApproval, actorVars
    <2>3. ASSUME NEW s \in {"ok", "failed"}, LegEnds(l, s) PROVE OrderInv'
      BY <2>3 DEF LegEnds, actorVars
    <2> QED
      BY <1>3, <2>1, <2>2, <2>3 DEF LegStep
  <1>4. ASSUME NEW l \in Legs, HandlerStep(l) PROVE OrderInv'
    <2>1. CASE MarkPending(l)
      BY <2>1 DEF MarkPending, actorVars
    <2>2. CASE CreateApproval(l)
      <3>1. CASE UNCHANGED <<approval, actor>>
        BY <2>2, <3>1 DEF CreateApproval
      <3>2. CASE approval = NoApproval /\ ApprovalsStored
        <4>1. l = Dispatch
          BY <2>2, <3>2 DEF CreateApproval, NoApproval, ApprovalInv, DecidedStatus
        <4> QED
          BY <2>2, <3>2, <4>1
             DEF CreateApproval, NoApproval, NoPolicy, ApprovalInv, DecidedStatus
      <3> QED
        BY <2>2, <3>1, <3>2 DEF CreateApproval
    <2>3. CASE LookupWaiter(l)
      BY <2>3 DEF LookupWaiter, actorVars
    <2>4. CASE SendCallback(l)
      BY <2>4 DEF SendCallback, actorVars, ApprovalInv, DecidedStatus, SoleReviewer,
                  NoApproval
    <2> QED
      BY <1>4, <2>1, <2>2, <2>3, <2>4 DEF HandlerStep
  <1>5. ASSUME NEW l \in Legs, LegLost(l) PROVE OrderInv'
    BY <1>5 DEF LegLost, actorVars
  <1>6. ASSUME NEW d \in Deciders, NEW v \in Decisions, Decide(d, v) PROVE OrderInv'
    BY <1>6 DEF Decide, legVars, ApprovalInv, NoApproval, DecidedStatus
  <1>7. CASE TimerFires
    BY <1>7 DEF TimerFires, legVars
  <1>8. ASSUME NEW a \in Actors, ActorStep(a) PROVE OrderInv'
    <2>1. CASE UpdateApproval(a)
      BY <2>1 DEF UpdateApproval, legVars, ApprovalInv, Approval, DecidedStatus,
                  NoApproval, SoleReviewer
    <2>2. CASE PostResume(a)
      BY <2>2 DEF PostResume, StartLeg, ApprovalInv
    <2>3. CASE PostResumeError(a)
      BY <2>3 DEF PostResumeError
    <2>4. CASE SignalLookup(a)
      BY <2>4 DEF SignalLookup, legVars
    <2>5. CASE SignalSend(a)
      BY <2>5 DEF SignalSend, legVars, NoApproval, ApprovalInv, SoleReviewer, DecidedStatus
    <2> QED
      BY <1>8, <2>1, <2>2, <2>3, <2>4, <2>5 DEF ActorStep
  <1>9. CASE UNCHANGED vars
    BY <1>9 DEF vars
  <1>10. CASE AllQuiet
    BY <1>10 DEF AllQuiet, vars
  <1> QED
    BY <1>1, <1>2, <1>3, <1>4, <1>5, <1>6, <1>7, <1>8, <1>9, <1>10 DEF Next

\* The legs that ran, and so spent tokens.
Ran == {l \in Legs : leg[l] # "none"}

\* Whoever carries the result of the step carries the usage of all legs that
\* ran for it.
UsageInv ==
  Uncontended /\ ~expired =>
    /\ \A i \in DOMAIN inbox : inbox[i].usage = Ran
    /\ runner \in {"unregister", "recordStep", "recordRun"} => result.usage = Ran
    /\ runner \in {"recordRun", "done"} => step.usage = Ran

\* Nothing is spent at the start.
LEMMA UsageInit == Init => UsageInv
  BY DEF Init, UsageInv

\* Every step keeps the usage of what has run.
LEMMA UsageStep ==
  ASSUME SoleReviewer, RuntimeReached, IInv, SoleInv, OrderInv, UsageInv, [Next]_vars
  PROVE  UsageInv'
  <1> USE AgentStepAssumption
      DEF RuntimeReached, OrderInv, SoleInv, UsageInv, IInv, TypeOK, Actors, Legs,
          Uncontended, LegWorking, ActorWorking, Ran
  <1>1. CASE RunnerStep
    <2>1. CASE Register
      BY <2>1 DEF Register, legVars, actorVars
    <2>2. CASE PostInvoke
      BY <2>2 DEF PostInvoke, actorVars
    <2>3. CASE PostInvokeError
      BY <2>3 DEF PostInvokeError
    <2>4. CASE DispatchConfigError
      <3>1. Uncontended /\ ~expired => \A l \in Legs : leg[l] = "none"
        BY <2>4 DEF DispatchConfigError, RunnerInv, ApprovalInv, NoApproval, DecidedStatus
      <3> QED
        BY <2>4, <3>1 DEF DispatchConfigError, legVars, actorVars, Failed
    <2>5. CASE Receive
      <3>1. PICK p \in Payload : inbox = <<p>>
        BY <2>5 DEF Receive
      <3>2. inbox' = <<>> /\ result' = p /\ inbox[1] = p /\ 1 \in DOMAIN inbox
        BY <2>5, <3>1 DEF Receive
      <3> QED
        BY <2>5, <3>2 DEF Receive, legVars, actorVars
    <2>6. CASE ContextDone
      BY <2>6 DEF ContextDone
    <2>7. CASE Unregister
      BY <2>7 DEF Unregister, legVars, actorVars
    <2>8. CASE RefuseOutput
      BY <2>8 DEF RefuseOutput, legVars, actorVars, Payload
    <2>9. CASE RecordStep
      BY <2>9 DEF RecordStep, WritesSucceed, legVars, actorVars
    <2>10. CASE RecordRun
      BY <2>10 DEF RecordRun, legVars, actorVars
    <2> QED
      BY <1>1, <2>1, <2>2, <2>3, <2>4, <2>5, <2>6, <2>7, <2>8, <2>9, <2>10 DEF RunnerStep
  <1>2. CASE Deadline
    BY <1>2 DEF Deadline
  <1>3. ASSUME NEW l \in Legs, LegStep(l) PROVE UsageInv'
    <2>1. CASE ExecuteApproved(l)
      BY <2>1 DEF ExecuteApproved, actorVars
    <2>2. CASE AskApproval(l)
      BY <2>2 DEF AskApproval, actorVars
    <2>3. ASSUME NEW s \in {"ok", "failed"}, LegEnds(l, s) PROVE UsageInv'
      BY <2>3 DEF LegEnds, actorVars
    <2> QED
      BY <1>3, <2>1, <2>2, <2>3 DEF LegStep
  <1>4. ASSUME NEW l \in Legs, HandlerStep(l) PROVE UsageInv'
    <2>1. CASE MarkPending(l)
      BY <2>1 DEF MarkPending, actorVars
    <2>2. CASE CreateApproval(l)
      BY <2>2 DEF CreateApproval, NoApproval, NoPolicy
    <2>3. CASE LookupWaiter(l)
      BY <2>3 DEF LookupWaiter, actorVars
    <2>4. CASE SendCallback(l)
      <3> SUFFICES ASSUME Uncontended, ~expired PROVE UsageInv'
        BY <2>4 DEF SendCallback
      <3>1. /\ UNCHANGED <<approval, result, step>> /\ runner = "wait" /\ runner' = runner
            /\ inbox' = <<CallbackOf(l)>> /\ Ran' = Ran
        BY <2>4 DEF SendCallback, actorVars
      <3>2. CASE l = Dispatch
        <4>1. approval = NoApproval
          BY <2>4, <3>2 DEF SendCallback
        <4>2. \A a \in Actors : leg[a] = "none"
          BY <4>1 DEF NoApproval, ApprovalInv, DecidedStatus
        <4>3. CallbackOf(l).usage = Ran
          BY <2>4, <3>2, <4>2 DEF SendCallback, CallbackOf
        <4> QED
          BY <3>1, <4>3
      <3>3. CASE l # Dispatch
        <4>1. CallbackOf(l).usage = {l, Dispatch}
          BY <2>4, <3>3 DEF SendCallback, CallbackOf, NoApproval, ApprovalInv, DecidedStatus
        <4>2. Ran = {l, Dispatch}
          BY <2>4, <3>3 DEF SendCallback, ApprovalInv, NoApproval, DecidedStatus,
                            SoleReviewer
        <4> QED
          BY <3>1, <4>1, <4>2
      <3> QED
        BY <3>2, <3>3
    <2> QED
      BY <1>4, <2>1, <2>2, <2>3, <2>4 DEF HandlerStep
  <1>5. ASSUME NEW l \in Legs, LegLost(l) PROVE UsageInv'
    BY <1>5 DEF LegLost, actorVars
  <1>6. ASSUME NEW d \in Deciders, NEW v \in Decisions, Decide(d, v) PROVE UsageInv'
    BY <1>6 DEF Decide, legVars
  <1>7. CASE TimerFires
    BY <1>7 DEF TimerFires, legVars
  <1>8. ASSUME NEW a \in Actors, ActorStep(a) PROVE UsageInv'
    <2>1. CASE UpdateApproval(a)
      BY <2>1 DEF UpdateApproval, legVars, Approval
    <2>2. CASE PostResume(a)
      BY <2>2 DEF PostResume, StartLeg
    <2>3. CASE PostResumeError(a)
      BY <2>3 DEF PostResumeError
    <2>4. CASE SignalLookup(a)
      BY <2>4 DEF SignalLookup, legVars
    <2>5. CASE SignalSend(a)
      <3> SUFFICES ASSUME Uncontended, ~expired PROVE UsageInv'
        BY <2>5 DEF SignalSend
      <3>1. Ran = approval.usage
        BY <2>5 DEF SignalSend, ApprovalInv, SoleReviewer, NoApproval, DecidedStatus
      <3> QED
        BY <2>5, <3>1 DEF SignalSend, legVars, Failed
    <2> QED
      BY <1>8, <2>1, <2>2, <2>3, <2>4, <2>5 DEF ActorStep
  <1>9. CASE UNCHANGED vars
    BY <1>9 DEF vars
  <1>10. CASE AllQuiet
    BY <1>10 DEF AllQuiet, vars
  <1> QED
    BY <1>1, <1>2, <1>3, <1>4, <1>5, <1>6, <1>7, <1>8, <1>9, <1>10 DEF Next

\* The runner has not replaced the stored record of the step yet, and would
\* still act on an answer.
Early == runner \in {"register", "post", "wait", "unregister", "recordStep"}

\* The step or the run succeeded, or the channel says that it will.
Succeeds ==
  \/ Early /\ \E i \in DOMAIN inbox : inbox[i].status = "ok"
  \/ result.status = "ok" \/ run = "complete"

\* The messages stored with the step hold the call the reviewer decides about
\* until the leg the reviewer started has read them or the runner replaced the
\* record, and a leg that ends well while the runner acts on its answer has
\* executed the call.
CallInv ==
  Uncontended =>
    /\ approval # NoApproval => approval.call = Dispatch /\ leg[Dispatch] = "done"
    /\ leg[Dispatch] \in {"none", "running"} => calls[Dispatch] = {}
    /\ leg[Dispatch] = "update" => calls[Dispatch] = {Dispatch}
    /\ Early =>
         /\ \/ leg[Dispatch] = "create" \/ approval.status = "pending"
            \/ \E a \in Actors : actor[a] \in {"update", "post"}
            => step.calls = {Dispatch}
         /\ \A d \in Deciders :
              leg[d] \notin {"none", "resuming", "lost"} /\ verdict[d] = "approved" =>
                executed # {} \/ out[d] = "failed"
    /\ approval.status = "approved" /\ Succeeds => executed # {}

\* No call is asked for at the start.
LEMMA CallInit == Init => CallInv
  <1> SUFFICES ASSUME Init PROVE CallInv
    OBVIOUS
  <1>1. \A a \in Actors : actor[a] \notin {"update", "post"}
    BY DEF Init
  <1>2. approval.status = "none"
    BY DEF Init, NoApproval
  <1>3. leg = [l \in Legs |-> "none"] /\ calls = [l \in Legs |-> {}]
    BY DEF Init
  <1>4. approval = NoApproval /\ executed = {} /\ \A l \in Legs : leg[l] = "none"
    BY DEF Init
  <1>5. ~Succeeds
    BY DEF Init, Succeeds, Failed
  <1> QED
    BY <1>1, <1>2, <1>3, <1>4, <1>5, AgentStepAssumption DEF CallInv, Legs, Actors

\* Every step keeps the call of a step that has a record.
LEMMA CallStep ==
  ASSUME SoleReviewer, Recorded, IInv, SoleInv, CallInv, [Next]_vars
  PROVE  CallInv'
  <1> USE AgentStepAssumption
      DEF SoleInv, CallInv, IInv, TypeOK, Actors, Legs, Uncontended, Early, Succeeds
  <1>1. CASE RunnerStep
    <2>1. CASE Register
      BY <2>1 DEF Register, legVars, actorVars
    <2>2. CASE PostInvoke
      BY <2>2 DEF PostInvoke, actorVars, RunnerInv
    <2>3. CASE PostInvokeError
      BY <2>3 DEF PostInvokeError, actorVars, Failed, RunnerInv
    <2>4. CASE DispatchConfigError
      BY <2>4 DEF DispatchConfigError, legVars, actorVars, Failed
    <2>5. CASE Receive
      <3>1. PICK p \in Payload : inbox = <<p>>
        BY <2>5 DEF Receive
      <3>2. inbox' = <<>> /\ result' = p /\ inbox[1] = p /\ 1 \in DOMAIN inbox
        BY <2>5, <3>1 DEF Receive
      <3> QED
        BY <2>5, <3>2 DEF Receive, legVars, actorVars
    <2>6. CASE ContextDone
      BY <2>6 DEF ContextDone, legVars, actorVars, Failed
    <2>7. CASE Unregister
      BY <2>7 DEF Unregister, legVars, actorVars
    <2>8. CASE RefuseOutput
      BY <2>8 DEF RefuseOutput, legVars, actorVars, Payload
    <2>9. CASE RecordStep
      BY <2>9 DEF RecordStep, legVars, actorVars
    <2>10. CASE RecordRun
      BY <2>10 DEF RecordRun, legVars, actorVars
    <2> QED
      BY <1>1, <2>1, <2>2, <2>3, <2>4, <2>5, <2>6, <2>7, <2>8, <2>9, <2>10 DEF RunnerStep
  <1>2. CASE Deadline
    BY <1>2 DEF Deadline, legVars, actorVars
  <1>3. ASSUME NEW l \in Legs, LegStep(l) PROVE CallInv'
    <2>1. CASE ExecuteApproved(l)
      BY <2>1 DEF ExecuteApproved, actorVars, ApprovalInv
    <2>2. CASE AskApproval(l)
      BY <2>2 DEF AskApproval, actorVars, LegInv
    <2>3. ASSUME NEW s \in {"ok", "failed"}, LegEnds(l, s) PROVE CallInv'
      BY <2>3 DEF LegEnds, actorVars, LegInv, ApprovalInv
    <2> QED
      BY <1>3, <2>1, <2>2, <2>3 DEF LegStep
  <1>4. ASSUME NEW l \in Legs, HandlerStep(l) PROVE CallInv'
    <2>1. CASE MarkPending(l)
      <3> SUFFICES ASSUME Uncontended PROVE CallInv'
        BY <2>1 DEF MarkPending
      <3>1. CASE l = Dispatch
        BY <2>1, <3>1 DEF MarkPending, actorVars
      <3>2. CASE l # Dispatch
        <4>1. approval.status # "pending" /\ leg[Dispatch] # "create"
          BY <2>1, <3>2 DEF MarkPending, ApprovalInv, DecidedStatus, NoApproval
        <4>2. \A a \in Actors : actor[a] \notin {"update", "post"}
          BY <2>1, <3>2 DEF MarkPending, SoleReviewer, ApprovalInv
        <4> QED
          BY <2>1, <3>2, <4>1, <4>2 DEF MarkPending, actorVars
      <3> QED
        BY <3>1, <3>2
    <2>2. CASE CreateApproval(l)
      <3>1. CASE UNCHANGED <<approval, actor>>
        BY <2>2, <3>1 DEF CreateApproval
      <3>2. CASE approval = NoApproval /\ ApprovalsStored
        <4>1. l = Dispatch
          BY <2>2, <3>2 DEF CreateApproval, NoApproval, ApprovalInv, DecidedStatus
        <4> QED
          BY <2>2, <3>2, <4>1
             DEF CreateApproval, NoApproval, NoPolicy, ApprovalInv, DecidedStatus
      <3> QED
        BY <2>2, <3>1, <3>2 DEF CreateApproval
    <2>3. CASE LookupWaiter(l)
      BY <2>3 DEF LookupWaiter, actorVars
    <2>4. CASE SendCallback(l)
      <3> SUFFICES ASSUME Uncontended PROVE CallInv'
        BY <2>4 DEF SendCallback
      <3>1. CallbackOf(l).status = "ok" /\ approval.status = "approved" /\ Early =>
              executed # {}
        BY <2>4 DEF SendCallback, CallbackOf, NoApproval, LegInv, ApprovalInv, DecidedStatus
      <3> QED
        BY <2>4, <3>1 DEF SendCallback, actorVars
    <2> QED
      BY <1>4, <2>1, <2>2, <2>3, <2>4 DEF HandlerStep
  <1>5. ASSUME NEW l \in Legs, LegLost(l) PROVE CallInv'
    BY <1>5 DEF LegLost, actorVars
  <1>6. ASSUME NEW d \in Deciders, NEW v \in Decisions, Decide(d, v) PROVE CallInv'
    BY <1>6 DEF Decide, legVars, ApprovalInv
  <1>7. CASE TimerFires
    BY <1>7 DEF TimerFires, legVars
  <1>8. ASSUME NEW a \in Actors, ActorStep(a) PROVE CallInv'
    <2>1. CASE UpdateApproval(a)
      <3> SUFFICES ASSUME Uncontended PROVE CallInv'
        BY <2>1 DEF UpdateApproval, Approval
      <3>1. ~Succeeds
        BY <2>1 DEF UpdateApproval, RunnerInv, ApprovalInv, SoleReviewer
      <3>2. approval # NoApproval /\ approval'.status \in DecidedStatus
        BY <2>1 DEF UpdateApproval, Approval, ApprovalInv, NoApproval
      <3> QED
        BY <2>1, <3>1, <3>2 DEF UpdateApproval, legVars, Approval, DecidedStatus
    <2>2. CASE PostResume(a)
      BY <2>2 DEF PostResume, StartLeg, ApprovalInv, DecidedStatus, NoApproval
    <2>3. CASE PostResumeError(a)
      BY <2>3 DEF PostResumeError, StartLeg, ApprovalInv, DecidedStatus, NoApproval
    <2>4. CASE SignalLookup(a)
      BY <2>4 DEF SignalLookup, legVars
    <2>5. CASE SignalSend(a)
      BY <2>5 DEF SignalSend, legVars, Failed
    <2> QED
      BY <1>8, <2>1, <2>2, <2>3, <2>4, <2>5 DEF ActorStep
  <1>9. CASE UNCHANGED vars
    BY <1>9 DEF vars
  <1>10. CASE AllQuiet
    BY <1>10 DEF AllQuiet, vars
  <1> QED
    BY <1>1, <1>2, <1>3, <1>4, <1>5, <1>6, <1>7, <1>8, <1>9, <1>10 DEF Next

-----------------------------------------------------------------------------

\* As long as the runtime is reached the invariants hold together in every
\* reachable state.
LEMMA OrderInvariance ==
  ASSUME SoleReviewer, RuntimeReached
  PROVE  Spec => [](IInv /\ SoleInv /\ OrderInv /\ UsageInv)
  <1>1. Init => IInv /\ SoleInv /\ OrderInv /\ UsageInv
    BY InvInit, SoleInit, OrderInit, UsageInit
  <1>2. IInv /\ SoleInv /\ OrderInv /\ UsageInv /\ [Next]_vars
          => (IInv /\ SoleInv /\ OrderInv /\ UsageInv)'
    BY InvStep, SoleStep, OrderStep, UsageStep
  <1> QED
    BY <1>1, <1>2, PTL DEF Spec

\* With one reviewer and no timer, and until timeout_s of the run passes, the
\* callback of every leg, and the failure of every rejection, finds the channel
\* that Dispatch registered: only its deadline makes Dispatch return before the
\* one that has the baton has sent.
THEOREM NoAnswerDropped ==
  ASSUME SoleReviewer, RuntimeReached PROVE Spec => []AnswerFindsWaiter
  <1>1. OrderInv => AnswerFindsWaiter
    BY DEF OrderInv, AnswerFindsWaiter, LegWorking, ActorWorking
  <1> QED
    BY <1>1, OrderInvariance, PTL

\* The usage stored with a run that ended before its deadline is that of the
\* first leg and of the leg the reviewer started, if there was one.
THEOREM UsageComplete ==
  ASSUME SoleReviewer, RuntimeReached PROVE Spec => []UsageAccounted
  <1>1. IInv /\ UsageInv => UsageAccounted
    BY DEF IInv, RunnerInv, TypeOK, RunStatus, UsageInv, UsageAccounted, Ran
  <1> QED
    BY <1>1, OrderInvariance, PTL

\* Until the deadline a late callback never puts a step that ended back to
\* pending_approval: no leg is at work any more when the runner records it.
THEOREM StepStaysClosed ==
  ASSUME SoleReviewer, RuntimeReached PROVE Spec => StepNeverReopens
  <1>1. OrderInv /\ [Next]_vars =>
          [Uncontended /\ ~expired /\ step.status \in {"complete", "failed"} =>
             step'.status = step.status]_vars
    <2> SUFFICES ASSUME OrderInv, Next, Uncontended, ~expired,
                        step.status \in {"complete", "failed"}
                 PROVE  step' = step
      BY DEF vars
    <2>1. runner \in {"recordRun", "done"} /\ \A l \in Legs : leg[l] # "update"
      BY DEF OrderInv, LegWorking
    <2>2. CASE RunnerStep
      BY <2>1, <2>2 DEF RunnerStep, Register, PostInvoke, PostInvokeError, Receive,
         DispatchConfigError, ContextDone, Unregister, RefuseOutput, RecordStep, RecordRun
    <2>3. CASE Deadline
      BY <2>3 DEF Deadline
    <2>4. ASSUME NEW l \in Legs, LegStep(l) \/ HandlerStep(l) \/ LegLost(l)
          PROVE  step' = step
      BY <2>1, <2>4 DEF LegStep, ExecuteApproved, AskApproval, LegEnds, HandlerStep,
         MarkPending, CreateApproval, LookupWaiter, SendCallback, LegLost
    <2>5. ASSUME NEW d \in Deciders, NEW v \in Decisions, Decide(d, v) PROVE step' = step
      BY <2>5 DEF Decide
    <2>6. CASE TimerFires
      BY <2>6 DEF TimerFires
    <2>7. ASSUME NEW a \in Actors, ActorStep(a) PROVE step' = step
      BY <2>7 DEF ActorStep, UpdateApproval, PostResume, PostResumeError, SignalLookup,
                  SignalSend
    <2>8. CASE AllQuiet
      BY <2>8 DEF AllQuiet, vars
    <2> QED
      BY <2>2, <2>3, <2>4, <2>5, <2>6, <2>7, <2>8 DEF Next
  <1> QED
    BY <1>1, OrderInvariance, PTL DEF Spec, StepNeverReopens

\* Whatever fails, is lost or passes its deadline: a run that completed although
\* its gated call was approved has executed the call.  redispatchApproved found
\* it in the messages handlePendingApproval stored with the step, or the runner
\* had given the step up and failed the run.
THEOREM ApprovalNotForgotten ==
  ASSUME SoleReviewer, Recorded PROVE Spec => []ApprovedRunExecuted
  <1>1. Init => CallInv
    BY CallInit
  <1>2. IInv /\ SoleInv /\ CallInv /\ [Next]_vars => CallInv'
    BY CallStep
  <1>3. CallInv => ApprovedRunExecuted
    BY DEF CallInv, Succeeds, ApprovedRunExecuted
  <1> QED
    BY <1>1, <1>2, <1>3, SoleInvariance, PTL DEF Spec
=============================================================================

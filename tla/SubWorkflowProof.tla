-------------------------- MODULE SubWorkflowProof --------------------------
(***************************************************************************)
(* Proofs about executeSubWorkflow, for every composition of workflows and *)
(* every depth of nesting. A call from the root up to its return is, seen  *)
(* from Pipeline, one step that returns an output or fails; so a           *)
(* composition implements Pipeline and has its properties. SubInv adds     *)
(* what nesting needs: all frames but the innermost wait in the step that  *)
(* called (ShapeInv), a frame runs what its path names (CallInv), a        *)
(* suppressed webhook is neither sent nor in hand (WebInv), the usage in   *)
(* the frames and in the records is what the agents below burnt            *)
(* (BurntInv), the records below a step that did not fail are complete or  *)
(* in hand (DoneInv), a frame has records only of steps it has been at     *)
(* (TraceInv), and a sub-run that is neither ended nor in hand was left    *)
(* for a cycle or an ID that is there twice (MemInv).                      *)
(***************************************************************************)
EXTENDS SubWorkflow, PipelineProof, SequenceTheorems

-----------------------------------------------------------------------------
(* The stack of calls.                                                     *)

Path     == Seq(Steps \cup SubSteps)
SubEntry == Path \X SubSteps
InHand   == {"condition", "execute", "reserved", "store", "fail", "failRun"}
Failing  == {"fail", "failRun"}
SubPC    == {"create", "next"} \cup InHand

Frame == [path : Path, sub : Subs, suppress : BOOLEAN, queue : Seq(SubSteps),
          pc : SubPC, spent : SUBSET SubEntry]

\* The step a frame is at.
Hand(f) == Head(f.queue)

\* The records of the sub-runs and of their steps.
Maps(f, V) == f \in [DOMAIN f -> V]
RunTypes   == Maps(subRun, {"running", "complete", "failed"})
StepTypes  == Maps(subStep, StepStatus)

SubTypes ==
  /\ call \in UNION {[S -> Call(Subs)] : S \in SUBSET Steps}
  /\ frames \in Seq(Frame)
  /\ RunTypes /\ StepTypes
  /\ metrics \in [Steps -> SUBSET SubEntry]
  /\ burnt \subseteq SubEntry /\ fired \subseteq SubEntry

\* The root waits in the step that called, and so does every frame but the top.
ShapeInv ==
  /\ \A i \in 1..Len(frames) : /\ frames[i].path # <<>> /\ frames[i].path[1] = cur
                               /\ frames[i].pc \in InHand => frames[i].queue # <<>>
  /\ \A i \in 1..(Len(frames) - 1) : frames[i].pc = "execute"
  /\ frames # <<>> => pc = "execute" /\ cur \in DOMAIN call
  /\ DOMAIN call \cap wf.agents = {}

\* What the code reads of a sub-workflow and of a step that calls one.
LEMMA SubFields ==
  ASSUME NEW w \in Subs
  PROVE  /\ w.order \in Seq(SubSteps)
         /\ w.cyclic \in BOOLEAN /\ w.allows \in BOOLEAN
         /\ \A s \in DOMAIN w.calls : w.calls[s] \in Call(Subs)
<1>1. w \in SubSet
  BY SubWorkflowAssumption
<1> QED BY <1>1 DEF SubSet

\* The sub-workflow of a call, and whether its webhooks are suppressed.
LEMMA CallFields ==
  ASSUME NEW k \in Call(Subs)
  PROVE  k.sub \in Subs /\ k.optsIn \in BOOLEAN /\ Suppressed(k) \in BOOLEAN
BY DEF Call, Suppressed

\* The calls of the root are those of its workflow steps.
LEMMA RootCalls ==
  ASSUME SubTypes, NEW s \in DOMAIN call
  PROVE  s \in Steps /\ call[s] \in Call(Subs)
BY DEF SubTypes

\* The fields of a frame, and of a frame that moves to another label.
LEMMA FrameFields ==
  ASSUME NEW f \in Frame
  PROVE  /\ f.path \in Path /\ f.sub \in Subs /\ f.suppress \in BOOLEAN
         /\ f.queue \in Seq(SubSteps) /\ f.pc \in SubPC /\ f.spent \subseteq SubEntry
         /\ f.queue # <<>> => Hand(f) \in SubSteps /\ <<f.path, Hand(f)>> \in SubEntry
<1>1. /\ f.path \in Path /\ f.sub \in Subs /\ f.suppress \in BOOLEAN
      /\ f.queue \in Seq(SubSteps) /\ f.pc \in SubPC /\ f.spent \subseteq SubEntry
  BY DEF Frame
<1> QED BY <1>1 DEF Hand, SubEntry

\* A frame at another label with other usage keeps its call and its queue.
LEMMA FrameMoves ==
  ASSUME NEW f \in Frame, NEW l \in SubPC, NEW m \in SUBSET SubEntry
  PROVE  LET g == [f EXCEPT !.pc = l, !.spent = m]
         IN /\ g \in Frame /\ g.path = f.path /\ g.sub = f.sub /\ g.suppress = f.suppress
            /\ g.queue = f.queue /\ g.pc = l /\ g.spent = m
BY DEF Frame

\* A frame at another label.
LEMMA FrameAt ==
  ASSUME NEW f \in Frame, NEW l \in SubPC
  PROVE  LET g == [f EXCEPT !.pc = l]
         IN /\ g \in Frame /\ g.path = f.path /\ g.sub = f.sub /\ g.suppress = f.suppress
            /\ g.queue = f.queue /\ g.pc = l /\ g.spent = f.spent
BY DEF Frame

\* A frame whose step returns an output with usage.
LEMMA FrameReturns ==
  ASSUME NEW f \in Frame, NEW used \in SUBSET SubEntry
  PROVE  LET g == [f EXCEPT !.pc = "reserved", !.spent = @ \cup used]
         IN /\ g \in Frame /\ g.path = f.path /\ g.sub = f.sub /\ g.suppress = f.suppress
            /\ g.queue = f.queue /\ g.pc = "reserved" /\ g.spent = f.spent \cup used
BY DEF Frame, SubPC, InHand

\* A frame that goes on with the rest of its queue.
LEMMA FrameNext ==
  ASSUME NEW f \in Frame, f.queue # <<>>
  PROVE  LET g == [f EXCEPT !.pc = "next", !.queue = Tail(@)]
         IN /\ g \in Frame /\ g.path = f.path /\ g.sub = f.sub /\ g.suppress = f.suppress
            /\ g.queue = Tail(f.queue) /\ g.pc = "next" /\ g.spent = f.spent
<1>1. Tail(f.queue) \in Seq(SubSteps)
  <2>1. PICK q \in Seq(SubSteps) : q = f.queue /\ q # <<>>
    BY FrameFields
  <2>2. Tail(q) \in Seq(SubSteps)
    BY <2>1
  <2> QED BY <2>1, <2>2
<1> QED BY <1>1 DEF Frame, SubPC

\* One element of a sequence is replaced.
LEMMA Replaced ==
  ASSUME NEW S, NEW s \in Seq(S), NEW i \in 1..Len(s), NEW v \in S
  PROVE  LET t == [s EXCEPT ![i] = v]
         IN /\ t \in Seq(S) /\ Len(t) = Len(s) /\ t[i] = v
            /\ \A j \in 1..Len(s) : j # i => t[j] = s[j]
OBVIOUS

\* The innermost call, and what a step does to the stack of calls.
LEMMA TopFacts ==
  ASSUME frames \in Seq(Frame), frames # <<>>
  PROVE  /\ Len(frames) \in Nat \ {0} /\ top = frames[Len(frames)] /\ top \in Frame
         /\ topStep = Hand(top) /\ entry = <<top.path, Hand(top)>>
BY DEF top, Last, topStep, Hand, entry

\* The innermost frame is replaced, those below it stay.
LEMMA GotoFacts ==
  ASSUME frames \in Seq(Frame), frames # <<>>, NEW f \in Frame, Goto(f)
  PROVE  /\ frames' \in Seq(Frame) /\ frames' # <<>>
         /\ Len(frames') = Len(frames) /\ frames'[Len(frames)] = f /\ top' = f
         /\ \A i \in 1..(Len(frames) - 1) : frames'[i] = frames[i]
<1>1. PICK L \in Nat \ {0} : L = Len(frames)
  OBVIOUS
<1>2. frames' = [frames EXCEPT ![L] = f]
  BY <1>1 DEF Goto
<1>3. frames' \in Seq(Frame) /\ Len(frames') = L /\ frames'[L] = f
  BY <1>1, <1>2
<1>4. \A i \in 1..(L - 1) : frames'[i] = frames[i]
  BY <1>1, <1>2
<1> QED BY <1>1, <1>3, <1>4 DEF top, Last

\* A frame is put on top of the others, which stay.
LEMMA PushFacts ==
  ASSUME frames \in Seq(Frame), NEW f \in Frame, frames' = Append(frames, f)
  PROVE  /\ frames' \in Seq(Frame) /\ frames' # <<>>
         /\ Len(frames') = Len(frames) + 1 /\ frames'[Len(frames')] = f /\ top' = f
         /\ \A i \in 1..Len(frames) : frames'[i] = frames[i]
BY DEF top, Last

\* The innermost frame is dropped and the one below it replaced.
LEMMA PopFacts ==
  ASSUME frames \in Seq(Frame), Len(frames) > 1, NEW g \in Frame,
         frames' = [Front(frames) EXCEPT ![Len(frames) - 1] = g]
  PROVE  /\ frames' \in Seq(Frame) /\ frames' # <<>>
         /\ Len(frames') = Len(frames) - 1 /\ frames'[Len(frames')] = g /\ top' = g
         /\ \A i \in 1..(Len(frames) - 2) : frames'[i] = frames[i]
<1>1. PICK L \in Nat \ {0, 1} : L = Len(frames)
  OBVIOUS
<1>2. PICK F \in Seq(Frame) : F = Front(frames) /\ Len(F) = L - 1
                             /\ \A i \in 1..(L - 1) : F[i] = frames[i]
  <2>1. Front(frames) \in Seq(Frame) /\ Len(Front(frames)) = L - 1
    BY <1>1 DEF Front
  <2>2. \A i \in 1..(L - 1) : Front(frames)[i] = frames[i]
    BY <1>1 DEF Front
  <2> QED BY <2>1, <2>2
<1>3. PICK n \in 1..Len(F) : n = L - 1 /\ frames' = [F EXCEPT ![n] = g]
  <2>1. L - 1 \in 1..Len(F)
    BY <1>1, <1>2
  <2>2. frames' = [F EXCEPT ![L - 1] = g]
    BY <1>1, <1>2
  <2> QED BY <2>1, <2>2
<1>4. /\ frames' \in Seq(Frame) /\ Len(frames') = L - 1 /\ frames'[L - 1] = g
      /\ \A i \in 1..Len(F) : i # L - 1 => frames'[i] = F[i]
  <2> DEFINE t == [F EXCEPT ![n] = g]
  <2>1. /\ t \in Seq(Frame) /\ Len(t) = Len(F) /\ t[n] = g
        /\ \A i \in 1..Len(F) : i # n => t[i] = F[i]
    BY Replaced
  <2>2. t = frames'
    BY <1>3
  <2> HIDE DEF t
  <2> QED BY <1>2, <1>3, <2>1, <2>2
<1>5. \A i \in 1..(L - 2) : frames'[i] = frames[i]
  BY <1>1, <1>2, <1>4
<1> QED BY <1>1, <1>4, <1>5 DEF top, Last


\* The frame that called the innermost one.
LEMMA CallerFacts ==
  ASSUME frames \in Seq(Frame), frames # <<>>, Len(frames) # 1
  PROVE  \E c \in Frame : /\ c = frames[Len(frames) - 1] /\ c = Front(frames)[Len(frames) - 1]
                          /\ Len(frames) > 1
<1>1. PICK L \in Nat \ {0, 1} : L = Len(frames)
  <2>1. Len(frames) \in Nat /\ Len(frames) # 0
    OBVIOUS
  <2> QED BY <2>1
<1>2. frames[L - 1] \in Frame
  <2>1. L - 1 \in 1..L
    BY <1>1
  <2> QED BY <1>1, <2>1
<1>3. Front(frames)[L - 1] = frames[L - 1]
  BY <1>1 DEF Front
<1> QED BY <1>1, <1>2, <1>3

\* The caller of the innermost call is told of an error, or gets an output.
LEMMA ErrorFacts ==
  ASSUME frames \in Seq(Frame), frames # <<>>, ReturnError
  PROVE  \/ Len(frames) = 1 /\ frames' = <<>> /\ pc' = "fail"
         \/ /\ Len(frames) > 1 /\ pc' = pc
            /\ frames' \in Seq(Frame) /\ frames' # <<>>
            /\ Len(frames') = Len(frames) - 1 /\ frames'[Len(frames')] = top' /\ top' \in Frame
            /\ \A i \in 1..(Len(frames) - 2) : frames'[i] = frames[i]
            /\ \E c \in Frame : /\ c = frames[Len(frames) - 1]
                                /\ top'.path = c.path /\ top'.sub = c.sub
                                /\ top'.suppress = c.suppress /\ top'.queue = c.queue
                                /\ top'.spent = c.spent /\ top'.pc = "fail"
<1>1. CASE Len(frames) = 1
  BY <1>1 DEF ReturnError
<1>2. CASE Len(frames) # 1
  <2>2. PICK c \in Frame : /\ c = frames[Len(frames) - 1] /\ c = Front(frames)[Len(frames) - 1]
                          /\ Len(frames) > 1
    BY <1>2, CallerFacts
  <2>3. PICK g \in Frame : /\ g = [c EXCEPT !.pc = "fail"]
                           /\ g.path = c.path /\ g.sub = c.sub /\ g.suppress = c.suppress
                           /\ g.queue = c.queue /\ g.pc = "fail" /\ g.spent = c.spent
    <3>1. "fail" \in SubPC
      BY DEF SubPC, InHand
    <3> QED BY <3>1, FrameAt
  <2>4. Resume([caller EXCEPT !.pc = "fail"]) /\ pc' = pc
    BY <1>2 DEF ReturnError
  <2>5. frames' = [Front(frames) EXCEPT ![Len(frames) - 1] = g]
    BY <2>2, <2>3, <2>4 DEF Resume, caller
  <2>6. /\ frames' \in Seq(Frame) /\ frames' # <<>>
        /\ Len(frames') = Len(frames) - 1 /\ frames'[Len(frames')] = g /\ top' = g
        /\ \A i \in 1..(Len(frames) - 2) : frames'[i] = frames[i]
    BY <2>2, <2>5, PopFacts
  <2> QED BY <2>2, <2>3, <2>4, <2>6
<1> QED BY <1>1, <1>2

\* The caller gets an output and usage: the record of the root step, or the frame
\* below.
LEMMA OutputFacts ==
  ASSUME frames \in Seq(Frame), frames # <<>>, NEW used \in SUBSET SubEntry,
         ReturnOutput(used)
  PROVE  \/ /\ Len(frames) = 1 /\ frames' = <<>> /\ pc' = "reserved"
            /\ metrics' = [metrics EXCEPT ![cur] = used]
         \/ /\ Len(frames) > 1 /\ pc' = pc /\ metrics' = metrics
            /\ frames' \in Seq(Frame) /\ frames' # <<>>
            /\ Len(frames') = Len(frames) - 1 /\ frames'[Len(frames')] = top' /\ top' \in Frame
            /\ \A i \in 1..(Len(frames) - 2) : frames'[i] = frames[i]
            /\ \E c \in Frame : /\ c = frames[Len(frames) - 1]
                                /\ top'.path = c.path /\ top'.sub = c.sub
                                /\ top'.suppress = c.suppress /\ top'.queue = c.queue
                                /\ top'.spent = c.spent \cup used /\ top'.pc = "reserved"
<1>1. CASE Len(frames) = 1
  BY <1>1 DEF ReturnOutput
<1>2. CASE Len(frames) # 1
  <2>2. PICK c \in Frame : /\ c = frames[Len(frames) - 1] /\ c = Front(frames)[Len(frames) - 1]
                          /\ Len(frames) > 1
    BY <1>2, CallerFacts
  <2>3. PICK g \in Frame : /\ g = [c EXCEPT !.pc = "reserved", !.spent = @ \cup used]
                           /\ g.path = c.path /\ g.sub = c.sub /\ g.suppress = c.suppress
                           /\ g.queue = c.queue /\ g.pc = "reserved"
                           /\ g.spent = c.spent \cup used
    BY FrameReturns
  <2>4. /\ Resume([caller EXCEPT !.pc = "reserved", !.spent = @ \cup used])
        /\ pc' = pc /\ metrics' = metrics
    BY <1>2 DEF ReturnOutput
  <2>5. frames' = [Front(frames) EXCEPT ![Len(frames) - 1] = g]
    BY <2>2, <2>3, <2>4 DEF Resume, caller
  <2>6. /\ frames' \in Seq(Frame) /\ frames' # <<>>
        /\ Len(frames') = Len(frames) - 1 /\ frames'[Len(frames')] = g /\ top' = g
        /\ \A i \in 1..(Len(frames) - 2) : frames'[i] = frames[i]
    BY <2>2, <2>5, PopFacts
  <2> QED BY <2>2, <2>3, <2>4, <2>6
<1> QED BY <1>1, <1>2

\* A call of executeSubWorkflow starts with a frame of its own.
LEMMA CallFacts ==
  ASSUME frames \in Seq(Frame), NEW k \in Call(Subs), NEW p \in Path, Push(k, p)
  PROVE  /\ frames' \in Seq(Frame) /\ frames' # <<>>
         /\ Len(frames') = Len(frames) + 1 /\ frames'[Len(frames')] = top' /\ top' \in Frame
         /\ \A i \in 1..Len(frames) : frames'[i] = frames[i]
         /\ top'.path = p /\ top'.sub = k.sub /\ top'.suppress = Suppressed(k)
         /\ top'.queue = k.sub.order /\ top'.pc = "create" /\ top'.spent = {}
<1>1. PICK f : f = [path |-> p, sub |-> k.sub, suppress |-> Suppressed(k),
                    queue |-> k.sub.order, pc |-> "create", spent |-> {}]
  OBVIOUS
<1>2. k.sub \in Subs /\ Suppressed(k) \in BOOLEAN /\ k.sub.order \in Seq(SubSteps)
  BY CallFields, SubFields
<1>3. f \in Frame
  BY <1>1, <1>2 DEF Frame, SubPC
<1>4. frames' = Append(frames, f)
  BY <1>1 DEF Push
<1> HIDE DEF Frame
<1>5. /\ frames' \in Seq(Frame) /\ frames' # <<>>
      /\ Len(frames') = Len(frames) + 1 /\ frames'[Len(frames')] = f /\ top' = f
      /\ \A i \in 1..Len(frames) : frames'[i] = frames[i]
  BY <1>3, <1>4, PushFacts
<1>6. /\ f.path = p /\ f.sub = k.sub /\ f.suppress = Suppressed(k)
      /\ f.queue = k.sub.order /\ f.pc = "create" /\ f.spent = {}
  BY <1>1
<1> QED BY <1>3, <1>5, <1>6


-----------------------------------------------------------------------------
(* A composition does what Pipeline does: a nested call is a part of the   *)
(* execution of one step, which returns or fails at the end of it.         *)

\* The store that the server was started with does not change, nor the workflow.
LEMMA InputStays ==
  ASSUME [Next]_vars PROVE store' = store /\ wf' = wf
BY DEF Next, ExecuteStep, CreateRun, CreateStep, EvalCondition, StepReturns, StepErrors, Judge,
   StoreStep, FailStep, FailRun, CompleteRun, Suspend, SuspendLate, Expire, Returned, vars, input

Nested == SubStep \/ SubDispatchFails
Outside == (Suspend \/ SuspendLate \/ Expire \/ Returned) /\ UNCHANGED subVars

\* A nested step changes nothing of the root but, at the end of the call, the
\* label, and it is a step of the innermost frame or a call of the root.
LEMMA NestedFacts ==
  ASSUME SubTypes, ShapeInv, Nested
  PROVE  /\ UNCHANGED runVars /\ UNCHANGED call /\ pc = "execute" /\ cur \in DOMAIN call
         /\ cur' = cur
         /\ \/ pc' = pc
            \/ pc' \in {"fail", "reserved"} /\ frames' = <<>>
<1>0. frames \in Seq(Frame)
  BY DEF SubTypes
<1>1. ASSUME frames # <<>>, ReturnError
      PROVE  pc' = pc \/ (pc' = "fail" /\ frames' = <<>>)
  BY <1>0, <1>1, ErrorFacts
<1>2. ASSUME frames # <<>>, NEW used, ReturnOutput(used)
      PROVE  pc' = pc \/ (pc' = "reserved" /\ frames' = <<>>)
  BY <1>2 DEF ReturnOutput
<1>4. CASE CallRoot
  BY <1>4 DEF CallRoot, runVars, cur, Push
<1>5. CASE CallNested
  BY <1>5 DEF CallNested, runVars, vars, cur, ShapeInv
<1>6. CASE SubCreateRun
  BY <1>1, <1>6 DEF SubCreateRun, runVars, cur, ShapeInv
<1>7. CASE SubCreateStep
  BY <1>1, <1>7 DEF SubCreateStep, runVars, cur, ShapeInv
<1>8. CASE SubCondition
  BY <1>8 DEF SubCondition, runVars, vars, cur, ShapeInv
<1>9. CASE SubExecute
  BY <1>9 DEF SubExecute, runVars, vars, cur, ShapeInv
<1>10. CASE SubJudge
  BY <1>10 DEF SubJudge, runVars, vars, cur, ShapeInv
<1>11. CASE SubStore
  BY <1>1, <1>11 DEF SubStore, runVars, cur, ShapeInv
<1>12. CASE SubFailStep
  BY <1>12 DEF SubFailStep, runVars, vars, cur, ShapeInv
<1>13. CASE SubFailRun
  BY <1>1, <1>13 DEF SubFailRun, runVars, cur, ShapeInv
<1>14. CASE SubComplete
  BY <1>1, <1>2, <1>14 DEF SubComplete, runVars, cur, ShapeInv
<1>15. CASE SubDispatchFails
  BY <1>15 DEF SubDispatchFails, runVars, vars, cur, ShapeInv
<1> QED
  BY <1>4, <1>5, <1>6, <1>7, <1>8, <1>9, <1>10, <1>11, <1>12, <1>13, <1>14, <1>15
     DEF Nested, SubStep

\* Every step of a composition is a step of Pipeline or none.
LEMMA CompositionStep ==
  PipeInv /\ SubTypes /\ ShapeInv /\ [SubNext]_allVars => [Next]_vars
<1> SUFFICES ASSUME PipeInv, SubTypes, ShapeInv, [SubNext]_allVars PROVE [Next]_vars
  OBVIOUS
<1>1. CASE RootStep
  BY <1>1 DEF RootStep, Next
<1>2. CASE Nested
  <2>1. /\ UNCHANGED runVars /\ pc = "execute"
        /\ pc' = pc \/ pc' \in {"fail", "reserved"}
    BY <1>2, NestedFacts
  <2>2. step[cur] # "pending_approval" /\ cur \in DOMAIN call
    <3>1. cur \in DOMAIN call /\ cur \in Steps
      BY <1>2, NestedFacts, RootCalls
    <3>2. cur \notin wf.agents
      BY <3>1 DEF ShapeInv
    <3> QED BY <3>1, <3>2 DEF PipeInv, RecordInv
  <2>3. CASE pc' = pc
    BY <2>1, <2>3 DEF runVars, vars
  <2>4. CASE pc' = "reserved"
    BY <2>1, <2>2, <2>4 DEF runVars, StepReturns, Next, ExecuteStep
  <2>5. CASE pc' = "fail"
    BY <2>1, <2>5 DEF runVars, StepErrors, Next, ExecuteStep
  <2> QED BY <2>1, <2>3, <2>4, <2>5
<1>3. CASE Outside
  BY <1>3 DEF Outside, Next
<1>4. CASE UNCHANGED allVars
  BY <1>4 DEF allVars
<1> QED BY <1>1, <1>2, <1>3, <1>4 DEF SubNext, Nested, Outside


-----------------------------------------------------------------------------
(* What a nested step does to the stack: the innermost frame goes on, it   *)
(* returns to its caller, or it calls.                                     *)

SameCall(f, g) == f.path = g.path /\ f.sub = g.sub /\ f.suppress = g.suppress

\* The frame f is the innermost one gone on: with its first step, with its next
\* one, or with the same one at another label.
Advances(f) ==
  \/ f.pc = "next" /\ top.pc = "create" /\ f.queue = top.queue
  \/ /\ f.pc = "next" /\ top.pc \in InHand \cup {"next"}
     /\ top.queue # <<>> /\ f.queue = Tail(top.queue)
  \/ /\ f.pc \in InHand /\ f.queue = top.queue /\ f.queue # <<>>
     /\ \/ top.pc \in InHand
        \/ top.pc = "next" /\ ~(top.suppress /\ topStep \in top.sub.webhooks)

Going == frames # <<>> /\ \E f \in Frame : Goto(f) /\ SameCall(f, top) /\ Advances(f)

Returning == frames # <<>> /\ (ReturnError \/ \E used \in SUBSET SubEntry : ReturnOutput(used))

CallingFrom(k, p) ==
  \/ frames = <<>> /\ p = <<cur>> /\ k = call[cur]
  \/ /\ frames # <<>> /\ top.pc = "execute" /\ topStep \in DOMAIN top.sub.calls
     /\ p = Append(top.path, topStep) /\ k = top.sub.calls[topStep]

Calling == \E k \in Call(Subs), p \in Path : Push(k, p) /\ CallingFrom(k, p)

\* A frame that is at a step has one, and it is in the sub-workflow of the call.
LEMMA HandFacts ==
  ASSUME SubTypes, ShapeInv, frames # <<>>
  PROVE  /\ top \in Frame /\ top.path \in Path /\ top.path # <<>> /\ top.path[1] = cur
         /\ top.sub \in Subs /\ top.spent \subseteq SubEntry
         /\ top.pc \in InHand => top.queue # <<>>
         /\ top.queue # <<>> => topStep \in SubSteps /\ entry \in SubEntry
         /\ topStep = Hand(top) /\ entry = <<top.path, Hand(top)>>
<1>1. frames \in Seq(Frame)
  BY DEF SubTypes
<1>2. /\ Len(frames) \in Nat \ {0} /\ top = frames[Len(frames)] /\ top \in Frame
      /\ topStep = Hand(top) /\ entry = <<top.path, Hand(top)>>
  BY <1>1, TopFacts
<1>3. /\ top.path # <<>> /\ top.path[1] = cur
      /\ top.pc \in InHand => top.queue # <<>>
  BY <1>2 DEF ShapeInv
<1>4. /\ top.path \in Path /\ top.sub \in Subs /\ top.spent \subseteq SubEntry
      /\ top.queue # <<>> => Hand(top) \in SubSteps /\ <<top.path, Hand(top)>> \in SubEntry
  BY <1>2, FrameFields
<1> QED BY <1>2, <1>3, <1>4

\* The innermost frame at another label of the same step, and at the next step.
LEMMA AtFacts ==
  ASSUME top \in Frame, NEW l \in SubPC
  PROVE  /\ At(l) \in Frame /\ SameCall(At(l), top) /\ At(l).queue = top.queue
         /\ At(l).pc = l /\ At(l).spent = top.spent
BY FrameAt DEF At, SameCall

\* The innermost frame goes on with its next step.
LEMMA NextFacts ==
  ASSUME top \in Frame, top.queue # <<>>
  PROVE  /\ NextStep \in Frame /\ SameCall(NextStep, top) /\ NextStep.queue = Tail(top.queue)
         /\ NextStep.pc = "next" /\ NextStep.spent = top.spent
BY FrameNext DEF NextStep, SameCall

\* The labels that the actions name.
LEMMA Labels ==
  /\ {"condition", "execute", "reserved", "store", "fail", "failRun"} \subseteq InHand
  /\ InHand \subseteq SubPC /\ "next" \in SubPC /\ "create" \in SubPC
  /\ "next" \notin InHand /\ "create" \notin InHand
BY DEF SubPC, InHand

\* The innermost frame goes on to a label of the same step.
LEMMA GoingAt ==
  ASSUME SubTypes, ShapeInv, frames # <<>>, NEW l \in SubPC,
         \/ l = "next" /\ top.pc = "create"
         \/ /\ l \in InHand /\ top.queue # <<>>
            /\ \/ top.pc \in InHand
               \/ top.pc = "next" /\ ~(top.suppress /\ topStep \in top.sub.webhooks),
         Goto(At(l))
  PROVE  Going
<1>1. top \in Frame
  BY HandFacts
<1>2. At(l) \in Frame /\ SameCall(At(l), top) /\ At(l).queue = top.queue /\ At(l).pc = l
  BY <1>1, AtFacts
<1>3. Advances(At(l))
  BY <1>2 DEF Advances
<1> QED BY <1>2, <1>3 DEF Going

\* The innermost frame goes on to the next step of its queue.
LEMMA GoingNext ==
  ASSUME SubTypes, ShapeInv, frames # <<>>, top.queue # <<>>,
         top.pc \in InHand \cup {"next"}, Goto(NextStep)
  PROVE  Going
<1>1. top \in Frame
  BY HandFacts
<1>2. /\ NextStep \in Frame /\ SameCall(NextStep, top) /\ NextStep.pc = "next"
      /\ NextStep.queue = Tail(top.queue)
  BY <1>1, NextFacts
<1>3. Advances(NextStep)
  BY <1>2 DEF Advances
<1> QED BY <1>2, <1>3 DEF Going

\* Where a step of the innermost frame that returns an output goes.
Got(used) == [At("reserved") EXCEPT !.spent = @ \cup used]

\* The innermost frame with the usage of its step added.
LEMMA GotFacts ==
  ASSUME top \in Frame, NEW used \in SUBSET SubEntry
  PROVE  /\ Got(used) \in Frame /\ SameCall(Got(used), top) /\ Got(used).queue = top.queue
         /\ Got(used).pc = "reserved" /\ Got(used).spent = top.spent \cup used
<1>1. PICK f \in Frame : /\ f = At("reserved") /\ SameCall(f, top) /\ f.queue = top.queue
                         /\ f.pc = "reserved" /\ f.spent = top.spent
  BY AtFacts, Labels
<1>2. PICK m \in SUBSET SubEntry : m = f.spent \cup used
  BY <1>1, FrameFields
<1>3. Got(used) = [f EXCEPT !.spent = m]
  BY <1>1, <1>2 DEF Got
<1>4. LET g == [f EXCEPT !.spent = m]
      IN /\ g \in Frame /\ g.path = f.path /\ g.sub = f.sub /\ g.suppress = f.suppress
         /\ g.queue = f.queue /\ g.pc = f.pc /\ g.spent = m
  BY DEF Frame
<1> QED BY <1>1, <1>2, <1>3, <1>4 DEF SameCall

\* Each action of a nested call does one of the three things to the stack.
LEMMA NestedMoves ==
  ASSUME SubTypes, ShapeInv, Nested
  PROVE  Going \/ Returning \/ Calling \/ (frames = <<>> /\ frames' = <<>>)
<1>1. CASE CallRoot
  <2>1. cur \in Steps /\ call[cur] \in Call(Subs) /\ <<cur>> \in Path
    BY <1>1, RootCalls DEF CallRoot, Path
  <2>2. CASE Push(call[cur], <<cur>>)
    <3>1. CallingFrom(call[cur], <<cur>>)
      BY <1>1 DEF CallRoot, CallingFrom
    <3> QED BY <2>1, <2>2, <3>1 DEF Calling
  <2> QED BY <1>1, <2>2 DEF CallRoot
<1>2. ASSUME frames # <<>>, top.pc \in InHand
      PROVE  /\ top \in Frame /\ top.queue # <<>>
             /\ topStep \in SubSteps /\ entry \in SubEntry /\ top.sub \in Subs
             /\ top.path \in Path
  BY <1>2, HandFacts
<1>3. CASE CallNested
  <2>1. /\ frames # <<>> /\ top.pc = "execute" /\ topStep \in DOMAIN top.sub.calls
        /\ \/ Push(top.sub.calls[topStep], Append(top.path, topStep))
           \/ Goto(At("fail"))
    BY <1>3 DEF CallNested
  <2>2. /\ top \in Frame /\ top.queue # <<>> /\ top.sub \in Subs
        /\ topStep \in SubSteps /\ top.path \in Path
    BY <1>2, <2>1, Labels
  <2>3. top.sub.calls[topStep] \in Call(Subs) /\ Append(top.path, topStep) \in Path
    BY <2>1, <2>2, SubFields DEF Path
  <2>4. CASE Push(top.sub.calls[topStep], Append(top.path, topStep))
    <3>1. CallingFrom(top.sub.calls[topStep], Append(top.path, topStep))
      BY <2>1 DEF CallingFrom
    <3> QED BY <2>3, <2>4, <3>1 DEF Calling
  <2>5. CASE Goto(At("fail"))
    BY <2>1, <2>2, <2>5, GoingAt, Labels
  <2> QED BY <2>1, <2>4, <2>5
<1>4. CASE SubCreateRun
  <2>1. CASE Goto(At("next"))
    BY <1>4, <2>1, GoingAt, Labels DEF SubCreateRun
  <2> QED BY <1>4, <2>1 DEF SubCreateRun, Returning
<1>5. CASE SubCreateStep
  <2>1. frames # <<>> /\ top.queue # <<>> /\ top.pc = "next"
    BY <1>5 DEF SubCreateStep
  <2>2. CASE Goto(NextStep)
    BY <2>1, <2>2, GoingNext
  <2>3. CASE /\ Goto(At("condition")) \/ Goto(At("execute"))
             /\ ~(top.suppress /\ topStep \in top.sub.webhooks)
    BY <2>1, <2>3, GoingAt, Labels
  <2>4. \/ Goto(NextStep) \/ ReturnError
        \/ /\ Goto(At("condition")) \/ Goto(At("execute"))
           /\ ~(top.suppress /\ topStep \in top.sub.webhooks)
    BY <1>5 DEF SubCreateStep
  <2> QED BY <2>1, <2>2, <2>3, <2>4 DEF Returning
<1>6. ASSUME frames # <<>>, top.pc \in InHand, Goto(NextStep) PROVE Going
  BY <1>2, <1>6, GoingNext
<1>7. ASSUME frames # <<>>, top.pc \in InHand, NEW l \in InHand, Goto(At(l)) PROVE Going
  BY <1>2, <1>7, GoingAt, Labels
<1>8. CASE SubCondition
  <2>1. frames # <<>> /\ top.pc \in InHand /\ (Goto(NextStep) \/ Goto(At("execute")))
    BY <1>8, Labels DEF SubCondition, Skip
  <2> QED BY <2>1, <1>6, <1>7, Labels
<1>9. CASE SubExecute
  <2>1. PICK used : /\ used = (IF topStep \in top.sub.agents THEN {entry} ELSE {})
                    /\ Goto(Got(used)) \/ Goto(At("fail"))
    BY <1>9 DEF SubExecute, Got
  <2>2. frames # <<>> /\ top.pc \in InHand
    BY <1>9, Labels DEF SubExecute
  <2>3. CASE Goto(Got(used))
    <3>1. used \in SUBSET SubEntry
      BY <1>2, <2>1, <2>2
    <3>2. Got(used) \in Frame /\ SameCall(Got(used), top) /\ Got(used).queue = top.queue
      BY <1>2, <2>2, <3>1, GotFacts
    <3>3. Advances(Got(used))
      BY <1>2, <2>2, <3>1, <3>2, GotFacts, Labels DEF Advances
    <3> QED BY <2>2, <2>3, <3>2, <3>3 DEF Going
  <2> QED BY <1>7, <2>1, <2>2, <2>3, Labels
<1>10. CASE SubJudge
  <2>1. /\ frames # <<>> /\ top.pc \in InHand
        /\ Goto(NextStep) \/ Goto(At("fail")) \/ Goto(At("store"))
    BY <1>10, Labels DEF SubJudge, Skip
  <2> QED BY <2>1, <1>6, <1>7, Labels
<1>11. CASE SubStore
  <2>1. /\ frames # <<>> /\ top.pc \in InHand
        /\ Goto(NextStep) \/ ReturnError
    BY <1>11, Labels DEF SubStore
  <2> QED BY <2>1, <1>6 DEF Returning
<1>12. CASE SubFailStep
  <2>1. frames # <<>> /\ top.pc \in InHand /\ Goto(At("failRun"))
    BY <1>12, Labels DEF SubFailStep
  <2> QED BY <2>1, <1>7, Labels
<1>13. CASE SubFailRun
  BY <1>13 DEF SubFailRun, Returning
<1>14. CASE SubComplete
  <2>1. frames # <<>> /\ (ReturnOutput(top.spent) \/ ReturnError)
    BY <1>14 DEF SubComplete
  <2>2. top.spent \in SUBSET SubEntry
    BY <2>1, HandFacts
  <2> QED BY <2>1, <2>2 DEF Returning
<1>15. CASE SubDispatchFails
  <2>1. frames # <<>> /\ top.pc \in InHand /\ Goto(At("fail"))
    BY <1>15, Labels DEF SubDispatchFails
  <2> QED BY <2>1, <1>7, Labels
<1> QED
  BY <1>1, <1>3, <1>4, <1>5, <1>8, <1>9, <1>10, <1>11, <1>12, <1>13, <1>14, <1>15
     DEF Nested, SubStep

\* The root waits in the step that called, and every caller in its own.
LEMMA ShapeStep ==
  ASSUME PipeInv, SubTypes, ShapeInv, [SubNext]_allVars
  PROVE  frames' \in Seq(Frame) /\ ShapeInv'
<1>0. frames \in Seq(Frame)
  BY DEF SubTypes
<1>d. DOMAIN call' \cap wf'.agents = {}
  <2>1. call' = call
    BY NestedFacts DEF SubNext, Nested, RootStep, subVars, allVars
  <2>2. [Next]_vars
    BY CompositionStep
  <2>3. wf' = wf
    BY <2>2, InputStays
  <2> QED BY <2>1, <2>3 DEF ShapeInv
<1>1. CASE frames = <<>> /\ frames' = <<>>
  BY <1>1, <1>d DEF ShapeInv
<1>2. CASE Nested /\ ~(frames = <<>> /\ frames' = <<>>)
  <2>1. /\ UNCHANGED call /\ pc = "execute" /\ cur \in DOMAIN call /\ cur' = cur
        /\ pc' = pc \/ frames' = <<>>
    BY <1>2, NestedFacts
  <2>2. CASE frames' = <<>>
    BY <1>d, <2>2 DEF ShapeInv
  <2> SUFFICES ASSUME frames' # <<>> PROVE frames' \in Seq(Frame) /\ ShapeInv'
    BY <2>2
  <2>3. pc' = "execute" /\ cur' \in DOMAIN call'
    BY <2>1
  <2>4. CASE Going
    <3>1. PICK f \in Frame : /\ Goto(f) /\ SameCall(f, top)
                             /\ f.pc \in InHand => f.queue # <<>>
      BY <2>4, Labels DEF Going, Advances
    <3>2. frames # <<>>
      BY <2>4 DEF Going
    <3>3. /\ frames' \in Seq(Frame) /\ Len(frames') = Len(frames)
          /\ frames'[Len(frames)] = f
          /\ \A i \in 1..(Len(frames) - 1) : frames'[i] = frames[i]
      BY <1>0, <3>1, <3>2, GotoFacts
    <3>4. f.path # <<>> /\ f.path[1] = cur
      BY <3>1, <3>2, HandFacts DEF SameCall
    <3>5. ASSUME NEW i \in 1..Len(frames')
          PROVE  /\ frames'[i].path # <<>> /\ frames'[i].path[1] = cur
                 /\ frames'[i].pc \in InHand => frames'[i].queue # <<>>
      <4>1. CASE i = Len(frames)
        BY <3>1, <3>3, <3>4, <4>1
      <4>2. CASE i # Len(frames)
        <5>1. i \in 1..(Len(frames) - 1) /\ i \in 1..Len(frames)
          BY <1>0, <3>3, <4>2
        <5> QED BY <3>3, <5>1 DEF ShapeInv
      <4> QED BY <4>1, <4>2
    <3>6. \A i \in 1..(Len(frames') - 1) : frames'[i].pc = "execute"
      BY <3>3 DEF ShapeInv
    <3> QED BY <1>d, <2>1, <2>3, <3>3, <3>5, <3>6 DEF ShapeInv
  <2>5. CASE Returning
    <3>1. PICK c \in Frame :
            /\ Len(frames) > 1 /\ c = frames[Len(frames) - 1]
            /\ frames' \in Seq(Frame) /\ Len(frames') = Len(frames) - 1
            /\ \A i \in 1..(Len(frames) - 2) : frames'[i] = frames[i]
            /\ frames'[Len(frames')].path = c.path /\ frames'[Len(frames')].queue = c.queue
      BY <1>0, <2>5, ErrorFacts, OutputFacts DEF Returning
    <3>2. PICK n \in Nat : n = Len(frames') /\ n + 1 = Len(frames)
      BY <1>0, <3>1
    <3>3. ASSUME NEW i \in 1..Len(frames')
          PROVE  /\ frames'[i].path # <<>> /\ frames'[i].path[1] = cur
                 /\ frames'[i].pc \in InHand => frames'[i].queue # <<>>
      <4>1. i \in 1..Len(frames) /\ i \in 1..(Len(frames) - 1)
        BY <3>2
      <4>2. /\ frames[i].path # <<>> /\ frames[i].path[1] = cur
            /\ frames[i].queue # <<>>
        BY <4>1, Labels DEF ShapeInv
      <4>3. CASE i = n
        <5>1. c = frames[i]
          BY <3>1, <3>2, <4>3
        <5> QED BY <3>1, <3>2, <4>2, <4>3, <5>1
      <4>4. CASE i # n
        <5>1. i \in 1..(Len(frames) - 2)
          BY <3>2, <4>4
        <5> QED BY <3>1, <4>2, <5>1
      <4> QED BY <4>3, <4>4
    <3>4. ASSUME NEW i \in 1..(Len(frames') - 1) PROVE frames'[i].pc = "execute"
      <4>1. i \in 1..(Len(frames) - 2) /\ i \in 1..(Len(frames) - 1)
        BY <3>2
      <4> QED BY <3>1, <4>1 DEF ShapeInv
    <3> QED BY <1>d, <2>1, <2>3, <3>1, <3>3, <3>4 DEF ShapeInv
  <2>6. CASE Calling
    <3>1. PICK k \in Call(Subs), p \in Path : Push(k, p) /\ CallingFrom(k, p)
      BY <2>6 DEF Calling
    <3>2. /\ frames' \in Seq(Frame) /\ Len(frames') = Len(frames) + 1
          /\ frames'[Len(frames')].path = p /\ frames'[Len(frames')].pc = "create"
          /\ \A i \in 1..Len(frames) : frames'[i] = frames[i]
      BY <1>0, <3>1, CallFacts
    <3>3. p # <<>> /\ p[1] = cur
      <4>1. CASE frames = <<>>
        BY <3>1, <4>1 DEF CallingFrom
      <4>2. CASE frames # <<>>
        <5>1. top.path \in Path /\ top.path # <<>> /\ top.path[1] = cur
          BY <4>2, HandFacts
        <5>2. p = Append(top.path, topStep)
          BY <3>1, <4>2 DEF CallingFrom
        <5> QED BY <5>1, <5>2 DEF Path
      <4> QED BY <4>1, <4>2
    <3>4. PICK n \in Nat : n = Len(frames) /\ Len(frames') = n + 1
      BY <1>0, <3>2
    <3>5. ASSUME NEW i \in 1..Len(frames')
          PROVE  /\ frames'[i].path # <<>> /\ frames'[i].path[1] = cur
                 /\ frames'[i].pc \in InHand => frames'[i].queue # <<>>
      <4>1. CASE i = n + 1
        BY <3>2, <3>3, <3>4, <4>1, Labels
      <4>2. CASE i # n + 1
        <5>1. i \in 1..Len(frames)
          BY <3>4, <4>2
        <5> QED BY <3>2, <5>1 DEF ShapeInv
      <4> QED BY <4>1, <4>2
    <3>6. ASSUME NEW i \in 1..(Len(frames') - 1) PROVE frames'[i].pc = "execute"
      <4>1. i \in 1..n
        BY <3>4
      <4>2. frames'[i] = frames[i]
        BY <3>2, <3>4, <4>1
      <4>3. CASE i = n
        <5>1. frames # <<>> /\ top = frames[n]
          BY <1>0, <3>4, <4>1, TopFacts
        <5> QED BY <3>1, <4>2, <4>3, <5>1 DEF CallingFrom
      <4>4. CASE i # n
        <5>1. i \in 1..(Len(frames) - 1)
          BY <3>4, <4>1, <4>4
        <5> QED BY <4>2, <5>1 DEF ShapeInv
      <4> QED BY <4>3, <4>4
    <3> QED BY <1>d, <2>1, <2>3, <3>2, <3>5, <3>6 DEF ShapeInv
  <2> QED BY <1>2, <2>4, <2>5, <2>6, NestedMoves
<1>3. CASE RootStep
  BY <1>1, <1>3 DEF RootStep, subVars
<1>4. CASE Outside \/ UNCHANGED allVars
  <2>1. /\ UNCHANGED <<frames, call, queue>>
        /\ pc' = pc
    BY <1>4 DEF Outside, subVars, allVars, vars, Suspend, SuspendLate, Expire, Returned
  <2>2. cur' = cur
    BY <2>1 DEF cur
  <2> QED BY <1>0, <1>d, <2>1, <2>2 DEF ShapeInv
<1> QED BY <1>1, <1>2, <1>3, <1>4 DEF SubNext, Nested, Outside


\* A record is added, or the status in one replaced.
LEMMA PutFacts ==
  ASSUME NEW V, NEW f, Maps(f, V), NEW k, NEW v \in V
  PROVE  /\ Maps(Put(f, k, v), V)
         /\ DOMAIN Put(f, k, v) = DOMAIN f \cup {k}
         /\ \A x \in DOMAIN f : Put(f, k, v)[x] = f[x]
         /\ k \notin DOMAIN f => Put(f, k, v)[k] = v
BY DEF Put, Maps

\* A status in the records is replaced, and no record appears.
LEMMA SetFacts ==
  ASSUME NEW V, NEW f, Maps(f, V), NEW k, NEW v \in V
  PROVE  LET g == [f EXCEPT ![k] = v]
         IN /\ Maps(g, V) /\ DOMAIN g = DOMAIN f
            /\ \A x \in DOMAIN f : x # k => g[x] = f[x]
            /\ k \in DOMAIN f => g[k] = v
BY DEF Maps

\* The records of the sub-runs and of their steps keep their types.
LEMMA RecordTypes ==
  ASSUME RunTypes, StepTypes
  PROVE  /\ UNCHANGED subRun => RunTypes'
         /\ UNCHANGED subStep => StepTypes'
         /\ \A k : \A v \in {"running", "complete", "failed"} :
              subRun' = Put(subRun, k, v) \/ subRun' = [subRun EXCEPT ![k] = v] => RunTypes'
         /\ \A k : \A v \in StepStatus :
              subStep' = Put(subStep, k, v) \/ subStep' = [subStep EXCEPT ![k] = v] => StepTypes'
<1>1. UNCHANGED subRun => RunTypes'
  BY DEF RunTypes
<1>2. UNCHANGED subStep => StepTypes'
  BY DEF StepTypes
<1>3. ASSUME NEW k, NEW v \in {"running", "complete", "failed"},
             subRun' = Put(subRun, k, v) \/ subRun' = [subRun EXCEPT ![k] = v]
      PROVE  RunTypes'
  <2>1. Maps(subRun, {"running", "complete", "failed"})
    BY DEF RunTypes
  <2>2. Maps(Put(subRun, k, v), {"running", "complete", "failed"})
    BY <2>1, PutFacts
  <2>3. Maps([subRun EXCEPT ![k] = v], {"running", "complete", "failed"})
    BY <2>1, SetFacts
  <2> QED BY <1>3, <2>2, <2>3 DEF RunTypes, Maps
<1>4. ASSUME NEW k, NEW v \in StepStatus,
             subStep' = Put(subStep, k, v) \/ subStep' = [subStep EXCEPT ![k] = v]
      PROVE  StepTypes'
  <2>1. Maps(subStep, StepStatus)
    BY DEF StepTypes
  <2>2. Maps(Put(subStep, k, v), StepStatus)
    BY <2>1, PutFacts
  <2>3. Maps([subStep EXCEPT ![k] = v], StepStatus)
    BY <2>1, SetFacts
  <2> QED BY <1>4, <2>2, <2>3 DEF StepTypes, Maps
<1> QED BY <1>1, <1>2, <1>3, <1>4

\* What a nested step does to the records, to the usage and to the webhooks.
RunWrites ==
  \/ UNCHANGED subRun
  \/ frames # <<>> /\ top.pc = "create" /\ subRun' = Put(subRun, top.path, "running")
  \/ frames # <<>> /\ top.pc = "failRun" /\ subRun' = [subRun EXCEPT ![top.path] = "failed"]
  \/ frames # <<>> /\ top.pc = "next" /\ subRun' = [subRun EXCEPT ![top.path] = "complete"]

StepWrites ==
  \/ UNCHANGED subStep
  \/ /\ frames # <<>> /\ top.pc = "next" /\ top.queue # <<>> /\ entry \notin DOMAIN subStep
     /\ subStep' = Put(subStep, entry, IF top.suppress /\ topStep \in top.sub.webhooks
                                         THEN "skipped" ELSE "running")
  \/ /\ frames # <<>> /\ top.pc \in InHand
     /\ \E v \in {"skipped", "complete", "failed"} : subStep' = [subStep EXCEPT ![entry] = v]

HistoryWrites ==
  \/ UNCHANGED <<burnt, fired>>
  \/ /\ frames # <<>> /\ top.pc = "execute"
     /\ burnt' \subseteq burnt \cup {entry}
     /\ fired' = fired \cup (IF topStep \in top.sub.webhooks THEN {entry} ELSE {})

MetricsWrites ==
  \/ UNCHANGED metrics
  \/ frames # <<>> /\ metrics' = [metrics EXCEPT ![cur] = top.spent]

\* Each action of a nested call writes of the records only what it says.
LEMMA NestedWrites ==
  ASSUME Nested
  PROVE  RunWrites /\ StepWrites /\ HistoryWrites /\ MetricsWrites
<1>1. CASE CallRoot
  BY <1>1 DEF CallRoot, RunWrites, StepWrites, HistoryWrites, MetricsWrites
<1>2. CASE CallNested
  BY <1>2 DEF CallNested, RunWrites, StepWrites, HistoryWrites, MetricsWrites
<1>3. CASE SubCreateRun
  BY <1>3 DEF SubCreateRun, RunWrites, StepWrites, HistoryWrites, MetricsWrites
<1>4. CASE SubCreateStep
  BY <1>4 DEF SubCreateStep, RunWrites, StepWrites, HistoryWrites, MetricsWrites
<1>5. CASE SubCondition
  BY <1>5, Labels DEF SubCondition, Skip, RunWrites, StepWrites, HistoryWrites, MetricsWrites
<1>6. CASE SubExecute
  <2>1. burnt' \subseteq burnt \cup {entry}
    BY <1>6 DEF SubExecute
  <2> QED BY <1>6, <2>1 DEF SubExecute, RunWrites, StepWrites, HistoryWrites, MetricsWrites
<1>7. CASE SubJudge
  BY <1>7, Labels DEF SubJudge, Skip, RunWrites, StepWrites, HistoryWrites, MetricsWrites
<1>8. CASE SubStore
  BY <1>8, Labels DEF SubStore, RunWrites, StepWrites, HistoryWrites, MetricsWrites
<1>9. CASE SubFailStep
  BY <1>9, Labels DEF SubFailStep, RunWrites, StepWrites, HistoryWrites, MetricsWrites
<1>10. CASE SubFailRun
  BY <1>10 DEF SubFailRun, RunWrites, StepWrites, HistoryWrites, MetricsWrites
<1>11. CASE SubComplete
  BY <1>11 DEF SubComplete, ReturnOutput, RunWrites, StepWrites, HistoryWrites, MetricsWrites
<1>12. CASE SubDispatchFails
  BY <1>12 DEF SubDispatchFails, RunWrites, StepWrites, HistoryWrites, MetricsWrites
<1> QED
  BY <1>1, <1>2, <1>3, <1>4, <1>5, <1>6, <1>7, <1>8, <1>9, <1>10, <1>11, <1>12
     DEF Nested, SubStep

\* The same, record by record.
NewStep ==
  /\ frames # <<>> /\ top.pc = "next" /\ top.queue # <<>> /\ entry \notin DOMAIN subStep
  /\ DOMAIN subStep' = DOMAIN subStep \cup {entry}
  /\ \A e \in DOMAIN subStep : subStep'[e] = subStep[e]
  /\ subStep'[entry] =
       IF top.suppress /\ topStep \in top.sub.webhooks THEN "skipped" ELSE "running"

OldStep ==
  /\ frames # <<>> /\ top.pc \in InHand
  /\ DOMAIN subStep' = DOMAIN subStep
  /\ \A e \in DOMAIN subStep : e # entry => subStep'[e] = subStep[e]

\* At most one step record is written, that of the step in hand.
LEMMA WrittenSteps ==
  ASSUME StepWrites PROVE UNCHANGED subStep \/ NewStep \/ OldStep
<1>1. ASSUME frames # <<>>, top.pc = "next", top.queue # <<>>, entry \notin DOMAIN subStep,
             NEW v \in StepStatus, subStep' = Put(subStep, entry, v),
             v = IF top.suppress /\ topStep \in top.sub.webhooks THEN "skipped" ELSE "running"
      PROVE  NewStep
  <2>1. /\ DOMAIN Put(subStep, entry, v) = DOMAIN subStep \cup {entry}
        /\ \A x \in DOMAIN subStep : Put(subStep, entry, v)[x] = subStep[x]
        /\ Put(subStep, entry, v)[entry] = v
    BY <1>1 DEF Put
  <2> QED BY <1>1, <2>1 DEF NewStep
<1>2. ASSUME frames # <<>>, top.pc \in InHand, NEW v, subStep' = [subStep EXCEPT ![entry] = v]
      PROVE  OldStep
  BY <1>2 DEF OldStep
<1>3. "skipped" \in StepStatus /\ "running" \in StepStatus
  BY DEF StepStatus
<1> QED BY <1>1, <1>2, <1>3 DEF StepWrites

NewRun ==
  /\ frames # <<>> /\ top.pc = "create"
  /\ DOMAIN subRun' = DOMAIN subRun \cup {top.path}
  /\ \A p \in DOMAIN subRun : subRun'[p] = subRun[p]

OldRun ==
  /\ frames # <<>>
  /\ DOMAIN subRun' = DOMAIN subRun
  /\ \A p \in DOMAIN subRun : p # top.path => subRun'[p] = subRun[p]
  /\ \/ top.pc = "failRun" /\ \A p \in DOMAIN subRun : p = top.path => subRun'[p] = "failed"
     \/ top.pc = "next" /\ \A p \in DOMAIN subRun : p = top.path => subRun'[p] = "complete"

\* At most one run record is written, that of the innermost call.
LEMMA WrittenRuns ==
  ASSUME RunWrites PROVE UNCHANGED subRun \/ NewRun \/ OldRun
<1>1. CASE frames # <<>> /\ top.pc = "create" /\ subRun' = Put(subRun, top.path, "running")
  <2>2. /\ DOMAIN Put(subRun, top.path, "running") = DOMAIN subRun \cup {top.path}
        /\ \A p \in DOMAIN subRun : Put(subRun, top.path, "running")[p] = subRun[p]
    BY DEF Put
  <2> QED BY <1>1, <2>2 DEF NewRun
<1>2. ASSUME frames # <<>>, NEW v, subRun' = [subRun EXCEPT ![top.path] = v]
      PROVE  /\ DOMAIN subRun' = DOMAIN subRun
             /\ \A p \in DOMAIN subRun : p # top.path => subRun'[p] = subRun[p]
             /\ \A p \in DOMAIN subRun : p = top.path => subRun'[p] = v
  BY <1>2
<1>3. CASE frames # <<>> /\ top.pc = "failRun" /\ subRun' = [subRun EXCEPT ![top.path] = "failed"]
  BY <1>2, <1>3 DEF OldRun
<1>4. CASE frames # <<>> /\ top.pc = "next" /\ subRun' = [subRun EXCEPT ![top.path] = "complete"]
  BY <1>2, <1>4 DEF OldRun
<1> QED BY <1>1, <1>3, <1>4 DEF RunWrites

\* The records, the usage and the stack keep their types.
LEMMA SubTypeStep ==
  ASSUME PipeInv, SubTypes, ShapeInv, [SubNext]_allVars
  PROVE  SubTypes'
<1>0. frames' \in Seq(Frame)
  BY ShapeStep
<1>1. CASE Nested
  <2>1. RunWrites /\ StepWrites /\ HistoryWrites /\ MetricsWrites
    BY <1>1, NestedWrites
  <2>2. UNCHANGED call /\ cur \in Steps
    BY <1>1, NestedFacts, RootCalls
  <2>3. RunTypes'
    BY <2>1, RecordTypes DEF RunWrites, SubTypes
  <2>4. StepTypes'
    <3>1. /\ "skipped" \in StepStatus /\ "complete" \in StepStatus
          /\ "failed" \in StepStatus /\ "running" \in StepStatus
      BY DEF StepStatus
    <3> QED BY <2>1, <3>1, RecordTypes DEF StepWrites, SubTypes
  <2>5. burnt' \subseteq SubEntry /\ fired' \subseteq SubEntry
    <3>1. CASE UNCHANGED <<burnt, fired>>
      BY <3>1 DEF SubTypes
    <3>2. CASE frames # <<>> /\ top.pc = "execute"
      <4>1. entry \in SubEntry
        BY <3>2, HandFacts, Labels
      <4>2. burnt' \subseteq burnt \cup {entry} /\ fired' \subseteq fired \cup {entry}
        BY <2>1, <3>2 DEF HistoryWrites
      <4> QED BY <4>1, <4>2 DEF SubTypes
    <3> QED BY <2>1, <3>1, <3>2 DEF HistoryWrites
  <2>6. metrics' \in [Steps -> SUBSET SubEntry]
    <3>1. frames # <<>> => top.spent \in SUBSET SubEntry
      BY HandFacts
    <3>2. metrics \in [Steps -> SUBSET SubEntry]
      BY DEF SubTypes
    <3> QED BY <2>1, <2>2, <3>1, <3>2 DEF MetricsWrites
  <2> QED BY <1>0, <2>2, <2>3, <2>4, <2>5, <2>6 DEF SubTypes
<1>2. CASE UNCHANGED subVars
  <2>1. RunTypes' /\ StepTypes'
    BY <1>2, RecordTypes DEF SubTypes, subVars
  <2> QED BY <1>0, <1>2, <2>1 DEF SubTypes, subVars
<1> QED
  BY <1>1, <1>2 DEF SubNext, Nested, RootStep, allVars


-----------------------------------------------------------------------------
(* The call that a path names.                                             *)

\* k lists the calls along the path p, when the root calls c; Named is Caller
\* with the calls of the root as an argument.
Along(c, k, p) ==
  k = [i \in 1..Len(p) |-> IF i = 1 THEN c[p[1]] ELSE k[i - 1].sub.calls[p[i]]]
Known(c, p) == \E k : Along(c, k, p)
Named(c, p) == (CHOOSE k : Along(c, k, p))[Len(p)]

\* Any list of the calls along a path ends in the call that Named gives.
LEMMA NamedAlong ==
  ASSUME NEW p \in Path, p # <<>>, NEW c, NEW k, Along(c, k, p)
  PROVE  Named(c, p) = k[Len(p)]
<1> DEFINE g == CHOOSE g : Along(c, g, p)
<1>1. Named(c, p) = g[Len(p)]
  BY DEF Named
<1>2. Along(c, g, p)
  <2> HIDE DEF Along
  <2> QED OBVIOUS
<1> HIDE DEF g
<1>3. PICK L \in Nat \ {0} : L = Len(p)
  <2>1. Len(p) \in Nat /\ Len(p) # 0
    BY DEF Path
  <2> QED BY <2>1
<1>4. ASSUME NEW f, Along(c, f, p), NEW i \in 1..L
      PROVE  f[i] = IF i = 1 THEN c[p[1]] ELSE f[i - 1].sub.calls[p[i]]
  <2>1. f = [j \in 1..L |-> IF j = 1 THEN c[p[1]] ELSE f[j - 1].sub.calls[p[j]]]
    BY <1>3, <1>4 DEF Along
  <2> QED BY <2>1
<1> DEFINE S == {i \in Nat : i = 0 \/ g[i] = k[i]}
<1>5. 0 \in S
  OBVIOUS
<1>6. ASSUME NEW i \in 1..L, i - 1 \in S PROVE i \in S
  <2>1. CASE i = 1
    <3>1. g[i] = c[p[1]] /\ k[i] = c[p[1]]
      BY <1>2, <1>4, <2>1
    <3> QED BY <3>1
  <2>2. CASE i # 1
    <3>1. g[i - 1] = k[i - 1]
      BY <1>6, <2>2
    <3>2. g[i] = g[i - 1].sub.calls[p[i]] /\ k[i] = k[i - 1].sub.calls[p[i]]
      BY <1>2, <1>4, <2>2
    <3> QED BY <3>1, <3>2
  <2> QED BY <2>1, <2>2
<1>7. L \in S
  <2> HIDE DEF S
  <2>1. \A i \in 0..L : i \in S
    BY <1>5, <1>6, InductionUpTo
  <2> QED BY <2>1
<1> QED BY <1>1, <1>3, <1>7

\* The call of a step of the root, and that of a step of a sub-workflow.
LEMMA CallerOfRoot ==
  ASSUME NEW c, NEW s \in Steps
  PROVE  Known(c, <<s>>) /\ Named(c, <<s>>) = c[s]
<1>1. <<s>> \in Path /\ <<s>> # <<>> /\ Len(<<s>>) = 1 /\ (<<s>>)[1] = s
  BY DEF Path
<1>2. Along(c, [i \in 1..1 |-> c[s]], <<s>>)
  BY DEF Along
<1>3. Named(c, <<s>>) = [i \in 1..1 |-> c[s]][1]
  BY <1>1, <1>2, NamedAlong
<1> QED BY <1>2, <1>3 DEF Known

\* One step longer, a path names what its last step calls.
LEMMA CallerOfStep ==
  ASSUME NEW c, NEW p \in Path, p # <<>>, Known(c, p), NEW s \in SubSteps
  PROVE  Known(c, Append(p, s)) /\ Named(c, Append(p, s)) = Named(c, p).sub.calls[s]
<1>1. PICK k : Along(c, k, p)
  BY DEF Known
<1>2. PICK L \in Nat \ {0} : L = Len(p)
  <2>1. Len(p) \in Nat /\ Len(p) # 0
    BY DEF Path
  <2> QED BY <2>1
<1>3. PICK q \in Path : /\ q = Append(p, s) /\ q # <<>> /\ Len(q) = L + 1
                        /\ q[L + 1] = s /\ \A i \in 1..L : q[i] = p[i]
  <2>1. p \in Seq(Steps \cup SubSteps) /\ s \in Steps \cup SubSteps
    BY DEF Path
  <2>2. Append(p, s) \in Seq(Steps \cup SubSteps) /\ Len(Append(p, s)) = L + 1
    BY <1>2, <2>1
  <2>3. Append(p, s)[L + 1] = s /\ \A i \in 1..L : Append(p, s)[i] = p[i]
    BY <1>2, <2>1
  <2>4. Append(p, s) # <<>>
    BY <1>2, <2>2
  <2> QED BY <2>2, <2>3, <2>4 DEF Path
<1>4. Named(c, p) = k[L]
  BY <1>1, <1>2, NamedAlong
<1>5. k = [i \in 1..L |-> IF i = 1 THEN c[p[1]] ELSE k[i - 1].sub.calls[p[i]]]
  BY <1>1, <1>2 DEF Along
<1> DEFINE h == [i \in 1..(L + 1) |-> IF i = L + 1 THEN k[L].sub.calls[s] ELSE k[i]]
<1>6. ASSUME NEW i \in 1..(L + 1)
      PROVE  h[i] = IF i = 1 THEN c[q[1]] ELSE h[i - 1].sub.calls[q[i]]
  <2>1. CASE i = L + 1
    <3>1. i # 1 /\ h[i - 1] = k[L] /\ q[i] = s
      BY <1>3, <2>1
    <3> QED BY <2>1, <3>1
  <2>2. CASE i # L + 1
    <3>1. i \in 1..L /\ h[i] = k[i] /\ q[i] = p[i] /\ q[1] = p[1]
      BY <1>3, <2>2
    <3>2. i # 1 => h[i - 1] = k[i - 1]
      BY <2>2
    <3>3. k[i] = IF i = 1 THEN c[p[1]] ELSE k[i - 1].sub.calls[p[i]]
      BY <1>5, <3>1
    <3> HIDE DEF h
    <3> QED BY <3>1, <3>2, <3>3
  <2> QED BY <2>1, <2>2
<1>7. Along(c, h, q)
  <2>1. h = [i \in 1..(L + 1) |-> h[i]]
    OBVIOUS
  <2> HIDE DEF h
  <2>2. 1..Len(q) = 1..(L + 1)
    BY <1>3
  <2>3. h = [i \in 1..Len(q) |-> IF i = 1 THEN c[q[1]] ELSE h[i - 1].sub.calls[q[i]]]
    BY <1>6, <2>1, <2>2
  <2> QED BY <2>3 DEF Along
<1>8. Named(c, q) = h[L + 1]
  <2> HIDE DEF h
  <2>1. Named(c, q) = h[Len(q)]
    BY <1>3, <1>7, NamedAlong
  <2> QED BY <1>3, <2>1
<1>9. h[L + 1] = k[L].sub.calls[s]
  OBVIOUS
<1> HIDE DEF h
<1> QED BY <1>3, <1>4, <1>7, <1>8, <1>9 DEF Known

\* Caller reads the calls of the root of the run.
LEMMA CallerNamed == \A p : Caller(p) = Named(call, p)
BY DEF Caller, Named, Along

\* Of the frames only the top one can be new: the innermost frame gone on, its
\* caller gone on, or the frame of a call that starts.
LEMMA FramesMove ==
  ASSUME SubTypes, ShapeInv, Nested, frames' # <<>>
  PROVE  /\ Len(frames') \in Nat \ {0} /\ top' = frames'[Len(frames')] /\ top' \in Frame
         /\ \A i \in 1..(Len(frames') - 1) : i \in 1..Len(frames) /\ frames'[i] = frames[i]
         /\ \/ /\ Going /\ Len(frames') = Len(frames) /\ SameCall(top', top)
               /\ Goto(top') /\ Advances(top')
            \/ /\ Returning /\ Len(frames') = Len(frames) - 1
               /\ Len(frames') \in 1..Len(frames)
               /\ SameCall(top', frames[Len(frames')])
               /\ top'.queue = frames[Len(frames')].queue
               /\ \/ ReturnError /\ top'.pc = "fail" /\ top'.spent = frames[Len(frames')].spent
                  \/ /\ top'.pc = "reserved"
                     /\ \E used \in SUBSET SubEntry :
                          /\ ReturnOutput(used)
                          /\ top'.spent = frames[Len(frames')].spent \cup used
            \/ /\ Calling /\ Len(frames') = Len(frames) + 1
               /\ \E k \in Call(Subs), p \in Path :
                    /\ CallingFrom(k, p) /\ top'.path = p /\ top'.sub = k.sub
                    /\ top'.suppress = Suppressed(k) /\ top'.queue = k.sub.order
                    /\ top'.pc = "create" /\ top'.spent = {}
<1>0. frames \in Seq(Frame) /\ Len(frames) \in Nat
  BY DEF SubTypes
<1>1. CASE Going
  <2>1. PICK f \in Frame : Goto(f) /\ SameCall(f, top) /\ Advances(f)
    BY <1>1 DEF Going
  <2>2. frames # <<>>
    BY <1>1 DEF Going
  <2>3. /\ frames' \in Seq(Frame) /\ Len(frames') = Len(frames)
        /\ frames'[Len(frames)] = f /\ top' = f
        /\ \A i \in 1..(Len(frames) - 1) : frames'[i] = frames[i]
    BY <1>0, <2>1, <2>2, GotoFacts
  <2>4. Len(frames) \in Nat \ {0}
    BY <1>0, <2>2
  <2> QED BY <1>0, <1>1, <2>1, <2>3, <2>4
<1>2. CASE Returning
  <2>1. frames # <<>>
    BY <1>2 DEF Returning
  <2>2. CASE ReturnError
    <3>1. /\ Len(frames) > 1
          /\ Len(frames') = Len(frames) - 1 /\ frames'[Len(frames')] = top' /\ top' \in Frame
          /\ \A i \in 1..(Len(frames) - 2) : frames'[i] = frames[i]
          /\ \E c \in Frame : /\ c = frames[Len(frames) - 1]
                              /\ top'.path = c.path /\ top'.sub = c.sub
                              /\ top'.suppress = c.suppress /\ top'.queue = c.queue
                              /\ top'.spent = c.spent /\ top'.pc = "fail"
      BY <1>0, <2>1, <2>2, ErrorFacts
    <3>2. PICK n \in Nat \ {0} : n = Len(frames') /\ Len(frames) = n + 1
      BY <1>0, <3>1
    <3>3. /\ SameCall(top', frames[n]) /\ top'.queue = frames[n].queue
          /\ top'.spent = frames[n].spent /\ top'.pc = "fail"
      BY <3>1, <3>2 DEF SameCall
    <3>4. \A i \in 1..(n - 1) : i \in 1..Len(frames) /\ frames'[i] = frames[i]
      <4>1. \A i \in 1..(n - 1) : i \in 1..Len(frames) /\ i \in 1..(Len(frames) - 2)
        BY <3>2
      <4> QED BY <3>1, <4>1
    <3>5. n \in 1..Len(frames)
      BY <3>2
    <3> QED BY <1>2, <2>2, <3>1, <3>2, <3>3, <3>4, <3>5
  <2>3. ASSUME NEW used \in SUBSET SubEntry, ReturnOutput(used)
        PROVE  /\ Len(frames') \in Nat \ {0} /\ top' = frames'[Len(frames')] /\ top' \in Frame
               /\ \A i \in 1..(Len(frames') - 1) : i \in 1..Len(frames) /\ frames'[i] = frames[i]
               /\ Len(frames') = Len(frames) - 1
               /\ Len(frames') \in 1..Len(frames)
               /\ SameCall(top', frames[Len(frames')])
               /\ top'.queue = frames[Len(frames')].queue /\ top'.pc = "reserved"
               /\ top'.spent = frames[Len(frames')].spent \cup used
    <3>1. /\ Len(frames) > 1
          /\ Len(frames') = Len(frames) - 1 /\ frames'[Len(frames')] = top' /\ top' \in Frame
          /\ \A i \in 1..(Len(frames) - 2) : frames'[i] = frames[i]
          /\ \E c \in Frame : /\ c = frames[Len(frames) - 1]
                              /\ top'.path = c.path /\ top'.sub = c.sub
                              /\ top'.suppress = c.suppress /\ top'.queue = c.queue
                              /\ top'.spent = c.spent \cup used /\ top'.pc = "reserved"
      BY <1>0, <2>1, <2>3, OutputFacts
    <3>2. PICK n \in Nat \ {0} : n = Len(frames') /\ Len(frames) = n + 1
      BY <1>0, <3>1
    <3>3. /\ SameCall(top', frames[n]) /\ top'.queue = frames[n].queue
          /\ top'.spent = frames[n].spent \cup used /\ top'.pc = "reserved"
      BY <3>1, <3>2 DEF SameCall
    <3>4. \A i \in 1..(n - 1) : i \in 1..Len(frames) /\ frames'[i] = frames[i]
      <4>1. \A i \in 1..(n - 1) : i \in 1..Len(frames) /\ i \in 1..(Len(frames) - 2)
        BY <3>2
      <4> QED BY <3>1, <4>1
    <3>5. n \in 1..Len(frames)
      BY <3>2
    <3> QED BY <3>1, <3>2, <3>3, <3>4, <3>5
  <2>4. CASE \E used \in SUBSET SubEntry : ReturnOutput(used)
    BY <1>2, <2>3, <2>4
  <2> QED BY <1>2, <2>2, <2>4 DEF Returning
<1>3. CASE Calling
  <2>1. PICK k \in Call(Subs), p \in Path : Push(k, p) /\ CallingFrom(k, p)
    BY <1>3 DEF Calling
  <2>2. /\ Len(frames') = Len(frames) + 1 /\ frames'[Len(frames')] = top' /\ top' \in Frame
        /\ \A i \in 1..Len(frames) : frames'[i] = frames[i]
        /\ top'.path = p /\ top'.sub = k.sub /\ top'.suppress = Suppressed(k)
        /\ top'.queue = k.sub.order /\ top'.pc = "create" /\ top'.spent = {}
    BY <1>0, <2>1, CallFacts
  <2>3. PICK n \in Nat : n = Len(frames) /\ Len(frames') = n + 1
    BY <1>0, <2>2
  <2> QED BY <1>3, <2>1, <2>2, <2>3
<1> QED BY <1>1, <1>2, <1>3, NestedMoves

-----------------------------------------------------------------------------
(* Webhooks.                                                               *)

\* A frame executes the sub-workflow that its path names, and suppresses the
\* webhooks as that call says.
FrameCall(c, f) ==
  /\ Known(c, f.path)
  /\ f.sub = Named(c, f.path).sub
  /\ f.suppress = Suppressed(Named(c, f.path))

CallInv == \A i \in 1..Len(frames) : FrameCall(call, frames[i])

\* Every frame keeps to the call that its path names.
LEMMA CallStep ==
  ASSUME SubTypes, ShapeInv, CallInv, [SubNext]_allVars
  PROVE  CallInv'
<1>0. frames \in Seq(Frame)
  BY DEF SubTypes
<1>1. ASSUME NEW c, NEW f, FrameCall(c, f), NEW g, SameCall(g, f) PROVE FrameCall(c, g)
  BY <1>1 DEF FrameCall, SameCall
<1>2. CASE Nested /\ frames' # <<>>
  <2>1. call' = call
    BY <1>2, NestedFacts
  <2>2. /\ Len(frames') \in Nat \ {0} /\ top' = frames'[Len(frames')]
        /\ \A i \in 1..(Len(frames') - 1) : i \in 1..Len(frames) /\ frames'[i] = frames[i]
    BY <1>2, FramesMove
  <2>3. FrameCall(call, top')
    <3>1. CASE Going /\ SameCall(top', top)
      <4>1. FrameCall(call, top)
        BY <1>0, <3>1, TopFacts DEF Going, CallInv
      <4> QED BY <1>1, <3>1, <4>1
    <3>2. CASE Len(frames') \in 1..Len(frames) /\ SameCall(top', frames[Len(frames')])
      <4>1. FrameCall(call, frames[Len(frames')])
        BY <3>2 DEF CallInv
      <4> QED BY <1>1, <3>2, <4>1
    <3>3. ASSUME NEW k, NEW p \in Path, CallingFrom(k, p),
                 top'.path = p, top'.sub = k.sub, top'.suppress = Suppressed(k)
          PROVE  FrameCall(call, top')
      <4>1. Known(call, p) /\ Named(call, p) = k
        <5>1. CASE frames = <<>>
          BY <1>2, <3>3, <5>1, NestedFacts, RootCalls, CallerOfRoot DEF CallingFrom
        <5>2. CASE frames # <<>>
          <6>1. FrameCall(call, top)
            BY <1>0, <5>2, TopFacts DEF CallInv
          <6>2. /\ top.path \in Path /\ top.path # <<>> /\ topStep \in SubSteps
            BY <3>3, <5>2, HandFacts, Labels DEF CallingFrom
          <6>3. p = Append(top.path, topStep) /\ k = top.sub.calls[topStep]
            BY <3>3, <5>2 DEF CallingFrom
          <6>4. /\ Known(call, Append(top.path, topStep))
                /\ Named(call, Append(top.path, topStep)) =
                     Named(call, top.path).sub.calls[topStep]
            BY <6>1, <6>2, CallerOfStep DEF FrameCall
          <6> QED BY <6>1, <6>3, <6>4 DEF FrameCall
        <5> QED BY <5>1, <5>2
      <4> QED BY <3>3, <4>1 DEF FrameCall
    <3> QED BY <1>2, <3>1, <3>2, <3>3, FramesMove
  <2>4. ASSUME NEW i \in 1..Len(frames') PROVE FrameCall(call, frames'[i])
    <3>1. CASE i = Len(frames')
      BY <2>2, <2>3, <3>1
    <3>2. CASE i # Len(frames')
      <4>1. i \in 1..(Len(frames') - 1)
        BY <2>2, <3>2
      <4> QED BY <2>2, <4>1 DEF CallInv
    <3> QED BY <3>1, <3>2
  <2> QED BY <2>1, <2>4 DEF CallInv
<1>3. CASE frames' = <<>>
  BY <1>3 DEF CallInv
<1>4. CASE UNCHANGED subVars
  BY <1>4 DEF CallInv, subVars
<1> QED BY <1>2, <1>3, <1>4 DEF SubNext, Nested, RootStep, allVars


\* A webhook is sent only by a call that opted in, one that is suppressed is
\* skipped, and none that is suppressed is ever in hand.
FrameWeb(f) == f.pc \in InHand /\ Hand(f) \in f.sub.webhooks => ~f.suppress

Muted(c, e) == e[2] \in Named(c, e[1]).sub.webhooks /\ Suppressed(Named(c, e[1]))

WebInv ==
  /\ \A e \in fired : ~Muted(call, e)
  /\ \A e \in DOMAIN subStep : Muted(call, e) => subStep[e] = "skipped"
  /\ \A i \in 1..Len(frames) : FrameWeb(frames[i])

\* The entry in hand is muted if the frame suppresses webhooks and it is one.
LEMMA EntryMuted ==
  ASSUME SubTypes, ShapeInv, CallInv, frames # <<>>
  PROVE  Muted(call, entry) <=> top.suppress /\ topStep \in top.sub.webhooks
<1>1. FrameCall(call, top)
  BY TopFacts DEF SubTypes, CallInv
<1>2. entry[1] = top.path /\ entry[2] = topStep
  BY HandFacts
<1> QED BY <1>1, <1>2 DEF Muted, FrameCall

\* A suppressed webhook stays unsent and its record skipped.
LEMMA WebStep ==
  ASSUME SubTypes, ShapeInv, CallInv, WebInv, [SubNext]_allVars
  PROVE  WebInv'
<1>0. frames \in Seq(Frame)
  BY DEF SubTypes
<1>1. CASE Nested
  <2>1. call' = call /\ StepWrites /\ HistoryWrites
    BY <1>1, NestedFacts, NestedWrites
  <2>2. ASSUME frames # <<>>, top.pc \in InHand PROVE ~Muted(call, entry)
    <3>1. FrameWeb(top)
      BY <1>0, <2>2, TopFacts DEF WebInv
    <3> QED BY <2>2, <3>1, EntryMuted, HandFacts DEF FrameWeb
  <2>3. \A e \in fired' : ~Muted(call, e)
    <3>1. CASE UNCHANGED fired
      BY <3>1 DEF WebInv
    <3>2. CASE frames # <<>> /\ top.pc = "execute" /\ fired' \subseteq fired \cup {entry}
      BY <2>2, <3>2, Labels DEF WebInv
    <3> QED BY <2>1, <3>1, <3>2 DEF HistoryWrites
  <2>4. ASSUME NEW e \in DOMAIN subStep', Muted(call, e) PROVE subStep'[e] = "skipped"
    <3>1. CASE UNCHANGED subStep
      BY <2>4, <3>1 DEF WebInv
    <3>2. CASE NewStep
      <4>1. CASE e = entry
        BY <2>4, <3>2, <4>1, EntryMuted DEF NewStep
      <4>2. CASE e # entry
        BY <2>4, <3>2, <4>2 DEF NewStep, WebInv
      <4> QED BY <4>1, <4>2
    <3>3. CASE OldStep
      <4>1. e # entry
        BY <2>2, <2>4, <3>3 DEF OldStep
      <4>2. e \in DOMAIN subStep /\ subStep'[e] = subStep[e]
        BY <2>4, <3>3, <4>1 DEF OldStep
      <4> QED BY <2>4, <4>2 DEF WebInv
    <3> QED BY <2>1, <3>1, <3>2, <3>3, WrittenSteps DEF SubTypes
  <2>5. ASSUME NEW i \in 1..Len(frames') PROVE FrameWeb(frames'[i])
    <3>1. frames' # <<>>
      BY <2>5
    <3>2. CASE i # Len(frames')
      <4>1. i \in 1..(Len(frames') - 1)
        BY <1>1, <3>1, <3>2, FramesMove
      <4>2. i \in 1..Len(frames) /\ frames'[i] = frames[i]
        BY <1>1, <3>1, <4>1, FramesMove
      <4> QED BY <4>2 DEF WebInv
    <3>3. CASE i = Len(frames')
      <4>1. top' = frames'[i]
        BY <1>1, <3>1, <3>3, FramesMove
      <4>2. CASE Going /\ SameCall(top', top) /\ Advances(top')
        <5>1. FrameWeb(top) /\ frames # <<>> /\ topStep = Hand(top)
          BY <1>0, <4>2, TopFacts DEF WebInv, Going
        <5>2. top'.pc \in InHand =>
                /\ Hand(top') = topStep
                /\ top.pc \in InHand \/ ~(top.suppress /\ topStep \in top.sub.webhooks)
          BY <4>2, <5>1, Labels DEF Advances, Hand
        <5> QED BY <4>1, <4>2, <5>1, <5>2 DEF FrameWeb, SameCall
      <4>3. CASE /\ Len(frames') = Len(frames) - 1 /\ Len(frames') \in 1..Len(frames)
                 /\ SameCall(top', frames[Len(frames')])
                 /\ top'.queue = frames[Len(frames')].queue
        <5>1. PICK n \in 1..Len(frames) : n = Len(frames') /\ n = Len(frames) - 1
          BY <4>3
        <5>2. FrameWeb(frames[n]) /\ frames[n].pc \in InHand
          <6>1. n \in 1..(Len(frames) - 1)
            BY <5>1
          <6> QED BY <6>1, Labels DEF WebInv, ShapeInv
        <5> QED BY <4>1, <4>3, <5>1, <5>2 DEF FrameWeb, SameCall, Hand
      <4>4. CASE top'.pc = "create"
        BY <4>1, <4>4, Labels DEF FrameWeb
      <4> QED BY <1>1, <3>1, <4>2, <4>3, <4>4, FramesMove
    <3> QED BY <3>2, <3>3
  <2> QED BY <2>1, <2>3, <2>4, <2>5 DEF WebInv
<1>2. CASE UNCHANGED subVars
  BY <1>2 DEF WebInv, subVars
<1> QED BY <1>1, <1>2 DEF SubNext, Nested, RootStep, allVars


-----------------------------------------------------------------------------
(* Usage.                                                                  *)

\* What the root does outside of nested calls: how a record becomes complete or
\* skipped, and how Execute reaches the labels of a step.
RootEffects ==
  /\ \A s \in Steps : step'[s] = "none" => step[s] = "none"
  /\ \A s \in Steps : step'[s] \in Good =>
       \/ step[s] = step'[s]
       \/ s = cur /\ pc = "store" /\ step'[s] = finalRec /\ WritesSucceed
  /\ pc' \in {"condition", "execute"} =>
       cur' = cur /\ (pc \in {"condition", "execute"} \/ (pc = "next" /\ step[cur] = "none"))
  /\ pc' = "condition" => pc # "execute"
  /\ pc' = "reserved" => cur' = cur /\ (pc = "reserved" \/ (pc = "execute" /\ RootStep))
  /\ pc' = "store" =>
       /\ cur' = cur
       /\ \/ pc = "store" /\ finalRec' = finalRec
          \/ pc = "reserved" /\ finalRec' \in {"complete", "skipped"}
          \/ pc = "condition" /\ finalRec' = "skipped"

\* Each action of Pipeline does to the root what RootEffects allows.
LEMMA RootFacts ==
  ASSUME PipeInv, RootStep \/ Outside \/ UNCHANGED vars
  PROVE  RootEffects
<1>0. /\ step \in [Steps -> {"none"} \cup StepStatus]
      /\ queue # <<>> => cur \in Steps
      /\ queue \in Seq(Steps)
  BY QueueFacts DEF PipeInv, TypeOK
<1>1. pc \in Busy => queue # <<>>
  BY DEF PipeInv, QueueInv
<1>2. ASSUME UNCHANGED <<step, queue>>, pc' = pc, UNCHANGED finalRec PROVE RootEffects
  BY <1>2 DEF RootEffects, cur, Good
<1>3. CASE CreateRun
  <2>1. UNCHANGED step /\ pc' \in {"done", "next"}
    BY <1>3 DEF CreateRun, Return
  <2> QED BY <2>1 DEF RootEffects
<1>4. CASE CreateStep
  <2>1. cur \in Steps /\ cur' = cur
    BY <1>0, <1>4 DEF CreateStep, cur
  <2>2. CASE WritesSucceed /\ step[cur] = "none"
    <3>1. /\ step' = [step EXCEPT ![cur] = "running"] /\ pc = "next"
          /\ pc' \in {"condition", "execute"}
      BY <1>4, <2>2 DEF CreateStep
    <3> QED BY <1>0, <2>1, <2>2, <3>1 DEF RootEffects, Good
  <2>3. CASE ~(WritesSucceed /\ step[cur] = "none")
    <3>1. UNCHANGED step /\ pc' = "done"
      BY <1>4, <2>3 DEF CreateStep, Return
    <3> QED BY <3>1 DEF RootEffects
  <2> QED BY <2>2, <2>3
<1>5. CASE EvalCondition
  <2>1. /\ UNCHANGED step /\ cur' = cur /\ pc = "condition"
        /\ \/ pc' = "store" /\ finalRec' = "skipped"
           \/ pc' = "execute"
    BY <1>5 DEF EvalCondition, cur
  <2> QED BY <2>1 DEF RootEffects
<1>6. CASE StepReturns /\ RootStep
  <2>1. UNCHANGED step /\ cur' = cur /\ pc = "execute" /\ pc' = "reserved"
    BY <1>6 DEF StepReturns, cur
  <2> QED BY <1>6, <2>1 DEF RootEffects
<1>7. CASE StepErrors
  <2>1. UNCHANGED step /\ pc' = "fail"
    BY <1>7 DEF StepErrors
  <2> QED BY <2>1 DEF RootEffects
<1>8. CASE Judge
  <2>1. /\ UNCHANGED step /\ cur' = cur /\ pc = "reserved"
        /\ \/ pc' = "store" /\ finalRec' \in {"complete", "skipped"}
           \/ pc' = "fail"
    BY <1>8 DEF Judge, cur
  <2> QED BY <2>1 DEF RootEffects
<1>9. CASE StoreStep
  <2>1. cur \in Steps /\ pc = "store" /\ pc' \in {"next", "done"}
    BY <1>0, <1>1, <1>9 DEF StoreStep, Return, Busy
  <2>2. UNCHANGED step \/ (WritesSucceed /\ step' = [step EXCEPT ![cur] = finalRec])
    BY <1>9 DEF StoreStep
  <2>3. finalRec \in Good
    BY <2>1 DEF PipeInv, RecordInv
  <2> QED BY <1>0, <2>1, <2>2, <2>3 DEF RootEffects, Good
<1>10. CASE FailStep
  <2>1. cur \in Steps /\ pc' = "failRun"
    BY <1>0, <1>1, <1>10 DEF FailStep, Busy
  <2>2. UNCHANGED step \/ step' = [step EXCEPT ![cur] = "failed"]
    BY <1>10 DEF FailStep
  <2> QED BY <1>0, <2>1, <2>2 DEF RootEffects, Good
<1>11. CASE FailRun \/ CompleteRun
  <2>1. UNCHANGED step /\ pc' = "done"
    BY <1>11 DEF FailRun, CompleteRun, Return
  <2> QED BY <2>1 DEF RootEffects
<1>12. CASE Suspend \/ SuspendLate
  <2>1. PICK c \in Steps : step' = [step EXCEPT ![c] = "pending_approval"]
    <3>1. stray \subseteq Steps /\ (pc = "execute" => cur \in Steps)
      BY <1>0, <1>1 DEF PipeInv, TypeOK, Busy
    <3> QED BY <1>12, <3>1 DEF Suspend, SuspendLate
  <2>2. pc' = pc /\ cur' = cur /\ finalRec' = finalRec
    BY <1>12 DEF Suspend, SuspendLate, cur
  <2>3. \A s \in Steps : step'[s] = IF s = c THEN "pending_approval" ELSE step[s]
    BY <1>0, <2>1
  <2> QED BY <2>2, <2>3 DEF RootEffects, Good
<1>13. CASE Expire \/ Returned \/ UNCHANGED vars
  BY <1>2, <1>13 DEF Expire, Returned, vars
<1> QED
  BY <1>3, <1>4, <1>5, <1>6, <1>7, <1>8, <1>9, <1>10, <1>11, <1>12, <1>13
     DEF RootStep, Outside, ExecuteStep


\* The root leaves the label "execute" at the end of the call it waits for.
LEMMA EmptyAfter ==
  ASSUME SubTypes, ShapeInv, Nested, frames' = <<>>
  PROVE  pc' # "execute"
<1>0. frames \in Seq(Frame)
  BY DEF SubTypes
<1>1. ASSUME frames # <<>>, top \in Frame, NEW f \in Frame, Goto(f) PROVE FALSE
  BY <1>0, <1>1, GotoFacts
<1>2. ASSUME NEW k \in Call(Subs), NEW p \in Path, Push(k, p) PROVE FALSE
  BY <1>0, <1>2, CallFacts
<1>3. CASE frames # <<>>
  <2>1. ~Going /\ ~Calling
    BY <1>1, <1>2, HandFacts DEF Going, Calling
  <2>2. Returning
    BY <1>3, <2>1, NestedMoves
  <2>3. ASSUME ReturnError PROVE pc' # "execute"
    BY <1>0, <1>3, <2>3, ErrorFacts
  <2>4. ASSUME NEW used \in SUBSET SubEntry, ReturnOutput(used) PROVE pc' # "execute"
    BY <1>0, <1>3, <2>4, OutputFacts
  <2> QED BY <2>2, <2>3, <2>4 DEF Returning
<1>4. CASE frames = <<>>
  <2>1. CallRoot
    BY <1>4 DEF Nested, SubStep, CallNested, SubCreateRun, SubCreateStep, SubCondition,
       SubExecute, SubJudge, SubStore, SubFailStep, SubFailRun, SubComplete, SubDispatchFails
  <2>2. cur \in Steps /\ call[cur] \in Call(Subs) /\ <<cur>> \in Path
    BY <2>1, RootCalls DEF CallRoot, Path
  <2>3. pc' = "fail"
    BY <1>2, <2>1, <2>2 DEF CallRoot
  <2> QED BY <2>3
<1> QED BY <1>3, <1>4

\* What a frame that does not fail adds to its usage is what was burnt: by its
\* agent, or by the call that returned to it.
LEMMA SpendFacts ==
  ASSUME SubTypes, ShapeInv, Nested, frames' # <<>>, top'.pc \notin Failing
  PROVE  \/ /\ frames # <<>> /\ top.pc \notin Failing /\ Len(frames') = Len(frames)
            /\ \E used \in SUBSET {entry} :
                 top'.spent = top.spent \cup used /\ burnt' = burnt \cup used
         \/ /\ frames # <<>> => top.pc \notin Failing
            /\ Len(frames') = Len(frames) + 1 /\ top'.spent = {} /\ burnt' = burnt
         \/ /\ frames # <<>> /\ top.pc \notin Failing
            /\ Len(frames') \in 1..Len(frames) /\ Len(frames') = Len(frames) - 1
            /\ top'.spent = frames[Len(frames')].spent \cup top.spent /\ burnt' = burnt
<1>0. frames \in Seq(Frame)
  BY DEF SubTypes
<1> DEFINE Stays == /\ frames # <<>> /\ top.pc \notin Failing /\ Len(frames') = Len(frames)
                    /\ \E used \in SUBSET {entry} :
                         top'.spent = top.spent \cup used /\ burnt' = burnt \cup used
           Calls == /\ frames # <<>> => top.pc \notin Failing
                    /\ Len(frames') = Len(frames) + 1 /\ top'.spent = {} /\ burnt' = burnt
           Returns == /\ frames # <<>> /\ top.pc \notin Failing
                      /\ Len(frames') \in 1..Len(frames) /\ Len(frames') = Len(frames) - 1
                      /\ top'.spent = frames[Len(frames')].spent \cup top.spent
                      /\ burnt' = burnt
<1>1. ASSUME frames # <<>>, ReturnError PROVE FALSE
  BY <1>0, <1>1, ErrorFacts DEF Failing
<1>2. ASSUME frames # <<>>, NEW l \in SubPC, Goto(At(l))
      PROVE  l \notin Failing /\ Len(frames') = Len(frames) /\ top'.spent = top.spent
  <2>1. top \in Frame
    BY <1>2, HandFacts
  <2>2. At(l) \in Frame /\ At(l).pc = l /\ At(l).spent = top.spent
    BY <2>1, AtFacts
  <2> QED BY <1>0, <1>2, <2>2, GotoFacts
<1>3. ASSUME frames # <<>>, top.queue # <<>>, Goto(NextStep)
      PROVE  Len(frames') = Len(frames) /\ top'.spent = top.spent
  <2>1. top \in Frame
    BY <1>3, HandFacts
  <2>2. NextStep \in Frame /\ NextStep.spent = top.spent
    BY <1>3, <2>1, NextFacts
  <2> QED BY <1>0, <1>3, <2>2, GotoFacts
<1>4. ASSUME frames # <<>>, top.pc \notin Failing, burnt' = burnt,
             \/ Goto(At("next")) \/ Goto(At("condition")) \/ Goto(At("execute")) \/ Goto(At("store"))
             \/ top.queue # <<>> /\ Goto(NextStep)
      PROVE  Stays
  <2>1. Len(frames') = Len(frames) /\ top'.spent = top.spent
    BY <1>2, <1>3, <1>4, Labels
  <2>2. {} \in SUBSET {entry} /\ top'.spent = top.spent \cup {} /\ burnt' = burnt \cup {}
    BY <1>4, <2>1
  <2> QED BY <1>4, <2>1, <2>2
<1>5. ASSUME frames # <<>>, Goto(At("fail")) \/ Goto(At("failRun")) PROVE FALSE
  BY <1>2, <1>5, Labels DEF Failing
<1>6. frames # <<>> /\ top.pc \in InHand => top.queue # <<>>
  BY HandFacts
<1>7. CASE CallRoot
  <2>1. frames = <<>> /\ burnt' = burnt /\ Push(call[cur], <<cur>>)
    BY <1>7 DEF CallRoot
  <2>2. cur \in Steps /\ call[cur] \in Call(Subs) /\ <<cur>> \in Path
    BY <1>7, RootCalls DEF CallRoot, Path
  <2>3. Len(frames') = Len(frames) + 1 /\ top'.spent = {}
    BY <1>0, <2>1, <2>2, CallFacts
  <2> QED BY <2>1, <2>3
<1>8. CASE CallNested
  <2>1. /\ frames # <<>> /\ top.pc = "execute" /\ topStep \in DOMAIN top.sub.calls
        /\ burnt' = burnt /\ Push(top.sub.calls[topStep], Append(top.path, topStep))
    BY <1>5, <1>8 DEF CallNested
  <2>2. /\ top.sub \in Subs /\ topStep \in SubSteps /\ top.path \in Path
    BY <2>1, HandFacts, Labels
  <2>3. top.sub.calls[topStep] \in Call(Subs) /\ Append(top.path, topStep) \in Path
    BY <2>1, <2>2, SubFields DEF Path
  <2>4. Len(frames') = Len(frames) + 1 /\ top'.spent = {}
    BY <1>0, <2>1, <2>3, CallFacts
  <2> QED BY <2>1, <2>4 DEF Failing
<1>9. CASE SubCreateRun
  <2>1. frames # <<>> /\ top.pc \notin Failing /\ burnt' = burnt /\ Goto(At("next"))
    BY <1>1, <1>9 DEF SubCreateRun, Failing
  <2> QED BY <1>4, <2>1
<1>10. CASE SubCreateStep
  <2>1. /\ frames # <<>> /\ top.pc \notin Failing /\ burnt' = burnt /\ top.queue # <<>>
        /\ Goto(NextStep) \/ Goto(At("condition")) \/ Goto(At("execute"))
    BY <1>1, <1>10 DEF SubCreateStep, Failing
  <2> QED BY <1>4, <2>1
<1>11. CASE SubCondition
  <2>1. /\ frames # <<>> /\ top.pc \notin Failing /\ burnt' = burnt /\ top.pc \in InHand
        /\ Goto(NextStep) \/ Goto(At("execute"))
    BY <1>11, Labels DEF SubCondition, Skip, Failing
  <2> QED BY <1>4, <1>6, <2>1
<1>12. CASE SubExecute
  <2>1. PICK used : /\ used = (IF topStep \in top.sub.agents THEN {entry} ELSE {})
                    /\ Goto(Got(used)) \/ Goto(At("fail"))
                    /\ burnt' = burnt \cup used
    BY <1>12 DEF SubExecute, Got
  <2>2. frames # <<>> /\ top.pc \in InHand /\ top.pc \notin Failing
    BY <1>12, Labels DEF SubExecute, Failing
  <2>3. used \in SUBSET {entry} /\ used \in SUBSET SubEntry /\ top \in Frame
    BY <2>1, <2>2, HandFacts
  <2>4. Got(used) \in Frame /\ Got(used).spent = top.spent \cup used
    BY <2>3, GotFacts
  <2>5. Goto(Got(used))
    BY <1>5, <2>1, <2>2
  <2>6. Len(frames') = Len(frames) /\ top'.spent = top.spent \cup used
    BY <1>0, <2>2, <2>4, <2>5, GotoFacts
  <2> QED BY <2>1, <2>2, <2>3, <2>6
<1>13. CASE SubJudge
  <2>1. /\ frames # <<>> /\ top.pc \notin Failing /\ burnt' = burnt /\ top.pc \in InHand
        /\ Goto(NextStep) \/ Goto(At("store"))
    BY <1>5, <1>13, Labels DEF SubJudge, Skip, Failing
  <2> QED BY <1>4, <1>6, <2>1
<1>14. CASE SubStore
  <2>1. /\ frames # <<>> /\ top.pc \notin Failing /\ burnt' = burnt /\ top.pc \in InHand
        /\ Goto(NextStep)
    BY <1>1, <1>14, Labels DEF SubStore, Failing
  <2> QED BY <1>4, <1>6, <2>1
<1>15. CASE SubComplete
  <2>1. /\ frames # <<>> /\ top.pc \notin Failing /\ burnt' = burnt
        /\ ReturnOutput(top.spent)
    BY <1>1, <1>15 DEF SubComplete, Failing
  <2>2. top.spent \in SUBSET SubEntry
    BY <2>1, HandFacts
  <2>3. /\ Len(frames) > 1 /\ Len(frames') = Len(frames) - 1
        /\ \E c \in Frame : c = frames[Len(frames) - 1] /\ top'.spent = c.spent \cup top.spent
    BY <1>0, <2>1, <2>2, OutputFacts
  <2>4. Len(frames') \in 1..Len(frames)
    <3>1. PICK L \in Nat : L = Len(frames)
      BY <1>0
    <3> QED BY <2>3, <3>1
  <2>5. top'.spent = frames[Len(frames')].spent \cup top.spent
    BY <2>3
  <2> QED BY <2>1, <2>3, <2>4, <2>5
<1>16. ~(SubFailStep \/ SubFailRun \/ SubDispatchFails)
  BY <1>1, <1>5 DEF SubFailStep, SubFailRun, SubDispatchFails
<1> QED
  BY <1>7, <1>8, <1>9, <1>10, <1>11, <1>12, <1>13, <1>14, <1>15, <1>16
     DEF Nested, SubStep


\* What the agents below the step in hand burnt is in the frames as long as no
\* call fails, and in the record of the step once it returned.
Spent == UNION {frames[i].spent : i \in 1..Len(frames)}

BurntInv ==
  /\ \A s \in Steps : step[s] = "none" => Below(s, burnt) = {}
  /\ \A s \in DOMAIN call : step[s] = "complete" => metrics[s] = Below(s, burnt)
  /\ pc = "condition" \/ (pc = "execute" /\ frames = <<>>) => Below(cur, burnt) = {}
  /\ cur \in DOMAIN call /\ (pc = "reserved" \/ (pc = "store" /\ finalRec = "complete")) =>
       metrics[cur] = Below(cur, burnt)
  /\ frames # <<>> /\ top.pc \notin Failing => Spent = Below(cur, burnt)

\* The usage in the frames is that in the frames below the top, and at the top.
LEMMA SpentSplits ==
  ASSUME NEW n \in Nat \ {0}, NEW F, Len(F) = n
  PROVE  UNION {F[i].spent : i \in 1..Len(F)} =
           (UNION {F[i].spent : i \in 1..(n - 1)}) \cup F[n].spent
<1>1. 1..Len(F) = 1..(n - 1) \cup {n}
  OBVIOUS
<1> QED BY <1>1

\* A nested step keeps the usage in the frames what was burnt below the step.
LEMMA SpentStep ==
  ASSUME PipeInv, SubTypes, ShapeInv, BurntInv, Nested, frames' # <<>>, top'.pc \notin Failing
  PROVE  Spent' = Below(cur, burnt')
<1>0. frames \in Seq(Frame) /\ pc = "execute"
  BY NestedFacts DEF SubTypes
<1>1. PICK n \in Nat \ {0} :
        /\ n = Len(frames') /\ top' = frames'[n]
        /\ \A i \in 1..(n - 1) : i \in 1..Len(frames) /\ frames'[i] = frames[i]
  BY FramesMove
<1> DEFINE Lower == UNION {frames[i].spent : i \in 1..(n - 1)}
<1>2. Spent' = Lower \cup top'.spent
  <2>1. UNION {frames'[i].spent : i \in 1..(n - 1)} = Lower
    BY <1>1
  <2> QED BY <1>1, <2>1, SpentSplits DEF Spent
<1>3. CASE /\ frames # <<>> /\ top.pc \notin Failing /\ Len(frames') = Len(frames)
           /\ \E used \in SUBSET {entry} :
                top'.spent = top.spent \cup used /\ burnt' = burnt \cup used
  <2>1. PICK used \in SUBSET {entry} :
          top'.spent = top.spent \cup used /\ burnt' = burnt \cup used
    BY <1>3
  <2>2. Spent = Lower \cup top.spent
    BY <1>0, <1>1, <1>3, SpentSplits, TopFacts DEF Spent
  <2>3. Spent = Below(cur, burnt)
    BY <1>3 DEF BurntInv
  <2>4. Below(cur, used) = used
    <3>1. entry[1][1] = cur
      BY <1>3, HandFacts
    <3> QED BY <3>1 DEF Below
  <2>5. Below(cur, burnt') = Below(cur, burnt) \cup Below(cur, used)
    BY <2>1 DEF Below
  <2> HIDE DEF Lower
  <2> QED BY <1>2, <2>1, <2>2, <2>3, <2>4, <2>5
<1>4. CASE /\ frames # <<>> => top.pc \notin Failing
           /\ Len(frames') = Len(frames) + 1 /\ top'.spent = {} /\ burnt' = burnt
  <2>1. n - 1 = Len(frames)
    BY <1>0, <1>1, <1>4
  <2>2. Spent' = Spent
    BY <1>2, <1>4, <2>1 DEF Spent
  <2>3. CASE frames # <<>>
    BY <1>4, <2>2, <2>3 DEF BurntInv
  <2>4. CASE frames = <<>>
    <3>1. Below(cur, burnt) = {} /\ Spent = {}
      BY <1>0, <2>4 DEF BurntInv, Spent
    <3> QED BY <1>4, <2>2, <3>1
  <2> QED BY <2>3, <2>4
<1>5. CASE /\ frames # <<>> /\ top.pc \notin Failing
           /\ Len(frames') \in 1..Len(frames) /\ Len(frames') = Len(frames) - 1
           /\ top'.spent = frames[Len(frames')].spent \cup top.spent /\ burnt' = burnt
  <2>1. PICK L \in Nat \ {0} : L = Len(frames) /\ n = L - 1 /\ L - 1 \in Nat \ {0}
    <3>1. n + 1 = Len(frames)
      BY <1>0, <1>1, <1>5
    <3>2. n + 1 \in Nat \ {0} /\ (n + 1) - 1 = n
      OBVIOUS
    <3> QED BY <1>1, <3>1, <3>2
  <2> DEFINE U == UNION {frames[i].spent : i \in 1..(L - 1)}
  <2>2. Spent = U \cup top.spent
    BY <1>5, <2>1, SpentSplits, TopFacts, <1>0 DEF Spent
  <2>3. 1..(L - 1) = 1..(n - 1) \cup {n}
    BY <2>1
  <2>4. U = Lower \cup frames[n].spent
    BY <2>3
  <2>5. top'.spent = frames[n].spent \cup top.spent
    BY <1>1, <1>5
  <2>6. Spent = Below(cur, burnt)
    BY <1>5 DEF BurntInv
  <2>7. Below(cur, burnt') = Below(cur, burnt)
    BY <1>5
  <2> HIDE DEF Lower, U
  <2> QED BY <1>2, <2>2, <2>4, <2>5, <2>6, <2>7
<1> QED BY <1>3, <1>4, <1>5, SpendFacts

\* Only the usage below the step in hand, and only its record, changes.
LEMMA BurntElsewhere ==
  ASSUME SubTypes, ShapeInv, Nested, NEW s, s # cur
  PROVE  Below(s, burnt') = Below(s, burnt) /\ (s \in DOMAIN metrics => metrics'[s] = metrics[s])
<1>1. HistoryWrites /\ MetricsWrites
  BY NestedWrites
<1>2. burnt \subseteq burnt'
  BY DEF Nested, SubStep, CallRoot, CallNested, SubCreateRun, SubCreateStep, SubCondition,
     SubExecute, SubJudge, SubStore, SubFailStep, SubFailRun, SubComplete, SubDispatchFails
<1>3. \A e \in burnt' \ burnt : e[1][1] = cur
  <2>1. CASE frames # <<>> /\ burnt' \subseteq burnt \cup {entry}
    <3>1. entry[1][1] = cur
      BY <2>1, HandFacts
    <3> QED BY <2>1, <3>1
  <2> QED BY <1>1, <2>1 DEF HistoryWrites
<1>4. Below(s, burnt') = Below(s, burnt)
  BY <1>2, <1>3 DEF Below
<1> QED BY <1>1, <1>4 DEF MetricsWrites

\* Every step keeps the usage in the frames and in the records what was burnt.
LEMMA BurntStep ==
  ASSUME PipeInv, SubTypes, ShapeInv, BurntInv, [SubNext]_allVars
  PROVE  BurntInv'
<1>0. queue # <<>> => cur \in Steps
  BY QueueFacts DEF PipeInv, TypeOK
<1>1. CASE Nested
  <2>1. /\ UNCHANGED <<step, queue, finalRec, call>> /\ pc = "execute"
        /\ cur \in DOMAIN call /\ cur' = cur
        /\ pc' = pc \/ (pc' \in {"fail", "reserved"} /\ frames' = <<>>)
    BY <1>1, NestedFacts DEF runVars
  <2>2. /\ step[cur] \in Open /\ cur \in Steps
    BY <2>1, RootCalls DEF PipeInv, RecordInv, Busy
  <2>3. DOMAIN metrics = Steps /\ DOMAIN call \subseteq Steps
    BY RootCalls DEF SubTypes
  <2>4. \A s \in Steps : step[s] = "none" => Below(s, burnt') = {}
    BY <1>1, <2>2, BurntElsewhere DEF BurntInv, Open
  <2>5. \A s \in DOMAIN call : step[s] = "complete" => metrics'[s] = Below(s, burnt')
    BY <1>1, <2>2, <2>3, BurntElsewhere DEF BurntInv, Open
  <2>6. ~(pc' = "condition" \/ (pc' = "execute" /\ frames' = <<>>)) /\ pc' # "store"
    BY <1>1, <2>1, EmptyAfter
  <2>7. ASSUME pc' = "reserved" PROVE metrics'[cur] = Below(cur, burnt')
    <3>1. frames' = <<>> /\ pc' # pc /\ pc' # "fail"
      BY <2>1, <2>7
    <3>2. frames # <<>> /\ SubComplete /\ ReturnOutput(top.spent) /\ top.pc = "next"
          /\ burnt' = burnt
      <4>1. ASSUME ReturnError PROVE FALSE
        BY <3>1, <4>1 DEF ReturnError
      <4> QED
        BY <1>1, <3>1, <4>1 DEF Nested, SubStep, CallRoot, CallNested, SubCreateRun,
           SubCreateStep, SubCondition, SubExecute, SubJudge, SubStore, SubFailStep,
           SubFailRun, SubComplete, SubDispatchFails, vars
    <3>3. top.spent \in SUBSET SubEntry /\ frames \in Seq(Frame)
      BY <3>2, HandFacts DEF SubTypes
    <3>4. Len(frames) = 1 /\ metrics' = [metrics EXCEPT ![cur] = top.spent]
      BY <3>1, <3>2, <3>3, OutputFacts
    <3>5. Spent = top.spent
      <4>1. top = frames[1]
        BY <3>2, <3>3, <3>4, TopFacts
      <4>2. 1..Len(frames) = {1}
        BY <3>4
      <4> QED BY <4>1, <4>2 DEF Spent
    <3>6. Spent = Below(cur, burnt)
      BY <3>2 DEF BurntInv, Failing
    <3> QED BY <2>2, <2>3, <3>2, <3>4, <3>5, <3>6
  <2>8. frames' # <<>> /\ top'.pc \notin Failing => Spent' = Below(cur, burnt')
    BY <1>1, SpentStep
  <2> QED BY <2>1, <2>4, <2>5, <2>6, <2>7, <2>8 DEF BurntInv
<1>2. CASE RootStep \/ Outside \/ UNCHANGED allVars
  <2>1. UNCHANGED <<call, frames, metrics, burnt>> /\ RootEffects
    BY <1>2, RootFacts DEF RootStep, Outside, subVars, allVars
  <2>2. DOMAIN call \subseteq Steps
    BY RootCalls
  <2>3. \A s \in Steps : step'[s] = "none" => Below(s, burnt) = {}
    BY <2>1 DEF BurntInv, RootEffects
  <2>4. ASSUME NEW s \in DOMAIN call, step'[s] = "complete" PROVE metrics[s] = Below(s, burnt)
    <3>1. \/ step[s] = "complete"
          \/ s = cur /\ pc = "store" /\ finalRec = "complete"
      BY <2>1, <2>2, <2>4 DEF RootEffects, Good
    <3> QED BY <2>4, <3>1 DEF BurntInv
  <2>5. ASSUME pc' = "condition" \/ (pc' = "execute" /\ frames = <<>>)
        PROVE  Below(cur', burnt) = {}
    <3>1. /\ cur' = cur
          /\ \/ pc = "condition" \/ (pc = "execute" /\ frames = <<>>)
             \/ pc = "next" /\ step[cur] = "none" /\ pc' # pc
      BY <2>1, <2>5 DEF RootEffects
    <3>2. CASE pc = "next" /\ pc' # pc
      <4>1. CreateStep
        BY <1>2, <2>5, <3>2 DEF RootStep, ExecuteStep, Outside, Suspend, SuspendLate, Expire,
           Returned, CreateRun, EvalCondition, StepReturns, StepErrors, Judge, StoreStep,
           FailStep, FailRun, CompleteRun, Return, allVars, vars
      <4>2. cur \in Steps
        BY <1>0, <4>1 DEF CreateStep
      <4> QED BY <3>1, <3>2, <4>2 DEF BurntInv
    <3> QED BY <3>1, <3>2 DEF BurntInv
  <2>6. ASSUME cur' \in DOMAIN call,
               pc' = "reserved" \/ (pc' = "store" /\ finalRec' = "complete")
        PROVE  metrics[cur'] = Below(cur', burnt)
    <3>1. cur' = cur /\ (pc = "reserved" \/ (pc = "store" /\ finalRec = "complete")
                         \/ (pc = "execute" /\ RootStep))
      BY <2>1, <2>6 DEF RootEffects
    <3>2. pc = "execute" /\ RootStep => cur \notin DOMAIN call
      BY DEF RootStep
    <3> QED BY <2>6, <3>1, <3>2 DEF BurntInv
  <2>7. ASSUME frames # <<>>, top.pc \notin Failing PROVE Spent = Below(cur', burnt)
    <3>1. cur' = cur
      BY <1>2, <2>7 DEF RootStep, Outside, Suspend, SuspendLate, Expire, Returned, cur,
         vars, allVars
    <3> QED BY <2>7, <3>1 DEF BurntInv
  <2>8. top' = top /\ Spent' = Spent
    BY <2>1 DEF top, Spent
  <2> QED BY <2>1, <2>3, <2>4, <2>5, <2>6, <2>7, <2>8 DEF BurntInv
<1> QED BY <1>1, <1>2 DEF SubNext, Nested, Outside


-----------------------------------------------------------------------------
(* The records of a workflow step and of the sub-runs below it.            *)

\* Everything below a step of the root ended well, and nothing was started.
Finished(s) ==
  /\ \A p \in DOMAIN subRun : p[1] = s => subRun[p] = "complete"
  /\ \A e \in DOMAIN subStep : e[1][1] = s => subStep[e] \in Good
Nothing(s) ==
  /\ \A p \in DOMAIN subRun : p[1] # s
  /\ \A e \in DOMAIN subStep : e[1][1] # s

\* A sub-run that is on the stack, and a step that a frame is at.
Under(p)     == \E i \in 1..Len(frames) : frames[i].path = p
UnderStep(e) == \E i \in 1..Len(frames) :
                  frames[i].pc \in InHand /\ e = <<frames[i].path, Hand(frames[i])>>

DoneInv ==
  /\ \A s \in Steps : step[s] = "none" => Nothing(s)
  /\ \A s \in DOMAIN call : step[s] \in Good => Finished(s)
  /\ pc = "condition" \/ (pc = "execute" /\ frames = <<>>) => Nothing(cur)
  /\ cur \in DOMAIN call /\ pc \in {"reserved", "store"} /\ WritesSucceed => Finished(cur)
  /\ frames # <<>> /\ top.pc \notin Failing /\ WritesSucceed =>
       /\ \A p \in DOMAIN subRun : p[1] = cur => subRun[p] = "complete" \/ Under(p)
       /\ \A e \in DOMAIN subStep : e[1][1] = cur => subStep[e] \in Good \/ UnderStep(e)

\* The context of a run that is done stays so.
LEMMA WritesStay ==
  ASSUME [Next]_vars PROVE WritesSucceed' => WritesSucceed
BY DEF Next, ExecuteStep, CreateRun, CreateStep, EvalCondition, StepReturns, StepErrors, Judge,
   StoreStep, FailStep, FailRun, CompleteRun, Suspend, SuspendLate, Expire, Returned,
   WritesSucceed, vars, input

\* Only records below the step in hand change.
LEMMA RecordsElsewhere ==
  ASSUME SubTypes, ShapeInv, Nested, NEW s, s # cur
  PROVE  (Nothing(s) => Nothing(s)') /\ (Finished(s) => Finished(s)')
<1>1. ASSUME NEW p \in DOMAIN subRun', p[1] = s
      PROVE  p \in DOMAIN subRun /\ subRun'[p] = subRun[p]
  <2>1. UNCHANGED subRun \/ NewRun \/ OldRun
    BY NestedWrites, WrittenRuns
  <2>2. frames # <<>> => p # top.path
    BY <1>1, HandFacts
  <2> QED BY <2>1, <2>2 DEF NewRun, OldRun
<1>2. ASSUME NEW e \in DOMAIN subStep', e[1][1] = s
      PROVE  e \in DOMAIN subStep /\ subStep'[e] = subStep[e]
  <2>1. UNCHANGED subStep \/ NewStep \/ OldStep
    BY NestedWrites, WrittenSteps
  <2>2. frames # <<>> => e # entry
    <3>1. frames # <<>> => entry[1][1] = cur
      BY HandFacts
    <3> QED BY <1>2, <3>1
  <2> QED BY <2>1, <2>2 DEF NewStep, OldStep
<1> QED BY <1>1, <1>2 DEF Nothing, Finished

\* What a step of the frames leaves in the records as long as writes succeed
\* and nothing fails: a step that is left behind has ended well.
LeftBehind ==
  \A e \in DOMAIN subStep' :
    \/ /\ e \in DOMAIN subStep /\ subStep'[e] = subStep[e]
       /\ ~(e = entry /\ top.pc \in InHand)
    \/ subStep'[e] \in Good
    \/ e = entry /\ top'.pc \in InHand /\ top'.queue = top.queue

\* What a nested step that can write does to the records, by what it does to the
\* stack: the record left behind is a good one.
LEMMA RecordsKept ==
  ASSUME SubTypes, ShapeInv, Nested, frames' # <<>>, top'.pc \notin Failing, WritesSucceed
  PROVE  \/ /\ frames # <<>> /\ top.pc \notin Failing /\ Len(frames') = Len(frames)
            /\ SameCall(top', top) /\ LeftBehind /\ (UNCHANGED subRun \/ NewRun)
         \/ /\ frames # <<>> => top.pc \notin Failing
            /\ Len(frames') = Len(frames) + 1 /\ UNCHANGED <<subRun, subStep>>
         \/ /\ frames # <<>> /\ top.pc = "next"
            /\ Len(frames') = Len(frames) - 1 /\ Len(frames') \in 1..Len(frames)
            /\ SameCall(top', frames[Len(frames')])
            /\ top'.queue = frames[Len(frames')].queue /\ top'.pc = "reserved"
            /\ subRun' = [subRun EXCEPT ![top.path] = "complete"] /\ UNCHANGED subStep
<1>0. frames \in Seq(Frame)
  BY DEF SubTypes
<1>1. ASSUME frames # <<>>, ReturnError PROVE FALSE
  BY <1>0, <1>1, ErrorFacts DEF Failing
<1>2. ASSUME frames # <<>>, NEW l \in SubPC, Goto(At(l))
      PROVE  /\ l \notin Failing /\ Len(frames') = Len(frames) /\ SameCall(top', top)
             /\ top'.pc = l /\ top'.queue = top.queue
  <2>1. top \in Frame
    BY <1>2, HandFacts
  <2>2. At(l) \in Frame /\ At(l).pc = l /\ SameCall(At(l), top) /\ At(l).queue = top.queue
    BY <2>1, AtFacts
  <2>3. top' = At(l) /\ Len(frames') = Len(frames)
    BY <1>0, <1>2, <2>2, GotoFacts
  <2>4. l \notin Failing
    BY <2>2, <2>3
  <2> QED BY <2>2, <2>3, <2>4 DEF SameCall
<1>3. ASSUME frames # <<>>, top.queue # <<>>, Goto(NextStep)
      PROVE  Len(frames') = Len(frames) /\ SameCall(top', top) /\ top'.pc = "next"
  <2>1. top \in Frame
    BY <1>3, HandFacts
  <2>2. NextStep \in Frame /\ SameCall(NextStep, top) /\ NextStep.pc = "next"
    BY <1>3, <2>1, NextFacts
  <2>3. top' = NextStep /\ Len(frames') = Len(frames)
    BY <1>0, <1>3, <2>2, GotoFacts
  <2> QED BY <2>2, <2>3 DEF SameCall
<1>4. ASSUME frames # <<>>, Goto(At("fail")) \/ Goto(At("failRun")) PROVE FALSE
  BY <1>2, <1>4, Labels DEF Failing
<1>5. frames # <<>> /\ top.pc \in InHand => top.queue # <<>>
  BY HandFacts
\* The same step goes on and no record changes, or it is left behind.
<1>6. ASSUME frames # <<>>, top.pc \notin Failing, top.pc \in InHand,
             UNCHANGED <<subRun, subStep>>, top'.pc \in InHand, top'.queue = top.queue
      PROVE  LeftBehind
  BY <1>6 DEF LeftBehind
<1>7. ASSUME frames # <<>>, top.pc \in InHand, NEW v \in Good,
             subStep' = [subStep EXCEPT ![entry] = v]
      PROVE  LeftBehind
  BY <1>7 DEF LeftBehind
<1>8. "skipped" \in Good /\ "complete" \in Good
  BY DEF Good
<1>9. ASSUME frames # <<>>, top.pc \in InHand, Skip
      PROVE  Len(frames') = Len(frames) /\ SameCall(top', top) /\ LeftBehind
  BY <1>3, <1>5, <1>7, <1>8, <1>9 DEF Skip
<1>10. CASE CallRoot
  <2>1. frames = <<>> /\ UNCHANGED <<subRun, subStep>> /\ Push(call[cur], <<cur>>)
    BY <1>10 DEF CallRoot
  <2>2. cur \in Steps /\ call[cur] \in Call(Subs) /\ <<cur>> \in Path
    BY <1>10, RootCalls DEF CallRoot, Path
  <2>3. Len(frames') = Len(frames) + 1
    BY <1>0, <2>1, <2>2, CallFacts
  <2> QED BY <2>1, <2>3
<1>11. CASE CallNested
  <2>1. /\ frames # <<>> /\ top.pc = "execute" /\ topStep \in DOMAIN top.sub.calls
        /\ UNCHANGED <<subRun, subStep>> /\ Push(top.sub.calls[topStep], Append(top.path, topStep))
    BY <1>4, <1>11 DEF CallNested
  <2>2. /\ top.sub \in Subs /\ topStep \in SubSteps /\ top.path \in Path
    BY <2>1, HandFacts, Labels
  <2>3. top.sub.calls[topStep] \in Call(Subs) /\ Append(top.path, topStep) \in Path
    BY <2>1, <2>2, SubFields DEF Path
  <2>4. Len(frames') = Len(frames) + 1
    BY <1>0, <2>1, <2>3, CallFacts
  <2> QED BY <2>1, <2>4 DEF Failing
<1>12. CASE SubCreateRun
  <2>1. /\ frames # <<>> /\ top.pc = "create" /\ UNCHANGED subStep /\ Goto(At("next"))
        /\ subRun' = Put(subRun, top.path, "running")
    BY <1>1, <1>12 DEF SubCreateRun
  <2>2. NewRun
    BY <2>1 DEF NewRun, Put
  <2>3. LeftBehind
    BY <2>1, Labels DEF LeftBehind
  <2> QED BY <1>2, <2>1, <2>2, <2>3, Labels DEF Failing
<1>13. CASE SubCreateStep
  <2>1. /\ frames # <<>> /\ top.pc = "next" /\ UNCHANGED subRun /\ top.queue # <<>>
        /\ entry \notin DOMAIN subStep
        /\ \/ Goto(NextStep) /\ subStep' = Put(subStep, entry, "skipped")
           \/ /\ Goto(At("condition")) \/ Goto(At("execute"))
              /\ subStep' = Put(subStep, entry, "running")
    BY <1>1, <1>13 DEF SubCreateStep
  <2>2. CASE Goto(NextStep) /\ subStep' = Put(subStep, entry, "skipped")
    <3>1. LeftBehind
      BY <1>8, <2>1, <2>2, Labels DEF LeftBehind, Put
    <3> QED BY <1>3, <2>1, <2>2, <3>1 DEF Failing
  <2>3. CASE /\ Goto(At("condition")) \/ Goto(At("execute"))
             /\ subStep' = Put(subStep, entry, "running")
    <3>1. /\ top'.pc \in InHand /\ top'.queue = top.queue
          /\ Len(frames') = Len(frames) /\ SameCall(top', top)
      BY <1>2, <2>1, <2>3, Labels
    <3>2. LeftBehind
      BY <2>1, <2>3, <3>1, Labels DEF LeftBehind, Put
    <3> QED BY <2>1, <3>1, <3>2 DEF Failing
  <2> QED BY <2>1, <2>2, <2>3
<1>14. CASE SubCondition
  <2>1. /\ frames # <<>> /\ top.pc \notin Failing /\ UNCHANGED subRun /\ top.pc \in InHand
        /\ Skip \/ (Goto(At("execute")) /\ UNCHANGED subStep)
    BY <1>14, Labels DEF SubCondition, Failing
  <2> QED BY <1>2, <1>6, <1>9, <2>1, Labels
<1>15. CASE SubExecute
  <2>1. PICK used : /\ used = (IF topStep \in top.sub.agents THEN {entry} ELSE {})
                    /\ Goto(Got(used)) \/ Goto(At("fail"))
    BY <1>15 DEF SubExecute, Got
  <2>2. /\ frames # <<>> /\ top.pc \in InHand /\ top.pc \notin Failing
        /\ UNCHANGED <<subRun, subStep>>
    BY <1>15, Labels DEF SubExecute, Failing
  <2>3. used \in SUBSET SubEntry /\ top \in Frame
    BY <2>1, <2>2, HandFacts
  <2>4. /\ Got(used) \in Frame /\ SameCall(Got(used), top) /\ Got(used).pc = "reserved"
        /\ Got(used).queue = top.queue
    BY <2>3, GotFacts
  <2>5. Goto(Got(used))
    BY <1>4, <2>1, <2>2
  <2>6. Len(frames') = Len(frames) /\ top' = Got(used)
    BY <1>0, <2>2, <2>4, <2>5, GotoFacts
  <2> QED BY <1>6, <2>2, <2>4, <2>6, Labels DEF SameCall
<1>16. CASE SubJudge
  <2>1. /\ frames # <<>> /\ top.pc \notin Failing /\ UNCHANGED subRun /\ top.pc \in InHand
        /\ Skip \/ (Goto(At("store")) /\ UNCHANGED subStep)
    BY <1>4, <1>16, Labels DEF SubJudge, Failing
  <2> QED BY <1>2, <1>6, <1>9, <2>1, Labels
<1>17. CASE SubStore
  <2>1. /\ frames # <<>> /\ top.pc \notin Failing /\ UNCHANGED subRun /\ top.pc \in InHand
        /\ Goto(NextStep) /\ subStep' = [subStep EXCEPT ![entry] = "complete"]
    BY <1>1, <1>17, Labels DEF SubStore, Failing
  <2> QED BY <1>3, <1>5, <1>7, <1>8, <2>1
<1>18. CASE SubComplete
  <2>1. /\ frames # <<>> /\ top.pc = "next" /\ UNCHANGED subStep
        /\ ReturnOutput(top.spent) /\ subRun' = [subRun EXCEPT ![top.path] = "complete"]
    BY <1>1, <1>18 DEF SubComplete
  <2>2. top.spent \in SUBSET SubEntry
    BY <2>1, HandFacts
  <2>3. /\ Len(frames) > 1 /\ Len(frames') = Len(frames) - 1
        /\ \E c \in Frame : /\ c = frames[Len(frames) - 1] /\ SameCall(top', c)
                            /\ top'.queue = c.queue /\ top'.pc = "reserved"
    BY <1>0, <2>1, <2>2, OutputFacts DEF SameCall
  <2>4. Len(frames') \in 1..Len(frames)
    <3>1. PICK L \in Nat : L = Len(frames)
      BY <1>0
    <3> QED BY <2>3, <3>1
  <2> QED BY <2>1, <2>3, <2>4
<1>19. ~(SubFailStep \/ SubFailRun \/ SubDispatchFails)
  BY <1>1, <1>4 DEF SubFailStep, SubFailRun, SubDispatchFails
<1> QED
  BY <1>10, <1>11, <1>12, <1>13, <1>14, <1>15, <1>16, <1>17, <1>18, <1>19
     DEF Nested, SubStep


\* Below the step in hand everything has ended well but what is in hand.
BelowHand ==
  /\ \A p \in DOMAIN subRun : p[1] = cur => subRun[p] = "complete" \/ Under(p)
  /\ \A e \in DOMAIN subStep : e[1][1] = cur => subStep[e] \in Good \/ UnderStep(e)

\* A nested step leaves every record below the step in hand good or in hand.
LEMMA BelowHandStep ==
  ASSUME PipeInv, SubTypes, ShapeInv, DoneInv, Nested, WritesSucceed,
         frames' # <<>>, top'.pc \notin Failing
  PROVE  BelowHand'
<1>0. frames \in Seq(Frame) /\ pc = "execute" /\ cur' = cur
  BY NestedFacts DEF SubTypes
<1>1. PICK n \in Nat \ {0} :
        /\ n = Len(frames') /\ top' = frames'[n]
        /\ \A i \in 1..(n - 1) : i \in 1..Len(frames) /\ frames'[i] = frames[i]
  BY FramesMove
<1>2. n \in 1..n /\ \A i \in 1..(n - 1) : i \in 1..n
  OBVIOUS
<1>3. frames # <<>> => /\ Len(frames) \in Nat \ {0} /\ top = frames[Len(frames)]
                       /\ entry = <<top.path, Hand(top)>>
  BY <1>0, TopFacts
<1>4. frames # <<>> /\ top.pc \notin Failing => BelowHand
  BY DEF DoneInv, BelowHand
<1>5. CASE /\ frames # <<>> /\ top.pc \notin Failing /\ Len(frames') = Len(frames)
           /\ SameCall(top', top) /\ LeftBehind /\ (UNCHANGED subRun \/ NewRun)
  <2>1. n = Len(frames) /\ top = frames[n]
    BY <1>1, <1>3, <1>5
  <2>2. \A i \in 1..n : frames'[i].path = frames[i].path
    <3>1. top'.path = top.path
      BY <1>5 DEF SameCall
    <3>2. \A i \in 1..n : i = n \/ i \in 1..(n - 1)
      OBVIOUS
    <3> QED BY <1>1, <2>1, <3>1, <3>2
  <2>3. ASSUME NEW p \in DOMAIN subRun', p[1] = cur
        PROVE  subRun'[p] = "complete" \/ Under(p)'
    <3>1. CASE p = top.path
      BY <1>1, <1>2, <2>1, <2>2, <3>1 DEF Under
    <3>2. CASE p # top.path
      <4>1. p \in DOMAIN subRun /\ subRun'[p] = subRun[p]
        BY <1>5, <2>3, <3>2 DEF NewRun
      <4>2. Under(p) => Under(p)'
        BY <1>1, <2>1, <2>2 DEF Under
      <4> QED BY <1>4, <1>5, <2>3, <4>1, <4>2 DEF BelowHand
    <3> QED BY <3>1, <3>2
  <2>4. ASSUME NEW e \in DOMAIN subStep', e[1][1] = cur
        PROVE  subStep'[e] \in Good \/ UnderStep(e)'
    <3>1. CASE e = entry /\ top'.pc \in InHand /\ top'.queue = top.queue
      <4>1. e = <<top'.path, Hand(top')>>
        BY <1>3, <1>5, <3>1 DEF SameCall, Hand
      <4> QED BY <1>1, <1>2, <3>1, <4>1 DEF UnderStep
    <3>2. CASE /\ e \in DOMAIN subStep /\ subStep'[e] = subStep[e]
               /\ ~(e = entry /\ top.pc \in InHand)
      <4>1. ASSUME NEW i \in 1..Len(frames), frames[i].pc \in InHand,
                   e = <<frames[i].path, Hand(frames[i])>>
            PROVE  UnderStep(e)'
        <5>1. i # n
          BY <1>3, <1>5, <2>1, <3>2, <4>1
        <5>2. i \in 1..(n - 1)
          BY <2>1, <5>1
        <5> QED BY <1>1, <1>2, <4>1, <5>2 DEF UnderStep
      <4>2. UnderStep(e) => UnderStep(e)'
        BY <4>1 DEF UnderStep
      <4> QED BY <1>4, <1>5, <2>4, <3>2, <4>2 DEF BelowHand
    <3> QED BY <1>5, <2>4, <3>1, <3>2 DEF LeftBehind
  <2> QED BY <1>0, <2>3, <2>4 DEF BelowHand
<1>6. CASE /\ frames # <<>> => top.pc \notin Failing
           /\ Len(frames') = Len(frames) + 1 /\ UNCHANGED <<subRun, subStep>>
  <2>1. Len(frames) = n - 1 /\ \A i \in 1..Len(frames) : i \in 1..(n - 1)
    BY <1>0, <1>1, <1>6
  <2>2. \A i \in 1..Len(frames) : i \in 1..Len(frames') /\ frames'[i] = frames[i]
    BY <1>1, <1>2, <2>1
  <2>3. \A p : Under(p) => Under(p)'
    BY <2>2 DEF Under
  <2>4. \A e : UnderStep(e) => UnderStep(e)'
    BY <2>2 DEF UnderStep
  <2>5. CASE frames # <<>>
    BY <1>0, <1>4, <1>6, <2>3, <2>4, <2>5 DEF BelowHand
  <2>6. CASE frames = <<>>
    <3>1. Nothing(cur)
      BY <1>0, <2>6 DEF DoneInv
    <3> QED BY <1>0, <1>6, <3>1 DEF BelowHand, Nothing
  <2> QED BY <2>5, <2>6
<1>7. CASE /\ frames # <<>> /\ top.pc = "next"
           /\ Len(frames') = Len(frames) - 1 /\ Len(frames') \in 1..Len(frames)
           /\ SameCall(top', frames[Len(frames')])
           /\ top'.queue = frames[Len(frames')].queue /\ top'.pc = "reserved"
           /\ subRun' = [subRun EXCEPT ![top.path] = "complete"] /\ UNCHANGED subStep
  <2>1. Len(frames) = n + 1 /\ top = frames[n + 1]
    BY <1>0, <1>1, <1>3, <1>7
  <2>2. \A i \in 1..n : frames'[i].path = frames[i].path
    <3>1. top'.path = frames[n].path
      BY <1>1, <1>7 DEF SameCall
    <3>2. \A i \in 1..n : i = n \/ i \in 1..(n - 1)
      OBVIOUS
    <3> QED BY <1>1, <3>1, <3>2
  <2>3. BelowHand
    BY <1>4, <1>7 DEF Failing
  <2>4. \A i \in 1..Len(frames) : i = n + 1 \/ i = n \/ i \in 1..(n - 1)
    BY <2>1
  <2>5. ASSUME NEW p \in DOMAIN subRun', p[1] = cur
        PROVE  subRun'[p] = "complete" \/ Under(p)'
    <3>1. CASE p = top.path
      BY <1>7, <2>5, <3>1
    <3>2. CASE p # top.path
      <4>1. p \in DOMAIN subRun /\ subRun'[p] = subRun[p]
        BY <1>7, <2>5, <3>2
      <4>2. ASSUME NEW i \in 1..Len(frames), frames[i].path = p PROVE Under(p)'
        <5>1. i \in 1..n
          BY <1>2, <2>1, <2>4, <3>2, <4>2
        <5> QED BY <1>1, <2>2, <4>2, <5>1 DEF Under
      <4>3. Under(p) => Under(p)'
        BY <4>2 DEF Under
      <4> QED BY <2>3, <2>5, <4>1, <4>3 DEF BelowHand
    <3> QED BY <3>1, <3>2
  <2>6. ASSUME NEW e \in DOMAIN subStep', e[1][1] = cur
        PROVE  subStep'[e] \in Good \/ UnderStep(e)'
    <3>1. ASSUME NEW i \in 1..Len(frames), frames[i].pc \in InHand,
                 e = <<frames[i].path, Hand(frames[i])>>
          PROVE  UnderStep(e)'
      <4>1. i # n + 1
        BY <1>7, <2>1, <3>1, Labels
      <4>2. CASE i = n
        <5>1. e = <<top'.path, Hand(top')>> /\ top'.pc \in InHand
          BY <1>1, <1>7, <3>1, <4>2, Labels DEF SameCall, Hand
        <5> QED BY <1>1, <1>2, <5>1 DEF UnderStep
      <4>3. CASE i \in 1..(n - 1)
        BY <1>1, <1>2, <3>1, <4>3 DEF UnderStep
      <4> QED BY <2>4, <4>1, <4>2, <4>3
    <3>2. UnderStep(e) => UnderStep(e)'
      BY <3>1 DEF UnderStep
    <3> QED BY <1>7, <2>3, <2>6, <3>2 DEF BelowHand
  <2> QED BY <1>0, <2>5, <2>6 DEF BelowHand
<1> QED BY <1>5, <1>6, <1>7, RecordsKept

\* The step of a sub-run that ends the whole call is its completion, if an
\* output is returned to the root.
LEMMA CallCompletes ==
  ASSUME SubTypes, ShapeInv, Nested, pc' = "reserved"
  PROVE  /\ Len(frames) = 1 /\ frames # <<>> /\ top.pc = "next" /\ WritesSucceed
         /\ metrics' = [metrics EXCEPT ![cur] = top.spent] /\ burnt' = burnt
         /\ subRun' = [subRun EXCEPT ![top.path] = "complete"] /\ UNCHANGED subStep
<1>1. frames' = <<>> /\ pc' # pc /\ pc' # "fail" /\ frames \in Seq(Frame)
  BY NestedFacts DEF SubTypes
<1>2. ASSUME ReturnError PROVE FALSE
  BY <1>1, <1>2 DEF ReturnError
<1>3. SubComplete
  BY <1>1, <1>2 DEF Nested, SubStep, CallRoot, CallNested, SubCreateRun, SubCreateStep,
     SubCondition, SubExecute, SubJudge, SubStore, SubFailStep, SubFailRun, SubDispatchFails,
     vars
<1>4. /\ frames # <<>> /\ top.pc = "next" /\ burnt' = burnt /\ UNCHANGED subStep
      /\ WritesSucceed /\ subRun' = [subRun EXCEPT ![top.path] = "complete"]
      /\ ReturnOutput(top.spent)
  BY <1>2, <1>3 DEF SubComplete
<1>5. top.spent \in SUBSET SubEntry
  BY <1>4, HandFacts
<1> QED BY <1>1, <1>4, <1>5, OutputFacts

\* Every step keeps the records below a finished step of the root good.
LEMMA DoneStep ==
  ASSUME PipeInv, SubTypes, ShapeInv, DoneInv, [SubNext]_allVars
  PROVE  DoneInv'
<1>0. /\ queue # <<>> => cur \in Steps
      /\ DOMAIN call \subseteq Steps
  BY QueueFacts, RootCalls DEF PipeInv, TypeOK
<1>1. CASE Nested
  <2>1. /\ UNCHANGED <<step, store, expired, call>> /\ pc = "execute"
        /\ cur \in DOMAIN call /\ cur' = cur
        /\ pc' = pc \/ (pc' \in {"fail", "reserved"} /\ frames' = <<>>)
    BY <1>1, NestedFacts DEF runVars, input
  <2>2. step[cur] \in Open /\ WritesSucceed' = WritesSucceed
    BY <2>1 DEF PipeInv, RecordInv, Busy, WritesSucceed
  <2>3. \A s \in Steps : step[s] = "none" => Nothing(s)'
    BY <1>1, <2>2, RecordsElsewhere DEF DoneInv, Open
  <2>4. \A s \in DOMAIN call : step[s] \in Good => Finished(s)'
    BY <1>1, <2>2, RecordsElsewhere DEF DoneInv, Open, Good
  <2>5. ~(pc' = "condition" \/ (pc' = "execute" /\ frames' = <<>>)) /\ pc' # "store"
    BY <1>1, <2>1, EmptyAfter
  <2>6. ASSUME pc' = "reserved" PROVE Finished(cur)'
    <3>1. /\ Len(frames) = 1 /\ frames # <<>> /\ top.pc = "next" /\ WritesSucceed
          /\ subRun' = [subRun EXCEPT ![top.path] = "complete"] /\ UNCHANGED subStep
      BY <1>1, <2>6, CallCompletes
    <3>2. top = frames[1] /\ \A i \in 1..Len(frames) : i = 1
      BY <3>1, TopFacts DEF SubTypes
    <3>3. BelowHand
      BY <3>1 DEF DoneInv, BelowHand, Failing
    <3>4. ASSUME NEW p \in DOMAIN subRun', p[1] = cur PROVE subRun'[p] = "complete"
      <4>1. p \in DOMAIN subRun /\ (subRun[p] = "complete" \/ p = top.path)
        BY <3>1, <3>2, <3>3, <3>4 DEF BelowHand, Under
      <4> QED BY <3>1, <4>1
    <3>5. ASSUME NEW e \in DOMAIN subStep', e[1][1] = cur PROVE subStep'[e] \in Good
      <4>1. ~UnderStep(e)
        BY <3>1, <3>2, Labels DEF UnderStep
      <4> QED BY <3>1, <3>3, <3>5, <4>1 DEF BelowHand
    <3> QED BY <2>1, <3>4, <3>5 DEF Finished
  <2>7. frames' # <<>> /\ top'.pc \notin Failing /\ WritesSucceed => BelowHand'
    BY <1>1, BelowHandStep
  <2> QED BY <2>1, <2>2, <2>3, <2>4, <2>5, <2>6, <2>7 DEF DoneInv, BelowHand
<1>2. CASE RootStep \/ Outside \/ UNCHANGED allVars
  <2>1. UNCHANGED <<call, frames, subRun, subStep>> /\ RootEffects
    BY <1>2, RootFacts DEF RootStep, Outside, subVars, allVars
  <2>2. /\ \A s : (Nothing(s)' <=> Nothing(s)) /\ (Finished(s)' <=> Finished(s))
        /\ \A s : Nothing(s) => Finished(s)
    BY <2>1 DEF Nothing, Finished
  <2>3. WritesSucceed' => WritesSucceed
    BY WritesStay, CompositionStep
  <2>4. \A s \in Steps : step'[s] = "none" => Nothing(s)
    BY <2>1 DEF DoneInv, RootEffects
  <2>5. ASSUME NEW s \in DOMAIN call, step'[s] \in Good PROVE Finished(s)
    <3>1. \/ step[s] \in Good
          \/ s = cur /\ pc = "store" /\ WritesSucceed
      BY <1>0, <2>1, <2>5 DEF RootEffects
    <3> QED BY <2>5, <3>1 DEF DoneInv
  <2>6. ASSUME pc' = "condition" \/ (pc' = "execute" /\ frames = <<>>)
        PROVE  Nothing(cur')
    <3>1. /\ cur' = cur
          /\ \/ pc = "condition" \/ (pc = "execute" /\ frames = <<>>)
             \/ pc = "next" /\ step[cur] = "none" /\ pc' # pc
      BY <2>1, <2>6 DEF RootEffects
    <3>2. CASE pc = "next" /\ pc' # pc
      <4>1. CreateStep
        BY <1>2, <2>6, <3>2 DEF RootStep, ExecuteStep, Outside, Suspend, SuspendLate, Expire,
           Returned, CreateRun, EvalCondition, StepReturns, StepErrors, Judge, StoreStep,
           FailStep, FailRun, CompleteRun, Return, allVars, vars
      <4>2. cur \in Steps
        BY <1>0, <4>1 DEF CreateStep
      <4> QED BY <3>1, <3>2, <4>2 DEF DoneInv
    <3> QED BY <3>1, <3>2 DEF DoneInv
  <2>7. ASSUME cur' \in DOMAIN call, pc' \in {"reserved", "store"}, WritesSucceed
        PROVE  Finished(cur')
    <3>1. cur' = cur /\ (pc \in {"reserved", "store", "condition"} \/ (pc = "execute" /\ RootStep))
      BY <2>1, <2>7 DEF RootEffects
    <3>2. pc = "execute" /\ RootStep => cur \notin DOMAIN call
      BY DEF RootStep
    <3> QED BY <2>2, <2>7, <3>1, <3>2 DEF DoneInv
  <2>8. ASSUME frames # <<>>, top.pc \notin Failing, WritesSucceed PROVE BelowHand'
    <3>1. cur' = cur
      BY <1>2, <2>8 DEF RootStep, Outside, Suspend, SuspendLate, Expire, Returned, cur,
         vars, allVars
    <3>2. \A p : Under(p)' <=> Under(p)
      BY <2>1 DEF Under
    <3>3. \A e : UnderStep(e)' <=> UnderStep(e)
      BY <2>1 DEF UnderStep
    <3>4. BelowHand
      BY <2>8 DEF DoneInv, BelowHand
    <3> QED BY <2>1, <3>1, <3>2, <3>3, <3>4 DEF BelowHand
  <2>9. top' = top
    BY <2>1 DEF top
  <2> QED BY <2>1, <2>2, <2>3, <2>4, <2>5, <2>6, <2>7, <2>8, <2>9 DEF DoneInv, BelowHand
<1> QED BY <1>1, <1>2 DEF SubNext, Nested, Outside


-----------------------------------------------------------------------------
(* Where the steps of a sub-run come from, and how a sub-run is left.      *)

\* The step that a path goes through has a record in D.
Chain(D, p) == \A q \in Path, s \in SubSteps : q # <<>> /\ p = Append(q, s) => <<q, s>> \in D

\* The queue of a frame is the end of the order of its sub-workflow; its records
\* in D are of the steps before that, or of the one in hand.
Ordered(f, D) ==
  \E j \in Nat :
    /\ Len(f.queue) + j = Len(f.sub.order)
    /\ \A m \in 1..Len(f.queue) : f.queue[m] = f.sub.order[m + j]
    /\ \A e \in D : e[1] = f.path =>
         (\E m \in 1..j : f.sub.order[m] = e[2]) \/ (f.pc \in InHand /\ e[2] = Hand(f))

Framed(f, i, D) ==
  /\ Len(f.path) = i /\ Chain(D, f.path)
  /\ f.pc \in InHand => <<f.path, Hand(f)>> \in D
  /\ Ordered(f, D)

\* A step has no record below it before it is called.
TraceInv ==
  /\ \A e \in DOMAIN subStep : Chain(DOMAIN subStep, e[1])
  /\ \A i \in 1..Len(frames) : Framed(frames[i], i, DOMAIN subStep)
  /\ frames # <<>> /\ top.pc \in {"condition", "execute"} =>
       \A e \in DOMAIN subStep : e[1] # Append(top.path, topStep)
  /\ frames # <<>> /\ top.pc = "create" => \A e \in DOMAIN subStep : e[1] # top.path

\* A sub-run that is left running could not be resolved, or had an ID twice.
Excused(c, p) == Named(c, p).sub.cyclic \/ ~IsInjective(Named(c, p).sub.order)

MemInv ==
  store = "mem" =>
    \A p \in DOMAIN subRun : subRun[p] = "running" => Under(p) \/ Excused(call, p)

\* Records of other frames, and more records of steps already there, do no harm.
LEMMA OrderedElsewhere ==
  ASSUME NEW f, NEW D, NEW e0, Ordered(f, D), e0[1] # f.path, NEW E, E \subseteq D \cup {e0}
  PROVE  Ordered(f, E)
BY DEF Ordered

\* A frame that goes on at its step, at its next step, and one that starts.
LEMMA OrderedAt ==
  ASSUME NEW f, NEW g, NEW D, Ordered(f, D), SameCall(g, f), g.queue = f.queue,
         f.pc \in InHand => g.pc \in InHand,
         NEW E, E \subseteq D \cup (IF g.pc \in InHand THEN {<<f.path, Hand(f)>>} ELSE {})
  PROVE  Ordered(g, E)
<1>1. Hand(g) = Hand(f)
  BY DEF Hand
<1>2. PICK j \in Nat :
        /\ Len(f.queue) + j = Len(f.sub.order)
        /\ \A m \in 1..Len(f.queue) : f.queue[m] = f.sub.order[m + j]
        /\ \A e \in D : e[1] = f.path =>
             (\E m \in 1..j : f.sub.order[m] = e[2]) \/ (f.pc \in InHand /\ e[2] = Hand(f))
  BY DEF Ordered
<1>3. ASSUME NEW e \in E, e[1] = g.path
      PROVE  (\E m \in 1..j : g.sub.order[m] = e[2]) \/ (g.pc \in InHand /\ e[2] = Hand(g))
  <2>1. CASE e \in D
    BY <1>1, <1>2, <1>3, <2>1 DEF SameCall
  <2>2. CASE e \notin D
    <3>1. g.pc \in InHand /\ e = <<f.path, Hand(f)>>
      BY <2>2
    <3> QED BY <1>1, <3>1
  <2> QED BY <2>1, <2>2
<1>4. Len(g.queue) + j = Len(g.sub.order)
  BY <1>2 DEF SameCall
<1>5. \A m \in 1..Len(g.queue) : g.queue[m] = g.sub.order[m + j]
  BY <1>2 DEF SameCall
<1> QED BY <1>3, <1>4, <1>5 DEF Ordered

\* A frame that goes on with its next step has left one more step behind.
LEMMA OrderedNext ==
  ASSUME NEW f \in Frame, NEW g, NEW D, Ordered(f, D), SameCall(g, f), f.queue # <<>>,
         g.queue = Tail(f.queue),
         NEW E, E \subseteq D \cup {<<f.path, Hand(f)>>}
  PROVE  Ordered(g, E)
<1>1. PICK j \in Nat :
        /\ Len(f.queue) + j = Len(f.sub.order)
        /\ \A m \in 1..Len(f.queue) : f.queue[m] = f.sub.order[m + j]
        /\ \A e \in D : e[1] = f.path =>
             (\E m \in 1..j : f.sub.order[m] = e[2]) \/ (f.pc \in InHand /\ e[2] = Hand(f))
  BY DEF Ordered
<1>2. PICK q \in Seq(SubSteps) : q = f.queue /\ q # <<>>
  BY FrameFields
<1>3. PICK n \in Nat \ {0} : n = Len(q)
  BY <1>2
<1>4. /\ Len(g.queue) = n - 1 /\ Hand(f) = q[1]
      /\ \A m \in 1..(n - 1) : g.queue[m] = q[m + 1]
  <2>1. Len(Tail(q)) = n - 1 /\ Head(q) = q[1]
    BY <1>2, <1>3
  <2>2. \A m \in 1..(n - 1) : Tail(q)[m] = q[m + 1]
    BY <1>2, <1>3
  <2> QED BY <1>2, <2>1, <2>2 DEF Hand
<1>5. Hand(f) = f.sub.order[j + 1]
  <2>1. q[1] = f.sub.order[1 + j]
    BY <1>1, <1>2, <1>3
  <2>2. 1 + j = j + 1
    OBVIOUS
  <2> QED BY <1>4, <2>1, <2>2
<1>6. Len(g.queue) + (j + 1) = Len(g.sub.order)
  <2>1. n + j = Len(g.sub.order)
    BY <1>1, <1>2, <1>3 DEF SameCall
  <2>2. (n - 1) + (j + 1) = n + j
    OBVIOUS
  <2> QED BY <1>4, <2>1, <2>2
<1>7. \A m \in 1..Len(g.queue) : g.queue[m] = g.sub.order[m + (j + 1)]
  <2>1. ASSUME NEW m \in 1..(n - 1) PROVE g.queue[m] = g.sub.order[m + (j + 1)]
    <3>1. m + 1 \in 1..n /\ (m + 1) + j = m + (j + 1)
      BY <1>3
    <3>2. q[m + 1] = f.sub.order[(m + 1) + j]
      BY <1>1, <1>2, <1>3, <3>1
    <3> QED BY <1>4, <3>1, <3>2 DEF SameCall
  <2> QED BY <1>4, <2>1
<1>8. ASSUME NEW e \in E, e[1] = g.path PROVE \E m \in 1..(j + 1) : g.sub.order[m] = e[2]
  <2>1. j + 1 \in 1..(j + 1) /\ \A m \in 1..j : m \in 1..(j + 1)
    OBVIOUS
  <2>2. CASE e \in D
    <3>1. (\E m \in 1..j : f.sub.order[m] = e[2]) \/ e[2] = Hand(f)
      BY <1>1, <1>8, <2>2 DEF SameCall
    <3> QED BY <1>5, <2>1, <3>1 DEF SameCall
  <2>3. CASE e \notin D
    <3>1. e[2] = Hand(f)
      BY <2>3
    <3> QED BY <1>5, <2>1, <3>1 DEF SameCall
  <2> QED BY <2>2, <2>3
<1>9. j + 1 \in Nat
  OBVIOUS
<1> QED BY <1>6, <1>7, <1>8, <1>9 DEF Ordered

\* A frame that starts on a path with no records is in order.
LEMMA OrderedNew ==
  ASSUME NEW g \in Frame, g.queue = g.sub.order, NEW D, \A e \in D : e[1] # g.path
  PROVE  Ordered(g, D)
<1>1. g.queue \in Seq(SubSteps)
  BY FrameFields
<1>2. Len(g.queue) + 0 = Len(g.sub.order)
  BY <1>1
<1>3. \A m \in 1..Len(g.queue) : g.queue[m] = g.sub.order[m + 0]
  BY <1>1
<1> QED BY <1>2, <1>3 DEF Ordered

\* A path with one more step.
LEMMA AppendFacts ==
  ASSUME NEW p \in Path, NEW s \in SubSteps
  PROVE  /\ Append(p, s) \in Path /\ Len(Append(p, s)) = Len(p) + 1 /\ Len(p) \in Nat
         /\ Append(p, s) # p
<1>1. p \in Seq(Steps \cup SubSteps) /\ s \in Steps \cup SubSteps /\ Len(p) \in Nat
  BY DEF Path
<1>2. Append(p, s) \in Path /\ Len(Append(p, s)) = Len(p) + 1
  BY <1>1 DEF Path
<1> QED BY <1>1, <1>2

\* Two paths with one more step are equal only if their parts are.
LEMMA PathParts ==
  ASSUME NEW p \in Path, NEW s \in SubSteps, NEW q \in Path, NEW t \in SubSteps
  PROVE  Append(p, s) = Append(q, t) => p = q /\ s = t
<1> DEFINE V == Steps \cup SubSteps
<1>1. p \in Seq(V) /\ q \in Seq(V) /\ s \in V /\ t \in V
  BY DEF Path
<1> HIDE DEF V
<1> QED BY <1>1, AppendInjective

\* The first call is one of the root.
LEMMA FirstCall ==
  ASSUME Nested, frames = <<>>
  PROVE  CallRoot
BY DEF Nested, SubStep, CallNested, SubCreateRun, SubCreateStep, SubCondition, SubExecute,
   SubJudge, SubStore, SubFailStep, SubFailRun, SubComplete, SubDispatchFails

\* A frame that stays creates the record of a step before it is at the step; one
\* that returns with a MemStore has ended its sub-run, or could not resolve it,
\* or was refused a record.
LEMMA TraceFacts ==
  ASSUME SubTypes, ShapeInv, Nested, frames # <<>>
  PROVE  \/ /\ Len(frames') = Len(frames)
            /\ top.pc = "next" => NewStep
            /\ top'.pc \in {"condition", "execute"} => top.pc \in {"next", "condition"}
         \/ Len(frames') = Len(frames) + 1 /\ top.pc = "execute"
         \/ /\ Len(frames') = Len(frames) - 1 /\ UNCHANGED subStep
            /\ store = "mem" =>
                 \/ top.sub.cyclic
                 \/ top.pc = "next" /\ top.queue # <<>> /\ entry \in DOMAIN subStep
                 \/ \A p \in DOMAIN subRun' : p = top.path => subRun'[p] # "running"
<1>0. frames \in Seq(Frame)
  BY DEF SubTypes
<1>e. ASSUME Len(frames) = 1, frames' = <<>> PROVE Len(frames') = Len(frames) - 1
  <2>1. Len(frames') = 0
    BY <1>e
  <2> QED BY <1>e, <2>1
<1>1. ASSUME ReturnError PROVE Len(frames') = Len(frames) - 1
  <2>1. \/ Len(frames) = 1 /\ frames' = <<>>
        \/ Len(frames') = Len(frames) - 1
    BY <1>0, <1>1, ErrorFacts
  <2> QED BY <1>e, <2>1
<1>2. ASSUME NEW used \in SUBSET SubEntry, ReturnOutput(used)
      PROVE  Len(frames') = Len(frames) - 1
  <2>1. \/ Len(frames) = 1 /\ frames' = <<>>
        \/ Len(frames') = Len(frames) - 1
    BY <1>0, <1>2, OutputFacts
  <2> QED BY <1>e, <2>1
<1>3. ASSUME NEW l \in SubPC, Goto(At(l))
      PROVE  Len(frames') = Len(frames) /\ top'.pc = l
  <2>1. top \in Frame
    BY HandFacts
  <2>2. At(l) \in Frame /\ At(l).pc = l
    BY <2>1, AtFacts
  <2> QED BY <1>0, <1>3, <2>2, GotoFacts
<1>4. ASSUME top.queue # <<>>, Goto(NextStep)
      PROVE  Len(frames') = Len(frames) /\ top'.pc = "next"
  <2>1. top \in Frame
    BY HandFacts
  <2>2. NextStep \in Frame /\ NextStep.pc = "next"
    BY <1>4, <2>1, NextFacts
  <2> QED BY <1>0, <1>4, <2>2, GotoFacts
<1>5. top.pc \in InHand => top.queue # <<>> /\ top.pc # "next"
  BY HandFacts, Labels
<1>6. store = "mem" => WritesSucceed
  BY DEF WritesSucceed
<1>7. ASSUME top.pc \in InHand,
             \/ Goto(At("reserved")) \/ Goto(At("store")) \/ Goto(At("fail"))
             \/ Goto(At("failRun")) \/ Goto(NextStep)
      PROVE  /\ Len(frames') = Len(frames) /\ top.pc # "next"
             /\ top'.pc \notin {"condition", "execute"}
  BY <1>3, <1>4, <1>5, <1>7, Labels
<1>8. CASE CallRoot
  BY <1>8 DEF CallRoot
<1>9. CASE CallNested
  <2>1. /\ top.pc = "execute" /\ topStep \in DOMAIN top.sub.calls
        /\ \/ Push(top.sub.calls[topStep], Append(top.path, topStep))
           \/ Goto(At("fail"))
    BY <1>9 DEF CallNested
  <2>2. /\ top.sub \in Subs /\ topStep \in SubSteps /\ top.path \in Path
    BY <2>1, HandFacts, Labels
  <2>3. top.sub.calls[topStep] \in Call(Subs) /\ Append(top.path, topStep) \in Path
    BY <2>1, <2>2, SubFields DEF Path
  <2>4. ASSUME Push(top.sub.calls[topStep], Append(top.path, topStep))
        PROVE  Len(frames') = Len(frames) + 1
    BY <1>0, <2>3, <2>4, CallFacts
  <2> QED BY <1>7, <2>1, <2>4, Labels
<1>10. CASE SubCreateRun
  <2>1. CASE Goto(At("next"))
    BY <1>3, <1>10, <2>1, Labels DEF SubCreateRun
  <2>2. CASE ReturnError /\ ~(WritesSucceed /\ ~top.sub.cyclic)
    BY <1>1, <1>6, <1>10, <2>2 DEF SubCreateRun
  <2> QED BY <1>10, <2>1, <2>2 DEF SubCreateRun
<1>11. CASE SubCreateStep
  <2>1. /\ top.pc = "next" /\ top.queue # <<>>
        /\ \/ /\ WritesSucceed /\ entry \notin DOMAIN subStep
              /\ Goto(NextStep) \/ Goto(At("condition")) \/ Goto(At("execute"))
              /\ UNCHANGED pc
              /\ subStep' = Put(subStep, entry, IF top.suppress /\ topStep \in top.sub.webhooks
                                                  THEN "skipped" ELSE "running")
           \/ ~(WritesSucceed /\ entry \notin DOMAIN subStep) /\ ReturnError /\ UNCHANGED subStep
    BY <1>11 DEF SubCreateStep
  <2>2. CASE ReturnError /\ UNCHANGED subStep /\ ~(WritesSucceed /\ entry \notin DOMAIN subStep)
    BY <1>1, <1>6, <2>1, <2>2
  <2>3. CASE /\ entry \notin DOMAIN subStep
             /\ Goto(NextStep) \/ Goto(At("condition")) \/ Goto(At("execute"))
             /\ subStep' = Put(subStep, entry, IF top.suppress /\ topStep \in top.sub.webhooks
                                                 THEN "skipped" ELSE "running")
    <3>1. Len(frames') = Len(frames)
      BY <1>3, <1>4, <2>1, <2>3, Labels
    <3>2. NewStep
      BY <2>1, <2>3 DEF NewStep, Put
    <3> QED BY <2>1, <3>1, <3>2
  <2> QED BY <2>1, <2>2, <2>3
<1>12. CASE SubCondition
  <2>1. top.pc = "condition" /\ (Goto(NextStep) \/ Goto(At("execute")))
    BY <1>12 DEF SubCondition, Skip
  <2> QED BY <1>3, <1>7, <2>1, Labels
<1>13. CASE SubExecute
  <2>1. PICK used : /\ used = (IF topStep \in top.sub.agents THEN {entry} ELSE {})
                    /\ Goto(Got(used)) \/ Goto(At("fail"))
    BY <1>13 DEF SubExecute, Got
  <2>2. top.pc \in InHand
    BY <1>13, Labels DEF SubExecute
  <2>3. CASE Goto(Got(used))
    <3>1. used \in SUBSET SubEntry /\ top \in Frame
      BY <2>1, <2>2, HandFacts
    <3>2. Got(used) \in Frame /\ Got(used).pc = "reserved"
      BY <3>1, GotFacts
    <3>3. Len(frames') = Len(frames) /\ top'.pc = "reserved"
      BY <1>0, <2>3, <3>2, GotoFacts
    <3> QED BY <1>5, <2>2, <3>3
  <2> QED BY <1>7, <2>1, <2>2, <2>3
<1>14. CASE SubJudge
  BY <1>7, <1>14, Labels DEF SubJudge, Skip
<1>15. CASE SubStore
  <2>1. CASE Goto(NextStep)
    BY <1>7, <1>15, <2>1, Labels DEF SubStore
  <2>2. CASE ~WritesSucceed /\ ReturnError /\ UNCHANGED subStep
    BY <1>1, <1>6, <2>2
  <2> QED BY <1>15, <2>1, <2>2 DEF SubStore
<1>16. CASE SubFailStep
  BY <1>7, <1>16, Labels DEF SubFailStep
<1>17. CASE SubFailRun
  <2>1. /\ ReturnError /\ UNCHANGED subStep
        /\ WritesSucceed => subRun' = [subRun EXCEPT ![top.path] = "failed"]
    BY <1>17 DEF SubFailRun
  <2>2. WritesSucceed => \A p \in DOMAIN subRun' : p = top.path => subRun'[p] # "running"
    BY <2>1
  <2> QED BY <1>1, <1>6, <2>1, <2>2
<1>18. CASE SubComplete
  <2>1. UNCHANGED subStep /\ top.pc = "next"
    BY <1>18 DEF SubComplete
  <2>2. CASE WritesSucceed
    <3>1. ReturnOutput(top.spent) /\ subRun' = [subRun EXCEPT ![top.path] = "complete"]
      BY <1>18, <2>2 DEF SubComplete
    <3>2. \A p \in DOMAIN subRun' : p = top.path => subRun'[p] # "running"
      BY <3>1
    <3>3. Len(frames') = Len(frames) - 1
      BY <1>2, <3>1, HandFacts
    <3> QED BY <2>1, <3>2, <3>3
  <2>3. CASE ~WritesSucceed
    BY <1>1, <1>6, <1>18, <2>1, <2>3 DEF SubComplete
  <2> QED BY <2>2, <2>3
<1>19. CASE SubDispatchFails
  BY <1>7, <1>19, Labels DEF SubDispatchFails
<1> QED
  BY <1>8, <1>9, <1>10, <1>11, <1>12, <1>13, <1>14, <1>15, <1>16, <1>17, <1>18, <1>19
     DEF Nested, SubStep


\* Records stay, and the one that is new is that of the innermost frame, which is
\* about to be at the step.
LEMMA DomainGrows ==
  ASSUME Nested
  PROVE  \/ DOMAIN subStep' = DOMAIN subStep
         \/ /\ frames # <<>> /\ top.pc = "next" /\ entry \notin DOMAIN subStep
            /\ DOMAIN subStep' = DOMAIN subStep \cup {entry}
BY NestedWrites, WrittenSteps DEF NewStep, OldStep

\* The records of callers are still there when there are more.
LEMMA ChainGrows ==
  ASSUME NEW D, NEW E, D \subseteq E, NEW p, Chain(D, p)
  PROVE  Chain(E, p)
BY DEF Chain

\* A frame that calls starts one whose path has no records.
LEMMA FreshPath ==
  ASSUME PipeInv, SubTypes, ShapeInv, DoneInv, TraceInv, Nested,
         NEW k \in Call(Subs), NEW p \in Path, CallingFrom(k, p)
  PROVE  /\ Len(p) = Len(frames) + 1 /\ Chain(DOMAIN subStep, p)
         /\ \A e \in DOMAIN subStep : e[1] # p
<1>0. frames \in Seq(Frame) /\ pc = "execute" /\ cur \in DOMAIN call
  BY NestedFacts DEF SubTypes
<1>1. CASE frames = <<>>
  <2>1. p = <<cur>> /\ Len(frames) = 0 /\ Len(p) = 1 /\ p[1] = cur
    BY <1>1 DEF CallingFrom
  <2>2. ASSUME NEW q \in Path, NEW s \in SubSteps, q # <<>>, p = Append(q, s) PROVE FALSE
    <3>1. Len(p) = Len(q) + 1 /\ Len(q) \in Nat
      BY <2>2, AppendFacts
    <3>2. Len(q) # 0
      BY <2>2 DEF Path
    <3> QED BY <2>1, <3>1, <3>2
  <2>3. Nothing(cur)
    BY <1>0, <1>1 DEF DoneInv
  <2> QED BY <2>1, <2>2, <2>3 DEF Chain, Nothing
<1>2. CASE frames # <<>>
  <2>1. /\ top.pc = "execute" /\ p = Append(top.path, topStep) /\ top.path \in Path
        /\ topStep \in SubSteps /\ topStep = Hand(top)
        /\ Len(frames) \in Nat \ {0} /\ top = frames[Len(frames)]
    BY <1>0, <1>2, HandFacts, TopFacts, Labels DEF CallingFrom
  <2>2. Framed(top, Len(frames), DOMAIN subStep)
    BY <2>1 DEF TraceInv
  <2>3. <<top.path, topStep>> \in DOMAIN subStep /\ Len(top.path) = Len(frames)
    BY <2>1, <2>2, Labels DEF Framed
  <2>4. ASSUME NEW q \in Path, NEW s \in SubSteps, p = Append(q, s)
        PROVE  <<q, s>> \in DOMAIN subStep
    <3>1. PICK u \in Path, v \in SubSteps : u = top.path /\ v = topStep
      BY <2>1
    <3>2. Append(q, s) = Append(u, v)
      BY <2>1, <2>4, <3>1
    <3>3. q = u /\ s = v
      BY <3>2, PathParts
    <3> QED BY <2>3, <3>1, <3>3
  <2>5. Len(p) = Len(frames) + 1
    BY <2>1, <2>3, AppendFacts
  <2>6. \A e \in DOMAIN subStep : e[1] # p
    BY <1>2, <2>1 DEF TraceInv
  <2> QED BY <2>4, <2>5, <2>6 DEF Chain
<1> QED BY <1>1, <1>2

\* The innermost frame after a nested step.
LEMMA TopFramed ==
  ASSUME PipeInv, SubTypes, ShapeInv, DoneInv, TraceInv, Nested, frames' # <<>>
  PROVE  /\ Framed(top', Len(frames'), DOMAIN subStep')
         /\ top'.pc \in {"condition", "execute"} =>
              \A e \in DOMAIN subStep' : e[1] # Append(top'.path, topStep')
         /\ top'.pc = "create" => \A e \in DOMAIN subStep' : e[1] # top'.path
         /\ DOMAIN subStep' # DOMAIN subStep => Len(frames') = Len(frames)
<1>0. frames \in Seq(Frame) /\ Len(frames) \in Nat
  BY DEF SubTypes
<1> DEFINE D == DOMAIN subStep
           E == DOMAIN subStep'
<1>1. \/ E = D
      \/ frames # <<>> /\ top.pc = "next" /\ entry \notin D /\ E = D \cup {entry}
  BY DomainGrows
<1>2. frames # <<>> => /\ Len(frames) \in Nat \ {0} /\ top = frames[Len(frames)] /\ top \in Frame
                       /\ topStep = Hand(top) /\ entry = <<top.path, Hand(top)>>
                       /\ Framed(top, Len(frames), D)
  <2>1. frames # <<>> => /\ Len(frames) \in Nat \ {0} /\ top = frames[Len(frames)]
                         /\ top \in Frame /\ topStep = Hand(top)
                         /\ entry = <<top.path, Hand(top)>>
    BY <1>0, TopFacts
  <2> QED BY <2>1 DEF TraceInv
<1>3. topStep' = Hand(top')
  BY DEF topStep, Hand
<1>4. CASE /\ Going /\ Len(frames') = Len(frames) /\ SameCall(top', top) /\ Advances(top')
  <2>1. frames # <<>>
    BY <1>4 DEF Going
  <2>2. /\ top.pc = "next" => NewStep
        /\ top'.pc \in {"condition", "execute"} => top.pc \in {"next", "condition"}
    BY <1>0, <1>4, <2>1, TraceFacts
  <2>3. Len(top'.path) = Len(frames') /\ Chain(E, top'.path)
    BY <1>1, <1>2, <1>4, <2>1, ChainGrows DEF Framed, SameCall
  <2>4. top.pc = "next" => entry \in E /\ entry \notin D /\ E = D \cup {entry}
    BY <2>2 DEF NewStep
  <2>5. top'.pc \in InHand => /\ top'.queue = top.queue /\ Hand(top') = Hand(top)
                              /\ top.pc \in InHand \cup {"next"}
    BY <1>4, Labels DEF Advances, Hand
  <2>6. ASSUME top'.pc \in InHand PROVE <<top'.path, Hand(top')>> \in E
    <3>1. <<top'.path, Hand(top')>> = entry
      BY <1>2, <1>4, <2>1, <2>5, <2>6 DEF SameCall
    <3> QED BY <1>1, <1>2, <2>1, <2>4, <2>5, <2>6, <3>1 DEF Framed
  <2>7. Ordered(top', E)
    <3>0. Ordered(top, D) /\ top \in Frame
      BY <1>2, <2>1 DEF Framed
    <3>1. CASE top'.pc = "next" /\ top.pc = "create" /\ top'.queue = top.queue
      <4>1. E \subseteq D \cup (IF top'.pc \in InHand THEN {<<top.path, Hand(top)>>} ELSE {})
        BY <1>1, <3>1
      <4>2. top.pc \in InHand => top'.pc \in InHand
        BY <3>1, Labels
      <4> QED BY <1>4, <3>0, <3>1, <4>1, <4>2, OrderedAt
    <3>2. CASE top.queue # <<>> /\ top'.queue = Tail(top.queue)
      <4>1. E \subseteq D \cup {<<top.path, Hand(top)>>}
        BY <1>1, <1>2
      <4> QED BY <1>4, <3>0, <3>2, <4>1, OrderedNext
    <3>3. CASE top'.pc \in InHand /\ top'.queue = top.queue
      <4>1. E \subseteq D \cup (IF top'.pc \in InHand THEN {<<top.path, Hand(top)>>} ELSE {})
        BY <1>1, <1>2, <3>3
      <4> QED BY <1>4, <3>0, <3>3, <4>1, OrderedAt
    <3> QED BY <1>4, <3>1, <3>2, <3>3 DEF Advances
  <2>8. ASSUME top'.pc \in {"condition", "execute"}, NEW e \in E
        PROVE  e[1] # Append(top'.path, topStep')
    <3>1. /\ top'.pc \in InHand /\ top'.path = top.path /\ topStep' = topStep
          /\ topStep \in SubSteps /\ top.path \in Path /\ top.path # <<>>
      BY <1>2, <1>3, <1>4, <2>1, <2>5, <2>8, HandFacts, Labels DEF SameCall, Advances
    <3>2. CASE top.pc = "condition"
      <4>1. E = D
        BY <1>1, <3>2
      <4> QED BY <2>1, <2>8, <3>1, <3>2, <4>1 DEF TraceInv
    <3>3. CASE top.pc = "next"
      <4>1. CASE e = entry
        <5>1. e[1] = top.path
          BY <1>2, <2>1, <4>1
        <5> QED BY <3>1, <5>1, AppendFacts
      <4>2. CASE e \in D
        <5>1. Chain(D, e[1])
          BY <4>2 DEF TraceInv
        <5>2. e[1] = Append(top.path, topStep) => <<top.path, topStep>> \in D
          BY <3>1, <5>1 DEF Chain
        <5> QED BY <1>2, <2>1, <2>4, <3>1, <3>3, <5>2
      <4> QED BY <2>4, <3>3, <4>1, <4>2
    <3> QED BY <2>2, <2>8, <3>2, <3>3
  <2>9. top'.pc # "create"
    BY <1>4, Labels DEF Advances
  <2> QED BY <1>4, <2>3, <2>6, <2>7, <2>8, <2>9 DEF Framed
<1>5. CASE /\ Returning /\ Len(frames') = Len(frames) - 1 /\ Len(frames') \in 1..Len(frames)
           /\ SameCall(top', frames[Len(frames')])
           /\ top'.queue = frames[Len(frames')].queue
           /\ top'.pc \in {"fail", "reserved"}
  <2>1. frames # <<>>
    BY <1>5 DEF Returning
  <2>2. E = D
    BY <1>0, <1>5, <2>1, TraceFacts
  <2>3. PICK n \in 1..Len(frames) : n = Len(frames') /\ n \in 1..(Len(frames) - 1)
    BY <1>0, <1>5
  <2>4. Framed(frames[n], n, D) /\ frames[n].pc \in InHand
    BY <2>3, Labels DEF TraceInv, ShapeInv
  <2>5. /\ SameCall(top', frames[n]) /\ top'.queue = frames[n].queue
        /\ top'.pc \in InHand /\ Hand(top') = Hand(frames[n])
    BY <1>5, <2>3, Labels DEF Hand
  <2>6. Ordered(top', E)
    <3>1. E \subseteq D \cup (IF top'.pc \in InHand THEN {<<frames[n].path, Hand(frames[n])>>} ELSE {})
      BY <2>2
    <3> QED BY <2>4, <2>5, <3>1, OrderedAt DEF Framed
  <2>7. Framed(top', n, E)
    BY <2>2, <2>4, <2>5, <2>6 DEF Framed, SameCall
  <2> QED BY <1>5, <2>2, <2>3, <2>7
<1>6. ASSUME Len(frames') = Len(frames) + 1, top' \in Frame,
             NEW k \in Call(Subs), NEW p \in Path, CallingFrom(k, p), top'.path = p,
             top'.sub = k.sub, top'.queue = k.sub.order, top'.pc = "create"
      PROVE  /\ E = D /\ Framed(top', Len(frames'), E) /\ \A e \in E : e[1] # top'.path
  <2>1. E = D
    BY <1>0, <1>1, <1>6, TraceFacts
  <2>2. Len(p) = Len(frames) + 1 /\ Chain(D, p) /\ \A e \in D : e[1] # p
    BY <1>6, FreshPath
  <2>3. Ordered(top', D)
    BY <1>6, <2>2, OrderedNew
  <2> QED BY <1>6, <2>1, <2>2, <2>3, Labels DEF Framed
<1>7. top' \in Frame
  BY FramesMove
<1>8. CASE /\ Calling /\ Len(frames') = Len(frames) + 1
           /\ \E k \in Call(Subs), p \in Path :
                /\ CallingFrom(k, p) /\ top'.path = p /\ top'.sub = k.sub
                /\ top'.queue = k.sub.order /\ top'.pc = "create"
  BY <1>6, <1>7, <1>8
<1> QED
  <2>1. \/ Going /\ Len(frames') = Len(frames) /\ SameCall(top', top) /\ Advances(top')
        \/ /\ Returning /\ Len(frames') = Len(frames) - 1 /\ Len(frames') \in 1..Len(frames)
           /\ SameCall(top', frames[Len(frames')])
           /\ top'.queue = frames[Len(frames')].queue
           /\ top'.pc \in {"fail", "reserved"}
        \/ /\ Calling /\ Len(frames') = Len(frames) + 1
           /\ \E k \in Call(Subs), p \in Path :
                /\ CallingFrom(k, p) /\ top'.path = p /\ top'.sub = k.sub
                /\ top'.queue = k.sub.order /\ top'.pc = "create"
    BY FramesMove
  <2> QED BY <1>4, <1>5, <1>8, <2>1

\* Every step keeps the records those of steps the frames have been at.
LEMMA TraceStep ==
  ASSUME PipeInv, SubTypes, ShapeInv, DoneInv, TraceInv, [SubNext]_allVars
  PROVE  TraceInv'
<1>0. frames \in Seq(Frame)
  BY DEF SubTypes
<1>1. CASE Nested
  <2>1. \/ DOMAIN subStep' = DOMAIN subStep
        \/ /\ frames # <<>> /\ top.pc = "next" /\ entry \notin DOMAIN subStep
           /\ DOMAIN subStep' = DOMAIN subStep \cup {entry}
    BY <1>1, DomainGrows
  <2>2. frames # <<>> => /\ Framed(top, Len(frames), DOMAIN subStep)
                         /\ entry[1] = top.path /\ Len(frames) \in Nat \ {0}
    BY <1>0, TopFacts DEF TraceInv
  <2>3. ASSUME NEW e \in DOMAIN subStep' PROVE Chain(DOMAIN subStep', e[1])
    <3>1. Chain(DOMAIN subStep, e[1])
      <4>1. CASE e \in DOMAIN subStep
        BY <4>1 DEF TraceInv
      <4>2. CASE frames # <<>> /\ e = entry
        BY <2>2, <4>2 DEF Framed
      <4> QED BY <2>1, <4>1, <4>2
    <3> QED BY <2>1, <3>1, ChainGrows
  <2>4. CASE frames' = <<>>
    BY <2>3, <2>4 DEF TraceInv
  <2>5. CASE frames' # <<>>
    <3>1. PICK n \in Nat \ {0} :
            /\ n = Len(frames') /\ top' = frames'[n]
            /\ \A i \in 1..(n - 1) : i \in 1..Len(frames) /\ frames'[i] = frames[i]
      BY <1>1, <2>5, FramesMove
    <3>2. /\ Framed(top', n, DOMAIN subStep')
          /\ top'.pc \in {"condition", "execute"} =>
               \A e \in DOMAIN subStep' : e[1] # Append(top'.path, topStep')
          /\ top'.pc = "create" => \A e \in DOMAIN subStep' : e[1] # top'.path
          /\ DOMAIN subStep' # DOMAIN subStep => n = Len(frames)
      BY <1>1, <2>5, <3>1, TopFramed
    <3>3. ASSUME NEW i \in 1..(n - 1) PROVE Framed(frames'[i], i, DOMAIN subStep')
      <4>1. frames'[i] = frames[i] /\ Framed(frames[i], i, DOMAIN subStep)
        BY <3>1, <3>3 DEF TraceInv
      <4>2. CASE DOMAIN subStep' = DOMAIN subStep
        BY <4>1, <4>2
      <4>3. CASE DOMAIN subStep' # DOMAIN subStep
        <5>1. entry[1] # frames[i].path
          <6>1. Len(entry[1]) = n /\ Len(frames[i].path) = i /\ i # n
            BY <2>1, <2>2, <3>1, <3>2, <4>1, <4>3 DEF Framed
          <6> QED BY <6>1
        <5>2. DOMAIN subStep' = DOMAIN subStep \cup {entry}
          BY <2>1, <4>3
        <5> QED BY <4>1, <5>1, <5>2, OrderedElsewhere, ChainGrows DEF Framed
      <4> QED BY <4>2, <4>3
    <3>4. \A i \in 1..Len(frames') : Framed(frames'[i], i, DOMAIN subStep')
      <4>1. \A i \in 1..n : i = n \/ i \in 1..(n - 1)
        OBVIOUS
      <4> QED BY <3>1, <3>2, <3>3, <4>1
    <3> QED BY <2>3, <3>2, <3>4 DEF TraceInv
  <2> QED BY <2>4, <2>5
<1>2. CASE UNCHANGED subVars
  <2>1. top' = top /\ topStep' = topStep
    BY <1>2 DEF subVars, top, topStep
  <2> QED BY <1>2, <2>1 DEF TraceInv, subVars
<1> QED BY <1>1, <1>2 DEF SubNext, Nested, RootStep, allVars


\* A frame is refused a record only of a step that its order names twice.
LEMMA RefusedTwice ==
  ASSUME NEW f \in Frame, NEW D, Ordered(f, D), f.pc \notin InHand, f.queue # <<>>,
         <<f.path, Hand(f)>> \in D
  PROVE  ~IsInjective(f.sub.order)
<1>1. PICK j \in Nat :
        /\ Len(f.queue) + j = Len(f.sub.order)
        /\ \A m \in 1..Len(f.queue) : f.queue[m] = f.sub.order[m + j]
        /\ \A e \in D : e[1] = f.path => \E m \in 1..j : f.sub.order[m] = e[2]
  BY DEF Ordered
<1>2. PICK m \in 1..j : f.sub.order[m] = Hand(f)
  BY <1>1
<1>3. PICK n \in Nat \ {0} : n = Len(f.queue) /\ Hand(f) = f.queue[1]
  BY FrameFields DEF Hand
<1>4. f.queue[1] = f.sub.order[1 + j]
  BY <1>1, <1>3
<1>5. Len(f.sub.order) = n + j /\ f.sub.order \in Seq(SubSteps)
  BY <1>1, <1>3, FrameFields, SubFields
<1>6. m \in 1..Len(f.sub.order) /\ 1 + j \in 1..Len(f.sub.order) /\ m # 1 + j
  BY <1>5
<1>7. ~Distinct(f.sub.order)
  BY <1>2, <1>3, <1>4, <1>6 DEF Distinct
<1> QED BY <1>5, <1>7, SaidOfSequences

\* A sub-run is left running only for a cycle or an ID that is there twice.
LEMMA MemStep ==
  ASSUME PipeInv, SubTypes, ShapeInv, CallInv, TraceInv, MemInv, [SubNext]_allVars
  PROVE  MemInv'
<1>0. frames \in Seq(Frame) /\ Len(frames) \in Nat
  BY DEF SubTypes
<1>1. CASE Nested
  <2>1. store' = store /\ call' = call
    BY <1>1, NestedFacts DEF runVars, input
  <2> SUFFICES ASSUME store = "mem", NEW p \in DOMAIN subRun', subRun'[p] = "running"
               PROVE  Under(p)' \/ Excused(call, p)
    BY <2>1 DEF MemInv
  <2>2. \A i \in 1..Len(frames) : i = Len(frames) \/ i \in 1..(Len(frames) - 1)
    BY <1>0
  <2>3. frames # <<>> => /\ Len(frames) \in Nat \ {0} /\ top = frames[Len(frames)] /\ top \in Frame
                         /\ entry = <<top.path, Hand(top)>>
                         /\ Framed(top, Len(frames), DOMAIN subStep) /\ FrameCall(call, top)
    <3>1. frames # <<>> => /\ Len(frames) \in Nat \ {0} /\ top = frames[Len(frames)]
                           /\ top \in Frame /\ entry = <<top.path, Hand(top)>>
      BY <1>0, TopFacts
    <3> QED BY <3>1 DEF TraceInv, CallInv
  <2>4. CASE frames = <<>>
    <3>1. UNCHANGED subRun
      BY <1>1, <2>4, FirstCall DEF CallRoot
    <3>2. ~Under(p)
      BY <2>4 DEF Under
    <3> QED BY <3>1, <3>2 DEF MemInv
  <2>5. CASE frames # <<>>
    <3>1. UNCHANGED subRun \/ NewRun \/ OldRun
      BY <1>1, NestedWrites, WrittenRuns
    <3>2. p # top.path => p \in DOMAIN subRun /\ subRun'[p] = subRun[p]
      BY <3>1 DEF NewRun, OldRun
    <3>3. p # top.path => Under(p) \/ Excused(call, p)
      BY <3>2 DEF MemInv
    <3>4. CASE Len(frames') = Len(frames) - 1
      <4>1. ASSUME NEW i \in 1..(Len(frames) - 1), frames[i].path = p PROVE Under(p)'
        <5>1. i \in 1..Len(frames')
          BY <3>4, <4>1
        <5>2. frames' # <<>>
          BY <5>1
        <5>3. PICK n \in Nat \ {0} :
                /\ n = Len(frames') /\ top' = frames'[n]
                /\ \A l \in 1..(n - 1) : l \in 1..Len(frames) /\ frames'[l] = frames[l]
          BY <1>1, <5>2, FramesMove
        <5>4. SameCall(top', frames[n])
          <6>1. Len(frames') # Len(frames) /\ Len(frames') # Len(frames) + 1
            BY <1>0, <3>4
          <6> QED BY <1>1, <5>2, <5>3, <6>1, FramesMove
        <5>5. frames'[i].path = p
          <6>1. CASE i = n
            BY <4>1, <5>3, <5>4, <6>1 DEF SameCall
          <6>2. CASE i # n
            <7>1. i \in 1..(n - 1)
              BY <5>1, <5>3, <6>2
            <7> QED BY <4>1, <5>3, <7>1
          <6> QED BY <6>1, <6>2
        <5> QED BY <5>1, <5>5 DEF Under
      <4>2. CASE p # top.path
        <5>1. ASSUME NEW i \in 1..Len(frames), frames[i].path = p PROVE Under(p)'
          <6>1. i \in 1..(Len(frames) - 1)
            BY <2>2, <2>3, <2>5, <4>2, <5>1
          <6> QED BY <4>1, <5>1, <6>1
        <5>2. Under(p) => Under(p)'
          BY <5>1 DEF Under
        <5> QED BY <3>3, <4>2, <5>2
      <4>3. CASE p = top.path
        <5>1. \/ top.sub.cyclic
              \/ top.pc = "next" /\ top.queue # <<>> /\ entry \in DOMAIN subStep
              \/ \A r \in DOMAIN subRun' : r = top.path => subRun'[r] # "running"
          BY <1>0, <1>1, <2>5, <3>4, TraceFacts
        <5>2. top.sub = Named(call, p).sub
          BY <2>3, <2>5, <4>3 DEF FrameCall
        <5>3. ASSUME top.pc = "next", top.queue # <<>>, entry \in DOMAIN subStep
              PROVE  ~IsInjective(top.sub.order)
          BY <2>3, <2>5, <5>3, RefusedTwice, Labels DEF Framed
        <5> QED BY <4>3, <5>1, <5>2, <5>3 DEF Excused
      <4> QED BY <4>2, <4>3
    <3>5. CASE Len(frames') # Len(frames) - 1
      <4>1. frames' # <<>>
        <5>1. Len(frames') \in {Len(frames), Len(frames) + 1}
          BY <1>1, <2>5, <3>5, TraceFacts
        <5>2. Len(frames') # 0
          BY <2>3, <2>5, <5>1
        <5> QED BY <5>2
      <4>2. PICK n \in Nat \ {0} :
              /\ n = Len(frames') /\ top' = frames'[n]
              /\ \A l \in 1..(n - 1) : l \in 1..Len(frames) /\ frames'[l] = frames[l]
        BY <1>1, <4>1, FramesMove
      <4>3. \/ n = Len(frames) /\ SameCall(top', top)
            \/ n = Len(frames) + 1
        BY <1>1, <3>5, <4>1, <4>2, FramesMove
      <4>4. ASSUME NEW i \in 1..Len(frames), frames[i].path = p PROVE Under(p)'
        <5>1. i \in 1..n
          BY <1>0, <4>3
        <5>2. frames'[i].path = p
          <6>1. CASE i \in 1..(n - 1)
            BY <4>2, <4>4, <6>1
          <6>2. CASE i \notin 1..(n - 1)
            <7>1. i = n /\ n = Len(frames)
              BY <1>0, <4>3, <5>1, <6>2
            <7>2. SameCall(top', top) /\ top = frames[n]
              BY <1>0, <2>3, <2>5, <4>3, <7>1
            <7> QED BY <4>2, <4>4, <7>1, <7>2 DEF SameCall
          <6> QED BY <6>1, <6>2
        <5> QED BY <4>2, <5>1, <5>2 DEF Under
      <4>5. Under(p) => Under(p)'
        BY <4>4 DEF Under
      <4>6. p = top.path => Under(p)
        BY <2>3, <2>5 DEF Under
      <4> QED BY <3>3, <4>5, <4>6
    <3> QED BY <3>4, <3>5
  <2> QED BY <2>4, <2>5
<1>2. CASE UNCHANGED subVars
  <2>1. store' = store
    <3>1. [Next]_vars
      BY CompositionStep
    <3> QED BY <3>1, InputStays
  <2> QED BY <1>2, <2>1 DEF MemInv, subVars, Under
<1> QED BY <1>1, <1>2 DEF SubNext, Nested, RootStep, allVars

-----------------------------------------------------------------------------
(* The invariant of a composition.                                         *)

SubInv ==
  /\ PipeInv /\ SubTypes /\ ShapeInv /\ CallInv
  /\ WebInv /\ BurntInv /\ DoneInv /\ TraceInv /\ MemInv

\* The inductive invariant holds when a run is started.
LEMMA SubInitial == SubInit => Init /\ SubInv
<1> SUFFICES ASSUME SubInit PROVE Init /\ SubInv
  OBVIOUS
<1>1. Init /\ PipeInv
  BY PipeInit DEF SubInit
<1>2. /\ frames = <<>> /\ Len(frames) = 0 /\ frames \in Seq(Frame)
      /\ subRun = <<>> /\ subStep = <<>> /\ DOMAIN subRun = {} /\ DOMAIN subStep = {}
      /\ burnt = {} /\ fired = {}
  BY DEF SubInit
<1>3. SubTypes
  <2>1. call \in UNION {[S -> Call(Subs)] : S \in SUBSET Steps}
    BY SubWorkflowAssumption DEF SubInit
  <2>2. RunTypes /\ StepTypes
    BY <1>2 DEF RunTypes, StepTypes, Maps
  <2>3. metrics \in [Steps -> SUBSET SubEntry]
    BY DEF SubInit
  <2> QED BY <1>2, <2>1, <2>2, <2>3 DEF SubTypes
<1>4. ShapeInv /\ CallInv /\ WebInv /\ TraceInv /\ MemInv
  <2>1. DOMAIN call \cap wf.agents = {}
    BY SubWorkflowAssumption DEF SubInit
  <2> QED BY <1>2, <2>1 DEF ShapeInv, CallInv, WebInv, TraceInv, MemInv
<1>5. pc = "create" /\ \A s \in Steps : step[s] = "none"
  BY <1>1 DEF Init
<1>6. DOMAIN call \subseteq Steps
  BY <1>3, RootCalls
<1>7. BurntInv
  BY <1>2, <1>5, <1>6 DEF BurntInv, Below
<1>8. DoneInv
  BY <1>2, <1>5, <1>6 DEF DoneInv, Nothing, Good
<1> QED BY <1>1, <1>3, <1>4, <1>7, <1>8 DEF SubInv

\* Every step keeps the inductive invariant, and is a step of Pipeline or none.
LEMMA SubInvStep == SubInv /\ [SubNext]_allVars => SubInv' /\ [Next]_vars
<1> SUFFICES ASSUME SubInv, [SubNext]_allVars PROVE SubInv' /\ [Next]_vars
  OBVIOUS
<1>1. /\ PipeInv /\ SubTypes /\ ShapeInv /\ CallInv
      /\ WebInv /\ BurntInv /\ DoneInv /\ TraceInv /\ MemInv
  BY DEF SubInv
<1>2. [Next]_vars /\ PipeInv'
  BY <1>1, CompositionStep, PipeStep
<1>3. SubTypes' /\ ShapeInv' /\ CallInv' /\ WebInv'
  BY <1>1, SubTypeStep, ShapeStep, CallStep, WebStep
<1>4. BurntInv' /\ DoneInv' /\ TraceInv' /\ MemInv'
  BY <1>1, BurntStep, DoneStep, TraceStep, MemStep
<1> QED BY <1>2, <1>3, <1>4 DEF SubInv

\* The stack, the records of the sub-runs and the usage keep their types and
\* their shape in every run, however deep the workflows are nested.
THEOREM SubInvariance == SubSpec => []SubInv
<1>1. SubInit => SubInv
  BY SubInitial
<1>2. SubInv /\ [SubNext]_allVars => SubInv'
  BY SubInvStep
<1> QED BY <1>1, <1>2, PTL DEF SubSpec

\* Execute of a composition does what Pipeline says of one workflow: a call of
\* executeSubWorkflow is, for its caller, a step that returns or fails.
THEOREM CompositionRuns == SubSpec => Init /\ [][Next]_vars
<1>1. SubInit => Init
  BY SubInitial
<1>2. SubInv /\ [SubNext]_allVars => [Next]_vars
  BY SubInvStep
<1> QED BY <1>1, <1>2, SubInvariance, PTL DEF SubSpec

\* So what is proved of Pipeline holds of a run with workflow steps: the order of
\* the dependencies, the explicit failure, the complete run and what is returned.
THEOREM CompositionSafe ==
  SubSpec => [](StartsAfterDepends /\ FailureIsExplicit /\ CompleteDidEveryStep
                /\ ReturnMatchesRun)
<1>1. SubInv => /\ StartsAfterDepends /\ FailureIsExplicit /\ CompleteDidEveryStep
                /\ ReturnMatchesRun
  BY StartsAfterFromInv, ExplicitFromInv, DidEveryFromInv, ReturnFromInv DEF SubInv
<1> QED BY <1>1, SubInvariance, PTL

\* The entries of the envelope that show the end of a step stay in a composition.
THEOREM CompositionEntriesFinal == SubSpec => EnvelopeEntriesFinal
<1>1. SubInv /\ [SubNext]_allVars => [EntryKept]_vars
  BY SubInvStep, EntriesKept DEF SubInv
<1> QED BY <1>1, SubInvariance, PTL DEF SubSpec, EnvelopeEntriesFinal, EntryKept

\* executeSubWorkflow sends a webhook only if the workflow and the step that
\* called it opted in, and skips it otherwise.
THEOREM WebhooksOptedIn == SubSpec => []WebhooksOptIn
<1>1. SubInv => WebhooksOptIn
  <2> SUFFICES ASSUME SubInv, NEW e \in DOMAIN subStep,
                      e[2] \in Caller(e[1]).sub.webhooks
               PROVE  LET k == Caller(e[1])
                      IN /\ e \in fired => k.sub.allows /\ k.optsIn
                         /\ ~(k.sub.allows /\ k.optsIn) => subStep[e] = "skipped"
    BY DEF WebhooksOptIn
  <2>1. Caller(e[1]) = Named(call, e[1])
    BY CallerNamed
  <2>2. Muted(call, e) <=> ~(Caller(e[1]).sub.allows /\ Caller(e[1]).optsIn)
    BY <2>1 DEF Muted, Suppressed
  <2> QED BY <2>2 DEF SubInv, WebInv
<1> QED BY <1>1, SubInvariance, PTL

\* The usage that executeSubWorkflow returns through all levels to the record of
\* the step that called is that of the agents below it.
THEOREM UsageRolledUp == SubSpec => []UsageRollsUp
<1>1. SubInv => UsageRollsUp
  BY DEF SubInv, BurntInv, UsageRollsUp
<1> QED BY <1>1, SubInvariance, PTL

\* A workflow step and a run are complete only with all sub-runs below them, and
\* with a MemStore a sub-run is not left running.
THEOREM CallsAgreed == SubSpec => []CallsAgree
<1>1. SubInv => CallsAgree
  <2> SUFFICES ASSUME SubInv PROVE CallsAgree
    OBVIOUS
  <2>1. ASSUME NEW s \in DOMAIN call, step[s] = "complete" \/ run = "complete"
        PROVE  Finished(s)
    <3>1. s \in Steps
      BY RootCalls DEF SubInv
    <3>2. step[s] = "none" \/ step[s] \in Good
      <4>1. CASE step[s] = "complete"
        BY <4>1 DEF Good
      <4>2. CASE run = "complete"
        <5>1. step[s] \in {"none"} \cup Good \cup Open
          BY <3>1 DEF SubInv, PipeInv, TypeOK, StepStatus, Open, Good
        <5>2. step[s] # "pending_approval" /\ s \notin stray
          BY <2>1, <3>1 DEF SubInv, ShapeInv, PipeInv, RecordInv
        <5>3. step[s] \in Open => s \in outputs
          BY <3>1, <4>2 DEF SubInv, PipeInv, EndInv, RecordInv
        <5> QED BY <3>1, <5>1, <5>2, <5>3 DEF SubInv, PipeInv, RecordInv, Passed, Good
      <4> QED BY <2>1, <4>1, <4>2
    <3>3. Nothing(s) \/ Finished(s)
      BY <3>1, <3>2 DEF SubInv, DoneInv
    <3> QED BY <3>3 DEF Nothing, Finished
  <2>2. ASSUME frames = <<>>, store = "mem", NEW p \in DOMAIN subRun, subRun[p] = "running"
        PROVE  Caller(p).sub.cyclic \/ ~IsInjective(Caller(p).sub.order)
    <3>1. ~Under(p)
      BY <2>2 DEF Under
    <3>2. Excused(call, p)
      BY <2>2, <3>1 DEF SubInv, MemInv
    <3> QED BY <3>2, CallerNamed DEF Excused
  <2>3. \A s \in DOMAIN call :
          step[s] = "complete" \/ run = "complete" =>
            /\ \A p \in DOMAIN subRun : p[1] = s => subRun[p] = "complete"
            /\ \A e \in DOMAIN subStep : e[1][1] = s => subStep[e] \in {"complete", "skipped"}
    BY <2>1 DEF Finished, Good
  <2> QED BY <2>2, <2>3 DEF CallsAgree
<1> QED BY <1>1, SubInvariance, PTL
=============================================================================

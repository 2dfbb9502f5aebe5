----------------------------- MODULE AgentLoop -----------------------------
(***************************************************************************)
(* Loop.Run of the runtime: the turns of one agent step, with tool calls,  *)
(* gated calls, the correction of invalid JSON and the reflect pass.  A    *)
(* step has at most two legs: the first, and the one that a decision on    *)
(* its only approval resumes (AgentStep), with the messages of the first   *)
(* if the step record has them: an item of a fanout has no record, and the *)
(* record of a step that ended has none.  What the model answers, which    *)
(* tools fail and what a reviewer decides is left open.  A message is kept *)
(* as what it is for the next call: the use of a tool, its result, or text;*)
(* calls are numbered in their order.                                      *)
(***************************************************************************)
EXTENDS Naturals, Sequences, FiniteSets, SequencesExt

CONSTANTS
  MaxTurns,   \* max_turns of the agent
  MaxCalls    \* bound on the tool calls in one response

ASSUME AgentLoopAssumption == MaxTurns \in Nat \ {0} /\ MaxCalls \in Nat

\* plain: permitted, gated: matches a require_approval rule, unknown: a name
\* that no server offered.
CallKinds == {"plain", "gated", "unknown"}

VARIABLES
  reflect,    \* the agent declares a reflect prompt
  pc,         \* where run is
  leg,        \* 1, or 2 for the resumed leg
  turn,       \* the turn of the leg
  messages,   \* the conversation
  todo,       \* the calls of the last response still to look at
  seen,       \* history: the kind of every call that was put to use, by its ID
  invalid,    \* lastInvalidContent is not empty
  llm,        \* Metrics.LLMCalls of the leg
  reflects,   \* Metrics.ReflectCalls of the leg
  toolCalls,  \* Metrics.ToolCalls of the leg
  counted,    \* the tool calls in the metrics of the legs before
  approved,   \* ApprovedToolCalls
  executed,   \* history: the calls that gave a result, in both legs
  forgotten,  \* history: the calls of the first leg, if its messages are lost
  status      \* of the callback: "none" while the leg runs

vars == <<reflect, pc, leg, turn, messages, todo, seen, invalid, llm, reflects,
          toolCalls, counted, approved, executed, forgotten, status>>

Message == [kind : {"use", "result", "text"}, id : Nat]
Use(i)  == [kind |-> "use", id |-> i]
Ret(i)  == [kind |-> "result", id |-> i]
Text    == [kind |-> "text", id |-> 0]

TypeOK ==
  /\ pc \in {"resume", "turn", "calls", "draft", "correct", "ended"}
  /\ leg \in 1..2
  /\ turn \in 1..(MaxTurns + 1)
  /\ messages \in Seq(Message)
  /\ todo \in Seq(CallKinds) /\ seen \in Seq(CallKinds)
  /\ reflect \in BOOLEAN /\ invalid \in BOOLEAN
  /\ llm \in Nat /\ reflects \in Nat /\ toolCalls \in Nat /\ counted \in Nat
  /\ approved \in SUBSET Nat /\ executed \in SUBSET Nat /\ forgotten \in SUBSET Nat
  /\ status \in {"none", "ok", "failed", "pending_approval"}

Init ==
  /\ reflect \in BOOLEAN
  /\ pc = "turn" /\ leg = 1 /\ turn = 1
  /\ messages = <<Text>> /\ todo = <<>> /\ seen = <<>>
  /\ invalid = FALSE
  /\ llm = 0 /\ reflects = 0 /\ toolCalls = 0
  /\ counted = 0 /\ approved = {} /\ executed = {} /\ forgotten = {}
  /\ status = "none"

-----------------------------------------------------------------------------

End(s) == pc' = "ended" /\ status' = s

legVars == <<reflect, leg, counted, approved, forgotten>>

\* The last turn is made without tools, after the forced conclusion message; a
\* response that calls tools all the same is treated like any other.
Prompt == IF turn = MaxTurns THEN Append(messages, Text) ELSE messages

\* callGateway fails: the call is not counted.
GatewayError ==
  /\ pc \in {"turn", "draft", "correct"}
  /\ pc = "turn" => turn <= MaxTurns \/ invalid
  /\ messages' = IF pc = "turn" THEN Prompt ELSE messages
  /\ End("failed")
  /\ UNCHANGED <<legVars, turn, todo, seen, invalid, llm, reflects, toolCalls, executed>>

TurnCalls ==
  /\ pc = "turn" /\ turn <= MaxTurns
  /\ messages' = Prompt
  /\ \E n \in 1..MaxCalls : todo' \in [1..n -> CallKinds]
  /\ pc' = "calls"
  /\ llm' = llm + 1
  /\ UNCHANGED <<legVars, turn, seen, invalid, reflects, toolCalls, executed, status>>

\* An empty response is invalid too, but leaves nothing to correct.
TurnInvalid ==
  /\ pc = "turn" /\ turn <= MaxTurns
  /\ messages' = Prompt \o <<Text, Text>>
  /\ invalid' \in BOOLEAN
  /\ turn' = turn + 1
  /\ llm' = llm + 1
  /\ UNCHANGED <<legVars, pc, todo, seen, reflects, toolCalls, executed, status>>

\* A JSON object: the output, or the draft when a reflect prompt is set.
TurnOutput ==
  /\ pc = "turn" /\ turn <= MaxTurns
  /\ messages' = Prompt
  /\ llm' = llm + 1
  /\ IF reflect THEN pc' = "draft" /\ UNCHANGED status ELSE End("ok")
  /\ UNCHANGED <<legVars, turn, todo, seen, invalid, reflects, toolCalls, executed>>

\* Mutant: the free correction is repeated until it is valid.
FreeCorrectionRepeated ==
  /\ pc = "turn" /\ turn > MaxTurns /\ invalid
  /\ llm' = llm + 1
  /\ End("ok") \/ UNCHANGED <<pc, status>>
  /\ UNCHANGED <<legVars, turn, messages, todo, seen, invalid, reflects, toolCalls,
                 executed>>

\* The free correction after the last turn, made when the last invalid answer of
\* the leg was not empty, whatever turns came after it.
FreeCorrection ==
  /\ pc = "turn" /\ turn > MaxTurns /\ invalid
  /\ llm' = llm + 1
  /\ End("ok") \/ End("failed")
  /\ UNCHANGED <<legVars, turn, messages, todo, seen, invalid, reflects, toolCalls,
                 executed>>

TurnsExceeded ==
  /\ pc = "turn" /\ turn > MaxTurns /\ ~invalid
  /\ End("failed")
  /\ UNCHANGED <<legVars, turn, messages, todo, seen, invalid, llm, reflects, toolCalls,
                 executed>>

-----------------------------------------------------------------------------
(* The calls of a response, one after the other.                           *)

nextID == Len(seen) + 1

\* Mutant: the approval rules are not looked at.
CallUngated ==
  /\ pc = "calls" /\ todo # <<>> /\ Head(todo) \in {"plain", "gated"}
  /\ messages' = messages \o <<Use(nextID), Ret(nextID)>>
  /\ executed' = executed \cup {nextID}
  /\ toolCalls' = toolCalls + 1
  /\ seen' = Append(seen, Head(todo))
  /\ todo' = Tail(todo)
  /\ UNCHANGED <<legVars, pc, turn, invalid, llm, reflects, status>>

CallPlain ==
  /\ pc = "calls" /\ todo # <<>> /\ Head(todo) = "plain"
  /\ messages' = messages \o <<Use(nextID), Ret(nextID)>>
  /\ executed' = executed \cup {nextID}
  /\ toolCalls' = toolCalls + 1
  /\ seen' = Append(seen, Head(todo))
  /\ todo' = Tail(todo)
  /\ UNCHANGED <<legVars, pc, turn, invalid, llm, reflects, status>>

\* An unknown tool, or one that fails, ends the leg.
CallFails ==
  /\ pc = "calls" /\ todo # <<>> /\ Head(todo) \in {"plain", "unknown"}
  /\ End("failed")
  /\ UNCHANGED <<legVars, turn, messages, todo, seen, invalid, llm, reflects, toolCalls,
                 executed>>

\* A gated call is put into the messages and ends the leg; the calls after it
\* in the response are dropped.
CallGated ==
  /\ pc = "calls" /\ todo # <<>> /\ Head(todo) = "gated"
  /\ messages' = Append(messages, Use(nextID))
  /\ seen' = Append(seen, "gated")
  /\ todo' = <<>>
  /\ End("pending_approval")
  /\ UNCHANGED <<legVars, turn, invalid, llm, reflects, toolCalls, executed>>

CallsDone ==
  /\ pc = "calls" /\ todo = <<>>
  /\ turn' = turn + 1
  /\ pc' = "turn"
  /\ UNCHANGED <<legVars, messages, todo, seen, invalid, llm, reflects, toolCalls,
                 executed, status>>

-----------------------------------------------------------------------------
(* The reflect pass.                                                       *)

DraftFatal ==
  /\ pc = "draft"
  /\ End("failed")
  /\ UNCHANGED <<legVars, turn, messages, todo, seen, invalid, llm, reflects, toolCalls,
                 executed>>

\* The confidence of the draft reaches the threshold of the step.
DraftConfident ==
  /\ pc = "draft"
  /\ End("ok")
  /\ UNCHANGED <<legVars, turn, messages, todo, seen, invalid, llm, reflects, toolCalls,
                 executed>>

ReflectOn ==
  /\ pc \in {"draft", "correct"}
  /\ llm' = llm + 1
  /\ reflects' = reflects + 1
  /\ \/ End("ok")
     \/ pc = "draft" /\ pc' = "correct" /\ UNCHANGED status
     \/ pc = "correct" /\ End("failed")
  /\ UNCHANGED <<legVars, turn, messages, todo, seen, invalid, toolCalls, executed>>

-----------------------------------------------------------------------------
(* The resumed leg.                                                        *)

\* Mutant: a rejected call is left without a result.
ResumeUnanswered ==
  /\ status = "pending_approval" /\ leg = 1
  /\ leg' = 2 /\ turn' = 1 /\ status' = "none" /\ invalid' = FALSE
  /\ llm' = 0 /\ reflects' = 0 /\ toolCalls' = 0
  /\ counted' = toolCalls
  /\ \/ approved' = {Len(seen)} /\ pc' = "resume"
     \/ pc' = "turn" /\ UNCHANGED approved
  /\ UNCHANGED <<reflect, messages, todo, seen, executed, forgotten>>

\* Mutant: the tool calls of the first leg are not reported with the second.
ResumeForgets ==
  /\ status = "pending_approval" /\ leg = 1
  /\ leg' = 2 /\ turn' = 1 /\ status' = "none" /\ invalid' = FALSE
  /\ llm' = 0 /\ reflects' = 0 /\ toolCalls' = 0
  /\ approved' = {Len(seen)} /\ pc' = "resume"
  /\ UNCHANGED <<reflect, messages, todo, seen, counted, executed, forgotten>>

\* redispatchApproved and redispatchRecover: the second leg starts from what is
\* stored of the messages of the first, with the call approved or with its
\* rejection.  With nothing stored an approved call is not in the messages, and
\* the leg starts anew; the rejection is all that the other leg starts from.
Resume ==
  /\ status = "pending_approval" /\ leg = 1
  /\ leg' = 2 /\ turn' = 1 /\ status' = "none" /\ invalid' = FALSE
  /\ llm' = 0 /\ reflects' = 0 /\ toolCalls' = 0
  /\ counted' = toolCalls
  /\ \E stored \in {messages, <<>>} :
       /\ forgotten' = IF stored = <<>> THEN 1..Len(seen) ELSE {}
       /\ \/ /\ approved' = {Len(seen)}
             /\ pc' = "resume"
             /\ messages' = IF stored = <<>> THEN <<Text>> ELSE stored
          \/ /\ messages' = Append(stored, Ret(Len(seen)))
             /\ pc' = "turn"
             /\ UNCHANGED approved
  /\ UNCHANGED <<reflect, todo, seen, executed>>

\* The approved calls that the messages hold are executed before the turns.
ExecuteApproved ==
  /\ pc = "resume"
  /\ LET ids == {messages[k].id : k \in {j \in DOMAIN messages :
                   messages[j].kind = "use" /\ messages[j].id \in approved}}
     IN /\ messages' = messages \o SetToSeq({Ret(i) : i \in ids})
        /\ executed' = executed \cup ids
        /\ toolCalls' = Cardinality(ids)
  /\ pc' = "turn"
  /\ UNCHANGED <<legVars, turn, todo, seen, invalid, llm, reflects, status>>

ApprovedFails ==
  /\ pc = "resume"
  /\ End("failed")
  /\ UNCHANGED <<legVars, turn, messages, todo, seen, invalid, llm, reflects, toolCalls,
                 executed>>

\* The callback was sent; the step waits for a decision, or is over.
Stopped == pc = "ended" /\ UNCHANGED vars

LoopStep ==
  \/ GatewayError \/ TurnCalls \/ TurnInvalid \/ TurnOutput \/ FreeCorrection
  \/ TurnsExceeded \/ CallPlain \/ CallFails \/ CallGated \/ CallsDone \/ DraftFatal
  \/ DraftConfident \/ ReflectOn \/ ExecuteApproved \/ ApprovedFails

Next == LoopStep \/ Resume \/ Stopped

Spec == Init /\ [][Next]_vars

-----------------------------------------------------------------------------

\* Every request of a turn holds a well-formed conversation: the use of a tool
\* is followed by its result, and no result stands alone but for one: a rejection
\* opens the conversation of its leg when the messages before it were lost.
ConversationPaired ==
  pc = "turn" =>
    \A k \in DOMAIN messages :
      /\ messages[k].kind = "use" =>
           k < Len(messages) /\ messages[k + 1] = Ret(messages[k].id)
      /\ messages[k].kind = "result" =>
           \/ k > 1 /\ messages[k - 1] = Use(messages[k].id)
           \/ k = 1 /\ leg = 2 /\ approved = {} /\ messages[k].id \in forgotten

\* A gated call gives a result only if it was approved, in the resumed leg.
GatedNeedsApproval ==
  \A i \in executed : seen[i] = "gated" => leg = 2 /\ i \in approved

\* Every call that gave a result is counted once in the metrics that the callbacks
\* of the two legs report, and is in the conversation unless that was lost.
ToolCallsCounted ==
  /\ counted + toolCalls = Cardinality(executed)
  /\ \A i \in executed \ forgotten : Ret(i) \in ToSet(messages)

\* What a leg can cost: max_turns calls, and then one free correction, or the
\* reflect pass and its correction.
CallsBounded ==
  /\ llm <= MaxTurns + (IF reflect THEN 2 ELSE 1)
  /\ reflects <= 2
  /\ llm > MaxTurns => pc \in {"correct", "ended"}
=============================================================================

--------------------------- MODULE AgentLoopProof ---------------------------
(***************************************************************************)
(* Proofs about AgentLoop, for every max_turns and every number of calls   *)
(* in a response.                                                          *)
(***************************************************************************)
EXTENDS AgentLoop, FiniteSetTheorems, TLAPS

\* The model calls of a leg are counted by its turns until it reflects, and
\* nothing but the end of the leg follows the last one.
TurnInv ==
  /\ pc \in {"resume", "turn"} => llm = turn - 1 /\ reflects = 0
  /\ pc \in {"calls", "draft"} => llm = turn /\ turn <= MaxTurns /\ reflects = 0
  /\ pc = "correct" => llm = turn + 1 /\ turn <= MaxTurns /\ reflects = 1
  /\ pc \in {"draft", "correct"} => reflect
  /\ pc = "ended" => llm <= MaxTurns + (IF reflect THEN 2 ELSE 1) /\ reflects <= 2
  /\ pc = "ended" <=> status # "none"

\* Among the first n messages the use of a tool is followed by its result, and
\* no result stands alone, but for one of the calls F at the very beginning.
PairedTo(m, n, F) ==
  \A k \in 1..n :
    /\ m[k].kind = "use" => k < n /\ m[k + 1] = Ret(m[k].id)
    /\ m[k].kind = "result" => \/ k > 1 /\ m[k - 1] = Use(m[k].id)
                               \/ k = 1 /\ m[k].id \in F

\* The calls whose rejection may open a conversation.
Lost == IF leg = 2 /\ approved = {} THEN forgotten ELSE {}

Waits == status = "pending_approval" \/ (pc = "resume" /\ forgotten = {})

\* Only the last message of a leg that waits for a decision has no partner; a leg
\* whose messages were lost starts anew.
MessagesInv ==
  /\ pc \in {"turn", "calls", "draft", "correct"} => PairedTo(messages, Len(messages), Lost)
  /\ Waits => /\ Len(messages) > 0 /\ messages[Len(messages)] = Use(Len(seen))
              /\ PairedTo(messages, Len(messages) - 1, Lost)
  /\ pc = "resume" /\ forgotten # {} => messages = <<Text>>

\* The call that waits for a decision is the last one seen, and did not run.
CallInv ==
  /\ executed \subseteq 1..Len(seen)
  /\ Waits => Len(seen) > 0 /\ seen[Len(seen)] = "gated" /\ Len(seen) \notin executed
  /\ pc = "resume" => approved = {Len(seen)} /\ leg = 2 /\ toolCalls = 0
  /\ leg = 1 => counted = 0 /\ forgotten = {} /\ approved = {}

LoopInv ==
  /\ TypeOK /\ TurnInv /\ MessagesInv /\ CallInv
  /\ GatedNeedsApproval /\ ToolCallsCounted

-----------------------------------------------------------------------------
(* Conversations.                                                          *)

\* What is appended leaves the pairs before it.
LEMMA PairedPrefix ==
  ASSUME NEW F, NEW m \in Seq(Message), NEW n \in 0..Len(m), PairedTo(m, n, F),
         NEW x \in Message
  PROVE  PairedTo(Append(m, x), n, F)
  BY DEF PairedTo

\* Text needs no partner.
LEMMA PairedText ==
  ASSUME NEW F, NEW m \in Seq(Message), PairedTo(m, Len(m), F)
  PROVE  PairedTo(Append(m, Text), Len(Append(m, Text)), F)
  BY DEF PairedTo, Text, Message

\* The result of the last call completes its pair.
LEMMA PairedResult ==
  ASSUME NEW F, NEW m \in Seq(Message), NEW i \in Nat, Len(m) > 0, m[Len(m)] = Use(i),
         PairedTo(m, Len(m) - 1, F)
  PROVE  PairedTo(Append(m, Ret(i)), Len(Append(m, Ret(i))), F)
  BY DEF PairedTo, Use, Ret, Message

\* A call and its result are a pair.
LEMMA PairedCall ==
  ASSUME NEW F, NEW m \in Seq(Message), NEW i \in Nat, PairedTo(m, Len(m), F)
  PROVE  PairedTo(m \o <<Use(i), Ret(i)>>, Len(m \o <<Use(i), Ret(i)>>), F)
  <1> DEFINE u == Append(m, Use(i))
  <1>1. u \in Seq(Message) /\ Len(u) > 0 /\ u[Len(u)] = Use(i) /\ Len(u) - 1 = Len(m)
    BY DEF Message, Use
  <1>2. PairedTo(u, Len(u) - 1, F)
    BY <1>1, PairedPrefix DEF Message, Use
  <1>3. m \o <<Use(i), Ret(i)>> = Append(u, Ret(i))
    BY DEF Message, Use, Ret
  <1> QED
    BY <1>1, <1>2, <1>3, PairedResult

\* A rejection may open the conversation; text does.
LEMMA PairedOpening ==
  ASSUME NEW F, NEW i \in Nat
  PROVE  /\ PairedTo(<<Text>>, 1, F)
         /\ i \in F => PairedTo(<<Ret(i)>>, 1, F)
  BY DEF PairedTo, Text, Ret

\* No message as a sequence.
LEMMA NoMessage == \A m \in Seq(Message) : m \o SetToSeq({}) = m
  <1> TAKE m \in Seq(Message)
  <1>1. Cardinality({}) = 0
    BY FS_EmptySet
  <1>2. SetToSeq({}) = CHOOSE f \in [1..0 -> {}] : IsInjective(f)
    BY <1>1 DEF SetToSeq
  <1>3. <<>> \in [1..0 -> {}] /\ IsInjective(<<>>)
    BY DEF IsInjective
  <1>4. \A f \in [1..0 -> {}] : f = <<>>
    OBVIOUS
  <1>5. SetToSeq({}) = <<>>
    BY <1>2, <1>3, <1>4
  <1>6. m \o <<>> = m
    OBVIOUS
  <1> QED
    BY <1>5, <1>6

\* One message as a sequence.
LEMMA SingleSeq == \A x : SetToSeq({x}) = <<x>>
  <1> TAKE x
  <1>1. Cardinality({x}) = 1
    BY FS_Singleton
  <1>2. SetToSeq({x}) = CHOOSE f \in [1..1 -> {x}] : IsInjective(f)
    BY <1>1 DEF SetToSeq
  <1>3. <<x>> \in [1..1 -> {x}] /\ IsInjective(<<x>>)
    BY DEF IsInjective
  <1>4. \A f \in [1..1 -> {x}] : f = <<x>>
    OBVIOUS
  <1> QED
    BY <1>2, <1>3, <1>4

\* A message stays in the conversation when others are appended.
LEMMA StaysInConversation ==
  ASSUME NEW m \in Seq(Message), NEW n \in Seq(Message), NEW x \in ToSet(m)
  PROVE  x \in ToSet(m \o n)
  BY DEF ToSet

-----------------------------------------------------------------------------

\* The four parts of TypeOK.
SeqTypes ==
  messages \in Seq(Message) /\ todo \in Seq(CallKinds) /\ seen \in Seq(CallKinds)

BoolTypes == reflect \in BOOLEAN /\ invalid \in BOOLEAN

PlainTypes ==
  /\ pc \in {"resume", "turn", "calls", "draft", "correct", "ended"}
  /\ leg \in 1..2
  /\ turn \in 1..(MaxTurns + 1)
  /\ llm \in Nat /\ reflects \in Nat /\ toolCalls \in Nat /\ counted \in Nat
  /\ status \in {"none", "ok", "failed", "pending_approval"}

SetTypes ==
  approved \in SUBSET Nat /\ executed \in SUBSET Nat /\ forgotten \in SUBSET Nat

\* The inductive invariant holds before the first turn.
LEMMA LoopInit == Init => LoopInv
  <1> SUFFICES ASSUME Init PROVE LoopInv
    OBVIOUS
  <1> USE AgentLoopAssumption DEF Init
  <1>1. TypeOK
    <2>1. messages \in Seq(Message)
      BY DEF Message, Text
    <2>2. SeqTypes
      BY <2>1 DEF SeqTypes
    <2>3. PlainTypes
      BY DEF PlainTypes
    <2>4. BoolTypes
      BY Zenon DEF BoolTypes
    <2>5. SetTypes
      BY DEF SetTypes
    <2> QED
      BY <2>2, <2>3, <2>4, <2>5, Zenon DEF TypeOK, SeqTypes, PlainTypes, BoolTypes, SetTypes
  <1>2. TurnInv
    BY DEF TurnInv
  <1>3. MessagesInv /\ CallInv
    BY DEF MessagesInv, CallInv, PairedTo, Waits, Text
  <1>4. GatedNeedsApproval /\ ToolCallsCounted
    BY FS_EmptySet DEF GatedNeedsApproval, ToolCallsCounted
  <1> QED
    BY <1>1, <1>2, <1>3, <1>4 DEF LoopInv

\* Of the approved calls the messages hold the one that waits, or none if they
\* were lost.
LEMMA ApprovedOnce ==
  ASSUME LoopInv, ExecuteApproved
  PROVE  /\ \/ /\ messages' = Append(messages, Ret(Len(seen)))
               /\ executed' = executed \cup {Len(seen)}
               /\ toolCalls' = 1
               /\ forgotten = {}
            \/ UNCHANGED <<messages, executed, toolCalls>> /\ forgotten # {}
         /\ toolCalls' \in Nat
  <1> DEFINE ids == {messages[k].id : k \in {j \in DOMAIN messages :
                       messages[j].kind = "use" /\ messages[j].id \in approved}}
  <1>1. /\ approved = {Len(seen)} /\ messages \in Seq(Message) /\ Len(seen) \in Nat
        /\ toolCalls = 0 /\ pc = "resume"
    BY DEF LoopInv, TypeOK, CallInv, ExecuteApproved
  <1>2. /\ messages' = messages \o SetToSeq({Ret(i) : i \in ids})
        /\ executed' = executed \cup ids
        /\ toolCalls' = Cardinality(ids)
    BY DEF ExecuteApproved
  <1>3. CASE forgotten = {}
    <2>1. Len(messages) > 0 /\ messages[Len(messages)] = Use(Len(seen))
      BY <1>1, <1>3 DEF LoopInv, MessagesInv, Waits
    <2>2. Len(messages) \in DOMAIN messages
      BY <1>1, <2>1
    <2>3. Len(seen) \in ids
      BY <1>1, <2>1, <2>2 DEF Use
    <2>4. ids = {Len(seen)}
      BY <1>1, <2>3
    <2>5. {Ret(i) : i \in ids} = {Ret(Len(seen))}
      BY <2>4
    <2>6. SetToSeq({Ret(i) : i \in ids}) = <<Ret(Len(seen))>>
      BY <2>5, SingleSeq
    <2>7. Cardinality(ids) = 1
      BY <2>4, FS_Singleton
    <2>8. messages \o <<Ret(Len(seen))>> = Append(messages, Ret(Len(seen)))
      BY <1>1 DEF Message, Ret
    <2> HIDE DEF ids
    <2>9. /\ messages' = Append(messages, Ret(Len(seen)))
          /\ executed' = executed \cup {Len(seen)} /\ toolCalls' = 1
      BY <1>2, <2>4, <2>6, <2>7, <2>8
    <2> QED
      BY <1>3, <2>9
  <1>4. CASE forgotten # {}
    <2>1. messages = <<Text>>
      BY <1>1, <1>4 DEF LoopInv, MessagesInv
    <2>2. ids = {}
      BY <2>1 DEF Text
    <2>3. {Ret(i) : i \in ids} = {}
      BY <2>2
    <2>4. messages \o SetToSeq({Ret(i) : i \in ids}) = messages
      BY <1>1, <2>3, NoMessage
    <2>5. Cardinality(ids) = 0
      BY <2>2, FS_EmptySet
    <2> HIDE DEF ids
    <2>6. messages' = messages /\ executed' = executed /\ toolCalls' = 0
      BY <1>2, <2>2, <2>4, <2>5
    <2> QED
      BY <1>1, <1>4, <2>6
  <1> QED
    BY <1>3, <1>4

\* Every step keeps the types of the conversation and the calls.
LEMMA LoopSeqs == ASSUME LoopInv, [Next]_vars PROVE SeqTypes'
  <1>0. ExecuteApproved => messages' \in {messages, Append(messages, Ret(Len(seen)))}
    BY ApprovedOnce
  <1>1. SeqTypes
    BY DEF LoopInv, TypeOK, SeqTypes
  <1>2. Text \in Message /\ \A i \in Nat : Use(i) \in Message /\ Ret(i) \in Message
    BY DEF Message, Text, Use, Ret
  <1>3. Len(seen) \in Nat /\ nextID \in Nat
    BY <1>1 DEF nextID, SeqTypes
  <1>4. Prompt \in Seq(Message)
    BY <1>1, <1>2 DEF Prompt, SeqTypes
  <1> USE <1>1, <1>2, <1>3, <1>4 DEF SeqTypes
  <1>5. CASE GatewayError
    BY <1>5 DEF GatewayError
  <1>6. CASE TurnCalls
    BY AgentLoopAssumption, <1>6 DEF TurnCalls
  <1>7. CASE TurnInvalid \/ TurnOutput
    <2>1. messages' = Prompt \o <<Text, Text>> \/ messages' = Prompt
      BY <1>7 DEF TurnInvalid, TurnOutput
    <2>2. UNCHANGED <<todo, seen>>
      BY <1>7 DEF TurnInvalid, TurnOutput
    <2>3. <<Text, Text>> \in Seq(Message)
      OBVIOUS
    <2>4. Prompt \o <<Text, Text>> \in Seq(Message)
      BY <2>3
    <2>5. messages' \in Seq(Message)
      BY <2>1, <2>4
    <2> QED
      BY <2>2, <2>5
  <1>8. CASE CallPlain
    BY <1>8 DEF CallPlain, CallKinds
  <1>9. CASE CallGated
    BY <1>9 DEF CallGated, CallKinds
  <1>10. CASE ExecuteApproved
    <2>1. UNCHANGED <<todo, seen>>
      BY <1>10 DEF ExecuteApproved
    <2>2. messages' \in {messages, Append(messages, Ret(Len(seen)))}
      BY <1>0, <1>10
    <2>3. Append(messages, Ret(Len(seen))) \in Seq(Message)
      OBVIOUS
    <2>4. messages' \in Seq(Message)
      BY <2>2, <2>3
    <2> QED
      BY <2>1, <2>4
  <1>11. CASE Resume
    <2>1. \E stored \in {messages, <<>>} :
            messages' \in {stored, <<Text>>, Append(stored, Ret(Len(seen)))}
      BY <1>11 DEF Resume
    <2>2. UNCHANGED <<todo, seen>>
      BY <1>11 DEF Resume
    <2>3. <<>> \in Seq(Message) /\ <<Text>> \in Seq(Message)
      OBVIOUS
    <2>5. \A stored \in Seq(Message) : Append(stored, Ret(Len(seen))) \in Seq(Message)
      OBVIOUS
    <2>4. messages' \in Seq(Message)
      BY <2>1, <2>3, <2>5
    <2> QED
      BY <2>2, <2>4
  <1>12. CASE UNCHANGED <<messages, todo, seen>>
    BY <1>12
  <1> QED
    BY <1>5, <1>6, <1>7, <1>8, <1>9, <1>10, <1>11, <1>12
       DEF Next, LoopStep, FreeCorrection, TurnsExceeded, CallFails, CallsDone, DraftFatal,
           DraftConfident, ReflectOn, ApprovedFails, Stopped, vars

\* Every step keeps the types of the other variables.
LEMMA LoopPlain == ASSUME LoopInv, [Next]_vars PROVE PlainTypes'
  <1>0. ExecuteApproved => toolCalls' \in Nat
    BY ApprovedOnce
  <1>1. PlainTypes /\ TurnInv
    BY DEF LoopInv, TypeOK, PlainTypes
  <1>2. Len(seen) \in Nat /\ nextID \in Nat
    BY DEF LoopInv, TypeOK, nextID
  <1> USE AgentLoopAssumption, <1>1, <1>2 DEF PlainTypes, TurnInv, End, legVars
  <1>3. CASE GatewayError
    BY <1>3 DEF GatewayError
  <1>4. CASE TurnCalls \/ TurnInvalid \/ TurnOutput
    BY <1>4 DEF TurnCalls, TurnInvalid, TurnOutput
  <1>5. CASE FreeCorrection \/ TurnsExceeded
    BY <1>5 DEF FreeCorrection, TurnsExceeded
  <1>6. CASE CallPlain \/ CallFails \/ CallGated \/ CallsDone
    <2>1. CASE CallPlain
      BY <2>1 DEF CallPlain
    <2>2. CASE CallFails
      BY <2>2 DEF CallFails
    <2>3. CASE CallGated
      BY <2>3 DEF CallGated
    <2>4. CASE CallsDone
      BY <2>4 DEF CallsDone
    <2> QED
      BY <1>6, <2>1, <2>2, <2>3, <2>4
  <1>7. CASE DraftFatal \/ DraftConfident \/ ReflectOn \/ ApprovedFails
    BY <1>7 DEF DraftFatal, DraftConfident, ReflectOn, ApprovedFails
  <1>8. CASE ExecuteApproved
    BY <1>0, <1>8 DEF ExecuteApproved
  <1>9. CASE Resume
    BY <1>9 DEF Resume
  <1>10. CASE Stopped \/ UNCHANGED vars
    BY <1>10 DEF Stopped, vars
  <1> QED
    BY <1>3, <1>4, <1>5, <1>6, <1>7, <1>8, <1>9, <1>10 DEF Next, LoopStep

\* Every step keeps the types.
LEMMA LoopTypes == ASSUME LoopInv, [Next]_vars PROVE TypeOK'
  <1>1. UNCHANGED <<reflect, invalid>> \/ (UNCHANGED reflect /\ invalid' \in BOOLEAN)
    BY Zenon
       DEF Next, LoopStep, GatewayError, TurnCalls, TurnInvalid, TurnOutput, FreeCorrection,
           TurnsExceeded, CallPlain, CallFails, CallGated, CallsDone, DraftFatal,
           DraftConfident, ReflectOn, ExecuteApproved, ApprovedFails, Resume, Stopped, vars,
           legVars
  <1>3. SetTypes'
    <2>1. \/ UNCHANGED <<approved, executed, forgotten>>
          \/ CallPlain \/ ExecuteApproved \/ Resume
      BY Zenon
       DEF Next, LoopStep, GatewayError, TurnCalls, TurnInvalid, TurnOutput, FreeCorrection,
           TurnsExceeded, CallFails, CallGated, CallsDone, DraftFatal,
           DraftConfident, ReflectOn, ApprovedFails, Stopped, vars, legVars
    <2>2. Len(seen) \in Nat /\ nextID \in Nat /\ SetTypes
      BY DEF LoopInv, TypeOK, nextID, SetTypes
    <2>3. CASE CallPlain
      BY <2>2, <2>3 DEF CallPlain, legVars, SetTypes
    <2>4. CASE ExecuteApproved
      <3>1. UNCHANGED <<approved, forgotten>>
        BY <2>4 DEF ExecuteApproved, legVars
      <3> QED
        BY <2>2, <2>4, <3>1, ApprovedOnce DEF SetTypes
    <2>5. CASE Resume
      <3>1. /\ UNCHANGED executed /\ (approved' = {Len(seen)} \/ UNCHANGED approved)
            /\ forgotten' \in {1..Len(seen), {}}
        BY <2>5 DEF Resume
      <3>2. 1..Len(seen) \subseteq Nat /\ {Len(seen)} \subseteq Nat
        BY <2>2
      <3>3. forgotten' \subseteq Nat
        BY <3>1, <3>2
      <3> QED
        BY <2>2, <3>1, <3>2, <3>3 DEF SetTypes
    <2> QED
      BY <2>1, <2>2, <2>3, <2>4, <2>5 DEF SetTypes
  <1>2. BoolTypes'
    BY <1>1, Zenon DEF LoopInv, TypeOK, BoolTypes
  <1> QED
    BY <1>2, <1>3, LoopSeqs, LoopPlain, Zenon
       DEF TypeOK, SeqTypes, PlainTypes, BoolTypes, SetTypes

\* Every step keeps the count of the model calls.
LEMMA LoopTurns == ASSUME LoopInv, [Next]_vars PROVE TurnInv'
  <1>0. /\ TurnInv /\ reflect \in BOOLEAN
        /\ turn \in 1..(MaxTurns + 1) /\ llm \in Nat /\ reflects \in Nat
    BY DEF LoopInv, TypeOK
  <1> USE AgentLoopAssumption, <1>0 DEF TurnInv, End, legVars
  <1>1. CASE GatewayError
    BY <1>1 DEF GatewayError
  <1>2. CASE TurnCalls \/ TurnInvalid \/ TurnOutput
    <2>1. CASE TurnCalls
      BY <2>1 DEF TurnCalls
    <2>2. CASE TurnInvalid
      BY <2>2 DEF TurnInvalid
    <2>3. CASE TurnOutput
      BY <2>3 DEF TurnOutput
    <2> QED
      BY <1>2, <2>1, <2>2, <2>3
  <1>3. CASE FreeCorrection \/ TurnsExceeded
    BY <1>3 DEF FreeCorrection, TurnsExceeded
  <1>4. CASE CallPlain \/ CallFails \/ CallGated \/ CallsDone
    <2>1. CASE CallPlain
      <3>1. pc = "calls" /\ UNCHANGED <<legVars, pc, turn, llm, reflects, status>>
        BY <2>1 DEF CallPlain
      <3> QED
        BY <3>1
    <2>2. CASE CallFails
      BY <2>2 DEF CallFails
    <2>3. CASE CallGated
      <3>1. /\ pc = "calls" /\ pc' = "ended" /\ status' = "pending_approval"
            /\ UNCHANGED <<legVars, turn, llm, reflects>>
        BY <2>3 DEF CallGated
      <3> QED
        BY <3>1
    <2>4. CASE CallsDone
      BY <2>4 DEF CallsDone
    <2> QED
      BY <1>4, <2>1, <2>2, <2>3, <2>4
  <1>5. CASE DraftFatal \/ DraftConfident \/ ReflectOn \/ ApprovedFails
    BY <1>5 DEF DraftFatal, DraftConfident, ReflectOn, ApprovedFails
  <1>6. CASE ExecuteApproved
    BY <1>6 DEF ExecuteApproved
  <1>7. CASE Resume
    BY <1>7 DEF Resume
  <1>8. CASE Stopped \/ UNCHANGED vars
    BY <1>8 DEF Stopped, vars
  <1> QED
    BY <1>1, <1>2, <1>3, <1>4, <1>5, <1>6, <1>7, <1>8 DEF Next, LoopStep


\* The conversation changes by whole pairs, by text, or by the call that ends
\* the leg.
LEMMA LoopMessages == ASSUME LoopInv, [Next]_vars PROVE MessagesInv'
  <1>1. messages \in Seq(Message) /\ Len(seen) \in Nat /\ nextID \in Nat
    BY DEF LoopInv, TypeOK, nextID
  <1>2. MessagesInv /\ CallInv /\ (pc = "ended" <=> status # "none")
    BY DEF LoopInv, TurnInv
  <1>3. ASSUME pc = "turn"
        PROVE  Prompt \in Seq(Message) /\ PairedTo(Prompt, Len(Prompt), Lost)
    <2>1. PairedTo(messages, Len(messages), Lost)
      BY <1>2, <1>3 DEF MessagesInv
    <2>2. Append(messages, Text) \in Seq(Message)
      BY <1>1 DEF Message, Text
    <2> QED
      BY <1>1, <2>1, <2>2, PairedText DEF Prompt
  <1>4. UNCHANGED legVars => Lost' = Lost /\ forgotten' = forgotten
    BY DEF Lost, legVars
  <1>5. CASE GatewayError
    BY <1>2, <1>5 DEF GatewayError, End, MessagesInv, Waits
  <1>6. CASE TurnCalls \/ TurnOutput
    BY <1>2, <1>3, <1>4, <1>6 DEF TurnCalls, TurnOutput, End, MessagesInv, Waits
  <1>7. CASE TurnInvalid
    <2> DEFINE p == Append(Prompt, Text)
    <2>1. p \in Seq(Message) /\ PairedTo(p, Len(p), Lost)
      BY <1>3, <1>7, PairedText DEF TurnInvalid, Message, Text
    <2>2. PairedTo(Append(p, Text), Len(Append(p, Text)), Lost)
      BY <2>1, PairedText
    <2>3. messages' = Append(p, Text)
      BY <1>3, <1>7 DEF TurnInvalid, Message, Text
    <2>4. pc' = "turn" /\ status' = "none" /\ Lost' = Lost
      BY <1>2, <1>4, <1>7 DEF TurnInvalid
    <2> QED
      BY <2>2, <2>3, <2>4 DEF MessagesInv, Waits
  <1>8. CASE CallPlain
    <2>1. messages' = messages \o <<Use(nextID), Ret(nextID)>>
      BY <1>8 DEF CallPlain
    <2>2. /\ pc' = "calls" /\ status' = "none" /\ Lost' = Lost
          /\ PairedTo(messages, Len(messages), Lost)
      BY <1>2, <1>4, <1>8 DEF CallPlain, MessagesInv
    <2>3. PairedTo(messages', Len(messages'), Lost)
      BY <1>1, <2>1, <2>2, PairedCall
    <2> QED
      BY <2>2, <2>3 DEF MessagesInv, Waits
  <1>9. CASE CallGated
    <2>1. messages' = Append(messages, Use(nextID)) /\ pc' = "ended" /\ Lost' = Lost
      BY <1>4, <1>9 DEF CallGated, End
    <2>2. Len(seen') = nextID
      BY <1>9 DEF CallGated, nextID, LoopInv, TypeOK
    <2>3. Use(nextID) \in Message
      BY <1>1 DEF Use, Message
    <2>4. PairedTo(messages', Len(messages), Lost)
      BY <1>1, <1>2, <1>9, <2>1, <2>3, PairedPrefix DEF CallGated, MessagesInv
    <2>5. Len(messages') = Len(messages) + 1 /\ messages'[Len(messages')] = Use(nextID)
      BY <1>1, <2>1, <2>3
    <2>6. Len(messages') > 0 /\ Len(messages') - 1 = Len(messages)
      BY <1>1, <2>5
    <2> QED
      BY <2>1, <2>2, <2>4, <2>5, <2>6 DEF MessagesInv, Waits
  <1>10. CASE ExecuteApproved
    <2>1. /\ pc = "resume" /\ pc' = "turn" /\ status' = "none"
          /\ Lost' = Lost /\ forgotten' = forgotten
      BY <1>2, <1>4, <1>10 DEF ExecuteApproved
    <2>2. PairedTo(messages', Len(messages'), Lost)
      <3>1. CASE messages' = Append(messages, Ret(Len(seen))) /\ forgotten = {}
        <4>1. /\ Len(messages) > 0 /\ messages[Len(messages)] = Use(Len(seen))
              /\ PairedTo(messages, Len(messages) - 1, Lost)
          BY <1>2, <2>1, <3>1 DEF MessagesInv, Waits
        <4> QED
          BY <1>1, <3>1, <4>1, PairedResult
      <3>2. CASE messages' = messages /\ forgotten # {}
        <4>1. messages' = <<Text>> /\ Len(messages') = 1
          BY <1>2, <2>1, <3>2 DEF MessagesInv
        <4> QED
          BY <4>1, PairedOpening
      <3> QED
        BY <1>10, <3>1, <3>2, ApprovedOnce
    <2> QED
      BY <2>1, <2>2 DEF MessagesInv, Waits
  <1>11. CASE Resume
    <2>1. /\ Len(messages) > 0 /\ messages[Len(messages)] = Use(Len(seen)) /\ Len(seen) > 0
          /\ PairedTo(messages, Len(messages) - 1, {}) /\ approved = {}
      BY <1>2, <1>11 DEF Resume, MessagesInv, CallInv, Waits, Lost
    <2>2. status' = "none" /\ leg' = 2 /\ UNCHANGED seen
      BY <1>11 DEF Resume
    <2>3. PICK stored \in {messages, <<>>} :
            /\ forgotten' = IF stored = <<>> THEN 1..Len(seen) ELSE {}
            /\ \/ /\ approved' = {Len(seen)}
                  /\ pc' = "resume"
                  /\ messages' = IF stored = <<>> THEN <<Text>> ELSE stored
               \/ /\ messages' = Append(stored, Ret(Len(seen)))
                  /\ pc' = "turn"
                  /\ UNCHANGED approved
      BY <1>11 DEF Resume
    <2>4. CASE pc' = "resume" /\ stored # <<>>
      <3>1. UNCHANGED messages /\ forgotten' = {} /\ Lost' = {}
        BY <2>3, <2>4 DEF Lost
      <3> QED
        BY <2>1, <2>2, <2>4, <3>1 DEF MessagesInv, Waits
    <2>5. CASE pc' = "resume" /\ stored = <<>>
      <3>1. messages' = <<Text>> /\ forgotten' # {}
        BY <1>1, <2>1, <2>3, <2>5
      <3> QED
        BY <2>2, <2>5, <3>1 DEF MessagesInv, Waits
    <2>6. CASE pc' = "turn" /\ stored # <<>>
      <3>1. messages' = Append(messages, Ret(Len(seen))) /\ Lost' = {}
        BY <2>3, <2>6 DEF Lost
      <3>2. PairedTo(messages', Len(messages'), {})
        BY <1>1, <2>1, <3>1, PairedResult
      <3> QED
        BY <2>2, <2>6, <3>1, <3>2 DEF MessagesInv, Waits
    <2>7. CASE pc' = "turn" /\ stored = <<>>
      <3>1. messages' = <<Ret(Len(seen))>> /\ Len(messages') = 1
        BY <2>3, <2>7
      <3>2. Lost' = 1..Len(seen)
        BY <2>1, <2>2, <2>3, <2>7 DEF Lost
      <3>3. PairedTo(messages', Len(messages'), Lost')
        <4>1. Len(seen) \in Nat /\ Len(seen) \in 1..Len(seen)
          BY <1>1, <2>1
        <4>2. PairedTo(<<Ret(Len(seen))>>, 1, 1..Len(seen))
          BY <4>1, PairedOpening
        <4> QED
          BY <3>1, <3>2, <4>2
      <3> QED
        BY <2>2, <2>7, <3>3 DEF MessagesInv, Waits
    <2> QED
      BY <2>3, <2>4, <2>5, <2>6, <2>7
  <1>12. CASE FreeCorrection \/ TurnsExceeded \/ CallFails \/ DraftFatal \/ DraftConfident
              \/ ApprovedFails
    BY <1>2, <1>12 DEF FreeCorrection, TurnsExceeded, CallFails, DraftFatal, DraftConfident,
       ApprovedFails, End, MessagesInv, Waits
  <1>13. CASE CallsDone \/ ReflectOn
    BY <1>2, <1>4, <1>13 DEF CallsDone, ReflectOn, End, MessagesInv, Waits
  <1>14. CASE Stopped \/ UNCHANGED vars
    BY <1>2, <1>14 DEF Stopped, vars, MessagesInv, Waits, Lost
  <1> QED
    BY <1>5, <1>6, <1>7, <1>8, <1>9, <1>10, <1>11, <1>12, <1>13, <1>14 DEF Next, LoopStep

\* Calls that are numbered in their order.
LEMMA NumberedCalls ==
  ASSUME NEW n \in Nat, NEW S \in SUBSET (1..n)
  PROVE  /\ S \cup {n + 1} \subseteq 1..(n + 1)
         /\ n > 0 => S \cup {n} \subseteq 1..n
  OBVIOUS

\* The calls that ran are among those that were seen, and the one that waits is
\* not among them.
LEMMA LoopCalls ==
  ASSUME LoopInv, [Next]_vars PROVE CallInv' /\ GatedNeedsApproval'
  <1>0. ExecuteApproved => \/ executed' = executed \cup {Len(seen)} /\ forgotten = {}
                           \/ executed' = executed
    BY ApprovedOnce
  <1>1. seen \in Seq(CallKinds) /\ Len(seen) \in Nat /\ nextID = Len(seen) + 1
    BY DEF LoopInv, TypeOK, nextID
  <1>2. CallInv /\ GatedNeedsApproval /\ (pc = "ended" <=> status # "none")
    BY DEF LoopInv, TurnInv
  <1> USE <1>1, <1>2 DEF CallInv, GatedNeedsApproval, Waits, legVars
  <1>3. CASE CallPlain
    <2>1. /\ executed' = executed \cup {nextID} /\ seen' = Append(seen, "plain")
          /\ pc' = "calls" /\ status' = "none" /\ UNCHANGED <<leg, approved, counted, forgotten>>
      BY <1>3 DEF CallPlain
    <2>2. /\ Len(seen') = nextID /\ seen'[nextID] = "plain"
          /\ \A i \in 1..Len(seen) : seen'[i] = seen[i]
      BY <2>1 DEF CallKinds
    <2>3. executed' \subseteq 1..Len(seen')
      BY <2>1, <2>2, NumberedCalls
    <2>4. GatedNeedsApproval'
      BY <2>1, <2>2
    <2> QED
      BY <2>1, <2>3, <2>4
  <1>4. CASE CallGated
    <2>1. /\ UNCHANGED executed /\ seen' = Append(seen, "gated")
          /\ pc' = "ended" /\ UNCHANGED <<leg, approved, counted, forgotten>>
      BY <1>4 DEF CallGated, End
    <2>2. /\ Len(seen') = nextID /\ seen'[nextID] = "gated"
          /\ \A i \in 1..Len(seen) : seen'[i] = seen[i]
      BY <2>1 DEF CallKinds
    <2> QED
      BY <2>1, <2>2
  <1>5. CASE ExecuteApproved
    <2>1. /\ \/ executed' = executed \cup {Len(seen)} /\ Len(seen) > 0
             \/ executed' = executed
          /\ pc' = "turn" /\ status' = "none"
          /\ UNCHANGED <<seen, leg, approved, counted, forgotten>>
      BY <1>0, <1>5 DEF ExecuteApproved
    <2>2. approved = {Len(seen)} /\ leg = 2
      BY <1>5 DEF ExecuteApproved
    <2>3. executed' \subseteq 1..Len(seen')
      BY <2>1, <2>2, NumberedCalls
    <2>4. GatedNeedsApproval'
      BY <2>1, <2>2
    <2> QED
      BY <2>1, <2>2, <2>3, <2>4
  <1>6. CASE Resume
    <2>1. /\ leg = 1 /\ leg' = 2 /\ status = "pending_approval" /\ status' = "none"
          /\ toolCalls' = 0 /\ UNCHANGED <<seen, executed>>
          /\ \/ pc' = "turn"
             \/ pc' = "resume" /\ approved' = {Len(seen)}
      BY <1>6 DEF Resume
    <2>2. \A i \in executed : seen[i] # "gated"
      BY <2>1
    <2>3. CallInv'
      BY <2>1
    <2>4. GatedNeedsApproval'
      BY <2>1, <2>2
    <2> QED
      BY <2>3, <2>4
  <1>7. CASE UNCHANGED <<executed, seen, approved, counted, leg, forgotten>>
             /\ ~Waits' /\ pc' # "resume"
    BY <1>7
  <1>8. CASE GatewayError
    BY <1>7, <1>8 DEF GatewayError, End
  <1>9. CASE TurnCalls \/ TurnInvalid \/ TurnOutput
    BY <1>7, <1>9 DEF TurnCalls, TurnInvalid, TurnOutput, End
  <1>10. CASE FreeCorrection \/ TurnsExceeded \/ CallFails \/ CallsDone \/ DraftFatal
              \/ DraftConfident \/ ReflectOn \/ ApprovedFails
    BY <1>7, <1>10 DEF FreeCorrection, TurnsExceeded, CallFails, CallsDone, DraftFatal,
       DraftConfident, ReflectOn, ApprovedFails, End
  <1>11. CASE Stopped \/ UNCHANGED vars
    BY <1>11 DEF Stopped, vars
  <1> QED
    BY <1>3, <1>4, <1>5, <1>6, <1>8, <1>9, <1>10, <1>11 DEF Next, LoopStep


\* A call adds one to the calls that ran, to the metrics and to the results in
\* the conversation; nothing else changes any of them but the resumption, which
\* moves the count.
LEMMA LoopCounts == ASSUME LoopInv, [Next]_vars PROVE ToolCallsCounted'
  <1>1. /\ messages \in Seq(Message) /\ Len(seen) \in Nat /\ nextID = Len(seen) + 1
        /\ toolCalls \in Nat /\ counted \in Nat
    BY DEF LoopInv, TypeOK, nextID
  <1>2. CallInv /\ ToolCallsCounted
    BY DEF LoopInv
  <1>3. IsFiniteSet(executed)
    <2>1. IsFiniteSet(1..Len(seen))
      BY <1>1, FS_Interval
    <2> QED
      BY <1>2, <2>1, FS_Subset DEF CallInv
  <1>4. Cardinality(executed) \in Nat
    BY <1>3, FS_CardinalityType
  <1>5. ASSUME NEW i \in Nat, i \notin executed
        PROVE  /\ Cardinality(executed \cup {i}) = Cardinality(executed) + 1
               /\ Ret(i) \in Message /\ Use(i) \in Message
    BY <1>3, <1>5, FS_AddElement DEF Ret, Use, Message
  <1>6. ASSUME NEW n \in Seq(Message), messages' = messages \o n
        PROVE  \A i \in executed \ forgotten : Ret(i) \in ToSet(messages')
    BY <1>1, <1>2, <1>6, StaysInConversation DEF ToolCallsCounted
  <1>7. CASE CallPlain
    <2>1. /\ messages' = messages \o <<Use(nextID), Ret(nextID)>>
          /\ executed' = executed \cup {nextID} /\ toolCalls' = toolCalls + 1
          /\ UNCHANGED <<counted, forgotten>>
      BY <1>7 DEF CallPlain, legVars
    <2>2. nextID \in Nat /\ nextID \notin executed
      BY <1>1, <1>2 DEF CallInv
    <2>3. <<Use(nextID), Ret(nextID)>> \in Seq(Message)
      <3>1. Use(nextID) \in Message /\ Ret(nextID) \in Message
        BY <1>5, <2>2
      <3> QED
        BY <3>1
    <2>4. \A i \in executed \ forgotten : Ret(i) \in ToSet(messages')
      BY <1>1, <1>2, <2>1, <2>3, StaysInConversation DEF ToolCallsCounted
    <2>5. /\ Len(messages) + 2 \in DOMAIN messages'
          /\ messages'[Len(messages) + 2] = Ret(nextID)
      BY <1>1, <2>1, <2>3
    <2>6. Ret(nextID) \in ToSet(messages')
      BY <2>5 DEF ToSet
    <2>7. counted' + toolCalls' = Cardinality(executed')
      BY <1>1, <1>2, <1>4, <1>5, <2>1, <2>2 DEF ToolCallsCounted
    <2> QED
      BY <2>1, <2>4, <2>6, <2>7 DEF ToolCallsCounted
  <1>8. CASE ExecuteApproved /\ forgotten = {}
    <2>1. /\ messages' = Append(messages, Ret(Len(seen)))
          /\ executed' = executed \cup {Len(seen)} /\ toolCalls' = 1 /\ toolCalls = 0
          /\ UNCHANGED <<counted, forgotten>>
      BY <1>2, <1>8, ApprovedOnce DEF ExecuteApproved, legVars, CallInv
    <2>2. Len(seen) \in Nat /\ Len(seen) \notin executed
      BY <1>1, <1>2, <1>8 DEF CallInv, ExecuteApproved, Waits
    <2>3. <<Ret(Len(seen))>> \in Seq(Message) /\ messages' = messages \o <<Ret(Len(seen))>>
      <3>1. Ret(Len(seen)) \in Message
        BY <1>5, <2>2
      <3>2. messages \in Seq(Message)
        BY <1>1
      <3> QED
        BY <2>1, <3>1, <3>2
    <2>4. \A i \in executed \ forgotten : Ret(i) \in ToSet(messages')
      BY <1>6, <2>3
    <2>5. /\ Len(messages) + 1 \in DOMAIN messages'
          /\ messages'[Len(messages) + 1] = Ret(Len(seen))
      BY <1>1, <1>5, <2>1, <2>2
    <2>6. Ret(Len(seen)) \in ToSet(messages')
      BY <2>5 DEF ToSet
    <2>7. counted' + toolCalls' = Cardinality(executed')
      BY <1>1, <1>2, <1>4, <1>5, <2>1, <2>2 DEF ToolCallsCounted
    <2> QED
      BY <2>1, <2>4, <2>6, <2>7 DEF ToolCallsCounted
  <1>9. CASE Resume
    <2>1. /\ counted = 0 /\ counted' = toolCalls /\ toolCalls' = 0 /\ UNCHANGED executed
          /\ \/ forgotten' = 1..Len(seen)
             \/ forgotten' = {} /\ UNCHANGED messages
             \/ forgotten' = {} /\ messages' = Append(messages, Ret(Len(seen)))
          /\ forgotten = {}
      BY <1>2, <1>9 DEF Resume, CallInv
    <2>2. Ret(Len(seen)) \in Message
      BY <1>1 DEF Ret, Message
    <2>3. <<Ret(Len(seen))>> \in Seq(Message)
          /\ Append(messages, Ret(Len(seen))) = messages \o <<Ret(Len(seen))>>
      BY <1>1, <2>2
    <2>4. \A i \in executed \ forgotten' : Ret(i) \in ToSet(messages')
      <3>1. CASE forgotten' = 1..Len(seen)
        BY <1>2, <3>1 DEF CallInv
      <3>2. CASE forgotten' = {} /\ UNCHANGED messages
        BY <1>2, <2>1, <3>2 DEF ToolCallsCounted
      <3>3. CASE forgotten' = {} /\ messages' = Append(messages, Ret(Len(seen)))
        BY <1>6, <2>1, <2>3, <3>3
      <3> QED
        BY <2>1, <3>1, <3>2, <3>3
    <2>5. counted' + toolCalls' = Cardinality(executed')
      BY <1>1, <1>2, <2>1 DEF ToolCallsCounted
    <2> QED
      BY <2>1, <2>4, <2>5 DEF ToolCallsCounted
  <1>10. ASSUME NEW n \in Seq(Message), messages' = messages \o n,
                UNCHANGED <<executed, toolCalls, counted, forgotten>>
         PROVE  ToolCallsCounted'
    BY <1>2, <1>6, <1>10 DEF ToolCallsCounted
  <1>11. CASE GatewayError \/ TurnCalls \/ TurnInvalid \/ TurnOutput
    <2>1. Text \in Message
      BY DEF Text, Message
    <2>2. \E n \in Seq(Message) : Prompt = messages \o n
      <3>1. Append(messages, Text) = messages \o <<Text>> /\ <<Text>> \in Seq(Message)
        BY <1>1, <2>1
      <3>2. messages = messages \o <<>> /\ <<>> \in Seq(Message)
        BY <1>1
      <3> QED
        BY <3>1, <3>2 DEF Prompt
    <2>3. PICK n \in Seq(Message) : Prompt = messages \o n
      BY <2>2
    <2>4. /\ Prompt \o <<Text, Text>> = messages \o (n \o <<Text, Text>>)
          /\ n \o <<Text, Text>> \in Seq(Message)
      <3>1. \A u, v, w \in Seq(Message) : (u \o v) \o w = u \o (v \o w) /\ v \o w \in Seq(Message)
        OBVIOUS
      <3>2. <<Text, Text>> \in Seq(Message)
        BY <2>1
      <3>3. (messages \o n) \o <<Text, Text>> = messages \o (n \o <<Text, Text>>)
        BY <1>1, <3>1, <3>2
      <3> QED
        BY <2>3, <3>1, <3>2, <3>3
    <2>5. UNCHANGED <<executed, toolCalls, counted, forgotten>>
      BY <1>11 DEF GatewayError, TurnCalls, TurnInvalid, TurnOutput, legVars
    <2>6. messages' \in {messages, Prompt, Prompt \o <<Text, Text>>}
      BY <1>11 DEF GatewayError, TurnCalls, TurnInvalid, TurnOutput
    <2>7. CASE messages' = messages
      BY <1>2, <2>5, <2>7 DEF ToolCallsCounted
    <2>8. CASE messages' = Prompt
      BY <1>10, <2>3, <2>5, <2>8
    <2>9. CASE messages' = Prompt \o <<Text, Text>>
      BY <1>10, <2>4, <2>5, <2>9
    <2> QED
      BY <2>6, <2>7, <2>8, <2>9
  <1>12. CASE CallGated
    <2>1. /\ UNCHANGED <<executed, toolCalls, counted, forgotten>>
          /\ messages' = Append(messages, Use(nextID))
      BY <1>12 DEF CallGated, legVars
    <2>2. Use(nextID) \in Message
      BY <1>1 DEF Use, Message
    <2>3. <<Use(nextID)>> \in Seq(Message) /\ messages' = messages \o <<Use(nextID)>>
      BY <1>1, <2>1, <2>2
    <2> QED
      BY <1>10, <2>1, <2>3
  <1>13. CASE UNCHANGED <<messages, executed, toolCalls, counted, forgotten>>
    BY <1>2, <1>13 DEF ToolCallsCounted
  <1>14. CASE ExecuteApproved /\ forgotten # {}
    <2>1. UNCHANGED <<messages, executed, toolCalls, counted, forgotten>>
      BY <1>14, ApprovedOnce DEF ExecuteApproved, legVars
    <2> QED
      BY <1>13, <2>1
  <1> QED
    BY <1>7, <1>8, <1>9, <1>11, <1>12, <1>13, <1>14
       DEF Next, LoopStep, FreeCorrection, TurnsExceeded, CallFails, CallsDone, DraftFatal,
           DraftConfident, ReflectOn, ApprovedFails, Stopped, vars, legVars

\* The inductive invariant holds in every reachable state.
THEOREM LoopInvariance == Spec => []LoopInv
  <1>1. LoopInv /\ [Next]_vars => LoopInv'
    BY LoopTypes, LoopTurns, LoopMessages, LoopCalls, LoopCounts DEF LoopInv
  <1> QED
    BY <1>1, LoopInit, PTL DEF Spec

-----------------------------------------------------------------------------

\* The variables keep their types.
THEOREM LoopTypeCorrect == Spec => []TypeOK
  <1>1. LoopInv => TypeOK
    BY DEF LoopInv
  <1> QED
    BY <1>1, LoopInvariance, PTL

\* Whatever the model answers and the reviewer decides, each request of a turn
\* holds a conversation in which every use of a tool has its result and every
\* result its use, also across a resume; only a leg that was resumed with a
\* rejection, and without the messages before it, opens with a result alone.
THEOREM Conversations == Spec => []ConversationPaired
  <1>1. LoopInv => ConversationPaired
    <2> SUFFICES ASSUME LoopInv, pc = "turn", NEW k \in DOMAIN messages
                 PROVE  /\ messages[k].kind = "use" =>
                             k < Len(messages) /\ messages[k + 1] = Ret(messages[k].id)
                        /\ messages[k].kind = "result" =>
                             \/ k > 1 /\ messages[k - 1] = Use(messages[k].id)
                             \/ /\ k = 1 /\ leg = 2 /\ approved = {}
                                /\ messages[k].id \in forgotten
      BY DEF ConversationPaired
    <2>1. k \in 1..Len(messages)
      BY DEF LoopInv, TypeOK
    <2> QED
      BY <2>1 DEF LoopInv, MessagesInv, PairedTo, Lost
  <1> QED
    BY <1>1, LoopInvariance, PTL

\* A call that matches a require_approval rule gives a result only in the leg
\* that was resumed with its approval.
THEOREM GatedCallsApproved == Spec => []GatedNeedsApproval
  <1>1. LoopInv => GatedNeedsApproval
    BY DEF LoopInv
  <1> QED
    BY <1>1, LoopInvariance, PTL

\* The metrics of both legs count every call that gave a result once.
THEOREM CallsCounted == Spec => []ToolCallsCounted
  <1>1. LoopInv => ToolCallsCounted
    BY DEF LoopInv
  <1> QED
    BY <1>1, LoopInvariance, PTL

\* A leg makes max_turns calls of the model, and one or two after them.
THEOREM LegCostBounded == Spec => []CallsBounded
  <1>1. LoopInv => CallsBounded
    BY AgentLoopAssumption DEF LoopInv, TypeOK, TurnInv, CallsBounded
  <1> QED
    BY <1>1, LoopInvariance, PTL
=============================================================================

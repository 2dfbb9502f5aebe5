-------------------------- MODULE ComputationsProof --------------------------
(***************************************************************************)
(* Proofs about the sequential computations of the orchestrator, for every *)
(* input: the way of an output to the step record, the params of a         *)
(* dispatch, the layers of a graph of any size and the order of a run, and *)
(* the ops of a transform.                                                 *)
(***************************************************************************)
EXTENDS Resolution, OutputPath, Params, Transforms, InductionLemmas

-----------------------------------------------------------------------------
(* The way of an output.                                                   *)

\* A configuration that can be: only items are tolerated, and only agents
\* reflect.
PathTypes ==
  /\ step \in Config
  /\ step.kind # "item" => ~step.tolerant
  /\ step.kind = "workflow" => ~step.reflect
  /\ pc \in {"draft", "callback", "dispatch", "runner", "done"}
  /\ output \in SUBSET Fields /\ answer \in SUBSET Fields
  /\ results \in SUBSET Fields /\ downstream \in SUBSET Fields
  /\ payload \in {"ok", "skipped", "failed"}
  /\ status \in {"running", "complete", "skipped", "failed"}

\* Where the output is tells what may be in it: a draft and the output of the
\* callback are the last answer, one that was processed has no reserved field,
\* and an answer with a fatal field was refused before it reached the runner.
PathInv ==
  /\ PathTypes
  /\ pc \in {"draft", "callback"} => output = answer /\ step.kind # "workflow"
  /\ pc = "dispatch" => /\ step.kind # "workflow"
                        /\ payload # "failed" => output \cap Reserved = {}
                        /\ "fatal" \in answer => payload = "failed"
  /\ pc = "runner" /\ step.kind = "workflow" => output = answer
  /\ pc = "runner" /\ step.kind # "workflow" =>
       /\ output \cap Reserved = {}
       /\ results \cap Reserved = {}
       /\ "fatal" \in answer => /\ step.kind = "item" /\ step.tolerant
                                /\ output = {} /\ results = {}
  /\ pc # "done" => downstream = {}
  /\ results # {} => step.kind = "item" /\ pc \in {"runner", "done"}
  /\ pc = "done" => FatalNeverPasses /\ NoReservedDownstream

\* The fields an output may have are those of the configuration.
LEMMA PathInit == Init => PathInv
  BY OutputPathAssumption DEF Init, PathInv, PathTypes, Outputs, Config

\* Whatever way an output goes, it is processed before it is stored.
LEMMA PathStep == PathInv /\ [Next]_vars => PathInv'
  <1> SUFFICES ASSUME PathInv, [Next]_vars PROVE PathInv'
    OBVIOUS
  <1> USE DEF PathInv, PathTypes, FatalNeverPasses, NoReservedDownstream
  <1>1. CASE UNCHANGED vars
    BY <1>1 DEF vars
  <1>2. CASE Draft
    BY <1>2 DEF Draft, Outputs
  <1>3. CASE StepComplete
    BY <1>3 DEF StepComplete, Refused, Skips, Clean
  <1>4. CASE DispatchReturns
    BY <1>4 DEF DispatchReturns, Fail
  <1>5. CASE Judge
    BY <1>5 DEF Judge, Record, Fail, Refused, Skips, Clean
  <1> QED
    BY <1>1, <1>2, <1>3, <1>4, <1>5 DEF Next, Stored

\* What is known of an output at every place of its way.
THEOREM PathInvariance == Spec => []PathInv
  BY PathInit, PathStep, PTL DEF Spec

\* The fields, the status and the place of an output are what they can be.
THEOREM PathTypeCorrect == Spec => []TypeOK
  <1>1. PathInv => TypeOK
    BY DEF PathInv, PathTypes, TypeOK
  <1> QED
    BY <1>1, PathInvariance, PTL

\* A fatal field of the last answer fails the step, for every kind of step and
\* every set of fields: handleStepComplete refuses it, Dispatch returns the
\* error, and for a workflow step the runner judges the output itself.
THEOREM FatalFails == Spec => []FatalNeverPasses
  <1>1. PathInv => FatalNeverPasses
    BY DEF PathInv, FatalNeverPasses
  <1> QED
    BY <1>1, PathInvariance, PTL

\* What an agent says in a reserved field is stripped before stepOutputs, for
\* every set of fields: by handleStepComplete, so that neither a result marked
\* "skipped" nor an item in the results of a fanout has one, although the runner
\* stores the first as it is and does not look at the second.  Steps that are no
\* agents are not covered: nothing strips a "skipped" output of a sub-workflow.
THEOREM ReservedStripped == Spec => []NoReservedDownstream
  <1>1. PathInv => NoReservedDownstream
    BY DEF PathInv, NoReservedDownstream
  <1> QED
    BY <1>1, PathInvariance, PTL

-----------------------------------------------------------------------------
(* The params of a dispatch.                                               *)

ParamsSpec == ParamsInit /\ [][ParamsNext]_paramVars

\* What is known at each stage: after the agent params, after the message, and
\* after the server params, of what was resolved and what was let through.
AgentResolved ==
  /\ DOMAIN resolved = declared
  /\ \A n \in declared :
       /\ resolved[n] = AgentParam(n)
       /\ resolved[n] \in {"text", "env", "empty"}
       /\ secret(n) => agent.step[n] = "absent" \/ resolved[n] = "env"

MessageBuilt ==
  /\ \A n \in declared : secret(n) => n \notin message
  /\ prompt.given => message = prompt.user

ParamsInv ==
  /\ stage \in {"agent", "message", "server", "dispatched", "refused"}
  /\ agent \in Agents /\ server \in Servers /\ prompt \in Prompts
  /\ stage \in {"message", "server", "dispatched"} => AgentResolved
  /\ stage \in {"server", "dispatched"} => MessageBuilt
  /\ DispatchResolved

\* An agent param that is not refused has a value from the step, or a default.
LEMMA ParamHasValue ==
  ASSUME agent \in Agents, NEW n \in declared, ~AgentParamRefused(n)
  PROVE  /\ AgentParam(n) \in {"text", "env", "empty"}
         /\ agent.step[n] # "absent" => AgentParam(n) = agent.step[n]
         /\ secret(n) => agent.step[n] = "absent" \/ AgentParam(n) = "env"
  <1>1. agent.schema[n] \in SchemaProp /\ agent.step[n] \in Sources
    BY ParamsAssumption DEF declared
  <1>2. Default(agent.schema[n]) \in {"absent", "text", "env", "unset", "empty"}
    BY <1>1 DEF Default, SchemaProp
  <1> QED
    BY <1>1, <1>2 DEF AgentParamRefused, AgentParam, Sources

\* A dispatch starts with nothing resolved.
LEMMA ParamsStart == ParamsInit => ParamsInv
  BY DEF ParamsInit, ParamsInv, DispatchResolved

\* Each stage adds what it resolved and lets nothing through that it refuses.
LEMMA ParamsStep == ParamsInv /\ [ParamsNext]_paramVars => ParamsInv'
  <1> SUFFICES ASSUME ParamsInv, [ParamsNext]_paramVars PROVE ParamsInv'
    OBVIOUS
  <1>1. CASE UNCHANGED paramVars
    BY <1>1 DEF paramVars, ParamsInv, AgentResolved, MessageBuilt, DispatchResolved, declared,
                secret, AgentParam
  <1>2. CASE ResolveAgentParams
    <2>1. CASE \E n \in declared : AgentParamRefused(n)
      BY <1>2, <2>1 DEF ResolveAgentParams, ParamsInv, DispatchResolved
    <2>2. CASE ~\E n \in declared : AgentParamRefused(n)
      <3>1. /\ stage' = "message" /\ resolved' = [n \in declared |-> AgentParam(n)]
            /\ UNCHANGED <<agent, server, prompt>>
        BY <1>2, <2>2 DEF ResolveAgentParams
      <3>2. AgentResolved'
        BY <2>2, <3>1, ParamHasValue DEF ParamsInv, AgentResolved, declared, secret, AgentParam
      <3> QED
        BY <3>1, <3>2 DEF ParamsInv, DispatchResolved
    <2> QED
      BY <2>1, <2>2
  <1>3. CASE BuildUserMessage
    <2>1. /\ stage = "message" /\ AgentResolved
          /\ UNCHANGED <<agent, server, prompt, resolved>>
      BY <1>3 DEF BuildUserMessage, ParamsInv
    <2>2. AgentResolved'
      BY <2>1 DEF AgentResolved, declared, secret, AgentParam
    <2>3. CASE stage' = "refused"
      BY <1>3, <2>1, <2>3 DEF ParamsInv, DispatchResolved
    <2>4. CASE stage' # "refused"
      <3>1. /\ stage' = "server"
            /\ (prompt.user \cup prompt.reflect) \subseteq declared
            /\ \A n \in prompt.user, m \in declared : ~(secret(m) /\ <<n, m>> \in StartsWith)
            /\ message' = IF prompt.given THEN prompt.user ELSE {n \in declared : ~secret(n)}
        BY <1>3, <2>4 DEF BuildUserMessage
      <3>2. \A n \in declared : <<n, n>> \in StartsWith
        BY ParamsAssumption DEF ParamsInv, declared
      <3>3. MessageBuilt'
        BY <2>1, <3>1, <3>2 DEF MessageBuilt, declared, secret
      <3> QED
        BY <2>1, <2>2, <3>1, <3>3 DEF ParamsInv, DispatchResolved
    <2> QED
      BY <2>3, <2>4
  <1>4. CASE ResolveServerParams
    <2>1. /\ stage = "server" /\ AgentResolved /\ MessageBuilt
          /\ UNCHANGED <<agent, server, prompt, resolved, message>>
      BY <1>4 DEF ResolveServerParams, ParamsInv
    <2>2. AgentResolved' /\ MessageBuilt'
      BY <2>1 DEF AgentResolved, MessageBuilt, declared, secret, AgentParam
    <2>3. CASE stage' = "refused"
      BY <1>4, <2>1, <2>3 DEF ParamsInv, DispatchResolved
    <2>4. CASE stage' # "refused"
      <3>1. /\ stage' = "dispatched" /\ forwarded' = ServerParam
            /\ ~AuthRefused /\ ~ServerParamRefused
        BY <1>4, <2>4 DEF ResolveServerParams
      <3>2. /\ server.default \in {"absent", "text", "env", "unset", "empty"}
            /\ server.ref \in References /\ server.auth \in References
        BY ParamsAssumption DEF ParamsInv
      <3>3. ServerParam \in {"text", "env", "empty"}
        BY <2>1, <3>1, <3>2 DEF ServerParam, ServerParamRefused, AgentResolved, References
      <3>4. /\ server.secret /\ server.ref \in AgentNames =>
                 server.ref \in declared /\ secret(server.ref)
            /\ server.auth \in AgentNames => secret(server.auth)
        BY <3>1 DEF AuthRefused, ServerParamRefused
      <3>5. ASSUME server.secret, server.ref \in AgentNames, ServerParam = "text"
            PROVE  agent.step[server.ref] = "absent"
        BY <2>1, <3>4, <3>5 DEF ServerParam, AgentResolved
      <3>6. DispatchResolved'
        <4>1. \A n \in declared : secret(n) /\ resolved[n] = "text" => agent.step[n] = "absent"
          BY <2>1 DEF AgentResolved
        <4> QED
          BY <2>1, <3>1, <3>3, <3>4, <3>5, <4>1
             DEF DispatchResolved, AgentResolved, MessageBuilt, AgentParam, declared, secret
      <3> QED
        BY <2>1, <2>2, <3>1, <3>6 DEF ParamsInv
    <2> QED
      BY <2>3, <2>4
  <1> QED
    BY <1>1, <1>2, <1>3, <1>4 DEF ParamsNext

\* Dispatch calls the runtime only with params that are all resolved, for every
\* schema, every step and every server file: secrets stay out of the user
\* message, a secret server param that names an agent param names a secret one,
\* and the text of a step never becomes a secret.  A literal of the agent file or
\* a default may: nobody compares marks there.
THEOREM ParamsResolved == ParamsSpec => []DispatchResolved
  <1>1. ParamsInv => DispatchResolved
    BY DEF ParamsInv
  <1>2. ParamsSpec => []ParamsInv
    BY ParamsStart, ParamsStep, PTL DEF ParamsSpec
  <1> QED
    BY <1>1, <1>2, PTL

-----------------------------------------------------------------------------
(* The layers of a graph.                                                  *)

\* What a node still waits for when the names of S are placed.
Waiting(n, S) == {w \in Waits(n) : w[2] \notin S}

DagTypes ==
  /\ deps \in Lists
  /\ phase \in {"visit", "layer", "done", "cycle"}
  /\ color \in [Names -> {"white", "gray", "black"}]
  /\ stack \in Seq([node : Names, rest : SUBSET Names])
  /\ inDegree \in [Steps -> Int]
  /\ layers \in Seq(SUBSET Steps)

\* The stack is a path of gray nodes, and what a node on it has looked at is
\* black, but for the node that it calls.
StackInv ==
  /\ \A n \in Names : color[n] = "gray" <=> \E k \in DOMAIN stack : stack[k].node = n
  /\ \A j, k \in DOMAIN stack : stack[j].node = stack[k].node => j = k
  /\ \A k \in DOMAIN stack : \A m \in Depends(stack[k].node) \ stack[k].rest :
       color[m] = "black" \/ (k < Len(stack) /\ m = stack[k + 1].node)
  /\ \A k \in DOMAIN stack : stack[k].rest \subseteq Depends(stack[k].node)
  /\ \A k \in DOMAIN stack : k < Len(stack) => stack[k + 1].node \in Depends(stack[k].node)

\* What is black is left for good, and has no cycle.
BlackInv ==
  /\ \A n \in Names : color[n] = "black" => \A m \in Depends(n) : color[m] = "black"
  /\ \A S \in SUBSET Steps :
       S # {} /\ (\A n \in S : color[n] = "black") => \E n \in S : Depends(n) \cap S = {}

SearchInv == phase \in {"visit", "cycle"} => StackInv /\ BlackInv /\ layers = <<>>

\* What the first k layers of a list hold.
PlacedBy(list, k) == UNION {list[i] : i \in 1..k}

\* A node that is not placed waits for those of its dependencies that are not,
\* and did so before the last layer too.
WaitsInv ==
  \A n \in Steps :
    \/ n \in PlacedBy(layers, Len(layers)) /\ inDegree[n] = -1
    \/ /\ n \notin PlacedBy(layers, Len(layers))
       /\ inDegree[n] = Cardinality(Waiting(n, PlacedBy(layers, Len(layers))))
       /\ Len(layers) > 0 => ~(Needs(n) \subseteq PlacedBy(layers, Len(layers) - 1))

\* The layers are in the order of the dependencies: LayersRespectDepends.
OrderedInv ==
  \A i \in 1..Len(layers) : \A n \in layers[i] :
    /\ Needs(n) \subseteq PlacedBy(layers, i - 1)
    /\ i > 1 => Needs(n) \cap layers[i - 1] # {}
    /\ \A j \in 1..Len(layers) : n \in layers[j] => i = j

\* No layer is empty.
FilledInv == \A i \in 1..Len(layers) : layers[i] # {}

LayerInv ==
  /\ OrderedInv /\ FilledInv
  /\ phase \in {"layer", "done"} => Acyclic /\ WaitsInv
  /\ phase = "done" => \A n \in Steps : inDegree[n] # 0

DagInv == DagTypes /\ SearchInv /\ LayerInv /\ CycleDetected

\* The nodes of a graph are numbered, and each lists names.
LEMMA NodesNumbered ==
  ASSUME deps \in Lists
  PROVE  /\ Len(File) \in Nat /\ DOMAIN File = 1..Len(File)
         /\ \A i \in 1..Len(File) : File[i] \in Steps /\ deps[i] \subseteq Names
         /\ \A n \in Steps : \E i \in 1..Len(File) : File[i] = n
  <1>1. Len(File) \in Nat /\ DOMAIN File = 1..Len(File) /\ ToSet(File) = Steps
    BY DagAssumption
  <1>2. \A n \in Steps : \E i \in 1..Len(File) : File[i] = n
    BY <1>1 DEF ToSet
  <1>3. \A i \in 1..Len(File) : File[i] \in Steps
    BY <1>1, DagAssumption
  <1>4. \A i \in 1..Len(File) : deps[i] \subseteq Names
    BY <1>1, DagAssumption
  <1> QED
    BY <1>1, <1>2, <1>3, <1>4

\* An ID has a last node, whose list the search takes; what a node lists, its ID
\* needs.
LEMMA DependsKnown ==
  ASSUME deps \in Lists
  PROVE  /\ \A n : Depends(n) \subseteq Names
         /\ \A n : Needs(n) \subseteq Names
         /\ \A n : n \notin Steps => Depends(n) = {}
  <1>1. PICK L \in Nat : L = Len(File)
    BY NodesNumbered
  <1>2. /\ DOMAIN File = 1..L
        /\ \A i \in 1..L : File[i] \in Steps /\ deps[i] \subseteq Names
        /\ \A n \in Steps : \E i \in 1..L : File[i] = n
    BY <1>1, NodesNumbered
  <1>3. ASSUME NEW n \in Steps PROVE Depends(n) \subseteq Names
    <2>1. Entries(n) \subseteq 1..L /\ Entries(n) # {}
      BY <1>2 DEF Entries
    <2> DEFINE S == {k \in 0..L : \/ \A i \in Entries(n) : i > k
                                  \/ \E i \in Entries(n) : \A j \in Entries(n) : j <= k => j <= i}
    <2>2. 0 \in S
      BY <2>1
    <2>3. ASSUME NEW k \in 1..L, k - 1 \in S PROVE k \in S
      <3>1. CASE k \in Entries(n)
        BY <2>1, <3>1
      <3>2. CASE k \notin Entries(n)
        <4>1. \A j \in Entries(n) : (j <= k <=> j <= k - 1) /\ (j > k <=> j > k - 1)
          BY <2>1, <3>2
        <4> QED
          BY <2>3, <4>1
      <3> QED
        BY <3>1, <3>2
    <2>4. L \in S
      <3> HIDE DEF S
      <3>1. \A k \in 0..L : k \in S
        BY <2>2, <2>3, InductionUpTo
      <3> QED
        BY <3>1
    <2>5. \E i \in Entries(n) : \A j \in Entries(n) : j <= i
      BY <2>1, <2>4
    <2>6. (CHOOSE i \in Entries(n) : \A j \in Entries(n) : j <= i) \in 1..L
      BY <2>1, <2>5
    <2> QED
      BY <1>2, <2>6 DEF Depends
  <1>4. \A n : n \notin Steps => Depends(n) = {}
    BY DEF Depends
  <1>5. \A n : Needs(n) \subseteq Names
    BY <1>2 DEF Needs, Entries
  <1> QED
    BY <1>3, <1>4, <1>5

\* Without a change of the input nothing waits for anything else.
LEMMA SameGraph ==
  ASSUME UNCHANGED deps
  PROVE  /\ \A n : Depends(n)' = Depends(n) /\ Needs(n)' = Needs(n)
         /\ \A n, S : Waiting(n, S)' = Waiting(n, S)
         /\ Acyclic' <=> Acyclic
  <1>1. \A n : Depends(n)' = Depends(n) /\ Needs(n)' = Needs(n)
    BY DEF Depends, Needs, Entries
  <1>2. \A n, S : Waiting(n, S)' = Waiting(n, S)
    BY DEF Entries, Waiting, Waits
  <1>3. Acyclic' <=> Acyclic
    BY <1>1 DEF Acyclic
  <1> QED
    BY <1>1, <1>2, <1>3

Frame == [node : Names, rest : SUBSET Names]

\* What visit does to its stack: it looks at one dependency of the top, calls
\* another node, or returns.
LEMMA LookedAt ==
  ASSUME NEW s \in Seq(Frame), s # <<>>, NEW d
  PROVE  LET t == [s EXCEPT ![Len(s)].rest = @ \ {d}]
         IN /\ t \in Seq(Frame) /\ Len(t) = Len(s) /\ DOMAIN t = DOMAIN s
            /\ \A k \in DOMAIN s : t[k].node = s[k].node
            /\ \A k \in DOMAIN s : k # Len(s) => t[k].rest = s[k].rest
            /\ t[Len(s)].rest = s[Len(s)].rest \ {d}
  <1> DEFINE top == Len(s)
             g   == [s[top] EXCEPT !.rest = s[top].rest \ {d}]
  <1>1. top \in DOMAIN s /\ DOMAIN s = 1..top /\ s[top] \in Frame
    OBVIOUS
  <1>2. g \in Frame /\ g.node = s[top].node /\ g.rest = s[top].rest \ {d}
    BY <1>1 DEF Frame
  <1>3. [s EXCEPT ![top].rest = @ \ {d}] = [s EXCEPT ![top] = g]
    OBVIOUS
  <1> HIDE DEF g
  <1>4. /\ [s EXCEPT ![top] = g] \in Seq(Frame) /\ Len([s EXCEPT ![top] = g]) = top
        /\ DOMAIN [s EXCEPT ![top] = g] = DOMAIN s
        /\ \A k \in DOMAIN s : [s EXCEPT ![top] = g][k] = IF k = top THEN g ELSE s[k]
    BY <1>1, <1>2
  <1> QED
    BY <1>1, <1>2, <1>3, <1>4

\* A call puts a frame on top of the others.
LEMMA Called ==
  ASSUME NEW s \in Seq(Frame), NEW f \in Frame
  PROVE  /\ Append(s, f) \in Seq(Frame) /\ Len(Append(s, f)) = Len(s) + 1
         /\ DOMAIN Append(s, f) = DOMAIN s \cup {Len(s) + 1}
         /\ \A k \in DOMAIN s : k \in 1..Len(s) /\ Append(s, f)[k] = s[k]
         /\ Append(s, f)[Len(s) + 1] = f
  OBVIOUS

\* A return leaves the frames below the top.
LEMMA ReturnedFrom ==
  ASSUME NEW s \in Seq(Frame), s # <<>>
  PROVE  /\ Front(s) \in Seq(Frame) /\ Len(Front(s)) = Len(s) - 1
         /\ DOMAIN Front(s) = 1..(Len(s) - 1)
         /\ \A k \in 1..(Len(s) - 1) : Front(s)[k] = s[k]
         /\ Len(s) \in Nat \ {0} /\ DOMAIN s = 1..Len(s) /\ Last(s) = s[Len(s)]
         /\ s[Len(s)] \in Frame
  <1>1. Len(s) \in Nat \ {0} /\ DOMAIN s = 1..Len(s) /\ Last(s) = s[Len(s)]
    BY DEF Last
  <1>2. s[Len(s)] \in Frame
    BY <1>1
  <1>3. Front(s) = SubSeq(s, 1, Len(s) - 1)
    BY DEF Front
  <1> QED
    BY <1>1, <1>2, <1>3

\* Nothing is visited and nothing placed when the layers of a graph are asked
\* for.
LEMMA DagStart == DagInit => DagInv
  <1> SUFFICES ASSUME DagInit PROVE DagInv
    OBVIOUS
  <1>1. DagTypes
    BY DEF DagInit, DagTypes
  <1>2. StackInv
    BY DEF DagInit, StackInv
  <1>3. BlackInv
    <2>1. \A n \in Names : color[n] # "black"
      BY DEF DagInit
    <2>2. ASSUME NEW S \in SUBSET Steps, S # {}, \A n \in S : color[n] = "black"
          PROVE  FALSE
      <3>1. PICK n \in Steps : n \in S
        BY <2>2
      <3> QED
        BY <2>1, <2>2, <3>1 DEF Names
    <2> QED
      BY <2>1, <2>2 DEF BlackInv
  <1>4. SearchInv /\ LayerInv /\ CycleDetected
    BY <1>2, <1>3 DEF DagInit, SearchInv, LayerInv, OrderedInv, FilledInv, CycleDetected
  <1> QED
    BY <1>1, <1>4 DEF DagInv

\* A call starts at a node that is white, so that it is not on the stack.
LEMMA RootKeeps ==
  ASSUME DagTypes, StackInv, BlackInv, NEW n \in Steps, VisitRoot(n)
  PROVE  StackInv' /\ BlackInv' /\ stack' \in Seq(Frame)
  <1>1. /\ stack = <<>> /\ color[n] = "white" /\ color' = [color EXCEPT ![n] = "gray"]
        /\ UNCHANGED deps /\ n \in Names /\ stack' = <<Call(n)>>
    BY DEF VisitRoot, Names
  <1>2. Depends(n) \subseteq Names /\ \A m : Depends(m)' = Depends(m)
    BY <1>1, DependsKnown, SameGraph DEF DagTypes
  <1>3. Call(n) \in Frame /\ Call(n).node = n /\ Call(n).rest = Depends(n)
    BY <1>1, <1>2 DEF Call, Frame
  <1>4. DOMAIN stack' = {1} /\ Len(stack') = 1 /\ stack'[1] = Call(n) /\ stack' \in Seq(Frame)
    BY <1>1, <1>3
  <1>5. StackInv'
    BY <1>1, <1>2, <1>3, <1>4 DEF StackInv, DagTypes
  <1>6. BlackInv'
    <2>1. \A m \in Names : color'[m] = "black" <=> color[m] = "black"
      BY <1>1 DEF DagTypes
    <2>2. \A m \in Steps : m \in Names
      BY DEF Names
    <2>3. \A m : Depends(m) \subseteq Names
      BY DependsKnown DEF DagTypes
    <2>4. \A m \in Names : color'[m] = "black" => \A e \in Depends(m)' : color'[e] = "black"
      BY <1>2, <2>1, <2>3 DEF BlackInv
    <2>5. \A S \in SUBSET Steps :
            S # {} /\ (\A m \in S : color'[m] = "black") => \E m \in S : Depends(m)' \cap S = {}
      BY <1>2, <2>1, <2>2 DEF BlackInv
    <2> QED
      BY <2>4, <2>5 DEF BlackInv
  <1> QED
    BY <1>4, <1>5, <1>6

\* A dependency that is black is passed over; one that is white is called.
LEMMA DepKeeps ==
  ASSUME DagTypes, StackInv, BlackInv, NEW d \in Names, VisitDep(d), color[d] # "gray"
  PROVE  StackInv' /\ BlackInv' /\ stack' \in Seq(Frame)
  <1> DEFINE top == Len(stack)
             seen == [stack EXCEPT ![top].rest = @ \ {d}]
  <1>1. /\ stack \in Seq(Frame) /\ stack # <<>> /\ UNCHANGED deps
        /\ d \in stack[top].rest /\ top \in DOMAIN stack /\ top \in Nat /\ DOMAIN stack = 1..top
    BY DEF VisitDep, Last, DagTypes, Frame
  <1>2. /\ seen \in Seq(Frame) /\ Len(seen) = top /\ DOMAIN seen = DOMAIN stack
        /\ \A k \in DOMAIN stack : seen[k].node = stack[k].node
        /\ \A k \in DOMAIN stack : k # top => seen[k].rest = stack[k].rest
        /\ seen[top].rest = stack[top].rest \ {d}
    BY <1>1, LookedAt
  <1> HIDE DEF seen
  <1>3. \A m : Depends(m)' = Depends(m)
    BY <1>1, SameGraph
  <1>4. CASE color[d] = "black"
    <2>1. stack' = seen /\ UNCHANGED color
      BY <1>4 DEF VisitDep, seen
    <2>2. StackInv'
      <3>1. /\ DOMAIN stack' = DOMAIN stack /\ Len(stack') = Len(stack)
            /\ \A k \in DOMAIN stack : stack'[k].node = stack[k].node
            /\ \A k \in DOMAIN stack : k # top => stack'[k].rest = stack[k].rest
            /\ stack'[top].rest = stack[top].rest \ {d}
        BY <1>1, <1>2, <2>1
      <3>2. \A n \in Names : color'[n] = "gray" <=> \E k \in DOMAIN stack' : stack'[k].node = n
        BY <2>1, <3>1 DEF StackInv
      <3>3. \A j, k \in DOMAIN stack' : stack'[j].node = stack'[k].node => j = k
        BY <3>1 DEF StackInv
      <3>4. ASSUME NEW k \in DOMAIN stack', NEW m \in Depends(stack'[k].node) \ stack'[k].rest
            PROVE  color'[m] = "black" \/ (k < Len(stack') /\ m = stack'[k + 1].node)
        <4>1. k \in DOMAIN stack /\ (m = d \/ m \in Depends(stack[k].node) \ stack[k].rest)
          BY <3>1, <3>4
        <4>2. CASE m = d
          BY <1>4, <2>1, <4>2
        <4>3. CASE m \in Depends(stack[k].node) \ stack[k].rest
          <5>1. color[m] = "black" \/ (k < Len(stack) /\ m = stack[k + 1].node)
            BY <4>1, <4>3 DEF StackInv
          <5>2. k < Len(stack) => k + 1 \in DOMAIN stack
            BY <1>1, <4>1
          <5> QED
            BY <2>1, <3>1, <5>1, <5>2
        <4> QED
          BY <4>1, <4>2, <4>3
      <3>5. \A k \in DOMAIN stack' : stack'[k].rest \subseteq Depends(stack'[k].node)
        BY <3>1 DEF StackInv
      <3>6. ASSUME NEW k \in DOMAIN stack', k < Len(stack')
            PROVE  stack'[k + 1].node \in Depends(stack'[k].node)
        <4>1. k \in DOMAIN stack /\ k < Len(stack) /\ k + 1 \in DOMAIN stack
          BY <1>1, <3>1, <3>6
        <4> QED
          BY <3>1, <4>1 DEF StackInv
      <3> QED
        BY <1>3, <3>2, <3>3, <3>4, <3>5, <3>6 DEF StackInv
    <2>3. BlackInv'
      BY <1>1, <1>3, <2>1 DEF BlackInv
    <2> QED
      BY <1>2, <2>1, <2>2, <2>3
  <1>5. CASE color[d] = "white"
    <2>1. color' = [color EXCEPT ![d] = "gray"] /\ stack' = Append(seen, Call(d))
      BY <1>5 DEF VisitDep, seen
    <2>2. Call(d) \in Frame /\ Call(d).node = d /\ Call(d).rest = Depends(d)
      BY DependsKnown DEF Call, Frame, DagTypes
    <2>3. /\ stack' \in Seq(Frame) /\ Len(stack') = top + 1
          /\ DOMAIN stack' = DOMAIN stack \cup {top + 1}
          /\ \A k \in DOMAIN stack : k \in 1..top /\ stack'[k] = seen[k]
          /\ stack'[top + 1] = Call(d)
      BY <1>2, <2>1, <2>2, Called
    <2>4. \A k \in DOMAIN stack : stack[k].node # d
      BY <1>5 DEF StackInv
    <2>5. \A n \in Names : color'[n] = "gray" <=> \E k \in DOMAIN stack' : stack'[k].node = n
      <3> SUFFICES ASSUME NEW n \in Names
                   PROVE  color'[n] = "gray" <=> \E k \in DOMAIN stack' : stack'[k].node = n
        OBVIOUS
      <3>1. CASE n = d
        BY <2>1, <2>2, <2>3, <3>1 DEF DagTypes
      <3>2. CASE n # d
        <4>1. color'[n] = color[n]
          BY <2>1, <3>2 DEF DagTypes
        <4>2. \A k \in DOMAIN stack : stack'[k].node = stack[k].node
          BY <1>2, <2>3
        <4>3. color[n] = "gray" <=> \E k \in DOMAIN stack : stack[k].node = n
          BY DEF StackInv
        <4> QED
          BY <2>2, <2>3, <3>2, <4>1, <4>2, <4>3
      <3> QED
        BY <3>1, <3>2
    <2>6. \A j, k \in DOMAIN stack' : stack'[j].node = stack'[k].node => j = k
      BY <1>1, <1>2, <2>2, <2>3, <2>4 DEF StackInv
    <2>7. \A k \in DOMAIN stack' : \A m \in Depends(stack'[k].node) \ stack'[k].rest :
            color'[m] = "black" \/ (k < Len(stack') /\ m = stack'[k + 1].node)
      <3>1. \A m \in Names : color[m] = "black" => color'[m] = "black"
        BY <1>5, <2>1 DEF DagTypes
      <3>2. \A m : Depends(m) \subseteq Names
        BY DependsKnown DEF DagTypes
      <3>3. ASSUME NEW k \in DOMAIN stack, k # top,
                   NEW m \in Depends(stack'[k].node) \ stack'[k].rest
            PROVE  color'[m] = "black" \/ (k < Len(stack') /\ m = stack'[k + 1].node)
        <4>1. m \in Depends(stack[k].node) \ stack[k].rest /\ k + 1 \in DOMAIN stack
          BY <1>1, <1>2, <2>3, <3>3
        <4> QED
          BY <1>1, <1>2, <2>3, <3>1, <3>2, <3>3, <4>1 DEF StackInv
      <3>4. ASSUME NEW m \in Depends(stack'[top].node) \ stack'[top].rest
            PROVE  color'[m] = "black" \/ (top < Len(stack') /\ m = stack'[top + 1].node)
        <4>1. m = d \/ m \in Depends(stack[top].node) \ stack[top].rest
          BY <1>1, <1>2, <2>3, <3>4
        <4> QED
          BY <1>1, <2>2, <2>3, <3>1, <3>2, <4>1 DEF StackInv
      <3> QED
        BY <1>1, <2>2, <2>3, <3>3, <3>4
    <2>8. \A k \in DOMAIN stack' : stack'[k].rest \subseteq Depends(stack'[k].node)
      BY <1>1, <1>2, <2>2, <2>3 DEF StackInv
    <2>9. \A k \in DOMAIN stack' : k < Len(stack') => stack'[k + 1].node \in Depends(stack'[k].node)
      <3>1. d \in Depends(stack[top].node)
        BY <1>1 DEF StackInv
      <3> QED
        BY <1>1, <1>2, <2>2, <2>3, <3>1 DEF StackInv
    <2>10. StackInv'
      BY <1>3, <2>5, <2>6, <2>7, <2>8, <2>9 DEF StackInv
    <2>11. BlackInv'
      BY <1>1, <1>3, <1>5, <2>1, DependsKnown DEF BlackInv, DagTypes, Names
    <2> QED
      BY <2>3, <2>10, <2>11
  <1> QED
    BY <1>4, <1>5 DEF DagTypes

\* A node that is left has looked at all it depends on: all of it is black.
LEMMA LeaveKeeps ==
  ASSUME DagTypes, StackInv, BlackInv, Leave
  PROVE  StackInv' /\ BlackInv' /\ stack' \in Seq(Frame)
  <1> DEFINE top == Len(stack)
             n   == stack[top].node
  <1>1. /\ stack \in Seq(Frame) /\ stack # <<>> /\ UNCHANGED deps
        /\ top = Len(stack) /\ top \in Nat \ {0} /\ DOMAIN stack = 1..top
        /\ Last(stack) = stack[top]
        /\ stack[top] \in Frame
    BY ReturnedFrom DEF Leave, DagTypes, Frame
  <1>2. /\ stack' \in Seq(Frame) /\ Len(stack') = top - 1 /\ DOMAIN stack' = 1..(top - 1)
        /\ \A k \in 1..(top - 1) : stack'[k] = stack[k]
    <2>1. stack' = Front(stack)
      BY DEF Leave
    <2> QED
      BY <1>1, <2>1, ReturnedFrom
  <1> HIDE DEF top
  <1>3. /\ n \in Names /\ color' = [color EXCEPT ![n] = "black"] /\ stack[top].rest = {}
        /\ \A m : Depends(m)' = Depends(m)
    BY <1>1, SameGraph DEF Leave, Frame
  <1>4. /\ top \in DOMAIN stack /\ color[n] = "gray"
        /\ \A m \in Depends(n) : color[m] = "black"
    BY <1>1, <1>3 DEF StackInv
  <1>5. \A m \in Names : color'[m] = IF m = n THEN "black" ELSE color[m]
    BY <1>3 DEF DagTypes
  <1>6. \A m : Depends(m) \subseteq Names
    BY DependsKnown DEF DagTypes
  <1>7. StackInv'
    <2>7. /\ \A j, k \in 1..top : stack[j].node = stack[k].node => j = k
          /\ \A k \in 1..top : k < top => stack[k + 1].node \in Depends(stack[k].node)
      BY <1>1 DEF StackInv
    <2>1. \A j \in 1..(top - 1) : j \in DOMAIN stack /\ j # top /\ stack[j].node # n
      <3>1. \A j \in 1..(top - 1) : j \in 1..top /\ j # top /\ top \in 1..top
        BY <1>1
      <3> QED
        BY <1>1, <2>7, <3>1
    <2>2. ASSUME NEW m \in Names
          PROVE  color'[m] = "gray" <=> \E k \in DOMAIN stack' : stack'[k].node = m
      <3>1. CASE m = n
        BY <1>2, <1>5, <2>1, <3>1
      <3>2. CASE m # n
        <4>1. color[m] = "gray" <=> \E k \in DOMAIN stack : stack[k].node = m
          BY DEF StackInv
        <4> QED
          BY <1>1, <1>2, <1>5, <3>2, <4>1
      <3> QED
        BY <3>1, <3>2
    <2>3. \A j, k \in DOMAIN stack' : stack'[j].node = stack'[k].node => j = k
      BY <1>1, <1>2, <2>7
    <2>4. ASSUME NEW k \in DOMAIN stack', NEW m \in Depends(stack'[k].node) \ stack'[k].rest
          PROVE  color'[m] = "black" \/ (k < Len(stack') /\ m = stack'[k + 1].node)
      <3>5. k \in DOMAIN stack /\ stack'[k] = stack[k] /\ k \in 1..(top - 1)
        BY <1>2, <2>1
      <3>6. m \in Depends(stack[k].node) \ stack[k].rest
        BY <3>5
      <3>1. color[m] = "black" \/ (k < top /\ m = stack[k + 1].node)
        BY <1>1, <3>5, <3>6 DEF StackInv
      <3>2. CASE color[m] = "black"
        BY <1>5, <1>6, <3>2
      <3>3. CASE k + 1 = top /\ m = n
        BY <1>3, <1>5, <3>3
      <3>4. CASE k + 1 # top /\ m = stack[k + 1].node
        BY <1>1, <1>2, <3>4
      <3> QED
        BY <3>1, <3>2, <3>3, <3>4
    <2>5. \A k \in DOMAIN stack' : stack'[k].rest \subseteq Depends(stack'[k].node)
      BY <1>2, <2>1 DEF StackInv
    <2>6. ASSUME NEW k \in DOMAIN stack', k < Len(stack')
          PROVE  stack'[k + 1].node \in Depends(stack'[k].node)
      <3>1. k \in DOMAIN stack /\ k + 1 \in DOMAIN stack' /\ k < Len(stack)
        BY <1>1, <1>2, <2>6
      <3>2. stack'[k] = stack[k] /\ stack'[k + 1] = stack[k + 1]
        BY <1>2, <3>1
      <3>3. stack[k + 1].node \in Depends(stack[k].node)
        BY <3>1 DEF StackInv
      <3> QED
        BY <3>2, <3>3
    <2> QED
      BY <1>3, <2>2, <2>3, <2>4, <2>5, <2>6 DEF StackInv
  <1>8. BlackInv'
    <2>1. ASSUME NEW m \in Names, color'[m] = "black"
          PROVE  \A d \in Depends(m)' : color'[d] = "black"
      BY <1>3, <1>4, <1>5, <1>6, <2>1 DEF BlackInv
    <2>2. ASSUME NEW S \in SUBSET Steps, S # {}, \A m \in S : color'[m] = "black"
          PROVE  \E m \in S : Depends(m)' \cap S = {}
      <3>1. \A m \in S : m \in Names /\ Depends(m)' = Depends(m) /\ (m # n => color[m] = "black")
        BY <1>3, <1>5, <2>2 DEF Names
      <3>2. CASE S = {n}
        <4>1. n \notin Depends(n)
          BY <1>4
        <4> QED
          BY <1>1, <3>1, <3>2, <4>1
      <3>3. CASE S # {n}
        <4>4. PICK e \in S : e # n
          BY <2>2, <3>3
        <4>1. S \ {n} \in SUBSET Steps /\ S \ {n} # {}
          BY <2>2, <4>4
        <4>2. PICK m \in S \ {n} : Depends(m) \cap (S \ {n}) = {}
          BY <3>1, <4>1 DEF BlackInv
        <4>3. n \notin Depends(m)
          BY <1>4, <3>1, <4>2 DEF BlackInv
        <4> QED
          BY <1>3, <4>2, <4>3
      <3> QED
        BY <3>2, <3>3
    <2> QED
      BY <2>1, <2>2 DEF BlackInv
  <1> QED
    BY <1>2, <1>7, <1>8

\* A dependency that is gray closes a cycle: the nodes from it to the top.
LEMMA GrayIsCycle ==
  ASSUME DagTypes, StackInv, stack # <<>>, NEW d \in Names, d \in Last(stack).rest,
         color[d] = "gray"
  PROVE  ~Acyclic
  <1> DEFINE top == Len(stack)
  <1>1. /\ stack \in Seq(Frame) /\ top \in Nat \ {0} /\ DOMAIN stack = 1..top
        /\ d \in stack[top].rest
    BY ReturnedFrom DEF DagTypes, Frame
  <1>2. PICK j \in DOMAIN stack : stack[j].node = d
    BY DEF StackInv
  <1> DEFINE S == {stack[k].node : k \in j..top}
  <1>3. ASSUME NEW k \in j..top
        PROVE  stack[k].node \in Steps /\ Depends(stack[k].node) \cap S # {}
    <2>1. k \in DOMAIN stack
      BY <1>1, <1>3
    <2>2. CASE k = top
      <3>1. d \in Depends(stack[k].node) /\ d \in S
        BY <1>1, <1>2, <2>1, <2>2 DEF StackInv
      <3> QED
        BY <3>1, DependsKnown DEF DagTypes
    <2>3. CASE k # top
      <3>1. stack[k + 1].node \in Depends(stack[k].node) /\ stack[k + 1].node \in S
        BY <1>1, <2>1, <2>3 DEF StackInv
      <3> QED
        BY <3>1, DependsKnown DEF DagTypes
    <2> QED
      BY <2>2, <2>3
  <1>4. S \in (SUBSET Steps) \ {{}}
    <2>1. d \in S
      BY <1>1, <1>2
    <2>2. \A n \in S : n \in Steps
      BY <1>3
    <2> HIDE DEF S
    <2>3. S \subseteq Steps
      BY <2>2
    <2>4. S # {}
      BY <2>1
    <2> QED
      BY <2>3, <2>4
  <1>5. \A n \in S : Depends(n) \cap S # {}
    BY <1>3
  <1> HIDE DEF S
  <1> QED
    BY <1>4, <1>5 DEF Acyclic

\* detectCycle keeps its path gray and what it left black, and reports a cycle
\* only when it found one.
LEMMA SearchStep ==
  ASSUME DagTypes, StackInv, BlackInv, phase = "visit", layers = <<>>,
         \/ \E n \in Steps : VisitRoot(n)
         \/ \E d \in Names : VisitDep(d)
         \/ Leave
  PROVE  DagInv'
  <1>1. UNCHANGED <<deps, inDegree, layers>> /\ phase' \in {"visit", "cycle"}
    BY DEF VisitRoot, VisitDep, Leave
  <1>2. color' \in [Names -> {"white", "gray", "black"}]
    <2>1. CASE Leave
      <3>1. stack \in Seq(Frame) /\ stack # <<>>
        BY <2>1 DEF Leave, DagTypes, Frame
      <3>2. Last(stack).node \in Names
        BY <3>1, ReturnedFrom DEF Frame
      <3> QED
        BY <2>1, <3>2 DEF Leave, DagTypes
    <2>2. CASE \E n \in Steps : VisitRoot(n)
      BY <2>2 DEF VisitRoot, DagTypes
    <2>3. CASE \E d \in Names : VisitDep(d)
      BY <2>3 DEF VisitDep, DagTypes
    <2> QED
      BY <2>1, <2>2, <2>3
  <1>3. StackInv' /\ BlackInv' /\ stack' \in Seq(Frame) /\ (phase' = "cycle" => ~Acyclic')
    <2>1. CASE \E n \in Steps : VisitRoot(n)
      BY <2>1, RootKeeps DEF VisitRoot
    <2>2. CASE Leave
      BY <2>2, LeaveKeeps DEF Leave
    <2>3. ASSUME NEW d \in Names, VisitDep(d), color[d] # "gray"
          PROVE  StackInv' /\ BlackInv' /\ stack' \in Seq(Frame) /\ phase' = "visit"
      BY <2>3, DepKeeps DEF VisitDep
    <2>4. ASSUME NEW d \in Names, VisitDep(d), color[d] = "gray"
          PROVE  StackInv' /\ BlackInv' /\ stack' \in Seq(Frame) /\ ~Acyclic'
      <3>1. UNCHANGED <<stack, color, deps>> /\ stack # <<>> /\ d \in Last(stack).rest
        BY <2>4 DEF VisitDep
      <3>2. ~Acyclic
        BY <2>4, <3>1, GrayIsCycle
      <3>3. StackInv'
        BY <3>1, SameGraph DEF StackInv
      <3>4. BlackInv'
        BY <3>1, SameGraph DEF BlackInv
      <3> QED
        BY <3>1, <3>2, <3>3, <3>4, SameGraph DEF DagTypes, Frame
    <2> QED
      BY <2>1, <2>2, <2>3, <2>4
  <1>4. DagTypes'
    BY <1>1, <1>2, <1>3 DEF DagTypes, Frame
  <1>5. LayerInv' /\ CycleDetected'
    BY <1>1, <1>3 DEF LayerInv, OrderedInv, FilledInv, CycleDetected
  <1> QED
    BY <1>1, <1>3, <1>4, <1>5 DEF DagInv, SearchInv

\* Appending a layer adds it to what is placed and changes nothing before.
LEMMA PlacedMore ==
  ASSUME NEW list \in Seq(SUBSET Steps), NEW layer \in SUBSET Steps
  PROVE  LET longer == Append(list, layer)
         IN /\ Len(longer) = Len(list) + 1 /\ longer \in Seq(SUBSET Steps)
            /\ longer[Len(list) + 1] = layer
            /\ \A k \in 1..Len(list) : longer[k] = list[k]
            /\ \A k \in 0..Len(list) : PlacedBy(longer, k) = PlacedBy(list, k)
            /\ PlacedBy(longer, Len(list) + 1) = PlacedBy(list, Len(list)) \cup layer
  <1> DEFINE longer == Append(list, layer)
  <1>1. /\ Len(longer) = Len(list) + 1 /\ longer \in Seq(SUBSET Steps)
        /\ longer[Len(list) + 1] = layer
        /\ \A k \in 1..Len(list) : longer[k] = list[k]
        /\ Len(list) \in Nat
    OBVIOUS
  <1> HIDE DEF longer
  <1>2. \A k \in 0..Len(list) : PlacedBy(longer, k) = PlacedBy(list, k)
    BY <1>1 DEF PlacedBy
  <1>3. PlacedBy(longer, Len(list) + 1) = PlacedBy(list, Len(list)) \cup layer
    <2>1. \A n : n \in PlacedBy(longer, Len(list) + 1)
                  <=> \E k \in 1..(Len(list) + 1) : n \in longer[k]
      BY DEF PlacedBy
    <2>2. \A n : n \in PlacedBy(list, Len(list)) <=> \E k \in 1..Len(list) : n \in list[k]
      BY DEF PlacedBy
    <2> QED
      BY <1>1, <2>1, <2>2
  <1> QED
    BY <1>1, <1>2, <1>3 DEF longer

\* A node is placed when it stands in a layer, and stays placed.
LEMMA InLayer ==
  ASSUME NEW list, NEW k \in Nat
  PROVE  /\ \A n : n \in PlacedBy(list, k) <=> \E i \in 1..k : n \in list[i]
         /\ \A j \in 0..k : PlacedBy(list, j) \subseteq PlacedBy(list, k)
  BY DEF PlacedBy

\* What a node waits for is finite, so that its in-degree counts it; placing the
\* names of a set takes away what is taken.
LEMMA FewWaits ==
  ASSUME deps \in Lists, NEW n \in Steps
  PROVE  /\ Cardinality(Waits(n)) \in Nat
         /\ \A S : /\ Cardinality(Waiting(n, S)) \in Nat
                   /\ Cardinality(Waiting(n, S)) <= Len(File) * Cardinality(Names)
                   /\ Cardinality(Waiting(n, S)) = 0 <=> Needs(n) \subseteq S
         /\ \A S, T : S \cap T = {} =>
              Cardinality(Waiting(n, S \cup T))
                = Cardinality(Waiting(n, S)) - Cardinality(Taken(n, T))
         /\ \A T : Cardinality(Taken(n, T)) \in Nat
         /\ \A T : Cardinality(Taken(n, T)) = 0 <=> Needs(n) \cap T = {}
         /\ Waiting(n, {}) = Waits(n)
  <1>1. IsFiniteSet(Names)
    BY DagAssumption, FS_Union DEF Names
  <1>2. IsFiniteSet(1..Len(File)) /\ Cardinality(1..Len(File)) = Len(File)
    <2>1. PICK L \in Nat : L = Len(File)
      BY NodesNumbered
    <2>2. IsFiniteSet(1..L) /\ Cardinality(1..L) = IF 1 > L THEN 0 ELSE L - 1 + 1
      BY FS_Interval
    <2> QED
      BY <2>1, <2>2
  <1>3. Waits(n) \in SUBSET ((DOMAIN File) \X Names)
    BY DEF Waits
  <1>4. /\ IsFiniteSet((DOMAIN File) \X Names)
        /\ Cardinality((DOMAIN File) \X Names) = Len(File) * Cardinality(Names)
    <2>1. DOMAIN File = 1..Len(File)
      BY NodesNumbered
    <2>2. /\ IsFiniteSet((1..Len(File)) \X Names)
          /\ Cardinality((1..Len(File)) \X Names) = Cardinality(1..Len(File)) * Cardinality(Names)
      BY <1>1, <1>2, FS_Product
    <2> QED
      BY <1>2, <2>1, <2>2
  <1>5. IsFiniteSet(Waits(n)) /\ Cardinality(Waits(n)) \in Nat
    BY <1>3, <1>4, FS_Subset, FS_CardinalityType
  <1>6. \A d : d \in Needs(n) <=> \E i \in DOMAIN File : <<i, d>> \in Waits(n)
    <2>1. \A i \in DOMAIN File : deps[i] \subseteq Names
      BY NodesNumbered
    <2> QED
      BY <2>1 DEF Needs, Waits, Entries
  <1>7. \A w \in Waits(n) : \E i \in DOMAIN File, d \in Names : w = <<i, d>> /\ w[2] = d
    BY <1>3
  <1>8. ASSUME NEW S
        PROVE  /\ Cardinality(Waiting(n, S)) \in Nat
               /\ Cardinality(Waiting(n, S)) <= Len(File) * Cardinality(Names)
               /\ Cardinality(Waiting(n, S)) = 0 <=> Needs(n) \subseteq S
               /\ IsFiniteSet(Waiting(n, S))
    <2>1. Waiting(n, S) \in SUBSET ((DOMAIN File) \X Names)
      BY <1>3 DEF Waiting
    <2>2. IsFiniteSet(Waiting(n, S))
      BY <1>4, <2>1, FS_Subset
    <2>3. Cardinality(Waiting(n, S)) <= Cardinality((DOMAIN File) \X Names)
      BY <1>4, <2>1, FS_Subset
    <2>4. Waiting(n, S) = {} <=> Needs(n) \subseteq S
      <3>1. ASSUME Waiting(n, S) = {}, NEW d \in Needs(n) PROVE d \in S
        <4>1. PICK i \in DOMAIN File : <<i, d>> \in Waits(n)
          BY <1>6
        <4> QED
          BY <3>1, <4>1 DEF Waiting
      <3>2. ASSUME Needs(n) \subseteq S, NEW w \in Waiting(n, S) PROVE FALSE
        <4>1. PICK i \in DOMAIN File, d \in Names : w = <<i, d>> /\ w \in Waits(n) /\ w[2] \notin S
          BY <1>7 DEF Waiting
        <4> QED
          BY <1>6, <3>2, <4>1
      <3> QED
        BY <3>1, <3>2
    <2> QED
      BY <1>4, <2>2, <2>3, <2>4, FS_CardinalityType, FS_EmptySet
  <1>9. ASSUME NEW T
        PROVE  /\ Cardinality(Taken(n, T)) \in Nat
               /\ Cardinality(Taken(n, T)) = 0 <=> Needs(n) \cap T = {}
    <2>1. Taken(n, T) \in SUBSET Waits(n)
      BY DEF Taken
    <2>2. IsFiniteSet(Taken(n, T))
      BY <1>5, <2>1, FS_Subset
    <2>3. Taken(n, T) = {} <=> Needs(n) \cap T = {}
      <3>1. ASSUME Taken(n, T) = {}, NEW d \in Needs(n), d \in T PROVE FALSE
        <4>1. PICK i \in DOMAIN File : <<i, d>> \in Waits(n)
          BY <1>6
        <4> QED
          BY <3>1, <4>1 DEF Taken
      <3>2. ASSUME Needs(n) \cap T = {}, NEW w \in Taken(n, T) PROVE FALSE
        <4>1. PICK i \in DOMAIN File, d \in Names : w = <<i, d>> /\ w \in Waits(n) /\ w[2] \in T
          BY <1>7 DEF Taken
        <4> QED
          BY <1>6, <3>2, <4>1
      <3> QED
        BY <3>1, <3>2
    <2> QED
      BY <2>2, <2>3, FS_CardinalityType, FS_EmptySet
  <1>10. ASSUME NEW S, NEW T, S \cap T = {}
         PROVE  Cardinality(Waiting(n, S \cup T))
                  = Cardinality(Waiting(n, S)) - Cardinality(Taken(n, T))
    <2>1. Waiting(n, S \cup T) = Waiting(n, S) \ Taken(n, T)
      BY DEF Waiting, Taken
    <2>2. Waiting(n, S) \cap Taken(n, T) = Taken(n, T)
      BY <1>10 DEF Waiting, Taken
    <2>3. Cardinality(Waiting(n, S) \ Taken(n, T))
            = Cardinality(Waiting(n, S)) - Cardinality(Waiting(n, S) \cap Taken(n, T))
      BY <1>8, FS_Difference
    <2> QED
      BY <2>1, <2>2, <2>3
  <1>11. Waiting(n, {}) = Waits(n)
    BY DEF Waiting
  <1> QED
    BY <1>5, <1>8, <1>9, <1>10, <1>11

\* When every node is black the graph has no cycle, and the in-degree of a node
\* is the number of all it depends on.
LEMMA LayersStart ==
  ASSUME DagTypes, StackInv, BlackInv, layers = <<>>, StartLayers
  PROVE  DagInv'
  <1>1. /\ phase' = "layer" /\ UNCHANGED <<deps, color, stack, layers>>
        /\ \A n \in Steps : color[n] = "black"
        /\ inDegree' = [n \in Steps |-> Cardinality(Waits(n))]
    BY DEF StartLayers
  <1>2. Acyclic
    BY <1>1 DEF BlackInv, Acyclic
  <1>3. \A n \in Steps : Cardinality(Waits(n)) \in Nat /\ Waits(n) = Waiting(n, {})
    BY FewWaits DEF DagTypes
  <1>4. DagTypes'
    BY <1>1, <1>3 DEF DagTypes
  <1>5. Len(layers) = 0 /\ PlacedBy(layers, 0) = {}
    BY DEF PlacedBy
  <1>6. LayerInv'
    <2>1. \A n \in Steps : inDegree'[n] = Cardinality(Waiting(n, {})')
      BY <1>1, <1>3, SameGraph
    <2>2. Acyclic'
      BY <1>1, <1>2, SameGraph
    <2>3. WaitsInv'
      <3>1. Len(layers') = 0 /\ PlacedBy(layers', Len(layers')) = {}
        BY <1>1, <1>5
      <3>2. ~(Len(layers') > 0)
        BY <3>1
      <3> QED
        BY <2>1, <3>1, <3>2 DEF WaitsInv
    <2>4. OrderedInv' /\ FilledInv'
      BY <1>1, <1>5 DEF OrderedInv, FilledInv
    <2> QED
      BY <1>1, <2>2, <2>3, <2>4 DEF LayerInv
  <1>7. CycleDetected' /\ SearchInv'
    BY <1>1, <1>2, SameGraph DEF CycleDetected, SearchInv
  <1> QED
    BY <1>4, <1>6, <1>7 DEF DagInv

\* A turn of the loop places the nodes that wait for nothing.
LEMMA LayerPlaced ==
  ASSUME DagInv, PlaceLayer, {n \in Steps : inDegree[n] = 0} # {}
  PROVE  DagInv'
  <1>1. PICK layer \in SUBSET Steps : layer = {n \in Steps : inDegree[n] = 0}
    OBVIOUS
  <1>2. /\ phase = "layer" /\ phase' = "layer" /\ UNCHANGED <<deps, color, stack>>
        /\ layers' = Append(layers, layer)
        /\ inDegree' = [n \in Steps |-> IF n \in layer THEN -1
                          ELSE inDegree[n] - Cardinality(Taken(n, layer))]
    BY <1>1 DEF PlaceLayer
  <1>3. /\ DagTypes /\ OrderedInv /\ FilledInv /\ WaitsInv /\ CycleDetected /\ Acyclic
        /\ layers \in Seq(SUBSET Steps) /\ deps \in Lists
    BY <1>2 DEF DagInv, LayerInv, DagTypes
  <1>4. PICK L \in Nat : L = Len(layers)
    BY <1>3
  <1>5. /\ Len(layers') = L + 1 /\ layers' \in Seq(SUBSET Steps) /\ layers'[L + 1] = layer
        /\ \A k \in 1..L : layers'[k] = layers[k]
        /\ \A k \in 0..L : PlacedBy(layers', k) = PlacedBy(layers, k)
        /\ PlacedBy(layers', L + 1) = PlacedBy(layers, L) \cup layer
    <2> DEFINE more == Append(layers, layer)
    <2>1. layers' = more
      BY <1>2
    <2>2. /\ Len(more) = L + 1 /\ more \in Seq(SUBSET Steps) /\ more[L + 1] = layer
          /\ \A k \in 1..L : more[k] = layers[k]
      BY <1>3, <1>4, PlacedMore
    <2>3. /\ \A k \in 0..L : PlacedBy(more, k) = PlacedBy(layers, k)
          /\ PlacedBy(more, L + 1) = PlacedBy(layers, L) \cup layer
      BY <1>3, <1>4, PlacedMore
    <2> HIDE DEF more
    <2> QED
      BY <2>1, <2>2, <2>3
  <1>6. ASSUME NEW n \in layer
        PROVE  /\ n \in Steps /\ n \notin PlacedBy(layers, L)
               /\ Needs(n) \subseteq PlacedBy(layers, L)
               /\ L > 0 => ~(Needs(n) \subseteq PlacedBy(layers, L - 1))
    <2>1. n \in Steps /\ inDegree[n] = 0
      BY <1>1
    <2>2. /\ n \notin PlacedBy(layers, L)
          /\ Cardinality(Waiting(n, PlacedBy(layers, L))) = 0
          /\ L > 0 => ~(Needs(n) \subseteq PlacedBy(layers, L - 1))
      <3>1. \/ n \in PlacedBy(layers, Len(layers)) /\ inDegree[n] = -1
            \/ /\ n \notin PlacedBy(layers, Len(layers))
               /\ inDegree[n] = Cardinality(Waiting(n, PlacedBy(layers, Len(layers))))
               /\ Len(layers) > 0 => ~(Needs(n) \subseteq PlacedBy(layers, Len(layers) - 1))
        BY <1>3, <2>1 DEF WaitsInv
      <3>2. /\ n \notin PlacedBy(layers, Len(layers))
            /\ inDegree[n] = Cardinality(Waiting(n, PlacedBy(layers, Len(layers))))
            /\ Len(layers) > 0 => ~(Needs(n) \subseteq PlacedBy(layers, Len(layers) - 1))
        BY <2>1, <3>1
      <3> QED
        BY <1>4, <2>1, <3>2
    <2> QED
      BY <1>3, <2>1, <2>2, FewWaits
  <1>7. PlacedBy(layers, L) \cap layer = {}
    BY <1>6
  <1>8. ASSUME NEW n \in Steps
        PROVE  /\ inDegree'[n] \in Int
               /\ \/ n \in PlacedBy(layers', L + 1) /\ inDegree'[n] = -1
                  \/ /\ n \notin PlacedBy(layers', L + 1)
                     /\ inDegree'[n] = Cardinality(Waiting(n, PlacedBy(layers', L + 1)))
                     /\ ~(Needs(n) \subseteq PlacedBy(layers, L))
    <2>1. CASE n \in layer
      BY <1>2, <1>5, <2>1
    <2>2. CASE n \notin layer /\ n \in PlacedBy(layers, L)
      <3>1. Needs(n) \cap layer = {}
        <4>1. PICK i \in 1..L : n \in layers[i]
          BY <2>2, InLayer
        <4>2. Needs(n) \subseteq PlacedBy(layers, i - 1)
          BY <1>3, <1>4, <4>1 DEF OrderedInv
        <4>3. PlacedBy(layers, i - 1) \subseteq PlacedBy(layers, L)
          <5>1. i - 1 \in 0..L
            BY <4>1
          <5> QED
            BY <5>1, InLayer
        <4> QED
          BY <1>7, <4>2, <4>3
      <3>2. inDegree[n] = -1
        BY <1>3, <1>4, <2>2 DEF WaitsInv
      <3>3. Cardinality(Taken(n, layer)) = 0
        BY <1>3, <3>1, FewWaits
      <3>4. inDegree'[n] = inDegree[n] - Cardinality(Taken(n, layer))
        BY <1>2, <2>2
      <3> QED
        BY <1>5, <2>2, <3>2, <3>3, <3>4
    <2>3. CASE n \notin layer /\ n \notin PlacedBy(layers, L)
      <3>1. inDegree[n] = Cardinality(Waiting(n, PlacedBy(layers, L))) /\ inDegree[n] # 0
        BY <1>1, <1>3, <1>4, <2>3 DEF WaitsInv
      <3>2. Cardinality(Waiting(n, PlacedBy(layers, L) \cup layer))
              = Cardinality(Waiting(n, PlacedBy(layers, L))) - Cardinality(Taken(n, layer))
        <4>1. deps \in Lists
          BY <1>3
        <4>2. \A S, T : S \cap T = {} =>
                Cardinality(Waiting(n, S \cup T))
                  = Cardinality(Waiting(n, S)) - Cardinality(Taken(n, T))
          BY <4>1, FewWaits
        <4> QED
          BY <1>7, <4>2
      <3>3. /\ Cardinality(Taken(n, layer)) \in Nat
            /\ Cardinality(Waiting(n, PlacedBy(layers, L))) \in Nat
            /\ ~(Needs(n) \subseteq PlacedBy(layers, L))
        BY <1>3, <3>1, FewWaits
      <3>4. inDegree'[n] = inDegree[n] - Cardinality(Taken(n, layer))
        BY <1>2, <2>3
      <3>5. n \notin PlacedBy(layers', L + 1)
        BY <1>5, <2>3
      <3>6. inDegree'[n] = Cardinality(Waiting(n, PlacedBy(layers', L + 1)))
        BY <1>5, <3>1, <3>2, <3>4
      <3>7. inDegree'[n] \in Int
        BY <3>1, <3>3, <3>4
      <3> QED
        BY <3>3, <3>5, <3>6, <3>7
    <2> QED
      BY <2>1, <2>2, <2>3
  <1>9. DagTypes'
    <2>1. inDegree' \in [Steps -> Int]
      BY <1>2, <1>8
    <2> QED
      BY <1>2, <1>3, <1>5, <2>1 DEF DagTypes
  <1>10. WaitsInv'
    <2>1. PlacedBy(layers', (L + 1) - 1) = PlacedBy(layers, L)
      BY <1>5
    <2> QED
      BY <1>2, <1>5, <1>8, <2>1, SameGraph DEF WaitsInv
  <1>11. OrderedInv'
    <2>1. ASSUME NEW i \in 1..L, NEW n \in layers[i]
          PROVE  /\ Needs(n) \subseteq PlacedBy(layers', i - 1)
                 /\ i > 1 => Needs(n) \cap layers'[i - 1] # {}
                 /\ \A j \in 1..(L + 1) : n \in layers'[j] => i = j
      <3>1. i - 1 \in 0..L /\ (i > 1 => i - 1 \in 1..L)
        OBVIOUS
      <3>2. n \notin layer
        BY <1>6, <2>1, InLayer
      <3>3. /\ Needs(n) \subseteq PlacedBy(layers, i - 1)
            /\ i > 1 => Needs(n) \cap layers[i - 1] # {}
            /\ \A j \in 1..L : n \in layers[j] => i = j
        BY <1>3, <1>4 DEF OrderedInv
      <3> QED
        BY <1>5, <3>1, <3>2, <3>3
    <2>2. ASSUME NEW n \in layer
          PROVE  /\ Needs(n) \subseteq PlacedBy(layers', L)
                 /\ L + 1 > 1 => Needs(n) \cap layers'[L] # {}
                 /\ \A j \in 1..(L + 1) : n \in layers'[j] => L + 1 = j
      <3>1. Needs(n) \subseteq PlacedBy(layers', L)
        BY <1>5, <1>6
      <3>2. ASSUME L > 0 PROVE Needs(n) \cap layers'[L] # {}
        <4>1. PICK d \in Needs(n) : d \in PlacedBy(layers, L) /\ d \notin PlacedBy(layers, L - 1)
          BY <1>6, <3>2
        <4>2. PICK i \in 1..L : d \in layers[i]
          BY <4>1, InLayer
        <4>3. i = L
          <5>1. L - 1 \in Nat /\ (i # L => i \in 1..(L - 1))
            BY <3>2
          <5> QED
            BY <4>1, <4>2, <5>1, InLayer
        <4> QED
          BY <1>5, <4>1, <4>2, <4>3
      <3>3. \A j \in 1..L : n \notin layers'[j]
        BY <1>5, <1>6, InLayer
      <3> QED
        BY <3>1, <3>2, <3>3
    <2>3. (L + 1) - 1 = L /\ \A i \in 1..(L + 1) : i = L + 1 \/ i \in 1..L
      OBVIOUS
    <2>4. ASSUME NEW i \in 1..(L + 1), NEW n \in layers'[i]
          PROVE  /\ Needs(n)' \subseteq PlacedBy(layers', i - 1)
                 /\ i > 1 => Needs(n)' \cap layers'[i - 1] # {}
                 /\ \A j \in 1..(L + 1) : n \in layers'[j] => i = j
      <3>1. CASE i \in 1..L
        <4>1. n \in layers[i] /\ Needs(n)' = Needs(n)
          BY <1>2, <1>5, <2>4, <3>1, SameGraph
        <4> QED
          BY <2>1, <3>1, <4>1
      <3>2. CASE i = L + 1
        <4>1. n \in layer
          BY <1>5, <2>4, <3>2
        <4> QED
          BY <1>2, <2>2, <2>3, <3>2, <4>1, SameGraph
      <3> QED
        BY <2>3, <3>1, <3>2
    <2> QED
      BY <1>5, <2>4 DEF OrderedInv
  <1>12. CycleDetected' /\ SearchInv' /\ Acyclic'
    BY <1>2, <1>3, SameGraph DEF CycleDetected, SearchInv
  <1>13. FilledInv'
    <2>1. ASSUME NEW i \in 1..(L + 1) PROVE layers'[i] # {}
      <3>1. CASE i \in 1..L
        BY <1>3, <1>4, <1>5, <3>1 DEF FilledInv
      <3>2. CASE i = L + 1
        BY <1>1, <1>5, <3>2
      <3> QED
        BY <3>1, <3>2
    <2> QED
      BY <1>5, <2>1 DEF FilledInv
  <1> QED
    BY <1>2, <1>9, <1>10, <1>11, <1>12, <1>13 DEF DagInv, LayerInv

\* dag.Resolve keeps its invariant from the first visit to the last layer.
LEMMA DagStep == DagInv /\ [DagNext]_dagVars => DagInv'
  <1> SUFFICES ASSUME DagInv, [DagNext]_dagVars PROVE DagInv'
    OBVIOUS
  <1>1. CASE UNCHANGED dagVars
    <2> USE <1>1 DEF dagVars
    <2>1. DagTypes' /\ SearchInv'
      BY SameGraph DEF DagInv, DagTypes, SearchInv, StackInv, BlackInv
    <2>2. LayerInv' /\ CycleDetected'
      BY SameGraph DEF DagInv, LayerInv, WaitsInv, OrderedInv, FilledInv, CycleDetected
    <2> QED
      BY <2>1, <2>2 DEF DagInv
  <1>2. CASE \/ \E n \in Steps : VisitRoot(n)
             \/ \E d \in Names : VisitDep(d)
             \/ Leave
    <2>1. phase = "visit"
      BY <1>2 DEF VisitRoot, VisitDep, Leave
    <2> QED
      BY <1>2, <2>1, SearchStep DEF DagInv, SearchInv
  <1>3. CASE StartLayers
    <2>1. phase = "visit"
      BY <1>3 DEF StartLayers
    <2> QED
      BY <1>3, <2>1, LayersStart DEF DagInv, SearchInv
  <1>4. CASE PlaceLayer /\ {n \in Steps : inDegree[n] = 0} # {}
    BY <1>4, LayerPlaced
  <1>5. CASE PlaceLayer /\ {n \in Steps : inDegree[n] = 0} = {}
    <2>1. /\ phase = "layer" /\ phase' = "done"
          /\ UNCHANGED <<deps, color, stack, inDegree, layers>>
          /\ \A n \in Steps : inDegree[n] # 0
      BY <1>5 DEF PlaceLayer
    <2>2. DagTypes'
      BY <2>1 DEF DagInv, DagTypes
    <2>4. SearchInv'
      BY <2>1 DEF SearchInv
    <2>5. Acyclic /\ Acyclic'
      BY <2>1, SameGraph DEF DagInv, LayerInv
    <2>6. CycleDetected'
      BY <2>1, <2>5 DEF CycleDetected
    <2>3. LayerInv'
      <3>1. OrderedInv' /\ FilledInv'
        BY <2>1, SameGraph DEF DagInv, LayerInv, OrderedInv, FilledInv
      <3>2. WaitsInv
        BY <2>1 DEF DagInv, LayerInv
      <3>3. WaitsInv'
        BY <2>1, <3>2, SameGraph DEF WaitsInv
      <3> QED
        BY <2>1, <2>5, <3>1, <3>3 DEF LayerInv
    <2> QED
      BY <2>2, <2>3, <2>4, <2>6 DEF DagInv
  <1> QED
    BY <1>1, <1>2, <1>3, <1>4, <1>5 DEF DagNext

\* The invariant of the search and of the layers.
THEOREM DagInvariance == DagSpec => []DagInv
  BY DagStart, DagStep, PTL DEF DagSpec

\* detectCycle reports an error exactly when the lists it sees, the last one of
\* every ID, have a cycle, for every finite graph: a gray dependency closes one,
\* and what is black has none.
THEOREM CyclesReported == DagSpec => []CycleDetected
  <1>1. DagInv => CycleDetected
    BY DEF DagInv
  <1> QED
    BY <1>1, DagInvariance, PTL

\* A step stands in a layer after everything that any node with its ID depends
\* on, and in the first one it can stand in, for every finite graph.
THEOREM LayersOrdered == DagSpec => []LayersRespectDepends
  <1>1. DagInv => LayersRespectDepends
    BY DEF DagInv, LayerInv, OrderedInv, LayersRespectDepends, Placed, PlacedBy
  <1> QED
    BY <1>1, DagInvariance, PTL

\* dag.Resolve leaves out only steps that wait for a name that is no step, or
\* for a step that was left out; a cycle that the search did not see is such a
\* set of steps.
THEOREM NothingLeftOut == DagSpec => []LeftOutForAReason
  <1>1. DagInv => LeftOutForAReason
    <2> SUFFICES ASSUME DagInv, phase = "done" PROVE LeftOutForAReason
      BY DEF LeftOutForAReason
    <2> DEFINE out == Steps \ Placed(Len(layers))
    <2>1. deps \in Lists /\ Acyclic
      BY DEF DagInv, DagTypes, LayerInv
    <2>2. ASSUME NEW n \in out PROVE Needs(n) \cap (Ghosts \cup out) # {}
      <3>1. Cardinality(Waiting(n, Placed(Len(layers)))) # 0
        BY DEF DagInv, LayerInv, WaitsInv, Placed, PlacedBy
      <3>2. ~(Needs(n) \subseteq Placed(Len(layers)))
        BY <2>1, <3>1, FewWaits
      <3> QED
        BY <2>1, <3>2, DependsKnown DEF Names
    <2>3. ASSUME \A n \in Steps : Needs(n) \subseteq Steps /\ Depends(n) = Needs(n), out # {}
          PROVE  FALSE
      <3>1. PICK n \in out : Needs(n) \cap out = {}
        BY <2>1, <2>3 DEF Acyclic
      <3>2. Needs(n) \cap Ghosts = {}
        BY <2>3, DagAssumption
      <3> QED
        BY <2>2, <3>1, <3>2
    <2> QED
      BY <2>2, <2>3 DEF LeftOutForAReason
  <1> QED
    BY <1>1, DagInvariance, PTL

-----------------------------------------------------------------------------
(* The order of the steps of a run.                                        *)

\* What is proved about the run of a pipeline, of the one that dag.Resolve orders.
Order == INSTANCE PipelineProof WITH
  Stores <- {"mem"}, MayExpire <- FALSE, wf <- Workflow(deps), store <- "mem",
  run <- Status, step <- [s \in Steps |-> "none"], queue <- Queue, pc <- Label,
  outputs <- {}, finalRec <- "none", stray <- {}, expired <- FALSE, returned <- Outcome

\* The workflow is one of those that a pipeline runs.
LEMMA WorkflowType ==
  /\ Order!PipelineAssumption
  /\ deps \in Lists => Workflow(deps) \in Order!WorkflowSet
  <1>1. File \in Seq(Steps) /\ DOMAIN File = 1..Len(File) /\ Len(File) \in Nat
    BY DagAssumption
  <1>2. ASSUME NEW d \in Lists
        PROVE  Workflow(d) \in Order!WorkflowSet /\ Len(d) = Len(File)
    <2>1. d \in [1..Len(File) -> SUBSET (Steps \cup Ghosts)]
      BY <1>1, DagAssumption DEF Names
    <2>2. d \in Seq(SUBSET (Steps \cup Ghosts)) /\ Len(d) = Len(File)
      BY <1>1, <2>1
    <2> QED
      BY <1>1, <2>2 DEF Order!WorkflowSet, Workflow
  <1>3. /\ Workflows \subseteq Order!WorkflowSet
        /\ \A w \in Workflows : Len(w.depends) = Len(w.order)
    BY <1>2 DEF Workflows, Workflow
  <1>4. Order!IsFiniteSet(Steps)
    BY DagAssumption DEF Order!IsFiniteSet, IsFiniteSet
  <1> QED
    BY <1>2, <1>3, <1>4 DEF Order!PipelineAssumption

\* The terms of a pipeline, in those of the resolution.
LEMMA RunnerTerms ==
  /\ Runner!Members = Steps
  /\ Order!Members = Steps
  /\ Runner!Cardinality(Steps) = Cardinality(Steps)
  /\ Order!Cardinality(Steps) = Cardinality(Steps)
  /\ Runner!Placed = Order!Placed
  /\ \A T : Runner!Keep(File, T) = Collected(T)
  /\ \A T : Order!Keep(File, T) = Collected(T)
  /\ \A s : Runner!FlattenSeq(s) = FlattenSeq(s)
  /\ \A n : Order!Deps(n) = Needs(n) /\ Runner!Deps(n) = Needs(n)
  /\ \A n \in Steps : Runner!LastList(n) = Depends(n)
  <1>1. Runner!Members = Steps /\ Order!Members = Steps
    BY DagAssumption DEF Runner!Members, Order!Members, Runner!ToSet, Order!ToSet, ToSet, Workflow
  <1>2. Runner!Cardinality(Steps) = Cardinality(Steps) /\ Order!Cardinality(Steps) = Cardinality(Steps)
    BY DEF Runner!Cardinality, Order!Cardinality, Cardinality
  <1>7. \A n : Order!Entries(n) = Entries(n) /\ Runner!Entries(n) = Entries(n)
    BY DEF Order!Entries, Runner!Entries, Entries, Workflow
  <1>8. \A n : Order!Deps(n) = Needs(n) /\ Runner!Deps(n) = Needs(n)
    BY <1>7 DEF Order!Deps, Runner!Deps, Needs, Workflow
  <1>9. \A n \in Steps : Runner!LastList(n) = Depends(n)
    BY DEF Runner!LastList, Depends, Runner!Entries, Entries, Workflow
  <1>3. Runner!Placed = Order!Placed
    BY <1>1, <1>2 DEF Runner!Placed, Order!Placed, Runner!Deps, Order!Deps,
                      Runner!Entries, Order!Entries
  <1>4. \A T : Runner!Keep(File, T) = Collected(T)
    BY DEF Runner!Keep, Collected
  <1>5. \A T : Order!Keep(File, T) = Collected(T)
    BY DEF Order!Keep, Collected
  <1>6. \A s : Runner!FlattenSeq(s) = FlattenSeq(s)
    BY DEF Runner!FlattenSeq, FlattenSeq
  <1> QED
    BY <1>1, <1>2, <1>3, <1>4, <1>5, <1>6, <1>8, <1>9

\* The nodes of the first k layers, for any k.
Stage(k) == {n \in Steps : \E i \in 1..Len(layers) : i <= k /\ n \in layers[i]}

\* What the loop has built when it ends: a node is in the first k layers exactly
\* if all it depends on is in those before.
LEMMA StagesClosed ==
  ASSUME DagTypes, OrderedInv, WaitsInv, \A n \in Steps : inDegree[n] # 0,
         NEW k \in Nat, k > 0
  PROVE  Stage(k) = {n \in Steps : Needs(n) \subseteq Stage(k - 1)}
  <1>1. PICK L \in Nat : L = Len(layers)
    BY DEF DagTypes
  <1>2. \A i \in 1..L : layers[i] \subseteq Steps
    BY <1>1 DEF DagTypes
  <1>3. ASSUME NEW i \in 1..L, NEW n \in layers[i]
        PROVE  /\ Needs(n) \subseteq PlacedBy(layers, i - 1)
               /\ i > 1 => Needs(n) \cap layers[i - 1] # {}
               /\ \A j \in 1..L : n \in layers[j] => i = j
    BY <1>1 DEF OrderedInv
  <1>4. ASSUME NEW n \in Stage(k) PROVE Needs(n) \subseteq Stage(k - 1)
    <2>1. PICK i \in 1..L : i <= k /\ n \in layers[i]
      BY <1>1 DEF Stage
    <2>2. ASSUME NEW d \in Needs(n) PROVE d \in Stage(k - 1)
      <3>1. i - 1 \in Nat /\ d \in PlacedBy(layers, i - 1)
        BY <1>3, <2>1
      <3>2. PICK j \in 1..(i - 1) : d \in layers[j]
        BY <3>1, InLayer
      <3>3. j \in 1..L /\ j <= k - 1
        BY <2>1
      <3> QED
        BY <1>1, <1>2, <3>2, <3>3 DEF Stage
    <2> QED
      BY <2>2
  <1>5. ASSUME NEW n \in Steps, Needs(n) \subseteq Stage(k - 1) PROVE n \in Stage(k)
    <2>1. Stage(k - 1) \subseteq PlacedBy(layers, L)
      BY <1>1, InLayer DEF Stage
    <2>2. n \in PlacedBy(layers, L)
      <3> SUFFICES ASSUME n \notin PlacedBy(layers, L) PROVE FALSE
        OBVIOUS
      <3>1. inDegree[n] = Cardinality(Waiting(n, PlacedBy(layers, L))) /\ inDegree[n] # 0
        BY <1>1 DEF WaitsInv
      <3>2. ~(Needs(n) \subseteq PlacedBy(layers, L))
        BY <3>1, FewWaits DEF DagTypes
      <3> QED
        BY <1>5, <2>1, <3>2
    <2>3. PICK i \in 1..L : n \in layers[i]
      BY <2>2, InLayer
    <2>4. i <= k
      <3> SUFFICES ASSUME i > k PROVE FALSE
        OBVIOUS
      <3>1. i > 1 /\ i - 1 \in 1..L
        OBVIOUS
      <3>2. PICK d \in Needs(n) : d \in layers[i - 1]
        BY <1>3, <2>3, <3>1
      <3>3. PICK j \in 1..L : j <= k - 1 /\ d \in layers[j]
        BY <1>1, <1>5, <3>2 DEF Stage
      <3>4. i - 1 = j
        BY <1>3, <3>1, <3>2, <3>3
      <3> QED
        BY <3>3, <3>4
    <2> QED
      BY <1>1, <2>3, <2>4 DEF Stage
  <1>6. Stage(k) \subseteq Steps
    BY DEF Stage
  <1> QED
    BY <1>4, <1>5, <1>6

\* A layer is what one stage has more than the one before; beyond the last
\* layer there is nothing more.
LEMMA LayerIsStage ==
  ASSUME DagTypes, OrderedInv, NEW k \in Nat, k > 0
  PROVE  /\ k <= Len(layers) => Stage(k) \ Stage(k - 1) = layers[k]
         /\ k > Len(layers) => Stage(k) \ Stage(k - 1) = {}
  <1>1. PICK L \in Nat : L = Len(layers)
    BY DEF DagTypes
  <1>2. \A i \in 1..L : layers[i] \subseteq Steps
    BY <1>1 DEF DagTypes
  <1>3. \A i, j \in 1..L : \A n \in layers[i] : n \in layers[j] => i = j
    BY <1>1 DEF OrderedInv
  <1>4. \A i \in 1..L : i <= k <=> i <= k - 1 \/ i = k
    OBVIOUS
  <1>5. ASSUME k <= L PROVE Stage(k) \ Stage(k - 1) = layers[k]
    <2>1. k \in 1..L
      BY <1>5
    <2>2. ASSUME NEW n \in layers[k] PROVE n \in Stage(k) /\ n \notin Stage(k - 1)
      <3>1. n \in Steps
        BY <1>2, <2>1
      <3>2. \A i \in 1..L : n \in layers[i] => i = k
        BY <1>3, <2>1
      <3>3. n \notin Stage(k - 1)
        BY <1>1, <3>2 DEF Stage
      <3> QED
        BY <1>1, <2>1, <3>1, <3>3 DEF Stage
    <2>3. ASSUME NEW n \in Stage(k), n \notin Stage(k - 1) PROVE n \in layers[k]
      BY <1>1, <1>4, <2>3 DEF Stage
    <2> QED
      BY <2>2, <2>3
  <1>6. ASSUME k > L PROVE Stage(k) \ Stage(k - 1) = {}
    <2>1. \A i \in 1..L : i <= k - 1
      BY <1>6
    <2> QED
      BY <1>1, <2>1 DEF Stage
  <1> QED
    BY <1>1, <1>5, <1>6

\* No layer is empty, so there are at most as many as steps.
LEMMA FewLayers ==
  ASSUME DagTypes, OrderedInv, \A i \in 1..Len(layers) : layers[i] # {}
  PROVE  Len(layers) <= Cardinality(Steps)
  <1>1. PICK L \in Nat : L = Len(layers)
    BY DEF DagTypes
  <1>2. \A i \in 1..L : layers[i] \subseteq Steps /\ layers[i] # {}
    BY <1>1 DEF DagTypes
  <1>3. \A k \in Nat : Stage(k) \subseteq Steps
    BY DEF Stage
  <1>4. \A k \in Nat : IsFiniteSet(Stage(k)) /\ Cardinality(Stage(k)) \in Nat
                       /\ Cardinality(Stage(k)) <= Cardinality(Steps)
    BY <1>3, DagAssumption, FS_Subset, FS_CardinalityType
  <1> DEFINE S == {k \in 0..L : Cardinality(Stage(k)) >= k}
  <1>5. 0 \in S
    BY <1>4
  <1>6. ASSUME NEW k \in 1..L, k - 1 \in S PROVE k \in S
    <2>1. k \in Nat /\ k > 0 /\ k - 1 \in Nat
      OBVIOUS
    <2>2. PICK n : n \in layers[k]
      BY <1>2
    <2>3. n \in Stage(k) /\ n \notin Stage(k - 1)
      BY <1>1, <2>1, <2>2, LayerIsStage
    <2>4. Stage(k - 1) \subseteq Stage(k)
      BY <1>1 DEF Stage
    <2>5. Cardinality(Stage(k - 1) \cup {n}) = Cardinality(Stage(k - 1)) + 1
      BY <1>4, <2>1, <2>3, FS_AddElement
    <2>6. Cardinality(Stage(k - 1) \cup {n}) <= Cardinality(Stage(k))
      <3>1. Stage(k - 1) \cup {n} \subseteq Stage(k) /\ IsFiniteSet(Stage(k))
        BY <1>4, <2>1, <2>3, <2>4
      <3> QED
        BY <3>1, FS_Subset
    <2>7. Cardinality(Stage(k - 1)) >= k - 1
      BY <1>6
    <2> QED
      BY <1>4, <2>1, <2>5, <2>6, <2>7
  <1>7. L \in S
    <2> HIDE DEF S
    <2>1. \A k \in 0..L : k \in S
      BY <1>5, <1>6, InductionUpTo
    <2> QED
      BY <2>1
  <1>8. Cardinality(Steps) \in Nat
    BY DagAssumption, FS_CardinalityType
  <1> QED
    BY <1>1, <1>4, <1>7, <1>8

\* No in-degree is counted before the search is over.
UncountedInv == phase \in {"visit", "cycle"} => \A n \in Steps : inDegree[n] = 0

\* There are no more layers than steps, and an in-degree is a number of names, or
\* -1: the loop over the layers ends, for every finite graph.
THEOREM DagTypeCorrect == DagSpec => []DagTypeOK
  <1>1. DagInit => UncountedInv
    BY DEF DagInit, UncountedInv
  <1>2. UncountedInv /\ [DagNext]_dagVars => UncountedInv'
    BY DEF UncountedInv, DagNext, dagVars, VisitRoot, VisitDep, Leave, StartLayers, PlaceLayer
  <1>3. DagInv /\ UncountedInv => DagTypeOK
    <2> SUFFICES ASSUME DagInv, UncountedInv PROVE DagTypeOK
      OBVIOUS
    <2>1. DagTypes /\ OrderedInv /\ FilledInv
      BY DEF DagInv, LayerInv
    <2>2. Len(File) * Cardinality(Names) \in Nat
      <3>1. IsFiniteSet(Names)
        BY DagAssumption, FS_Union DEF Names
      <3>2. Len(File) \in Nat
        BY <2>1, NodesNumbered DEF DagTypes
      <3>3. Cardinality(Names) \in Nat
        BY <3>1, FS_CardinalityType
      <3> QED
        BY <3>2, <3>3
    <2>4. ASSUME NEW n \in Steps PROVE inDegree[n] \in -1..Len(File) * Cardinality(Names)
      <3>1. CASE phase \in {"visit", "cycle"}
        BY <2>2, <3>1 DEF UncountedInv
      <3>2. CASE phase \in {"layer", "done"}
        <4>1. \/ inDegree[n] = -1
              \/ inDegree[n] = Cardinality(Waiting(n, PlacedBy(layers, Len(layers))))
          BY <3>2 DEF DagInv, LayerInv, WaitsInv
        <4>2. /\ Cardinality(Waiting(n, PlacedBy(layers, Len(layers)))) \in Nat
              /\ Cardinality(Waiting(n, PlacedBy(layers, Len(layers))))
                   <= Len(File) * Cardinality(Names)
          BY <2>1, FewWaits DEF DagTypes
        <4> QED
          BY <2>2, <4>1, <4>2
      <3> QED
        BY <2>1, <3>1, <3>2 DEF DagTypes
    <2>5. Len(layers) <= Cardinality(Steps)
      BY <2>1, FewLayers DEF FilledInv
    <2>6. inDegree \in [Steps -> -1..Len(File) * Cardinality(Names)]
      BY <2>1, <2>4 DEF DagTypes
    <2> QED
      BY <2>1, <2>5, <2>6 DEF DagTypes, DagTypeOK
  <1> QED
    BY <1>1, <1>2, <1>3, DagInvariance, PTL DEF DagSpec

\* The stages are what a pipeline takes for placed.
LEMMA PlacedIsStage ==
  ASSUME DagTypes, OrderedInv, WaitsInv, \A n \in Steps : inDegree[n] # 0
  PROVE  \A k \in 0..Cardinality(Steps) : Runner!Placed[k] = Stage(k)
  <1>1. PICK C \in Nat : C = Cardinality(Steps)
    BY DagAssumption, FS_CardinalityType
  <1>2. PICK F : F = Runner!Placed
    OBVIOUS
  <1>3. /\ F[0] = {}
        /\ \A k \in 1..C : F[k] = {n \in Steps : Needs(n) \subseteq F[k - 1]}
    <2>1. deps \in Lists
      BY DEF DagTypes
    <2>2. /\ Order!Placed[0] = {}
          /\ \A k \in 1..Order!Cardinality(Steps) :
               Order!Placed[k] = {n \in Order!Members : Order!Deps(n) \subseteq Order!Placed[k - 1]}
      BY <2>1, WorkflowType, Order!PlacedLayers
    <2> QED
      BY <1>1, <1>2, <2>2, RunnerTerms
  <1> DEFINE S == {k \in 0..C : F[k] = Stage(k)}
  <1>4. 0 \in S
    <2>1. Stage(0) = {}
      BY DEF Stage
    <2>2. 0 \in 0..C /\ F[0] = Stage(0)
      BY <1>3, <2>1
    <2> QED
      BY <2>2
  <1>5. ASSUME NEW k \in 1..C, k - 1 \in S PROVE k \in S
    <2>1. F[k - 1] = Stage(k - 1) /\ k \in 0..C
      BY <1>5
    <2>2. Stage(k) = {n \in Steps : Needs(n) \subseteq Stage(k - 1)}
      BY StagesClosed
    <2>3. F[k] = {n \in Steps : Needs(n) \subseteq F[k - 1]}
      BY <1>3
    <2>4. F[k] = Stage(k)
      BY <2>1, <2>2, <2>3
    <2> QED
      BY <2>1, <2>4
  <1>6. \A k \in 0..C : k \in S
    <2> HIDE DEF S
    <2> QED
      BY <1>4, <1>5, InductionUpTo
  <1> QED
    BY <1>1, <1>2, <1>6

\* What is collected of a layer are steps, and of no layer nothing.
LEMMA CollectedType ==
  /\ \A T : Collected(T) \in Seq(Steps)
  /\ Collected({}) = <<>>
  <1>1. ASSUME NEW T
        PROVE  /\ Order!Keep(File, T) \in Seq(Steps)
               /\ \A x : Order!Has(Order!Keep(File, T), x) <=> x \in T /\ Order!Has(File, x)
    BY DagAssumption, WorkflowType, Order!KeepRight
  <1>2. \A T : Collected(T) \in Seq(Steps)
    BY <1>1, RunnerTerms
  <1>3. \A x : ~Order!Has(Collected({}), x)
    BY <1>1, RunnerTerms
  <1>4. Len(Collected({})) = 0
    <2> DEFINE u == Collected({})
    <2>1. u \in Seq(Steps) /\ \A x : ~\E j \in 1..Len(u) : u[j] = x
      BY <1>2, <1>3 DEF Order!Has
    <2> HIDE DEF u
    <2>2. Len(u) \in Nat /\ (Len(u) # 0 => 1 \in 1..Len(u))
      BY <2>1
    <2> QED
      BY <2>1, <2>2 DEF u
  <1>5. Collected({}) = <<>>
    BY <1>2, <1>4, NoLength
  <1> QED
    BY <1>2, <1>5

\* When the loop of dag.Resolve ends, its layers are executed in the order that
\* the run of a pipeline takes.
LEMMA OrderOfLayers ==
  ASSUME DagTypes, OrderedInv, WaitsInv, \A n \in Steps : inDegree[n] # 0,
         \A i \in 1..Len(layers) : layers[i] # {}
  PROVE  Executed = Runner!Resolved
  <1>0. Cardinality(Steps) \in Nat /\ Len(layers) \in Nat
    BY DagAssumption, FS_CardinalityType DEF DagTypes
  <1>1. PICK C \in Nat, L \in Nat : C = Cardinality(Steps) /\ L = Len(layers) /\ L <= C
    BY <1>0, FewLayers
  <1> DEFINE s == [k \in 1..L |-> Collected(layers[k])]
             t == [k \in 1..C |-> Runner!LayerSteps(k)]
  <1>2. Executed = FlattenSeq(s)
    BY <1>1 DEF Executed
  <1>3. Runner!Resolved = FlattenSeq(t)
    <2>1. Runner!Resolved = Runner!FlattenSeq(t)
      BY <1>1, RunnerTerms DEF Runner!Resolved
    <2> HIDE DEF t
    <2> QED
      BY <2>1, RunnerTerms
  <1>4. ASSUME NEW k \in 1..C
        PROVE  Runner!LayerSteps(k) = Collected(IF k <= L THEN layers[k] ELSE {})
    <2>1. k \in 0..C /\ k - 1 \in 0..C /\ k \in Nat /\ k > 0
      OBVIOUS
    <2>2. Runner!Placed[k] = Stage(k) /\ Runner!Placed[k - 1] = Stage(k - 1)
      BY <1>1, <2>1, PlacedIsStage
    <2>3. Runner!LayerSteps(k) = Collected(Stage(k) \ Stage(k - 1))
      <3>1. Runner!LayerSteps(k) = Runner!Keep(File, Runner!Placed[k] \ Runner!Placed[k - 1])
        BY DEF Runner!LayerSteps, Workflow
      <3> QED
        BY <2>2, <3>1, RunnerTerms
    <2>4. Stage(k) \ Stage(k - 1) = IF k <= L THEN layers[k] ELSE {}
      BY <1>1, <2>1, LayerIsStage
    <2> QED
      BY <2>3, <2>4
  <1>5. s \in Seq(Seq(Steps)) /\ Len(s) = L
    BY CollectedType
  <1>6. t \in Seq(Seq(Steps)) /\ Len(t) = C
    BY <1>4, CollectedType
  <1>7. \A k \in 1..L : t[k] = s[k]
    BY <1>1, <1>4
  <1>8. \A k \in 1..C : k > L => t[k] = <<>>
    BY <1>4, CollectedType
  <1>9. FlattenSeq(s) = FlattenSeq(t)
    <2> HIDE DEF s, t
    <2> QED
      BY <1>1, <1>5, <1>6, <1>7, <1>8, FlattenPadded
  <1> QED
    BY <1>2, <1>3, <1>9

\* A step of the resolution that does not end it changes nothing of the run.
LEMMA NothingYet ==
  ASSUME UNCHANGED deps, UNCHANGED phase \/ {phase, phase'} \cap {"done", "cycle"} = {},
         phase = "done" => UNCHANGED layers
  PROVE  UNCHANGED Runner!vars
  <1>1. Status' = Status /\ Label' = Label /\ Outcome' = Outcome
    BY DEF Status, Label, Outcome
  <1>2. Queue' = Queue
    <2>1. CASE phase = "done"
      <3>1. phase' = "done" /\ layers' = layers
        BY <2>1
      <3> QED
        BY <2>1, <3>1 DEF Queue, Executed
    <2>2. CASE phase # "done"
      BY <2>2 DEF Queue
    <2> QED
      BY <2>1, <2>2
  <1>3. Workflow(deps)' = Workflow(deps)
    BY DEF Workflow
  <1> QED
    BY <1>1, <1>2, <1>3 DEF Runner!vars, Runner!input

\* The resolution ends in the one step that CreateRun is.
LEMMA ResolutionStep ==
  DagInv /\ [DagNext]_dagVars => [Runner!CreateRun]_(Runner!vars)
  <1> SUFFICES ASSUME DagInv, [DagNext]_dagVars PROVE [Runner!CreateRun]_(Runner!vars)
    OBVIOUS
  <1>1. DagInv'
    BY DagStep
  <1>2. CASE UNCHANGED dagVars
    BY <1>2, NothingYet DEF dagVars
  <1>3. CASE \/ \E n \in Steps : VisitRoot(n)
             \/ Leave \/ StartLayers
             \/ PlaceLayer /\ phase' = "layer"
    <2>1. UNCHANGED deps /\ {phase, phase'} \cap {"done", "cycle"} = {}
      BY <1>3 DEF VisitRoot, Leave, StartLayers, PlaceLayer
    <2>2. phase # "done"
      BY <2>1
    <2> QED
      BY <2>1, <2>2, NothingYet
  <1>4. CASE \E d \in Names : VisitDep(d)
    <2>1. UNCHANGED deps /\ phase = "visit" /\ phase' \in {"visit", "cycle"}
      BY <1>4 DEF VisitDep
    <2>2. CASE phase' = "visit"
      BY <2>1, <2>2, NothingYet
    <2>3. CASE phase' = "cycle"
      <3>1. ~Acyclic
        BY <1>1, <2>1, <2>3, SameGraph DEF DagInv, CycleDetected
      <3>2. Runner!Cyclic
        BY <3>1, RunnerTerms DEF Acyclic, Runner!Cyclic
      <3>3. Runner!CreateRun
        BY <2>1, <2>3, <3>2 DEF Runner!CreateRun, Runner!WritesSucceed, Runner!Return,
             Runner!input, Status, Queue, Label, Outcome, Workflow
      <3> QED
        BY <3>3
    <2> QED
      BY <2>1, <2>2, <2>3
  <1>5. CASE PlaceLayer /\ phase' # "layer"
    <2>1. /\ phase = "layer" /\ phase' = "done" /\ UNCHANGED <<deps, layers>>
          /\ \A n \in Steps : inDegree[n] # 0
      BY <1>5 DEF PlaceLayer
    <2>2. DagTypes /\ OrderedInv /\ WaitsInv /\ FilledInv /\ Acyclic
      BY <2>1 DEF DagInv, LayerInv
    <2>3. Executed = Runner!Resolved
      BY <2>1, <2>2, OrderOfLayers DEF FilledInv
    <2>4. Executed' = Executed
      BY <2>1 DEF Executed
    <2>5. ~Runner!Cyclic
      BY <2>2, RunnerTerms DEF Acyclic, Runner!Cyclic
    <2>6. /\ Status' = "running" /\ Queue' = Runner!Resolved /\ Label' = "next"
          /\ Outcome' = "none" /\ Outcome = "none" /\ Label = "create"
      BY <2>1, <2>3, <2>4 DEF Status, Queue, Label, Outcome
    <2>7. Workflow(deps)' = Workflow(deps)
      BY <2>1 DEF Workflow
    <2>8. Runner!CreateRun
      BY <2>5, <2>6, <2>7 DEF Runner!CreateRun, Runner!WritesSucceed, Runner!Return, Runner!input
    <2> QED
      BY <2>8
  <1>6. PlaceLayer => phase' = "layer" \/ phase' # "layer"
    OBVIOUS
  <1> QED
    BY <1>2, <1>3, <1>4, <1>5, <1>6 DEF DagNext

\* dag.Resolve does what the run of a pipeline says of it, for every finite graph
\* and every order of the file, IDs that are there twice with different lists
\* included: a run that is created executes its steps layer by layer, each after
\* all that its nodes list, and returns an error when the last lists have a cycle.
THEOREM ResolutionCreatesRun == DagSpec => ImplementsCreateRun
  <1>1. DagInit => Runner!Init
    BY DagAssumption DEF DagInit, Runner!Init, Workflow, Workflows, Status, Queue, Label, Outcome
  <1>2. DagInv /\ [DagNext]_dagVars => [Runner!CreateRun]_(Runner!vars)
    BY ResolutionStep
  <1> QED
    BY <1>1, <1>2, DagInvariance, PTL DEF DagSpec, ImplementsCreateRun

-----------------------------------------------------------------------------
(* The ops of a transform.                                                 *)

\* What the field of an item may be: nothing, a number or a text.
Atom == {Nil} \cup {Num(n, t) : n \in Int, t \in Range(Texts)} \cup {Text(t) : t \in Range(Texts)}

\* V is a set of values: of atoms, of arrays of values, all of them, and of
\* objects of values whose field "f" is an atom.
Value(v, V) ==
  \/ v \in Atom
  \/ v.kind = "list" /\ v.items \in Seq(V)
  \/ /\ v.kind = "obj"
     /\ \A k \in DOMAIN v.fields : v.fields[k] \in V
     /\ "f" \in DOMAIN v.fields => v.fields["f"] \in Atom

Values(V) ==
  /\ Nil \in V
  /\ \A v \in V : Value(v, V)
  /\ \A s \in Seq(V) : List(s) \in V

\* What the concatenation of two sequences is.
LEMMA JoinedSeq ==
  ASSUME NEW V, NEW s \in Seq(V), NEW t \in Seq(V)
  PROVE  /\ s \o t \in Seq(V)
         /\ Len(s \o t) = Len(s) + Len(t)
         /\ \A i \in 1..Len(s) : (s \o t)[i] = s[i]
         /\ \A i \in 1..Len(t) : (s \o t)[Len(s) + i] = t[i]
  OBVIOUS

\* An item is put where InsertAt says, and what was there moves right.
LEMMA InsertedAt ==
  ASSUME NEW V, NEW s \in Seq(V), NEW x \in V, NEW at \in 1..(Len(s) + 1)
  PROVE  /\ InsertAt(s, at, x) \in Seq(V)
         /\ Len(InsertAt(s, at, x)) = Len(s) + 1
         /\ \A j \in 1..(at - 1) : InsertAt(s, at, x)[j] = s[j]
         /\ InsertAt(s, at, x)[at] = x
         /\ \A j \in at..Len(s) : InsertAt(s, at, x)[j + 1] = s[j]
  <1>1. PICK L \in Nat : L = Len(s)
    OBVIOUS
  <1>2. at \in Int /\ 1 <= at /\ at <= L + 1
    BY <1>1
  <1> DEFINE u == SubSeq(s, 1, at - 1)
             w == SubSeq(s, at, L)
             y == <<x>>
  <1>3. /\ u \in Seq(V) /\ Len(u) = at - 1
        /\ \A j \in 1..(at - 1) : u[j] = s[j]
    BY <1>1, <1>2
  <1>4. /\ w \in Seq(V) /\ Len(w) = L + 1 - at
        /\ \A j \in 1..(L + 1 - at) : w[j] = s[at + j - 1]
    BY <1>1, <1>2
  <1>5. y \in Seq(V) /\ Len(y) = 1 /\ y[1] = x
    OBVIOUS
  <1> HIDE DEF u, w, y
  <1> DEFINE uy == u \o y
  <1>6. uy \in Seq(V) /\ Len(uy) = at
    <2>1. uy \in Seq(V) /\ Len(uy) = Len(u) + Len(y)
      BY <1>3, <1>5, JoinedSeq
    <2> QED
      BY <1>2, <1>3, <1>5, <2>1
  <1>7. /\ \A j \in 1..Len(u) : uy[j] = u[j]
        /\ \A j \in 1..Len(y) : uy[Len(u) + j] = y[j]
    <2>1. u \in Seq(V) /\ y \in Seq(V)
      BY <1>3, <1>5
    <2> QED
      BY <2>1, JoinedSeq
  <1> HIDE DEF uy
  <1>8. \A j \in 1..(at - 1) : uy[j] = s[j]
    BY <1>3, <1>7
  <1>9. uy[at] = x
    <2>1. uy[Len(u) + 1] = y[1]
      BY <1>5, <1>7
    <2> QED
      BY <1>2, <1>3, <1>5, <2>1
  <1> DEFINE v == uy \o w
  <1>10. /\ v \in Seq(V) /\ Len(v) = Len(uy) + Len(w)
         /\ \A j \in 1..Len(uy) : v[j] = uy[j]
         /\ \A j \in 1..Len(w) : v[Len(uy) + j] = w[j]
    <2>1. uy \in Seq(V) /\ w \in Seq(V)
      BY <1>4, <1>6
    <2> QED
      BY <2>1, JoinedSeq
  <1>11. InsertAt(s, at, x) = v
    BY <1>1 DEF InsertAt, u, w, y, uy
  <1> HIDE DEF v
  <1>12. Len(v) = Len(s) + 1
    BY <1>1, <1>2, <1>4, <1>6, <1>10
  <1>13. \A j \in 1..(at - 1) : v[j] = s[j]
    <2>1. \A j \in 1..(at - 1) : j \in 1..Len(uy)
      BY <1>2, <1>6
    <2> QED
      BY <1>8, <1>10, <2>1
  <1>14. v[at] = x
    <2>1. at \in 1..Len(uy)
      BY <1>2, <1>6
    <2> QED
      BY <1>9, <1>10, <2>1
  <1>15. ASSUME NEW j \in at..Len(s) PROVE v[j + 1] = s[j]
    <2>1. /\ (j + 1) - at \in 1..Len(w) /\ Len(uy) + ((j + 1) - at) = j + 1
          /\ at + ((j + 1) - at) - 1 = j
      BY <1>1, <1>2, <1>4, <1>6
    <2>2. v[j + 1] = w[(j + 1) - at]
      <3>1. v[Len(uy) + ((j + 1) - at)] = w[(j + 1) - at]
        BY <1>10, <2>1
      <3> QED
        BY <2>1, <3>1
    <2>3. w[(j + 1) - at] = s[at + ((j + 1) - at) - 1]
      BY <1>4, <2>1
    <2> QED
      BY <2>1, <2>2, <2>3
  <1> QED
    BY <1>10, <1>11, <1>12, <1>13, <1>14, <1>15

\* Insert stops at the first item from the right that the new one does not
\* precede.
LEMMA InsertStops ==
  ASSUME NEW V, NEW s \in Seq(V), NEW x \in V, NEW order
  PROVE  \E at \in 1..(Len(s) + 1) :
           /\ Insert(s, x, order) = InsertAt(s, at, x)
           /\ \A j \in at..Len(s) : Precedes(x, s[j], order)
           /\ at > 1 => ~Precedes(x, s[at - 1], order)
  <1>0. PICK L \in Nat : L = Len(s)
    OBVIOUS
  <1> DEFINE Stops(i) == /\ \A j \in i..L : Precedes(x, s[j], order)
                         /\ i > 1 => ~Precedes(x, s[i - 1], order)
             T == {i \in 1..(L + 1) : \A j \in i..L : Precedes(x, s[j], order)}
  <1>1. T \in SUBSET Nat /\ L + 1 \in T
    OBVIOUS
  <1>2. PICK i \in T : \A j \in T : i <= j
    <2> HIDE DEF T
    <2> QED
      BY <1>1, LeastNumber
  <1>3. Stops(i)
    <2>1. ASSUME i > 1, Precedes(x, s[i - 1], order) PROVE FALSE
      <3>1. \A j \in (i - 1)..L : j = i - 1 \/ j \in i..L
        OBVIOUS
      <3>2. \A j \in (i - 1)..L : Precedes(x, s[j], order)
        BY <2>1, <3>1
      <3>3. i - 1 \in T
        BY <2>1, <3>2
      <3> QED
        BY <1>2, <3>3
    <2> QED
      BY <2>1
  <1>4. i \in 1..(L + 1)
    OBVIOUS
  <1> HIDE DEF T
  <1> DEFINE at == CHOOSE i2 \in 1..(L + 1) : Stops(i2)
  <1>5. at \in 1..(L + 1) /\ Stops(at)
    <2> HIDE DEF Stops
    <2> QED
      BY <1>3, <1>4
  <1>6. Insert(s, x, order) = InsertAt(s, at, x)
    BY <1>0 DEF Insert
  <1> HIDE DEF at
  <1> QED
    BY <1>0, <1>5, <1>6

\* What the loop of Sort has done after i items.
Sorts(f, s, order) ==
  /\ f[0] = <<>>
  /\ \A i \in 1..Len(s) : f[i] = Insert(f[i - 1], s[i], order)
  /\ Sort(s, order) = f[Len(s)]

\* Insert gives a sequence of the same values.
LEMMA InsertType ==
  ASSUME NEW V, NEW s \in Seq(V), NEW x \in V, NEW order
  PROVE  Insert(s, x, order) \in Seq(V)
  <1>1. PICK at \in 1..(Len(s) + 1) : Insert(s, x, order) = InsertAt(s, at, x)
    BY InsertStops
  <1> QED
    BY <1>1, InsertedAt

\* The recursion of Sort has a value.
LEMMA SortLoop ==
  ASSUME NEW V, NEW s \in Seq(V), NEW order
  PROVE  \E f : Sorts(f, s, order) /\ \A i \in 0..Len(s) : f[i] \in Seq(V)
  <1>0. PICK L \in Nat : L = Len(s) /\ \A i \in 1..L : s[i] \in V
    <2>1. Len(s) \in Nat /\ \A i \in 1..Len(s) : s[i] \in V
      OBVIOUS
    <2> QED
      BY <2>1
  <1> DEFINE d == [p \in Seq(V) \X Nat |->
                     IF p[2] \in 1..L THEN Insert(p[1], s[p[2]], order) ELSE p[1]]
             Turn(f, i) == f[i] = Insert(f[i - 1], s[i], order)
             Loop(f) == f = [i \in 0..L |->
                               IF i = 0 THEN <<>> ELSE Insert(f[i - 1], s[i], order)]
  <1>1. d \in [Seq(V) \X Nat -> Seq(V)]
    BY <1>0, InsertType
  <1>2. PICK g \in [0..L -> Seq(V)] : Recurses(g, <<>>, d, L)
    <2>1. <<>> \in Seq(V)
      OBVIOUS
    <2> HIDE DEF d
    <2>2. \A n \in Nat : \E g \in [0..n -> Seq(V)] : Recurses(g, <<>>, d, n)
      BY <1>1, <2>1, RecursionExists
    <2> QED
      BY <2>2
  <1>3. ASSUME NEW i \in 1..L PROVE Turn(g, i)
    <2>1. g[i] = d[<<g[i - 1], i>>]
      <3> HIDE DEF d
      <3> QED
        BY <1>2 DEF Recurses
    <2>2. g[i - 1] \in Seq(V) /\ i \in Nat
      OBVIOUS
    <2>3. d[<<g[i - 1], i>>] = Insert(g[i - 1], s[i], order)
      BY <2>2
    <2> QED
      BY <2>1, <2>3
  <1>4. g[0] = <<>>
    <2> HIDE DEF d
    <2> QED
      BY <1>2 DEF Recurses
  <1> HIDE DEF d
  <1>5. Loop(g)
    <2> DEFINE h == [i \in 0..L |-> IF i = 0 THEN <<>> ELSE Insert(g[i - 1], s[i], order)]
    <2>1. ASSUME NEW i \in 0..L PROVE g[i] = h[i]
      <3>1. i = 0 \/ i \in 1..L
        OBVIOUS
      <3> QED
        BY <1>3, <1>4, <3>1
    <2>2. g = h
      BY <2>1
    <2> QED
      BY <2>2
  <1> DEFINE f == CHOOSE f : Loop(f)
  <1>6. Loop(f)
    <2> HIDE DEF Loop
    <2> QED
      BY <1>5
  <1>7. Sort(s, order) = f[L]
    BY <1>0 DEF Sort
  <1> HIDE DEF f
  <1>8. f[0] = <<>> /\ \A i \in 1..L : Turn(f, i)
    <2>1. f[0] = <<>>
      BY <1>6
    <2>2. ASSUME NEW i \in 1..L PROVE Turn(f, i)
      <3>1. i \in 0..L /\ i # 0
        OBVIOUS
      <3> QED
        BY <1>6, <3>1
    <2> QED
      BY <2>1, <2>2
  <1>9. \A i \in 0..L : f[i] \in Seq(V)
    <2> DEFINE S == {i \in 0..L : f[i] \in Seq(V)}
    <2>1. 0 \in S
      <3>1. <<>> \in Seq(V) /\ 0 \in 0..L
        OBVIOUS
      <3> QED
        BY <1>8, <3>1
    <2>2. ASSUME NEW i \in 1..L, i - 1 \in S PROVE i \in S
      <3>1. i \in 0..L /\ f[i - 1] \in Seq(V) /\ s[i] \in V
        BY <1>0, <2>2
      <3>2. f[i] \in Seq(V)
        BY <1>8, <3>1, InsertType
      <3> QED
        BY <3>1, <3>2
    <2> HIDE DEF S
    <2>3. \A i \in 0..L : i \in S
      BY <2>1, <2>2, InductionUpTo
    <2> QED
      BY <2>3 DEF S
  <1> QED
    BY <1>0, <1>7, <1>8, <1>9 DEF Sorts

\* The field of a value by which items are sorted is an atom.
LEMMA FieldIsAtom ==
  ASSUME NEW V, Values(V), NEW v \in V
  PROVE  Field(v, "f") \in Atom
  BY DEF Values, Value, Field, Atom, Nil, Num, Text

\* The place of a text among the texts.
LEMMA RankType == \A t \in Range(Texts) : Rank(t) \in Nat
  BY TransformsAssumption DEF Rank, Range

\* The kinds of atoms.
LEMMA AtomKinds ==
  ASSUME NEW v \in Atom
  PROVE  /\ v.kind \in {"nil", "num", "text"}
         /\ v.kind = "num" => v.n \in Int
         /\ v.kind = "text" => Rank(v.text) \in Nat
         /\ v.text \in Range(Texts)
  BY RankType, TransformsAssumption DEF Atom, Nil, Num, Text

\* Where an item is put is a pair of numbers.
LEMMA PlaceType ==
  ASSUME NEW V, Values(V), NEW v \in V
  PROVE  Place(v) \in (0..2) \X Int
  BY FieldIsAtom, AtomKinds DEF Place

\* compareValues agrees with the places, of numbers alone or texts alone.
LEMMA LessIsBefore ==
  ASSUME NEW V, Values(V), NEW v \in V, NEW w \in V,
         {Field(v, "f").kind, Field(w, "f").kind} # {"num", "text"}
  PROVE  Less(Field(v, "f"), Field(w, "f")) <=> Before(Place(v), Place(w))
  <1> DEFINE a == Field(v, "f")
             b == Field(w, "f")
  <1>1. a \in Atom /\ b \in Atom
    BY FieldIsAtom
  <1>2. /\ a.kind \in {"nil", "num", "text"} /\ b.kind \in {"nil", "num", "text"}
        /\ {a.kind, b.kind} # {"num", "text"}
    BY <1>1, AtomKinds
  <1>3. /\ a.kind = "num" => a.n \in Int
        /\ b.kind = "num" => b.n \in Int
        /\ a.kind = "text" => Rank(a.text) \in Nat
        /\ b.kind = "text" => Rank(b.text) \in Nat
    BY <1>1, AtomKinds
  <1> DEFINE P(f) == IF f.kind = "num" THEN <<0, f.n>>
                     ELSE IF f.kind = "nil" THEN <<2, 0>> ELSE <<1, Rank(f.text)>>
  <1>4. Place(v) = P(a) /\ Place(w) = P(b)
    BY <1>2 DEF Place
  <1> HIDE DEF a, b
  <1>5. Less(a, b) <=> Before(P(a), P(b))
    <2>1. CASE a.kind = "nil"
      BY <1>2, <1>3, <2>1 DEF Less, Before
    <2>2. CASE b.kind = "nil"
      BY <1>2, <1>3, <2>2 DEF Less, Before
    <2>3. CASE a.kind = "num" /\ b.kind = "num"
      BY <1>2, <1>3, <2>3 DEF Less, Before
    <2>4. CASE a.kind = "text" /\ b.kind = "text"
      BY <1>2, <1>3, <2>4 DEF Less, Before
    <2> QED
      BY <1>2, <2>1, <2>2, <2>3, <2>4
  <1> QED
    BY <1>4, <1>5 DEF a, b

\* The order that a sort gives to the items at i and j of s: by place, and of one
\* place by where they were, or all of it the other way round.
Goes(s, order, i, j) ==
  LET asc(k, l) == \/ Before(Place(s[k]), Place(s[l]))
                   \/ Place(s[k]) = Place(s[l]) /\ k < l
  IN IF order = "desc" THEN asc(j, i) ELSE asc(i, j)

\* It is a strict order of the items, and Precedes tells it for an item that
\* stands further right.
LEMMA GoesIsOrder ==
  ASSUME NEW V, Values(V), NEW s \in Seq(V), Ordered(s), NEW order \in {"asc", "desc"}
  PROVE  /\ \A i, j, k \in 1..Len(s) :
              Goes(s, order, i, j) /\ Goes(s, order, j, k) => Goes(s, order, i, k)
         /\ \A i \in 1..Len(s) : ~Goes(s, order, i, i)
         /\ \A i, j \in 1..Len(s) : i # j => Goes(s, order, i, j) \/ Goes(s, order, j, i)
         /\ \A i, j \in 1..Len(s) :
              j < i => (Precedes(s[i], s[j], order) <=> Goes(s, order, i, j))
  <1>0. PICK L \in Nat : L = Len(s) /\ DOMAIN s = 1..L /\ \A i \in 1..L : s[i] \in V
    <2>1. Len(s) \in Nat /\ DOMAIN s = 1..Len(s) /\ \A i \in 1..Len(s) : s[i] \in V
      OBVIOUS
    <2> QED
      BY <2>1
  <1> DEFINE place == [i \in 1..L |-> Place(s[i])]
  <1>1. \A i \in 1..L : place[i] = Place(s[i]) /\ place[i][1] \in Int /\ place[i][2] \in Int
    <2> TAKE i \in 1..L
    <2>1. Place(s[i]) \in (0..2) \X Int
      BY <1>0, PlaceType
    <2> QED
      BY <2>1
  <1>2. \A i, j \in 1..L : place[i] = place[j] <=> /\ place[i][1] = place[j][1]
                                                   /\ place[i][2] = place[j][2]
    <2> TAKE i, j \in 1..L
    <2>1. Place(s[i]) \in (0..2) \X Int /\ Place(s[j]) \in (0..2) \X Int
      BY <1>0, PlaceType
    <2> QED
      BY <2>1
  <1> HIDE DEF place
  <1> DEFINE Sooner(i, j) ==
               \/ place[i][1] < place[j][1]
               \/ place[i][1] = place[j][1] /\ place[i][2] < place[j][2]
               \/ place[i][1] = place[j][1] /\ place[i][2] = place[j][2] /\ i < j
  <1>3. ASSUME NEW i \in 1..L, NEW j \in 1..L
        PROVE  Goes(s, order, i, j) <=> IF order = "desc" THEN Sooner(j, i) ELSE Sooner(i, j)
    <2>1. place[i] = Place(s[i]) /\ place[j] = Place(s[j])
      BY <1>1
    <2>2. place[i] = place[j] <=> place[i][1] = place[j][1] /\ place[i][2] = place[j][2]
      BY <1>2
    <2>3. place[j] = place[i] <=> place[j][1] = place[i][1] /\ place[j][2] = place[i][2]
      BY <1>2
    <2> QED
      BY <2>1, <2>2, <2>3 DEF Goes, Before
  <1>8. \A i, j, k \in 1..L : Sooner(i, j) /\ Sooner(j, k) => Sooner(i, k)
    <2> TAKE i, j, k \in 1..L
    <2> DEFINE a1 == place[i][1]  b1 == place[j][1]  c1 == place[k][1]
               a2 == place[i][2]  b2 == place[j][2]  c2 == place[k][2]
    <2>1. /\ a1 \in Int /\ b1 \in Int /\ c1 \in Int
          /\ a2 \in Int /\ b2 \in Int /\ c2 \in Int
      BY <1>1
    <2> HIDE DEF a1, b1, c1, a2, b2, c2
    <2>2. (a1 < b1 \/ (a1 = b1 /\ a2 < b2) \/ (a1 = b1 /\ a2 = b2 /\ i < j))
            /\ (b1 < c1 \/ (b1 = c1 /\ b2 < c2) \/ (b1 = c1 /\ b2 = c2 /\ j < k))
            => (a1 < c1 \/ (a1 = c1 /\ a2 < c2) \/ (a1 = c1 /\ a2 = c2 /\ i < k))
      BY <2>1
    <2> QED
      BY <2>2 DEF a1, b1, c1, a2, b2, c2
  <1>9. \A i \in 1..L : ~Sooner(i, i)
    BY <1>1
  <1>10. \A i, j \in 1..L : i # j => Sooner(i, j) \/ Sooner(j, i)
    <2> TAKE i, j \in 1..L
    <2> DEFINE a1 == place[i][1]  b1 == place[j][1]
               a2 == place[i][2]  b2 == place[j][2]
    <2>1. a1 \in Int /\ b1 \in Int /\ a2 \in Int /\ b2 \in Int
      BY <1>1
    <2> HIDE DEF a1, b1, a2, b2
    <2>2. i # j => \/ a1 < b1 \/ (a1 = b1 /\ a2 < b2) \/ (a1 = b1 /\ a2 = b2 /\ i < j)
                   \/ b1 < a1 \/ (b1 = a1 /\ b2 < a2) \/ (b1 = a1 /\ b2 = a2 /\ j < i)
      BY <2>1
    <2> QED
      BY <2>2 DEF a1, b1, a2, b2
  <1> HIDE DEF Sooner
  <1>4. \A i, j, k \in 1..L :
          Goes(s, order, i, j) /\ Goes(s, order, j, k) => Goes(s, order, i, k)
    BY <1>3, <1>8
  <1>5. \A i \in 1..L : ~Goes(s, order, i, i)
    BY <1>3, <1>9
  <1>6. \A i, j \in 1..L : i # j => Goes(s, order, i, j) \/ Goes(s, order, j, i)
    BY <1>3, <1>10
  <1>7. ASSUME NEW i \in 1..L, NEW j \in 1..L, j < i
        PROVE  Precedes(s[i], s[j], order) <=> Goes(s, order, i, j)
    <2>1. Less(Field(s[i], "f"), Field(s[j], "f")) <=> Before(Place(s[i]), Place(s[j]))
      <3>1. {Field(s[i], "f").kind, Field(s[j], "f").kind} # {"num", "text"}
        BY <1>0 DEF Ordered
      <3> QED
        BY <1>0, <3>1, LessIsBefore
    <2>2. Before(Place(s[i]), Place(s[j])) <=>
            \/ place[i][1] < place[j][1]
            \/ place[i][1] = place[j][1] /\ place[i][2] < place[j][2]
      BY <1>1 DEF Before
    <2>3. Sooner(i, j) <=> Before(Place(s[i]), Place(s[j]))
      <3>1. /\ place[i][1] \in Int /\ place[i][2] \in Int
            /\ place[j][1] \in Int /\ place[j][2] \in Int
        BY <1>1
      <3> QED
        BY <1>7, <2>2, <3>1 DEF Sooner
    <2>4. Sooner(j, i) <=> ~Sooner(i, j)
      <3>1. Sooner(i, j) \/ Sooner(j, i)
        BY <1>7, <1>10
      <3> QED
        BY <1>8, <1>9, <3>1
    <2>5. Precedes(s[i], s[j], order) <=>
            IF order = "desc" THEN ~Before(Place(s[i]), Place(s[j]))
                              ELSE Before(Place(s[i]), Place(s[j]))
      BY <2>1 DEF Precedes
    <2> QED
      BY <1>3, <2>3, <2>4, <2>5
  <1> QED
    BY <1>0, <1>4, <1>5, <1>6, <1>7

\* p says where each of the k items of t was in s: all of the first k are there,
\* each once, in the order that Goes gives.
Arranges(p, t, s, order, k) ==
  /\ p \in [1..k -> 1..k]
  /\ Len(t) = k
  /\ \A i \in 1..k : t[i] = s[p[i]]
  /\ \A i, j \in 1..k : i < j => Goes(s, order, p[i], p[j])
  /\ \A m \in 1..k : \E i \in 1..k : p[i] = m

\* One more item, inserted, keeps the first items arranged.
LEMMA InsertArranges ==
  ASSUME NEW V, Values(V), NEW s \in Seq(V), Ordered(s), NEW order \in {"asc", "desc"},
         NEW k \in 1..Len(s), NEW t \in Seq(V), NEW p, Arranges(p, t, s, order, k - 1)
  PROVE  \E q : Arranges(q, Insert(t, s[k], order), s, order, k)
  <1>0. PICK L \in Nat : L = Len(s) /\ \A i \in 1..L : s[i] \in V
    <2>1. Len(s) \in Nat /\ \A i \in 1..Len(s) : s[i] \in V
      OBVIOUS
    <2> QED
      BY <2>1
  <1>1. k \in Nat /\ k - 1 \in Nat /\ k <= L /\ s[k] \in V /\ k \in 1..L
    BY <1>0
  <1>2. /\ p \in [1..(k - 1) -> 1..(k - 1)] /\ Len(t) = k - 1
        /\ \A i \in 1..(k - 1) : t[i] = s[p[i]]
        /\ \A i, j \in 1..(k - 1) : i < j => Goes(s, order, p[i], p[j])
        /\ \A m \in 1..(k - 1) : \E i \in 1..(k - 1) : p[i] = m
    BY DEF Arranges
  <1>3. PICK at \in 1..k :
          /\ Insert(t, s[k], order) = InsertAt(t, at, s[k])
          /\ \A j \in at..(k - 1) : Precedes(s[k], t[j], order)
          /\ at > 1 => ~Precedes(s[k], t[at - 1], order)
    <2>1. Len(t) + 1 = k /\ Len(t) = k - 1
      BY <1>1, <1>2
    <2>2. \E at \in 1..(Len(t) + 1) :
            /\ Insert(t, s[k], order) = InsertAt(t, at, s[k])
            /\ \A j \in at..Len(t) : Precedes(s[k], t[j], order)
            /\ at > 1 => ~Precedes(s[k], t[at - 1], order)
      BY <1>1, InsertStops
    <2> QED
      BY <2>1, <2>2
  <1> DEFINE u == InsertAt(t, at, s[k])
             q == [i \in 1..k |-> IF i < at THEN p[i] ELSE IF i = at THEN k ELSE p[i - 1]]
  <1>4. /\ Len(u) = k
        /\ \A j \in 1..(at - 1) : u[j] = t[j]
        /\ u[at] = s[k]
        /\ \A j \in at..(k - 1) : u[j + 1] = t[j]
    <2>1. at \in 1..((k - 1) + 1) /\ (k - 1) + 1 = k
      BY <1>1
    <2>2. k - 1 \in Nat /\ k - 1 = Len(t) /\ s[k] \in V
      BY <1>1, <1>2
    <2> HIDE DEF u
    <2>3. at \in 1..(Len(t) + 1)
      BY <2>1, <2>2
    <2>4. /\ Len(u) = Len(t) + 1
          /\ \A j \in 1..(at - 1) : u[j] = t[j]
          /\ u[at] = s[k]
          /\ \A j \in at..Len(t) : u[j + 1] = t[j]
      <3> DEFINE x == s[k]
      <3>1. x \in V
        BY <2>2
      <3> HIDE DEF x
      <3>2. /\ Len(InsertAt(t, at, x)) = Len(t) + 1
            /\ \A j \in 1..(at - 1) : InsertAt(t, at, x)[j] = t[j]
            /\ InsertAt(t, at, x)[at] = x
            /\ \A j \in at..Len(t) : InsertAt(t, at, x)[j + 1] = t[j]
        BY <2>3, <3>1, InsertedAt, SMTT(30)
      <3> QED
        BY <3>2 DEF u, x
    <2>5. Len(u) = k
      BY <1>1, <1>2, <2>4
    <2>6. \A j \in at..(k - 1) : u[j + 1] = t[j]
      BY <2>2, <2>4
    <2> QED
      BY <2>4, <2>5, <2>6
  <1> HIDE DEF u
  <1>5. \A i \in 1..k : \/ i < at /\ i \in 1..(k - 1) /\ q[i] = p[i]
                        \/ i = at /\ q[i] = k
                        \/ i > at /\ i - 1 \in 1..(k - 1) /\ q[i] = p[i - 1]
    BY <1>1
  <1>6. \A i \in 1..(k - 1) : p[i] \in 1..(k - 1) /\ p[i] < k /\ p[i] \in 1..L
    <2> TAKE i \in 1..(k - 1)
    <2>1. p[i] \in 1..(k - 1)
      BY <1>2
    <2> QED
      BY <1>1, <2>1
  <1>7. q \in [1..k -> 1..k]
    <2>1. \A i \in 1..k : q[i] \in 1..k
      <3> TAKE i \in 1..k
      <3> HIDE DEF q
      <3>1. k \in 1..k /\ \A m \in 1..(k - 1) : m \in 1..k
        BY <1>1
      <3> QED
        BY <1>5, <1>6, <3>1
    <2> QED
      BY <2>1
  <1> HIDE DEF q
  <1>8. \A i \in 1..k : u[i] = s[q[i]]
    <2> TAKE i \in 1..k
    <2>1. CASE i < at
      <3>1. i \in 1..(k - 1) /\ q[i] = p[i]
        BY <1>5, <2>1
      <3>2. u[i] = t[i]
        <4>1. i \in 1..(at - 1)
          BY <2>1
        <4> QED
          BY <1>4, <4>1
      <3> QED
        BY <1>2, <3>1, <3>2
    <2>2. CASE i = at
      BY <1>4, <1>5, <2>2
    <2>3. CASE i > at
      <3>1. i - 1 \in 1..(k - 1) /\ q[i] = p[i - 1]
        BY <1>5, <2>3
      <3>2. u[i] = t[i - 1]
        <4>1. i - 1 \in at..(k - 1) /\ (i - 1) + 1 = i
          BY <1>1, <2>3
        <4> QED
          BY <1>4, <4>1
      <3> QED
        BY <1>2, <3>1, <3>2
    <2> QED
      BY <2>1, <2>2, <2>3
  <1>9. \A m \in 1..k : \E i \in 1..k : q[i] = m
    <2> TAKE m \in 1..k
    <2>1. CASE m = k
      <3>1. at \in 1..k /\ q[at] = k
        BY <1>5
      <3> QED
        BY <2>1, <3>1
    <2>2. CASE m # k
      <3>1. m \in 1..(k - 1)
        BY <1>1, <2>2
      <3>2. PICK i \in 1..(k - 1) : p[i] = m
        BY <1>2, <3>1
      <3>3. /\ i \in 1..k /\ i + 1 \in 1..k /\ (i + 1) - 1 = i
            /\ i < at \/ i + 1 > at
        BY <1>1
      <3>4. q[i] = m \/ q[i + 1] = m
        <4>1. CASE i < at
          BY <1>5, <3>2, <3>3, <4>1
        <4>2. CASE i + 1 > at
          <5>1. i + 1 \in 1..k /\ ~(i + 1 < at) /\ i + 1 # at
            BY <3>3, <4>2
          <5>2. q[i + 1] = p[(i + 1) - 1]
            BY <1>5, <5>1
          <5> QED
            BY <3>2, <3>3, <5>2
        <4> QED
          BY <3>3, <4>1, <4>2
      <3> QED
        BY <3>3, <3>4
    <2> QED
      BY <2>1, <2>2
  <1>10. /\ \A i, j, l \in 1..L :
              Goes(s, order, i, j) /\ Goes(s, order, j, l) => Goes(s, order, i, l)
         /\ \A i, j \in 1..L : i # j => Goes(s, order, i, j) \/ Goes(s, order, j, i)
         /\ \A i, j \in 1..L : j < i => (Precedes(s[i], s[j], order) <=> Goes(s, order, i, j))
    <2>1. /\ \A i, j, l \in 1..Len(s) :
               Goes(s, order, i, j) /\ Goes(s, order, j, l) => Goes(s, order, i, l)
          /\ \A i, j \in 1..Len(s) : i # j => Goes(s, order, i, j) \/ Goes(s, order, j, i)
          /\ \A i, j \in 1..Len(s) :
               j < i => (Precedes(s[i], s[j], order) <=> Goes(s, order, i, j))
      BY GoesIsOrder
    <2> QED
      BY <1>0, <2>1
  <1>11. \A j \in at..(k - 1) : Goes(s, order, k, p[j])
    <2> TAKE j \in at..(k - 1)
    <2>1. j \in 1..(k - 1)
      BY <1>1
    <2>2. Precedes(s[k], s[p[j]], order)
      BY <1>2, <1>3, <2>1
    <2> QED
      BY <1>1, <1>6, <1>10, <2>1, <2>2
  <1>12. \A i \in 1..(at - 1) : Goes(s, order, p[i], k)
    <2> TAKE i \in 1..(at - 1)
    <2>1. at > 1 /\ at - 1 \in 1..(k - 1) /\ i \in 1..(k - 1) /\ (i = at - 1 \/ i < at - 1)
      BY <1>1
    <2>2. ~Precedes(s[k], s[p[at - 1]], order)
      BY <1>2, <1>3, <2>1
    <2>3. p[at - 1] \in 1..L /\ p[at - 1] < k
      BY <1>6, <2>1
    <2>4. ~Goes(s, order, k, p[at - 1])
      BY <1>1, <1>10, <2>2, <2>3
    <2>5. p[at - 1] # k
      BY <1>1, <2>3
    <2>6. Goes(s, order, p[at - 1], k)
      BY <1>1, <1>10, <2>3, <2>4, <2>5
    <2>7. CASE i < at - 1
      <3>1. Goes(s, order, p[i], p[at - 1])
        BY <1>2, <2>1, <2>7
      <3> QED
        BY <1>1, <1>6, <1>10, <2>1, <2>3, <2>6, <3>1
    <2> QED
      BY <2>1, <2>6, <2>7
  <1>13. \A i, j \in 1..k : i < j => Goes(s, order, q[i], q[j])
    <2> TAKE i, j \in 1..k
    <2> HAVE i < j
    <2>1. CASE j < at
      <3>1. /\ i \in 1..(k - 1) /\ q[i] = p[i] /\ j \in 1..(k - 1) /\ q[j] = p[j]
        BY <1>5, <2>1
      <3> QED
        BY <1>2, <3>1
    <2>2. CASE j = at
      <3>1. i \in 1..(at - 1) /\ q[i] = p[i] /\ q[j] = k
        BY <1>5, <2>2
      <3> QED
        BY <1>12, <3>1
    <2>3. CASE j > at /\ i < at
      <3>1. /\ i \in 1..(k - 1) /\ q[i] = p[i] /\ j - 1 \in 1..(k - 1) /\ q[j] = p[j - 1]
            /\ i < j - 1
        BY <1>5, <2>3
      <3> QED
        BY <1>2, <3>1
    <2>4. CASE j > at /\ i = at
      <3>1. q[i] = k /\ j - 1 \in at..(k - 1) /\ q[j] = p[j - 1]
        BY <1>1, <1>5, <2>4
      <3> QED
        BY <1>11, <3>1
    <2>5. CASE j > at /\ i > at
      <3>1. /\ i - 1 \in 1..(k - 1) /\ q[i] = p[i - 1] /\ j - 1 \in 1..(k - 1)
            /\ q[j] = p[j - 1] /\ i - 1 < j - 1
        BY <1>5, <2>5
      <3> QED
        BY <1>2, <3>1
    <2> QED
      BY <2>1, <2>2, <2>3, <2>4, <2>5
  <1>14. Arranges(q, u, s, order, k)
    BY <1>4, <1>7, <1>8, <1>9, <1>13 DEF Arranges
  <1> QED
    BY <1>3, <1>14 DEF u

\* Sort arranges all of its items.
LEMMA SortArranges ==
  ASSUME NEW V, Values(V), NEW s \in Seq(V), Ordered(s), NEW order \in {"asc", "desc"}
  PROVE  /\ Sort(s, order) \in Seq(V)
         /\ \E p : Arranges(p, Sort(s, order), s, order, Len(s))
  <1>0. PICK L \in Nat : L = Len(s)
    OBVIOUS
  <1>1. PICK f : Sorts(f, s, order) /\ \A i \in 0..L : f[i] \in Seq(V)
    BY <1>0, SortLoop
  <1>2. /\ f[0] = <<>> /\ Sort(s, order) = f[L]
        /\ \A i \in 1..L : f[i] = Insert(f[i - 1], s[i], order)
    BY <1>0, <1>1 DEF Sorts
  <1> DEFINE S == {k \in 0..L : \E p : Arranges(p, f[k], s, order, k)}
  <1>3. 0 \in S
    <2>1. Arranges([i \in 1..0 |-> i], <<>>, s, order, 0)
      BY DEF Arranges
    <2> QED
      BY <1>2, <2>1
  <1>4. ASSUME NEW k \in 1..L, k - 1 \in S PROVE k \in S
    <2>1. k \in 0..L /\ f[k - 1] \in Seq(V) /\ k \in 1..Len(s)
      BY <1>0, <1>1
    <2>2. PICK p : Arranges(p, f[k - 1], s, order, k - 1)
      BY <1>4
    <2>3. PICK q : Arranges(q, Insert(f[k - 1], s[k], order), s, order, k)
      BY <2>1, <2>2, InsertArranges
    <2> QED
      BY <1>2, <2>1, <2>3
  <1>5. L \in S
    <2> HIDE DEF S
    <2>1. \A k \in 0..L : k \in S
      BY <1>3, <1>4, InductionUpTo
    <2> QED
      BY <2>1
  <1> QED
    BY <1>0, <1>1, <1>2, <1>5

\* An ascending sort is stable, and a descending one is the reverse of one that
\* is, for items of any number.
LEMMA SortIsStable ==
  ASSUME NEW V, Values(V), NEW s \in Seq(V), Ordered(s), NEW order \in {"asc", "desc"}
  PROVE  StablySorted(IF order = "asc" THEN Sort(s, order) ELSE Reverse(Sort(s, order)), s)
  <1>0. PICK L \in Nat : L = Len(s) /\ DOMAIN s = 1..L
    OBVIOUS
  <1> DEFINE t == Sort(s, order)
  <1>1. t \in Seq(V) /\ Len(t) = L
    BY <1>0, SortArranges DEF Arranges
  <1>2. PICK p : Arranges(p, t, s, order, L)
    BY <1>0, SortArranges
  <1>3. /\ p \in [1..L -> 1..L]
        /\ \A i \in 1..L : t[i] = s[p[i]]
        /\ \A i, j \in 1..L : i < j => Goes(s, order, p[i], p[j])
        /\ \A m \in 1..L : \E i \in 1..L : p[i] = m
    BY <1>2 DEF Arranges
  <1>4. \A i \in 1..L : ~Goes(s, order, i, i)
    BY <1>0, GoesIsOrder
  <1> HIDE DEF t
  <1>5. \A i, j \in 1..L : p[i] = p[j] => i = j
    <2> TAKE i, j \in 1..L
    <2>1. i < j \/ j < i \/ i = j
      OBVIOUS
    <2>2. p[i] \in 1..L /\ p[j] \in 1..L
      BY <1>3
    <2> QED
      BY <1>3, <1>4, <2>1, <2>2
  <1>6. CASE order = "asc"
    <2>1. p \in Bijection(1..L, 1..L)
      BY <1>3, <1>5 DEF Bijection, Injection, Surjection, IsInjective
    <2>2. \A i, j \in 1..L : i < j => \/ Before(Place(t[i]), Place(t[j]))
                                      \/ Place(t[i]) = Place(t[j]) /\ p[i] < p[j]
      <3> TAKE i, j \in 1..L
      <3> HAVE i < j
      <3>1. Goes(s, order, p[i], p[j]) /\ t[i] = s[p[i]] /\ t[j] = s[p[j]]
        BY <1>3
      <3>2. \/ Before(Place(s[p[i]]), Place(s[p[j]]))
            \/ Place(s[p[i]]) = Place(s[p[j]]) /\ p[i] < p[j]
        BY <1>6, <3>1 DEF Goes
      <3> QED
        BY <3>1, <3>2
    <2>3. DOMAIN t = 1..L
      BY <1>1
    <2>4. StablySorted(t, s)
      BY <1>0, <1>1, <1>3, <2>1, <2>2, <2>3 DEF StablySorted
    <2> QED
      BY <1>6, <2>4 DEF t
  <1>7. CASE order = "desc"
    <2> DEFINE r == [i \in 1..L |-> p[(L - i) + 1]]
               w == Reverse(t)
    <2>0. \A i \in 1..L : (L - i) + 1 \in 1..L /\ (L - ((L - i) + 1)) + 1 = i
      OBVIOUS
    <2>1. Len(w) = L /\ DOMAIN w = 1..L /\ \A i \in 1..L : w[i] = t[(L - i) + 1]
      BY <1>1 DEF Reverse
    <2>2. r \in [1..L -> 1..L] /\ \A i \in 1..L : r[i] = p[(L - i) + 1]
      BY <1>3, <2>0
    <2> HIDE DEF r, w
    <2>3. r \in Bijection(1..L, 1..L)
      <3>1. \A i, j \in 1..L : r[i] = r[j] => i = j
        <4> TAKE i, j \in 1..L
        <4> HAVE r[i] = r[j]
        <4>1. (L - i) + 1 = (L - j) + 1
          BY <1>5, <2>0, <2>2
        <4> QED
          BY <4>1
      <3>2. \A m \in 1..L : \E i \in 1..L : r[i] = m
        <4> TAKE m \in 1..L
        <4>1. PICK i \in 1..L : p[i] = m
          BY <1>3
        <4>2. (L - i) + 1 \in 1..L /\ r[(L - i) + 1] = p[i]
          BY <2>0, <2>2
        <4> QED
          BY <4>1, <4>2
      <3> QED
        BY <2>2, <3>1, <3>2 DEF Bijection, Injection, Surjection, IsInjective
    <2>4. \A i \in 1..L : w[i] = s[r[i]]
      <3> TAKE i \in 1..L
      <3>1. (L - i) + 1 \in 1..L
        BY <2>0
      <3>2. w[i] = t[(L - i) + 1] /\ r[i] = p[(L - i) + 1]
        BY <2>1, <2>2
      <3> QED
        BY <1>3, <3>1, <3>2
    <2>5. \A i, j \in 1..L : i < j => \/ Before(Place(w[i]), Place(w[j]))
                                      \/ Place(w[i]) = Place(w[j]) /\ r[i] < r[j]
      <3> TAKE i, j \in 1..L
      <3> HAVE i < j
      <3>1. (L - j) + 1 < (L - i) + 1
        OBVIOUS
      <3>2. (L - j) + 1 \in 1..L /\ (L - i) + 1 \in 1..L
        BY <2>0
      <3>3. Goes(s, order, p[(L - j) + 1], p[(L - i) + 1])
        BY <1>3, <3>1, <3>2
      <3>4. Goes(s, order, r[j], r[i]) /\ w[i] = s[r[i]] /\ w[j] = s[r[j]]
        BY <2>2, <2>4, <3>3
      <3>5. \/ Before(Place(s[r[i]]), Place(s[r[j]]))
            \/ Place(s[r[i]]) = Place(s[r[j]]) /\ r[i] < r[j]
        BY <1>7, <3>4 DEF Goes
      <3> QED
        BY <3>4, <3>5
    <2>6. StablySorted(w, s)
      BY <1>0, <2>1, <2>3, <2>4, <2>5 DEF StablySorted
    <2> QED
      BY <1>7, <2>6 DEF t, w
  <1> QED
    BY <1>6, <1>7

\* What two orders agree on is the same: a stable sort has one result.
LEMMA StableSortIsUnique ==
  ASSUME NEW V, NEW t \in Seq(V), NEW s, NEW u, StablySorted(s, t), StablySorted(u, t),
         s \in Seq(V), u \in Seq(V), Values(V), Ordered(t)
  PROVE  s = u
  <1>0. PICK L \in Nat : L = Len(t) /\ DOMAIN t = 1..L
    OBVIOUS
  <1>1. Len(s) = L /\ DOMAIN s = 1..L /\ Len(u) = L /\ DOMAIN u = 1..L
    BY <1>0 DEF StablySorted
  <1>2. PICK p \in Bijection(1..L, 1..L) : \A i \in 1..L :
          /\ s[i] = t[p[i]]
          /\ \A j \in 1..L : i < j => \/ Before(Place(s[i]), Place(s[j]))
                                      \/ Place(s[i]) = Place(s[j]) /\ p[i] < p[j]
    BY <1>0, <1>1 DEF StablySorted
  <1>3. PICK q \in Bijection(1..L, 1..L) : \A i \in 1..L :
          /\ u[i] = t[q[i]]
          /\ \A j \in 1..L : i < j => \/ Before(Place(u[i]), Place(u[j]))
                                      \/ Place(u[i]) = Place(u[j]) /\ q[i] < q[j]
    BY <1>0, <1>1 DEF StablySorted
  <1>4. /\ p \in [1..L -> 1..L] /\ q \in [1..L -> 1..L]
        /\ \A i, j \in 1..L : p[i] = p[j] => i = j
        /\ \A i, j \in 1..L : q[i] = q[j] => i = j
        /\ \A m \in 1..L : \E i \in 1..L : p[i] = m
        /\ \A m \in 1..L : \E i \in 1..L : q[i] = m
    <2>1. ASSUME NEW g \in Bijection(1..L, 1..L)
          PROVE  /\ g \in [1..L -> 1..L]
                 /\ \A i, j \in 1..L : g[i] = g[j] => i = j
                 /\ \A m \in 1..L : \E i \in 1..L : g[i] = m
      BY DEF Bijection, Injection, Surjection, IsInjective
    <2> QED
      BY <2>1
  <1>5. /\ \A i, j \in 1..L : i < j => Goes(t, "asc", p[i], p[j])
        /\ \A i, j \in 1..L : i < j => Goes(t, "asc", q[i], q[j])
    BY <1>2, <1>3 DEF Goes
  <1>6. /\ \A i, j, k \in 1..L :
             Goes(t, "asc", i, j) /\ Goes(t, "asc", j, k) => Goes(t, "asc", i, k)
        /\ \A i \in 1..L : ~Goes(t, "asc", i, i)
    BY <1>0, GoesIsOrder
  <1> DEFINE T == {i \in 1..L : p[i] # q[i]}
  <1>7. T = {}
    <2> SUFFICES ASSUME T # {} PROVE FALSE
      OBVIOUS
    <2>1. PICK i \in T : \A j \in T : i <= j
      <3>1. T \in SUBSET Nat
        OBVIOUS
      <3> HIDE DEF T
      <3> QED
        BY <3>1, LeastNumber
    <2>2. i \in 1..L /\ p[i] # q[i] /\ \A j \in 1..L : j < i => p[j] = q[j]
      BY <2>1
    <2>3. p[i] \in 1..L /\ q[i] \in 1..L
      BY <1>4, <2>2
    <2>4. PICK j \in 1..L : q[j] = p[i]
      BY <1>4, <2>3
    <2>5. PICK k \in 1..L : p[k] = q[i]
      BY <1>4, <2>3
    <2>6. i < j
      <3>1. j # i
        BY <2>2, <2>4
      <3>2. j < i => p[j] = p[i]
        BY <2>2, <2>4
      <3>3. ~(j < i)
        BY <1>4, <2>2, <3>1, <3>2
      <3> QED
        BY <2>2, <3>1, <3>3
    <2>7. i < k
      <3>1. k # i
        BY <2>2, <2>5
      <3>2. k < i => q[k] = q[i]
        BY <2>2, <2>5
      <3>3. ~(k < i)
        BY <1>4, <2>2, <3>1, <3>2
      <3> QED
        BY <2>2, <3>1, <3>3
    <2>8. Goes(t, "asc", q[i], p[i]) /\ Goes(t, "asc", p[i], q[i])
      BY <1>5, <2>2, <2>4, <2>5, <2>6, <2>7
    <2> QED
      BY <1>6, <2>3, <2>8
  <1>8. \A i \in 1..L : s[i] = u[i]
    <2> TAKE i \in 1..L
    <2>1. p[i] = q[i]
      BY <1>7
    <2> QED
      BY <1>2, <1>3, <2>1
  <1> QED
    BY <1>1, <1>8

\* An ascending sort by any algorithm that is stable gives what Sort gives.
THEOREM SortIsTheStableSort ==
  ASSUME NEW V, Values(V), NEW s \in Seq(V), Ordered(s), NEW u \in Seq(V)
  PROVE  StablySorted(u, s) <=> u = Sort(s, "asc")
  <1>1. Sort(s, "asc") \in Seq(V)
    BY SortArranges
  <1>2. StablySorted(Sort(s, "asc"), s)
    BY SortIsStable
  <1> QED
    BY <1>1, <1>2, StableSortIsUnique

-----------------------------------------------------------------------------

\* The loop of Deduplicate at an item: it is passed over when its text was met.
Met(t, x) == \E j \in DOMAIN t : KeyText(t[j]) = KeyText(x)

\* What the loop of Deduplicate has kept after i items.
Keeps(f, s) ==
  /\ f[0] = <<>>
  /\ \A i \in 1..Len(s) :
       f[i] = IF Met(f[i - 1], s[i]) THEN f[i - 1] ELSE Append(f[i - 1], s[i])
  /\ Deduplicate(s) = f[Len(s)]

\* The recursion of Deduplicate has a value.
LEMMA DeduplicateLoop ==
  ASSUME NEW V, NEW s \in Seq(V)
  PROVE  \E f : Keeps(f, s) /\ \A i \in 0..Len(s) : f[i] \in Seq(V)
  <1>0. PICK L \in Nat : L = Len(s) /\ \A i \in 1..L : s[i] \in V
    <2>1. Len(s) \in Nat /\ \A i \in 1..Len(s) : s[i] \in V
      OBVIOUS
    <2> QED
      BY <2>1
  <1> DEFINE Next1(t, x) == IF Met(t, x) THEN t ELSE Append(t, x)
             d == [p \in Seq(V) \X Nat |-> IF p[2] \in 1..L THEN Next1(p[1], s[p[2]]) ELSE p[1]]
             Turn(f, i) == f[i] = Next1(f[i - 1], s[i])
             Loop(f) == f = [i \in 0..L |-> IF i = 0 THEN <<>> ELSE Next1(f[i - 1], s[i])]
  <1>1. ASSUME NEW t \in Seq(V), NEW x \in V PROVE Next1(t, x) \in Seq(V)
    OBVIOUS
  <1>2. Deduplicate(s) = LET f == CHOOSE f : Loop(f) IN f[L]
    BY <1>0 DEF Deduplicate, Met
  <1> HIDE DEF Next1
  <1>3. d \in [Seq(V) \X Nat -> Seq(V)]
    BY <1>0, <1>1
  <1>4. PICK g \in [0..L -> Seq(V)] : Recurses(g, <<>>, d, L)
    <2>1. <<>> \in Seq(V)
      OBVIOUS
    <2> HIDE DEF d
    <2>2. \A n \in Nat : \E g \in [0..n -> Seq(V)] : Recurses(g, <<>>, d, n)
      BY <1>3, <2>1, RecursionExists
    <2> QED
      BY <2>2
  <1>5. ASSUME NEW i \in 1..L PROVE Turn(g, i)
    <2>1. g[i] = d[<<g[i - 1], i>>]
      <3> HIDE DEF d
      <3> QED
        BY <1>4 DEF Recurses
    <2>2. g[i - 1] \in Seq(V) /\ i \in Nat
      OBVIOUS
    <2>3. d[<<g[i - 1], i>>] = Next1(g[i - 1], s[i])
      BY <2>2
    <2> QED
      BY <2>1, <2>3
  <1>6. g[0] = <<>>
    <2> HIDE DEF d
    <2> QED
      BY <1>4 DEF Recurses
  <1> HIDE DEF d
  <1>7. Loop(g)
    <2> DEFINE h == [i \in 0..L |-> IF i = 0 THEN <<>> ELSE Next1(g[i - 1], s[i])]
    <2>1. ASSUME NEW i \in 0..L PROVE g[i] = h[i]
      <3>1. i = 0 \/ i \in 1..L
        OBVIOUS
      <3> QED
        BY <1>5, <1>6, <3>1
    <2>2. g = h
      BY <2>1
    <2> QED
      BY <2>2
  <1> DEFINE f == CHOOSE f : Loop(f)
  <1>8. Loop(f)
    <2> HIDE DEF Loop
    <2> QED
      BY <1>7
  <1>9. Deduplicate(s) = f[L]
    BY <1>2
  <1> HIDE DEF f
  <1>10. f[0] = <<>> /\ \A i \in 1..L : Turn(f, i)
    <2>1. f[0] = <<>>
      BY <1>8
    <2>2. ASSUME NEW i \in 1..L PROVE Turn(f, i)
      <3>1. i \in 0..L /\ i # 0
        OBVIOUS
      <3> QED
        BY <1>8, <3>1
    <2> QED
      BY <2>1, <2>2
  <1>11. \A i \in 0..L : f[i] \in Seq(V)
    <2> DEFINE S == {i \in 0..L : f[i] \in Seq(V)}
    <2>1. 0 \in S
      <3>1. <<>> \in Seq(V) /\ 0 \in 0..L
        OBVIOUS
      <3> QED
        BY <1>10, <3>1
    <2>2. ASSUME NEW i \in 1..L, i - 1 \in S PROVE i \in S
      <3>1. i \in 0..L /\ f[i - 1] \in Seq(V) /\ s[i] \in V
        BY <1>0, <2>2
      <3>2. f[i] \in Seq(V)
        BY <1>1, <1>10, <3>1
      <3> QED
        BY <3>1, <3>2
    <2> HIDE DEF S
    <2>3. \A i \in 0..L : i \in S
      BY <2>1, <2>2, InductionUpTo
    <2> QED
      BY <2>3 DEF S
  <1> QED
    BY <1>0, <1>9, <1>10, <1>11 DEF Keeps, Next1

\* Of the items of a text there is a first one.
LEMMA FirstOfText ==
  ASSUME NEW V, NEW s \in Seq(V), NEW k \in 1..Len(s)
  PROVE  \E i \in Firsts(s) : i <= k /\ KeyText(s[i]) = KeyText(s[k])
  <1>0. PICK L \in Nat : L = Len(s) /\ DOMAIN s = 1..L
    OBVIOUS
  <1> DEFINE T == {i \in 1..L : KeyText(s[i]) = KeyText(s[k])}
  <1>1. T \in SUBSET Nat /\ k \in T
    BY <1>0
  <1>2. PICK i \in T : \A j \in T : i <= j
    <2> HIDE DEF T
    <2> QED
      BY <1>1, LeastNumber
  <1>3. \A j \in 1..(i - 1) : KeyText(s[j]) # KeyText(s[i])
    <2> TAKE j \in 1..(i - 1)
    <2>1. j \in 1..L /\ ~(i <= j)
      BY <1>2
    <2>2. j \notin T
      BY <1>2, <2>1
    <2> QED
      BY <1>2, <2>1, <2>2
  <1>4. i \in Firsts(s)
    BY <1>0, <1>2, <1>3 DEF Firsts
  <1>5. i <= k
    BY <1>1, <1>2
  <1> QED
    BY <1>2, <1>4, <1>5

\* How many of the items that stay are among the first i of s.
Rows(s, i) == Cardinality(Firsts(s) \cap 1..i)

\* Each item is counted when it is the first of its text.
LEMMA RowsGrow ==
  ASSUME NEW V, NEW s \in Seq(V)
  PROVE  /\ Rows(s, 0) = 0
         /\ \A i \in 0..Len(s) : Rows(s, i) \in Nat
         /\ \A i \in 1..Len(s) : Rows(s, i) = IF i \in Firsts(s) THEN Rows(s, i - 1) + 1
                                              ELSE Rows(s, i - 1)
  <1>0. PICK L \in Nat : L = Len(s)
    OBVIOUS
  <1>1. ASSUME NEW i \in 0..L
        PROVE  IsFiniteSet(Firsts(s) \cap 1..i) /\ Rows(s, i) \in Nat
    <2>1. IsFiniteSet(1..i)
      BY FS_Interval
    <2>2. IsFiniteSet(Firsts(s) \cap 1..i)
      BY <2>1, FS_Subset
    <2> QED
      BY <2>2, FS_CardinalityType DEF Rows
  <1>2. Rows(s, 0) = 0
    <2>1. Firsts(s) \cap 1..0 = {}
      OBVIOUS
    <2> QED
      BY <2>1, FS_EmptySet DEF Rows
  <1>3. ASSUME NEW i \in 1..L
        PROVE  Rows(s, i) = IF i \in Firsts(s) THEN Rows(s, i - 1) + 1 ELSE Rows(s, i - 1)
    <2>1. \A j : j \in 1..i <=> j \in 1..(i - 1) \/ j = i
      OBVIOUS
    <2>2. CASE i \notin Firsts(s)
      <3>1. Firsts(s) \cap 1..i = Firsts(s) \cap 1..(i - 1)
        BY <2>1, <2>2
      <3> QED
        BY <2>2, <3>1 DEF Rows
    <2>3. CASE i \in Firsts(s)
      <3>1. /\ Firsts(s) \cap 1..i = (Firsts(s) \cap 1..(i - 1)) \cup {i}
            /\ i \notin Firsts(s) \cap 1..(i - 1)
        BY <2>1, <2>3
      <3>2. IsFiniteSet(Firsts(s) \cap 1..(i - 1))
        <4>1. i - 1 \in 0..L
          OBVIOUS
        <4> QED
          BY <1>1, <4>1
      <3> QED
        BY <2>3, <3>1, <3>2, FS_AddElement DEF Rows
    <2> QED
      BY <2>2, <2>3
  <1> QED
    BY <1>0, <1>1, <1>2, <1>3

\* After k items those that are the first of their text were kept, in order.
Kept(f, s, k) ==
  /\ Len(f[k]) = Rows(s, k)
  /\ \A i \in Firsts(s) : i <= k => Rows(s, i) \in 1..Rows(s, k) /\ f[k][Rows(s, i)] = s[i]
  /\ \A n \in 1..Rows(s, k) : \E i \in Firsts(s) : i <= k /\ Rows(s, i) = n

\* Deduplicate keeps the first item of each text, for items of any number.
LEMMA DeduplicateKeepsFirsts ==
  ASSUME NEW V, NEW s \in Seq(V)
  PROVE  /\ Deduplicate(s) \in Seq(V)
         /\ Deduplicate(s) = OnlyFirsts(s)
  <1>0. PICK L \in Nat : L = Len(s) /\ DOMAIN s = 1..L /\ \A i \in 1..L : s[i] \in V
    <2>1. Len(s) \in Nat /\ DOMAIN s = 1..Len(s) /\ \A i \in 1..Len(s) : s[i] \in V
      OBVIOUS
    <2> QED
      BY <2>1
  <1>1. PICK f : Keeps(f, s) /\ \A i \in 0..L : f[i] \in Seq(V)
    BY <1>0, DeduplicateLoop
  <1>2. /\ f[0] = <<>> /\ Deduplicate(s) = f[L]
        /\ \A i \in 1..L :
             f[i] = IF Met(f[i - 1], s[i]) THEN f[i - 1] ELSE Append(f[i - 1], s[i])
    BY <1>0, <1>1 DEF Keeps
  <1>3. /\ Rows(s, 0) = 0 /\ \A i \in 0..L : Rows(s, i) \in Nat
        /\ \A i \in 1..L : Rows(s, i) = IF i \in Firsts(s) THEN Rows(s, i - 1) + 1
                                        ELSE Rows(s, i - 1)
    BY <1>0, RowsGrow
  <1>4. Firsts(s) \subseteq 1..L
    BY <1>0 DEF Firsts
  <1> DEFINE S == {k \in 0..L : Kept(f, s, k)}
  <1>5. 0 \in S
    <2>1. Len(f[0]) = 0 /\ \A i \in Firsts(s) : ~(i <= 0)
      BY <1>2, <1>4
    <2> QED
      BY <1>3, <2>1 DEF Kept
  <1>6. ASSUME NEW k \in 1..L, k - 1 \in S PROVE k \in S
    <2> DEFINE t == f[k - 1]
               n == Rows(s, k - 1)
    <2>1. /\ Len(t) = n
          /\ \A i \in Firsts(s) : i <= k - 1 => Rows(s, i) \in 1..n /\ t[Rows(s, i)] = s[i]
          /\ \A m \in 1..n : \E i \in Firsts(s) : i <= k - 1 /\ Rows(s, i) = m
      BY <1>6 DEF Kept
    <2>2. t \in Seq(V) /\ k - 1 \in 0..L /\ n \in Nat /\ s[k] \in V /\ DOMAIN t = 1..n
      <3>1. t \in Seq(V) /\ k - 1 \in 0..L /\ n \in Nat /\ s[k] \in V
        BY <1>0, <1>1, <1>3
      <3> QED
        BY <2>1, <3>1
    <2>3. /\ f[k] = IF Met(t, s[k]) THEN t ELSE Append(t, s[k])
          /\ Rows(s, k) = IF k \in Firsts(s) THEN n + 1 ELSE n
      BY <1>2, <1>3
    <2>4. \A i \in Firsts(s) : i \in Int /\ (i <= k <=> i <= k - 1 \/ i = k)
      BY <1>4
    <2> HIDE DEF t, n
    <2>5. CASE k \in Firsts(s)
      <3>1. ~Met(t, s[k])
        <4>1. ASSUME NEW m \in 1..n, KeyText(t[m]) = KeyText(s[k]) PROVE FALSE
          <5>1. PICK i \in Firsts(s) : i <= k - 1 /\ Rows(s, i) = m
            BY <2>1
          <5>2. t[m] = s[i] /\ i \in 1..(k - 1)
            BY <1>4, <2>1, <5>1
          <5>3. KeyText(s[i]) # KeyText(s[k])
            BY <2>5, <5>2 DEF Firsts
          <5> QED
            BY <4>1, <5>2, <5>3
        <4> QED
          BY <2>2, <4>1 DEF Met
      <3>2. f[k] = Append(t, s[k]) /\ Rows(s, k) = n + 1
        BY <2>3, <2>5, <3>1
      <3>3. /\ Len(f[k]) = n + 1 /\ f[k][n + 1] = s[k]
            /\ \A m \in 1..n : f[k][m] = t[m]
        <4>1. /\ Len(Append(t, s[k])) = Len(t) + 1 /\ Append(t, s[k])[Len(t) + 1] = s[k]
              /\ \A m \in 1..Len(t) : Append(t, s[k])[m] = t[m]
          BY <2>2
        <4> QED
          BY <2>1, <3>2, <4>1
      <3>4. \A m \in 1..n : m \in 1..(n + 1)
        BY <2>2
      <3>5. n + 1 \in 1..(n + 1) /\ \A m \in 1..(n + 1) : m \in 1..n \/ m = n + 1
        BY <2>2
      <3>6. \A i \in Firsts(s) : i <= k =>
              Rows(s, i) \in 1..(n + 1) /\ f[k][Rows(s, i)] = s[i]
        BY <2>1, <2>4, <3>2, <3>3, <3>4, <3>5
      <3>7. \A m \in 1..(n + 1) : \E i \in Firsts(s) : i <= k /\ Rows(s, i) = m
        BY <2>1, <2>4, <2>5, <3>2, <3>5
      <3>8. Kept(f, s, k)
        BY <3>2, <3>3, <3>6, <3>7 DEF Kept
      <3> QED
        BY <3>8
    <2>6. CASE k \notin Firsts(s)
      <3>1. PICK i \in Firsts(s) : i <= k /\ KeyText(s[i]) = KeyText(s[k])
        <4>1. k \in 1..Len(s)
          BY <1>0
        <4> QED
          BY <4>1, FirstOfText
      <3>2. i <= k - 1
        BY <2>4, <2>6, <3>1
      <3>3. Rows(s, i) \in DOMAIN t /\ t[Rows(s, i)] = s[i]
        BY <2>1, <2>2, <3>2
      <3>4. Met(t, s[k])
        BY <3>1, <3>3 DEF Met
      <3>5. f[k] = t /\ Rows(s, k) = n
        BY <2>3, <2>6, <3>4
      <3>6. \A j \in Firsts(s) : j <= k => j <= k - 1
        BY <2>4, <2>6
      <3>7. \A j \in Firsts(s) : j <= k - 1 => j <= k
        BY <2>4
      <3>8. Kept(f, s, k)
        BY <2>1, <3>5, <3>6, <3>7 DEF Kept
      <3> QED
        BY <3>8
    <2> QED
      BY <2>5, <2>6
  <1>7. Kept(f, s, L)
    <2> HIDE DEF S
    <2>1. \A k \in 0..L : k \in S
      BY <1>5, <1>6, InductionUpTo
    <2> QED
      BY <2>1 DEF S
  <1> DEFINE u == f[L]
             F == Firsts(s)
             C == Cardinality(F)
             At(k) == CHOOSE i \in F : Cardinality(F \cap 1..i) = k
  <1>8. C = Rows(s, L)
    <2>1. F \cap 1..L = F
      BY <1>4
    <2> QED
      BY <2>1 DEF Rows
  <1>9. u \in Seq(V) /\ Len(u) = C /\ DOMAIN u = 1..C
    <2>1. u \in Seq(V)
      BY <1>1
    <2>2. Len(u) = C
      BY <1>7, <1>8 DEF Kept
    <2> QED
      BY <2>1, <2>2
  <1>10. ASSUME NEW k \in 1..C PROVE u[k] = s[At(k)]
    <2>1. \E i \in F : Cardinality(F \cap 1..i) = k
      BY <1>7, <1>8 DEF Kept, Rows
    <2>2. At(k) \in F /\ Cardinality(F \cap 1..At(k)) = k
      BY <2>1
    <2> HIDE DEF At
    <2>3. At(k) <= L /\ Rows(s, At(k)) = k
      BY <1>4, <2>2 DEF Rows
    <2> QED
      BY <1>7, <2>2, <2>3 DEF Kept
  <1>11. u = [k \in 1..C |-> s[At(k)]]
    <2> HIDE DEF u, At, C
    <2>1. u = [k \in DOMAIN u |-> u[k]]
      BY <1>9
    <2> QED
      BY <1>9, <1>10, <2>1
  <1> QED
    BY <1>2, <1>9, <1>11 DEF OnlyFirsts

-----------------------------------------------------------------------------

\* Joining sequences of values gives a sequence of values.
LEMMA FlattenType ==
  ASSUME NEW V, NEW s \in Seq(Seq(V))
  PROVE  FlattenSeq(s) \in Seq(V)
  <1>1. CASE Len(s) > 0
    <2>1. PICK f \in [1..Len(s) -> Seq(V)] : FlattenSeq(s) = f[Len(s)]
      BY <1>1, FlattenedFromLeft
    <2>2. Len(s) \in 1..Len(s)
      BY <1>1
    <2> QED
      BY <2>1, <2>2
  <1>2. CASE Len(s) = 0
    <2>1. s = <<>>
      BY <1>2
    <2>2. FlattenSeq(s) = <<>>
      BY <1>2, <2>1 DEF FlattenSeq
    <2> QED
      BY <2>2
  <1> QED
    BY <1>1, <1>2

\* The kinds of values, and what is in them.
LEMMA Parts ==
  ASSUME NEW V, Values(V), NEW v \in V
  PROVE  /\ v.kind \in {"nil", "num", "text", "list", "obj"}
         /\ v.kind = "list" => v.items \in Seq(V)
         /\ v.kind = "obj" => \A k \in DOMAIN v.fields : v.fields[k] \in V
         /\ \A k : Field(v, k) \in V
  <1>1. Value(v, V) /\ Nil \in V
    BY DEF Values
  <1>2. \A a \in Atom : a.kind \in {"nil", "num", "text"}
    BY AtomKinds
  <1> QED
    BY <1>1, <1>2 DEF Value, Field

\* Every op on arrays makes values of values.
LEMMA OpsType ==
  ASSUME NEW V, Values(V), NEW s \in Seq(V)
  PROVE  Filter(s) \in Seq(V) /\ MapOver(s) \in Seq(V) /\ Flatten(s) \in Seq(V)
  <1>0. PICK L \in Nat : L = Len(s) /\ DOMAIN s = 1..L /\ \A i \in 1..L : s[i] \in V
    <2>1. Len(s) \in Nat /\ DOMAIN s = 1..Len(s) /\ \A i \in 1..Len(s) : s[i] \in V
      OBVIOUS
    <2> QED
      BY <2>1
  <1>1. ASSUME NEW i \in 1..L
        PROVE  <<s[i]>> \in Seq(V) /\ <<>> \in Seq(V)
    BY <1>0
  <1>2. Filter(s) \in Seq(V)
    <2> DEFINE g == [i \in 1..L |-> IF Field(s[i], "f").kind # "nil" THEN <<s[i]>> ELSE <<>>]
    <2>1. g \in [1..L -> Seq(V)]
      BY <1>1
    <2> HIDE DEF g
    <2>2. g \in Seq(Seq(V))
      BY <2>1
    <2>3. FlattenSeq(g) \in Seq(V)
      BY <2>2, FlattenType
    <2> QED
      BY <1>0, <2>3 DEF Filter, g
  <1>3. Flatten(s) \in Seq(V)
    <2> DEFINE g == [i \in 1..L |-> IF s[i].kind = "list" THEN s[i].items ELSE <<s[i]>>]
    <2>1. \A i \in 1..L : s[i].kind = "list" => s[i].items \in Seq(V)
      BY <1>0, Parts
    <2>2. g \in [1..L -> Seq(V)]
      BY <1>1, <2>1
    <2> HIDE DEF g
    <2>3. g \in Seq(Seq(V))
      BY <2>2
    <2>4. FlattenSeq(g) \in Seq(V)
      BY <2>3, FlattenType
    <2> QED
      BY <1>0, <2>4 DEF Flatten, g
  <1>4. MapOver(s) \in Seq(V)
    <2>1. \A i \in 1..L : Field(s[i], "results") \in V
      BY <1>0, Parts
    <2>2. [i \in 1..L |-> Field(s[i], "results")] \in [1..L -> V]
      BY <2>1
    <2>3. [i \in 1..L |-> Field(s[i], "results")] \in Seq(V)
      BY <2>2
    <2> QED
      BY <1>0, <2>3 DEF MapOver
  <1> QED
    BY <1>2, <1>3, <1>4

\* Merge does what deepMerge does with two values, and gives a value.
MergesDeep(V) ==
  \A a, b \in V :
    /\ Merge(a, b) \in V
    /\ Merge(a, b) = MergeLevel(a, b, [k \in Shared(a, b) |-> Merge(a.fields[k], b.fields[k])])

\* A merge of an object with an object agrees with its definition two levels
\* down.
LEMMA MergeIsDeep ==
  ASSUME NEW V, Values(V), MergesDeep(V),
         NEW v \in V, NEW w \in V, v.kind = "obj", w.kind = "obj"
  PROVE  LET a == v.fields  b == w.fields  c == Merge(v, w).fields
         IN /\ Joined(a, b, c)
            /\ \A k \in DOMAIN a \cap DOMAIN b :
                 {a[k].kind, b[k].kind} = {"obj"} =>
                   Joined(a[k].fields, b[k].fields, c[k].fields)
  <1> USE DEF MergesDeep
  <1>1. ASSUME NEW x \in V, NEW y \in V, x.kind = "obj", y.kind = "obj"
        PROVE  /\ DOMAIN Merge(x, y).fields = DOMAIN x.fields \cup DOMAIN y.fields
               /\ \A k \in DOMAIN x.fields \cup DOMAIN y.fields :
                    Merge(x, y).fields[k] =
                      IF k \notin DOMAIN y.fields THEN x.fields[k]
                      ELSE IF k \notin DOMAIN x.fields THEN y.fields[k]
                      ELSE Merge(x.fields[k], y.fields[k])
    <2> DEFINE g == [k \in DOMAIN x.fields \cup DOMAIN y.fields |->
                       IF k \notin DOMAIN y.fields THEN x.fields[k]
                       ELSE IF k \notin DOMAIN x.fields THEN y.fields[k]
                       ELSE Merge(x.fields[k], y.fields[k])]
    <2>1. Merge(x, y) = Obj(g)
      <3>1. Shared(x, y) = DOMAIN x.fields \cap DOMAIN y.fields
        BY <1>1 DEF Shared
      <3> DEFINE h == [k \in Shared(x, y) |-> Merge(x.fields[k], y.fields[k])]
                 e == [k \in DOMAIN x.fields \cup DOMAIN y.fields |->
                         IF k \in Shared(x, y) THEN h[k]
                         ELSE IF k \in DOMAIN y.fields THEN y.fields[k] ELSE x.fields[k]]
      <3>2. Merge(x, y) = MergeLevel(x, y, h)
        OBVIOUS
      <3>3. MergeLevel(x, y, h) = Obj(e)
        <4> HIDE DEF h
        <4> QED
          BY <1>1 DEF MergeLevel
      <3>4. e = g
        BY <3>1
      <3> QED
        BY <3>2, <3>3, <3>4
    <2>2. Obj(g).fields = g
      BY DEF Obj
    <2> QED
      BY <2>1, <2>2
  <1>2. ASSUME NEW x \in V, NEW y \in V, {x.kind, y.kind} = {"list"}
        PROVE  Merge(x, y) = List(x.items \o y.items)
    <2>1. x.kind = "list" /\ y.kind = "list"
      BY <1>2
    <2> QED
      BY <2>1 DEF MergeLevel
  <1>3. ASSUME NEW x \in V, NEW y \in V, {x.kind, y.kind} \notin {{"list"}, {"obj"}}
        PROVE  Merge(x, y) = y
    <2>1. ~(x.kind = "list" /\ y.kind = "list") /\ ~(x.kind = "obj" /\ y.kind = "obj")
      BY <1>3
    <2> QED
      BY <2>1 DEF MergeLevel
  <1>4. ASSUME NEW x \in V, NEW y \in V, x.kind = "obj", y.kind = "obj",
               NEW k \in DOMAIN x.fields \cup DOMAIN y.fields
        PROVE  JoinedAt(x.fields, y.fields, Merge(x, y).fields, k)
    <2>1. /\ k \in DOMAIN x.fields => x.fields[k] \in V
          /\ k \in DOMAIN y.fields => y.fields[k] \in V
      BY <1>4, Parts
    <2>2. Merge(x, y).fields[k] = IF k \notin DOMAIN y.fields THEN x.fields[k]
                                  ELSE IF k \notin DOMAIN x.fields THEN y.fields[k]
                                  ELSE Merge(x.fields[k], y.fields[k])
      BY <1>1, <1>4
    <2> QED
      BY <1>2, <1>3, <2>1, <2>2 DEF JoinedAt
  <1>5. ASSUME NEW k \in DOMAIN v.fields \cap DOMAIN w.fields,
               {v.fields[k].kind, w.fields[k].kind} = {"obj"}
        PROVE  /\ v.fields[k] \in V /\ w.fields[k] \in V
               /\ v.fields[k].kind = "obj" /\ w.fields[k].kind = "obj"
               /\ Merge(v, w).fields[k] = Merge(v.fields[k], w.fields[k])
    <2>1. v.fields[k].kind = "obj" /\ w.fields[k].kind = "obj"
      BY <1>5
    <2>2. v.fields[k] \in V /\ w.fields[k] \in V
      BY Parts
    <2> QED
      BY <1>1, <2>1, <2>2
  <1> DEFINE a == v.fields
             b == w.fields
             c == Merge(v, w).fields
  <1>6. Joined(a, b, c)
    BY <1>1, <1>4 DEF Joined
  <1>7. ASSUME NEW k \in DOMAIN a \cap DOMAIN b, {a[k].kind, b[k].kind} = {"obj"}
        PROVE  Joined(a[k].fields, b[k].fields, c[k].fields)
    <2>1. /\ a[k] \in V /\ b[k] \in V /\ a[k].kind = "obj" /\ b[k].kind = "obj"
          /\ c[k] = Merge(a[k], b[k])
      BY <1>5, <1>7
    <2>2. DOMAIN c[k].fields = DOMAIN a[k].fields \cup DOMAIN b[k].fields
      BY <1>1, <2>1
    <2> QED
      BY <1>4, <2>1, <2>2 DEF Joined
  <1> QED
    BY <1>6, <1>7

\* The outputs are values, whatever merges and orders them.
OpsInv(V) == data \in V /\ other \in V /\ other.kind = "obj" /\ OpsAgree

\* Inputs are taken as they are.
LEMMA OpsStart ==
  ASSUME NEW CONSTANT V, Others \subseteq V, \A inputs \in Inputs : CollectInputs(inputs) \in V
  PROVE  TransformsInit => OpsInv(V)
  BY TransformsAssumption
     DEF TransformsInit, OpsInv, OpsAgree, SortAgrees, DeduplicateAgrees, MergeAgrees

\* Each op does what its definition says to values, and makes values.
LEMMA OpsStep ==
  ASSUME NEW CONSTANT V, Values(V), MergesDeep(V)
  PROVE  OpsInv(V) /\ [TransformsNext]_transformVars => OpsInv(V)'
  <1> SUFFICES ASSUME OpsInv(V), [TransformsNext]_transformVars PROVE OpsInv(V)'
    OBVIOUS
  <1> USE DEF OpsInv
  <1>0. /\ data \in V /\ other \in V /\ other.kind = "obj"
        /\ data.kind = "list" => data.items \in Seq(V)
        /\ \A s \in Seq(V) : List(s) \in V /\ List(s).items = s
    BY Parts DEF Values, List
  <1>1. CASE UNCHANGED transformVars
    BY <1>1 DEF transformVars, OpsAgree, SortAgrees, DeduplicateAgrees, MergeAgrees
  <1>2. CASE MergeOp
    <2>1. before' = data /\ data' = Merge(data, other) /\ op' = "merge" /\ UNCHANGED other
      BY <1>2 DEF MergeOp, Apply
    <2>2. MergeAgrees'
      <3>1. CASE data.kind # "obj"
        BY <2>1, <3>1 DEF MergeAgrees
      <3>2. CASE data.kind = "obj"
        <4> DEFINE v == data
                   w == other
        <4>1. v \in V /\ w \in V /\ v.kind = "obj" /\ w.kind = "obj"
          BY <1>0, <3>2
        <4>2. before' = v /\ other' = w /\ data' = Merge(v, w)
          BY <2>1
        <4> HIDE DEF v, w
        <4>3. /\ Joined(v.fields, w.fields, Merge(v, w).fields)
              /\ \A k \in DOMAIN v.fields \cap DOMAIN w.fields :
                   {v.fields[k].kind, w.fields[k].kind} = {"obj"} =>
                     Joined(v.fields[k].fields, w.fields[k].fields, Merge(v, w).fields[k].fields)
          BY <4>1, MergeIsDeep
        <4> QED
          BY <4>2, <4>3 DEF MergeAgrees
      <3> QED
        BY <3>1, <3>2
    <2>3. data' \in V
      BY <1>0, <2>1 DEF MergesDeep
    <2> QED
      BY <1>0, <2>1, <2>2, <2>3 DEF OpsAgree, SortAgrees, DeduplicateAgrees
  <1>3. ASSUME NEW order \in {"asc", "desc"}, SortOp(order)
        PROVE  OpsInv(V)'
    <2>1. CASE data.kind = "list"
      <3>1. /\ before' = data /\ data' = List(Sort(data.items, order)) /\ op' = order
            /\ UNCHANGED other
        BY <1>3, <2>1 DEF SortOp, Apply
      <3>2. data.items \in Seq(V)
        BY <1>0, <2>1
      <3>3. data' \in V /\ data'.items = Sort(data.items, order) /\ before'.items = data.items
        <4>1. Sort(data.items, order) \in Seq(V)
          <5>1. PICK f : Sorts(f, data.items, order) /\ \A i \in 0..Len(data.items) : f[i] \in Seq(V)
            BY <3>2, SortLoop
          <5>2. Len(data.items) \in 0..Len(data.items)
            BY <3>2
          <5> QED
            BY <5>1, <5>2 DEF Sorts
        <4> QED
          BY <1>0, <3>1, <4>1
      <3>4. SortAgrees'
        <4>1. Ordered(data.items) =>
                StablySorted(IF order = "asc" THEN Sort(data.items, order)
                             ELSE Reverse(Sort(data.items, order)), data.items)
          BY <3>2, SortIsStable
        <4> QED
          BY <3>1, <3>3, <4>1 DEF SortAgrees
      <3> QED
        BY <1>0, <3>1, <3>3, <3>4 DEF OpsAgree, DeduplicateAgrees, MergeAgrees
    <2>2. CASE data.kind # "list"
      <3>1. data' = data /\ op' = "error" /\ UNCHANGED other
        BY <1>3, <2>2 DEF SortOp, Apply
      <3> QED
        BY <1>0, <3>1 DEF OpsAgree, SortAgrees, DeduplicateAgrees, MergeAgrees
    <2> QED
      BY <2>1, <2>2
  <1>4. Items(data) \in Seq(V)
    <2>1. <<data>> \in Seq(V) /\ <<>> \in Seq(V)
      BY <1>0
    <2> QED
      BY <1>0, <2>1 DEF Items
  <1>5. CASE FilterOp
    <2>1. data' = List(Filter(Items(data))) /\ op' = "filter" /\ UNCHANGED other
      BY <1>5 DEF FilterOp, Apply
    <2>2. data' \in V
      BY <1>0, <1>4, <2>1, OpsType
    <2> QED
      BY <1>0, <2>1, <2>2 DEF OpsAgree, SortAgrees, DeduplicateAgrees, MergeAgrees
  <1>6. CASE MapOp
    <2>1. data' = List(MapOver(Items(data))) /\ op' = "map" /\ UNCHANGED other
      BY <1>6 DEF MapOp, Apply
    <2>2. data' \in V
      BY <1>0, <1>4, <2>1, OpsType
    <2> QED
      BY <1>0, <2>1, <2>2 DEF OpsAgree, SortAgrees, DeduplicateAgrees, MergeAgrees
  <1>7. CASE FlattenOp
    <2>1. /\ data' = IF data.kind = "list" THEN List(Flatten(data.items)) ELSE data
          /\ op' = "flatten" /\ UNCHANGED other
      BY <1>7 DEF FlattenOp, Apply
    <2>2. data' \in V
      BY <1>0, <2>1, OpsType
    <2> QED
      BY <1>0, <2>1, <2>2 DEF OpsAgree, SortAgrees, DeduplicateAgrees, MergeAgrees
  <1>8. CASE DeduplicateOp
    <2>1. /\ data' = IF data.kind = "list" THEN List(Deduplicate(data.items)) ELSE data
          /\ before' = data /\ op' = "deduplicate" /\ UNCHANGED other
      BY <1>8 DEF DeduplicateOp, Apply
    <2>2. data.kind = "list" =>
            /\ Deduplicate(data.items) \in Seq(V)
            /\ Deduplicate(data.items) = OnlyFirsts(data.items)
      BY <1>0, DeduplicateKeepsFirsts
    <2>3. data' \in V
      BY <1>0, <2>1, <2>2
    <2>4. data.kind = "list" => data'.items = Deduplicate(data.items)
      BY <1>0, <2>1, <2>2
    <2>5. DeduplicateAgrees'
      BY <2>1, <2>2, <2>4 DEF DeduplicateAgrees
    <2> QED
      BY <1>0, <2>1, <2>3, <2>5 DEF OpsAgree, SortAgrees, MergeAgrees
  <1> QED
    BY <1>1, <1>2, <1>3, <1>5, <1>6, <1>7, <1>8 DEF TransformsNext

\* Sort is stable and puts nil last, deduplicate keeps the first of each text and
\* merge is deep: for arrays and objects of any size, in any order of the ops,
\* whatever merges two values the way deepMerge does.
THEOREM OpsAgreed ==
  ASSUME NEW CONSTANT V, Values(V), MergesDeep(V),
         Others \subseteq V, \A inputs \in Inputs : CollectInputs(inputs) \in V
  PROVE  TransformsSpec => []OpsAgree
  <1>1. TransformsInit => OpsInv(V)
    BY OpsStart
  <1>2. OpsInv(V) /\ [TransformsNext]_transformVars => OpsInv(V)'
    BY OpsStep
  <1>3. OpsInv(V) => OpsAgree
    BY DEF OpsInv
  <1> QED
    BY <1>1, <1>2, <1>3, PTL DEF TransformsSpec
=============================================================================

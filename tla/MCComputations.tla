--------------------------- MODULE MCComputations ---------------------------
(***************************************************************************)
(* The sequential computations of the orchestrator, one at a time: the     *)
(* layers of a graph, the way of an output, a transform, and the params of *)
(* a dispatch.  Each starts from every input; those that are not sampled   *)
(* stand at one initial state.                                             *)
(***************************************************************************)
EXTENDS Resolution, OutputPath, DeepMerge, Params

CONSTANTS a, b, c, ghost, key, keyring

VARIABLE sample

\* Every graph on three steps and a name that is no step, in a file with a
\* repeated ID whose nodes list the same; and every one without that name in
\* which they may differ and the third step depends on nothing.
ThreeSteps  == {a, b, c}
OneGhost    == {ghost}
ListedFile  == <<b, a, c, a>>
ListedNames ==
  {d \in [1..4 -> SUBSET {a, b, c, ghost}] :
     d[2] = d[4] \/ (d[3] = {} /\ \A i \in 1..4 : ghost \notin d[i])}

\* Up to four items whose field is a number, the text of one, another text, or
\* missing, as another step returns them; and pairs of objects of two levels.
SomeTexts == <<"10", "5x", "9", "<nil>">>

Atoms  == {Num(9, "9"), Num(10, "10"), Text("9"), Text("5x")}
Item(i, f) ==
  IF f = Nil THEN Obj([id |-> Num(i, "10")]) ELSE Obj([id |-> Num(i, "10"), f |-> f])
Arrays == UNION {[1..n -> Atoms \cup {Nil}] : n \in 0..4}
Tables == {Obj([results |-> List([i \in DOMAIN s |-> Item(i, s[i])])]) : s \in Arrays}

Leaves  == {Num(9, "9"), Text("5x"), List(<<Text("9")>>)}
Inner   == {Obj(<<>>)} \cup {Obj([x |-> v]) : v \in Leaves}
Objects == {Obj(<<>>)} \cup {Obj([x |-> v]) : v \in Leaves \cup Inner}
             \cup {Obj([x |-> v, y |-> Text("9")]) : v \in Leaves \cup Inner}
OneOther == Obj([x |-> Obj([x |-> Num(9, "9")])])

SomeInputs == {<<t>> : t \in Tables} \cup {<<o>> : o \in Objects}
                \cup {<<o, p>> : o \in Objects, p \in Objects}

\* A param of any kind, another one whose name starts with its name, or none,
\* and a server param of any kind.
TwoNames == {key, keyring}
NameStarts == {<<key, key>>, <<keyring, keyring>>, <<keyring, key>>}
Plain(d)   == [required |-> TRUE, secret |-> FALSE, default |-> d]
SomeAgents ==
  LET given(s, t) == [n \in TwoNames |-> IF n = key THEN s ELSE t]
  IN {[schema |-> [n \in {key} |-> p], step |-> given(s, "absent")] :
        p \in SchemaProp, s \in Sources}
     \cup {[schema |-> [n \in TwoNames |-> IF n = key THEN p ELSE Plain("text")],
            step |-> given(s, t)] :
            p \in SchemaProp, s \in Sources, t \in {"absent", "env"}}
SomeServers ==
  [secret : BOOLEAN, default : {"absent", "text", "unset"}, ref : References, auth : {"absent"}]
    \cup [secret : {FALSE}, default : {"text"}, ref : {"absent"}, auth : References]
SomePrompts ==
  [given : {TRUE}, user : {{}, {key}, {keyring}}, reflect : {{}}]
    \cup [given : {FALSE}, user : {{}}, reflect : {{}, {key}, {keyring}}]

FirstGraph     == deps = [i \in DOMAIN File |-> {}] /\ DagInit
FirstPath      == /\ step = [kind |-> "agent", reflect |-> FALSE, threshold |-> FALSE,
                             schema |-> FALSE, tolerant |-> FALSE]
                  /\ output = {} /\ answer = {} /\ pc = "callback" /\ payload = "ok"
                  /\ results = {} /\ status = "running" /\ downstream = {}
FirstTransform == /\ data = Nil /\ before = Nil /\ other = Nil
                  /\ op = "inputs" /\ count = 0
FirstParams    == /\ stage = "agent" /\ resolved = <<>> /\ message = {} /\ forwarded = "none"
                  /\ agent = [schema |-> <<>>, step |-> [n \in AgentNames |-> "absent"]]
                  /\ server = [secret |-> FALSE, default |-> "text", ref |-> "absent",
                               auth |-> "absent"]
                  /\ prompt = [given |-> FALSE, user |-> {}, reflect |-> {}]

SampleInit ==
  \/ sample = "graph"     /\ DagInit    /\ FirstPath /\ FirstTransform /\ FirstParams
  \/ sample = "path"      /\ FirstGraph /\ Init      /\ FirstTransform /\ FirstParams
  \/ sample = "transform" /\ FirstGraph /\ FirstPath /\ TransformsInit /\ FirstParams
  \/ sample = "params"    /\ FirstGraph /\ FirstPath /\ FirstTransform /\ ParamsInit

SampleNext ==
  /\ UNCHANGED sample
  /\ \/ sample = "graph"     /\ DagNext        /\ UNCHANGED <<vars, transformVars, paramVars>>
     \/ sample = "path"      /\ Next           /\ UNCHANGED <<dagVars, transformVars, paramVars>>
     \/ sample = "transform" /\ TransformsNext /\ UNCHANGED <<dagVars, vars, paramVars>>
     \/ sample = "params"    /\ ParamsNext     /\ UNCHANGED <<dagVars, vars, transformVars>>

SampleSpec == SampleInit /\ [][SampleNext]_<<sample, dagVars, vars, transformVars, paramVars>>
=============================================================================

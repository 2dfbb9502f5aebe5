----------------------------- MODULE MCPipeline -----------------------------
(***************************************************************************)
(* Workflows of up to three steps, one of them an agent and another with a *)
(* condition: every graph on them and on one missing name, files with a    *)
(* repeated ID, and files whose last step calls a sub-workflow.            *)
(***************************************************************************)
EXTENDS SubWorkflow, TLC

CONSTANTS a, b, c, ghost, x, y, z

ThreeSteps == {a, b, c}
OneGhost   == {ghost}
BothStores == {"mem", "sqlite"}
OnlyMem    == {"mem"}
SubIDs     == {x, y, z}

Workflow(order, depends) ==
  [order |-> order, depends |-> depends, agents |-> {a}, fanouts |-> {b}, condition |-> {b}]

\* Lists of three entries: any for unique IDs; for a repeated one those that
\* name no third step.
Lists(names) == [1..3 -> SUBSET names]

AllGraphs  == {Workflow(<<a, b, c>>, d) : d \in Lists(ThreeSteps \cup OneGhost)}
RepeatedID == {Workflow(<<a, b, a>>, d) : d \in Lists({a, b, ghost})}

\* An agent, then a workflow step; and a workflow step alone.
Callers == {Workflow(<<a, c>>, <<{}, {a}>>), Workflow(<<c>>, <<{}>>)}
AllFiles == AllGraphs \cup RepeatedID \cup Callers

\* x is an agent, y a webhook, z calls a leaf.
Leaf(allows) ==
  [order |-> <<x, y>>, cyclic |-> FALSE, allows |-> allows, agents |-> {x},
   webhooks |-> {y}, condition |-> {}, calls |-> <<>>]
Leaves == {Leaf(f) : f \in BOOLEAN}
Nests(allows, leaf, optsIn) ==
  [order |-> <<z, x, y>>, cyclic |-> FALSE, allows |-> allows, agents |-> {x},
   webhooks |-> {y}, condition |-> {x}, calls |-> z :> [sub |-> leaf, optsIn |-> optsIn]]
Nested == {Nests(f, l, g) : f \in BOOLEAN, l \in Leaves, g \in BOOLEAN}
Broken == {[Leaf(TRUE) EXCEPT !.cyclic = TRUE], [Leaf(TRUE) EXCEPT !.order = <<x, x>>]}
AllSubs == Leaves \cup Nested \cup Broken

CalledBy(w, subs) ==
  {[wf |-> w, call |-> c :> [sub |-> s, optsIn |-> o]] : s \in subs, o \in BOOLEAN}

AllCompositions ==
  {[wf |-> w, call |-> <<>>] : w \in AllFiles \ Callers}
    \cup UNION {CalledBy(w, AllSubs) : w \in Callers}

\* A workflow that calls another, which has an agent.
OneCall == CalledBy(Workflow(<<c>>, <<{}>>), {Leaf(TRUE)})
=============================================================================

-------------------------------- MODULE Dag --------------------------------
(***************************************************************************)
(* dag.Resolve: detectCycle's depth-first search with colours, then the    *)
(* layers by in-degree.  The maps of the code are keyed by every name that *)
(* appears, so a dependency that is no step of the pipeline (Ghosts) is    *)
(* visited and counted like the others.  An ID may be there more than      *)
(* once, with lists of its own: the search knows the last one, the         *)
(* in-degrees count all.  Lists of dependencies are sets: the order in     *)
(* which they are visited is left open, and a name that a list has twice   *)
(* is counted twice and taken twice.                                       *)
(***************************************************************************)
EXTENDS Integers, Sequences, FiniteSets, SequencesExt

CONSTANTS
  Steps,    \* the IDs of the nodes
  Ghosts,   \* names that only appear in depends_on
  File,     \* the IDs of the nodes, as the file lists them
  Lists     \* the depends_on that the nodes may have, by their position

Names == Steps \cup Ghosts

ASSUME DagAssumption ==
  /\ IsFiniteSet(Steps) /\ IsFiniteSet(Ghosts) /\ Steps \cap Ghosts = {}
  /\ File \in Seq(Steps) /\ ToSet(File) = Steps
  /\ Lists \subseteq [DOMAIN File -> SUBSET Names]

VARIABLES
  deps,      \* Node.Depends of every node; the input
  phase,     \* "visit", "layer", "done" or "cycle" (the error)
  color,     \* "white", "gray" or "black"
  stack,     \* the nested calls of visit: the node and its unvisited deps
  inDegree,  \* -1 once the node is placed
  layers     \* the result

dagVars == <<deps, phase, color, stack, inDegree, layers>>

Entries(n) == {i \in DOMAIN File : File[i] = n}

\* What an ID waits for: all that its nodes list, each as often as they do.
Needs(n)    == UNION {deps[i] : i \in Entries(n)}
Waits(n)    == {w \in (DOMAIN File) \X Names : w[1] \in Entries(n) /\ w[2] \in deps[w[1]]}
Taken(n, S) == {w \in Waits(n) : w[2] \in S}

\* adj: a node replaces what an earlier one with its ID lists.
Depends(n) ==
  IF n \in Steps THEN deps[CHOOSE i \in Entries(n) : \A j \in Entries(n) : j <= i] ELSE {}

DagTypeOK ==
  /\ deps \in Lists
  /\ phase \in {"visit", "layer", "done", "cycle"}
  /\ color \in [Names -> {"white", "gray", "black"}]
  /\ stack \in Seq([node : Names, rest : SUBSET Names])
  /\ inDegree \in [Steps -> -1..Len(File) * Cardinality(Names)]
  /\ layers \in Seq(SUBSET Steps) /\ Len(layers) <= Cardinality(Steps)

DagInit ==
  /\ deps \in Lists
  /\ phase = "visit"
  /\ color = [n \in Names |-> "white"]
  /\ stack = <<>>
  /\ inDegree = [n \in Steps |-> 0]
  /\ layers = <<>>

-----------------------------------------------------------------------------
(* detectCycle                                                             *)

Call(n) == [node |-> n, rest |-> Depends(n)]

\* The outer loop of detectCycle calls visit for the next node.
VisitRoot(n) ==
  /\ phase = "visit" /\ stack = <<>>
  /\ color[n] = "white"
  /\ color' = [color EXCEPT ![n] = "gray"]
  /\ stack' = <<Call(n)>>
  /\ UNCHANGED <<deps, phase, inDegree, layers>>

\* Mutant: a node on the stack is taken for one that was left.
VisitDepSeen(d) ==
  /\ phase = "visit" /\ stack # <<>>
  /\ d \in Last(stack).rest
  /\ LET seen == [stack EXCEPT ![Len(stack)].rest = @ \ {d}]
     IN \/ /\ color[d] # "white"
           /\ stack' = seen
           /\ UNCHANGED color
        \/ /\ color[d] = "white"
           /\ color' = [color EXCEPT ![d] = "gray"]
           /\ stack' = Append(seen, Call(d))
  /\ UNCHANGED <<deps, phase, inDegree, layers>>

\* visit looks at one dependency of the node it is at.
VisitDep(d) ==
  /\ phase = "visit" /\ stack # <<>>
  /\ d \in Last(stack).rest
  /\ LET seen == [stack EXCEPT ![Len(stack)].rest = @ \ {d}]
     IN \/ /\ color[d] = "gray"
           /\ phase' = "cycle"
           /\ UNCHANGED <<color, stack>>
        \/ /\ color[d] = "black"
           /\ stack' = seen
           /\ UNCHANGED <<phase, color>>
        \/ /\ color[d] = "white"
           /\ color' = [color EXCEPT ![d] = "gray"]
           /\ stack' = Append(seen, Call(d))
           /\ UNCHANGED phase
  /\ UNCHANGED <<deps, inDegree, layers>>

Leave ==
  /\ phase = "visit" /\ stack # <<>>
  /\ Last(stack).rest = {}
  /\ color' = [color EXCEPT ![Last(stack).node] = "black"]
  /\ stack' = Front(stack)
  /\ UNCHANGED <<deps, phase, inDegree, layers>>

-----------------------------------------------------------------------------
(* The layers.                                                             *)

\* Mutant: names that are no step are not counted.
StartLayersKnown ==
  /\ phase = "visit" /\ stack = <<>>
  /\ \A n \in Steps : color[n] = "black"
  /\ phase' = "layer"
  /\ inDegree' = [n \in Steps |-> Cardinality(Taken(n, Steps))]
  /\ UNCHANGED <<deps, color, stack, layers>>

StartLayers ==
  /\ phase = "visit" /\ stack = <<>>
  /\ \A n \in Steps : color[n] = "black"
  /\ phase' = "layer"
  /\ inDegree' = [n \in Steps |-> Cardinality(Waits(n))]
  /\ UNCHANGED <<deps, color, stack, layers>>

\* Mutant: a layer takes one from the in-degree of a node that depends on it.
PlaceLayerOnce ==
  /\ phase = "layer"
  /\ LET layer == {n \in Steps : inDegree[n] = 0}
     IN IF layer = {}
          THEN phase' = "done" /\ UNCHANGED <<inDegree, layers>>
          ELSE /\ layers' = Append(layers, layer)
               /\ inDegree' = [n \in Steps |->
                    IF n \in layer THEN -1
                    ELSE IF Taken(n, layer) = {} THEN inDegree[n] ELSE inDegree[n] - 1]
               /\ UNCHANGED phase
  /\ UNCHANGED <<deps, color, stack>>

\* One turn of the loop: the nodes of in-degree 0 are placed, and every
\* other node loses the dependencies that were placed.
PlaceLayer ==
  /\ phase = "layer"
  /\ LET layer == {n \in Steps : inDegree[n] = 0}
     IN IF layer = {}
          THEN phase' = "done" /\ UNCHANGED <<inDegree, layers>>
          ELSE /\ layers' = Append(layers, layer)
               /\ inDegree' = [n \in Steps |->
                    IF n \in layer THEN -1
                    ELSE inDegree[n] - Cardinality(Taken(n, layer))]
               /\ UNCHANGED phase
  /\ UNCHANGED <<deps, color, stack>>

DagNext ==
  \/ \E n \in Steps : VisitRoot(n)
  \/ \E d \in Names : VisitDep(d)
  \/ Leave \/ StartLayers \/ PlaceLayer

DagSpec == DagInit /\ [][DagNext]_dagVars

-----------------------------------------------------------------------------

\* No set of steps in which each depends on another of the set, as far as the
\* last node of an ID tells.
Acyclic ==
  \A S \in (SUBSET Steps) \ {{}} : \E n \in S : Depends(n) \cap S = {}

Placed(k) == UNION {layers[i] : i \in 1..k}

\* The search reports a cycle exactly when those lists have one.
CycleDetected ==
  /\ phase = "cycle" => ~Acyclic
  /\ phase \in {"layer", "done"} => Acyclic

\* A step stands after everything that any node with its ID depends on, and as
\* early as it can: what it depends on fills the layer before.
LayersRespectDepends ==
  \A i \in 1..Len(layers) : \A n \in layers[i] :
    /\ Needs(n) \subseteq Placed(i - 1)
    /\ i > 1 => Needs(n) \cap layers[i - 1] # {}
    /\ \A j \in 1..Len(layers) : n \in layers[j] => i = j

\* The steps left out are those that wait for a name that is no step, or for
\* a step that was left out; without such names no step is, unless nodes with
\* one ID differ in what they list, which may hide a cycle.
LeftOutForAReason ==
  phase = "done" =>
    LET out == Steps \ Placed(Len(layers))
    IN /\ \A n \in out : Needs(n) \cap (Ghosts \cup out) # {}
       /\ (\A n \in Steps : Needs(n) \subseteq Steps /\ Depends(n) = Needs(n)) => out = {}
=============================================================================

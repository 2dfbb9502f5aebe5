----------------------------- MODULE Resolution -----------------------------
(***************************************************************************)
(* dag.Resolve as Runner.Execute uses it, where Pipeline has one step,     *)
(* CreateRun, and a definition of the order.  A layer lists the nodes as   *)
(* the file does, and an ID that is there twice is listed twice.  Neither  *)
(* agents, conditions nor the store matter to CreateRun as long as the     *)
(* context of the run is not done.                                         *)
(***************************************************************************)
EXTENDS Dag

Workflow(d) ==
  [order |-> File, depends |-> d, agents |-> {}, fanouts |-> {}, condition |-> {}]
Workflows   == {Workflow(d) : d \in Lists}

\* Mutant: an ID that is there twice is listed once.
CollectedOnce(layer) ==
  LET f[i \in 0..Len(File)] ==
        IF i = 0 THEN <<>>
        ELSE IF File[i] \in layer \ ToSet(f[i - 1]) THEN Append(f[i - 1], File[i]) ELSE f[i - 1]
  IN f[Len(File)]

\* The members of a layer, collected in the order of the nodes.
Collected(layer) ==
  LET f[i \in 0..Len(File)] ==
        IF i = 0 THEN <<>>
        ELSE IF File[i] \in layer THEN Append(f[i - 1], File[i]) ELSE f[i - 1]
  IN f[Len(File)]

\* The two loops of Execute, over the layers and over the steps of a layer.
Executed == FlattenSeq([k \in 1..Len(layers) |-> Collected(layers[k])])

Status  == IF phase \in {"done", "cycle"} THEN "running" ELSE "none"
Queue   == IF phase = "done" THEN Executed ELSE <<>>
Label   == IF phase = "done" THEN "next" ELSE IF phase = "cycle" THEN "done" ELSE "create"
Outcome == IF phase = "cycle" THEN "error" ELSE "none"

Runner == INSTANCE Pipeline WITH
  Stores <- {"mem"}, MayExpire <- FALSE, wf <- Workflow(deps), store <- "mem",
  run <- Status, step <- [s \in Steps |-> "none"], queue <- Queue, pc <- Label,
  outputs <- {}, finalRec <- "none", stray <- {}, expired <- FALSE, returned <- Outcome

\* The search and the loop of dag.Resolve come to what the run of a pipeline
\* takes for its order: the steps whose dependencies stand before them, layer by
\* layer, or an error when the last lists of the IDs have a cycle.
ImplementsCreateRun == Runner!Init /\ [][Runner!CreateRun]_(Runner!vars)
=============================================================================

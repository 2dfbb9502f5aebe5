----------------------------- MODULE GatedCall -----------------------------
(***************************************************************************)
(* What an agent step with a gated tool call promises to the outside: the  *)
(* call is asked for once and decided once, it is executed at most once    *)
(* and only when it was approved, and the run it belongs to ends once, and *)
(* not as a success while a decision is outstanding.  A decision contended *)
(* with a timer may be replaced, and the call executed although it was.    *)
(***************************************************************************)
VARIABLES
  decision,   \* "none", "pending" or the decision
  contended,  \* a timer decides, too
  executed,   \* how often a gated call was executed
  outcome     \* "running", or how the run ended

vars == <<decision, contended, executed, outcome>>

Init == decision = "none" /\ contended = FALSE /\ executed = 0 /\ outcome = "running"

Ask ==
  /\ decision = "none"
  /\ decision' = "pending"
  /\ contended' \in BOOLEAN
  /\ UNCHANGED <<executed, outcome>>

Decide(d) ==
  /\ decision = "pending" \/ (contended /\ decision # "none")
  /\ decision' = d
  /\ UNCHANGED <<contended, executed, outcome>>

Execute ==
  /\ decision = "approved" \/ (contended /\ decision \in {"rejected", "timeout"})
  /\ executed = 0
  /\ executed' = 1
  /\ UNCHANGED <<decision, contended, outcome>>

End(o) ==
  /\ outcome = "running"
  /\ o = "complete" => decision # "pending"
  /\ outcome' = o
  /\ UNCHANGED <<decision, contended, executed>>

Next ==
  \/ Ask
  \/ \E d \in {"approved", "rejected", "timeout"} : Decide(d)
  \/ Execute
  \/ \E o \in {"complete", "failed"} : End(o)

Spec == Init /\ [][Next]_vars
=============================================================================

---------------------------- MODULE MCAgentStep ----------------------------
(***************************************************************************)
(* Constants for checking AgentStep.                                       *)
(***************************************************************************)
EXTENDS AgentStep

CONSTANTS r1, r2     \* decide requests

OneReviewer  == {r1}
TwoReviewers == {r1, r2}

AllPolicies   == PolicySet
RejectFails   == {[onReject |-> "fail", timeout |-> "none"]}

AllEvents    == EventSet
Delivered    == EventSet \ {"post"}
OnlyDeadline == {"deadline"}
NoEvents     == {}
=============================================================================

---------------------------- MODULE MCMcpClient ----------------------------
(***************************************************************************)
(* Two calls; servers that work, that have one fault, and some of two.     *)
(***************************************************************************)
EXTENDS McpClient

CONSTANTS c1, c2

TwoCalls   == {c1, c2}
SomeFaulty == {{}} \cup {{f} : f \in Faults} \cup {{"refuses", "slow"}}
=============================================================================

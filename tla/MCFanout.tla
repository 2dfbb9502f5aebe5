------------------------------ MODULE MCFanout ------------------------------
(***************************************************************************)
(* Arrays of up to four items: concurrency 1, 2 and unlimited, no, one,    *)
(* two and unlimited tolerated failures, cut at three items or not at all. *)
(***************************************************************************)
EXTENDS Fanout

SomeMaxItems    == {0, 3}
SomeConcurrency == {0, 1, 2}
SomeMaxFailures == {-1, 0, 1, 2}
=============================================================================

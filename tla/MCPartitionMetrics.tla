-------------------------- MODULE MCPartitionMetrics --------------------------
(***************************************************************************)
(* A small set of results: winners, losers and a breakeven, one of them a  *)
(* gross winner that the frictions turn into a net loser.                  *)
(***************************************************************************)
EXTENDS PartitionMetrics

Yield(gross, impact, cost) == [gross |-> gross, impact |-> impact, cost |-> cost]

SomeResults == {Yield(3, 0, 0), Yield(2, 1, 2), Yield(2, 1, 1), Yield(-1, 0, 1), Yield(4, 1, 2)}
=============================================================================

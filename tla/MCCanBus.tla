------------------------------ MODULE MCCanBus ------------------------------
(***************************************************************************)
(* CanBus for TLC: a rota of three messages over four slots, which takes   *)
(* seven of its eight ticks when the bus is stuck.                         *)
(***************************************************************************)
EXTENDS CanBus

SmallRota ==
    <<[id |-> "origin", period |-> 4, phase |-> 2],
      [id |-> "gate", period |-> 2, phase |-> 1],
      [id |-> "pose", period |-> 1, phase |-> 0]>>

TwoGates == <<"gate0", "gate1">>
=============================================================================

----------------------------- MODULE MCGateTable -----------------------------
(***************************************************************************)
(* GateTable for TLC: which commands come in over the bus in each run.     *)
(***************************************************************************)
EXTENDS GateTable

Cmd(c, k) == [cmd |-> c, arg0 |-> k]

\* A sector set out of turn and cleared on its own, clear-all, stray indices.
TableCommands ==
    {Cmd("GATE_SET", 2), Cmd("GATE_CLEAR", 1), Cmd("GATE_CLEAR", All),
     Cmd("GATE_SET", StrayIndex), Cmd("GATE_CLEAR", StrayIndex)}

ClearOne == {Cmd("GATE_CLEAR", 1)}
=============================================================================

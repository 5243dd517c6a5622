---------------------------- MODULE MCFixHistory ----------------------------
(***************************************************************************)
(* FixHistory for TLC: a history of three steps, ticks that wrap.          *)
(***************************************************************************)
EXTENDS FixHistory

\* The tick wraps in the middle of the history, or not at all.
TwoStarts == {0, 29}
=============================================================================

----------------------------- MODULE MCLapTimer -----------------------------
(***************************************************************************)
(* LapTimer for TLC, with a week of five milliseconds.                     *)
(***************************************************************************)
EXTENDS LapTimer

\* What is read before the first PPS pulse; it is late or early as time goes.
ZeroRead == {0}
=============================================================================

----------------------------- MODULE MCTimebase -----------------------------
(***************************************************************************)
(* Timebase for TLC: a second of four ms, a week of six seconds, and an     *)
(* oscillator that makes three ticks where the code counts on two.          *)
(***************************************************************************)
EXTENDS Timebase

\* Booting in the middle of the week, and shortly before its end.
TwoBoots == {6, 23}
=============================================================================

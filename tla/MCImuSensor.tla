---------------------------- MODULE MCImuSensor ----------------------------
(***************************************************************************)
(* ImuSensor for TLC.                                                      *)
(***************************************************************************)
EXTENDS ImuSensor
=============================================================================

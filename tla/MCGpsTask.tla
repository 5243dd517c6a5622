----------------------------- MODULE MCGpsTask -----------------------------
(***************************************************************************)
(* GpsTask for TLC: bytes of two bits, a NAV-PVT without a payload.        *)
(***************************************************************************)
EXTENDS GpsTask

\* Written out, for TLC evaluates it again at every byte.
OneFrame == << <<3, 2, 1, 1, 0, 0, 2, 3>> >>

ASSUME OneFrame = <<Frame(1, 1, <<>>)>>
=============================================================================

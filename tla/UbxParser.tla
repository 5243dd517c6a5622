----------------------------- MODULE UbxParser -----------------------------
(***************************************************************************)
(* gps/ubx.c: the UBX parser, byte by byte, and the frames it is for.      *)
(*                                                                         *)
(* A byte is a number below ByteMod, 256 in the code; the checksum is      *)
(* computed.  Of a payload only its length and its part in the checksum    *)
(* are kept.                                                               *)
(***************************************************************************)
EXTENDS Integers, Sequences

CONSTANTS
    ByteMod,        \* the range of a byte
    Sync1, Sync2    \* UBX_SYNC1, UBX_SYNC2

ASSUME UbxAssumption ==
    ByteMod \in Nat \ {0} /\ Sync1 # Sync2 /\ {Sync1, Sync2} \subseteq 0 .. ByteMod - 1

\* ubx_parser_init
ParserInit == [state |-> "SYNC1", cls |-> 0, id |-> 0, len |-> 0, idx |-> 0, ckA |-> 0, ckB |-> 0]

\* ubx_ck_update
CkUpdate(p, byte) ==
    [p EXCEPT !.ckA = (@ + byte) % ByteMod, !.ckB = (@ + p.ckA + byte) % ByteMod]

\* As AfterBadSync, forgetting that the byte may start a frame.
AfterBadSync_Sync1(byte) == "SYNC1"

\* The state after a byte that is not the second of a sync pair.
AfterBadSync(byte) == IF byte = Sync1 THEN "SYNC2" ELSE "SYNC1"

\* The checksum at the start of a frame.
CkStart(p) == [p EXCEPT !.ckA = 0, !.ckB = 0]

\* ubx_parser_feed
Feed(p, byte) ==
    CASE p.state = "SYNC1" -> IF byte = Sync1 THEN [p EXCEPT !.state = "SYNC2"] ELSE p
      [] p.state = "SYNC2" -> IF byte = Sync2 THEN [CkStart(p) EXCEPT !.state = "CLASS"]
                              ELSE [p EXCEPT !.state = AfterBadSync(byte)]
      [] p.state = "CLASS" -> [CkUpdate(p, byte) EXCEPT !.cls = byte, !.state = "ID"]
      [] p.state = "ID" -> [CkUpdate(p, byte) EXCEPT !.id = byte, !.state = "LEN1"]
      [] p.state = "LEN1" -> [CkUpdate(p, byte) EXCEPT !.len = byte, !.state = "LEN2"]
      [] p.state = "LEN2" ->
           LET len == p.len + ByteMod * byte
           IN [CkUpdate(p, byte) EXCEPT !.len = len, !.idx = 0,
                                        !.state = IF len = 0 THEN "CK_A" ELSE "PAYLOAD"]
      [] p.state = "PAYLOAD" ->
           [CkUpdate(p, byte) EXCEPT !.idx = @ + 1,
                                     !.state = IF p.idx + 1 >= p.len THEN "CK_A" ELSE @]
      [] p.state = "CK_A" -> [p EXCEPT !.state = IF byte = p.ckA THEN "CK_B" ELSE "SYNC1"]
      [] p.state = "CK_B" -> [p EXCEPT !.state = "SYNC1"]

\* ubx_parser_feed returns true: p.frame is whole.
Returns(p, byte) == p.state = "CK_B" /\ byte = p.ckB

\* The longest length field.
MaxLen == ByteMod * ByteMod - 1

\* ubx_frame_build, for a payload shorter than ByteMod.
Frame(cls, id, payload) ==
    LET body == <<cls, id, Len(payload), 0>> \o payload
        ck[n \in 0 .. Len(body)] == IF n = 0 THEN CkStart(ParserInit)
                                             ELSE CkUpdate(ck[n - 1], body[n])
    IN <<Sync1, Sync2>> \o body \o <<ck[Len(body)].ckA, ck[Len(body)].ckB>>

=============================================================================

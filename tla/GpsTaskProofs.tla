--------------------------- MODULE GpsTaskProofs ---------------------------
(***************************************************************************)
(* Proofs about GpsTask, the boot configuration (GpsBoot), the ring        *)
(* between the DMA and the drain and the parser behind it, and about       *)
(* Timebase, what gps_task does with the time of a NAV-PVT.                *)
(***************************************************************************)
EXTENDS GpsTask, Timebase, NatFacts

-----------------------------------------------------------------------------
(* The boot configuration.                                                 *)

Answers == {"version", "ack", "nak", "match", "differ"}

BootType ==
    /\ awake \in BOOLEAN /\ configured \in BOOLEAN
    /\ requests \in Seq({"probe", "valset", "verify"})
    /\ ddc \in Seq(Answers)
    /\ boot \in Stages /\ waiting \in BOOLEAN /\ fault \in BOOLEAN

\* A matching answer that is still to be read is true: the receiver has had the
\* configuration since it gave it.  Nobody waits once the boot is over.
BootInv ==
    /\ BootType
    /\ \A i \in 1 .. Len(ddc) : ddc[i] = "match" => configured
    /\ boot = "stream" => ~waiting
    /\ NoFaultIsConfigured

\* The first of the answers that are wanted is one of them.
LEMMA FirstFound ==
    ASSUME NEW found \in SUBSET Nat, found # {}
    PROVE  Min(found) \in found
<1>1. \E x \in found : \A y \in found : x <= y
  BY LeastElement
<1> QED
  BY <1>1 DEF Min

LEMMA EmptyIsSeq ==
    ASSUME NEW S
    PROVE  <<>> \in Seq(S) /\ 1 .. Len(<<>>) = {}
OBVIOUS

LEMMA BootInvInit ==
    Init => BootInv
<1> SUFFICES ASSUME Init PROVE BootInv
  OBVIOUS
<1>1. awake \in BOOLEAN /\ configured \in BOOLEAN
  BY Zenon DEF Init, BootInit
<1>2. requests = <<>> /\ boot = "probe" /\ waiting = FALSE /\ fault = FALSE
  BY Zenon DEF Init, BootInit
<1>3. CASE configured
  <2>1. ddc \in {<<>>, <<"ack">>, <<"match">>}
    BY <1>3, Zenon DEF Init, BootInit
  <2>2. <<"ack">> \in Seq(Answers) /\ <<"match">> \in Seq(Answers)
    BY DEF Answers
  <2>3. ddc \in Seq(Answers)
    BY <2>1, <2>2, EmptyIsSeq, Zenon
  <2>4. requests \in Seq({"probe", "valset", "verify"})
    BY <1>2, EmptyIsSeq, Zenon
  <2> QED
    BY <1>1, <1>2, <1>3, <2>3, <2>4 DEF BootInv, BootType, NoFaultIsConfigured, Stages
<1>4. CASE ~configured
  <2>1. ddc = <<>>
    BY <1>4, Zenon DEF Init, BootInit
  <2>2. ddc \in Seq(Answers) /\ 1 .. Len(ddc) = {}
    BY <2>1, EmptyIsSeq, Zenon
  <2>3. requests \in Seq({"probe", "valset", "verify"})
    BY <1>2, EmptyIsSeq, Zenon
  <2> QED
    BY <1>1, <1>2, <1>4, <2>2, <2>3 DEF BootInv, BootType, NoFaultIsConfigured, Stages
<1> QED
  BY <1>3, <1>4

\* The boot may only end without a fault when a matching answer was read.
LEMMA FinishKeeps ==
    ASSUME BootInv, NEW ok \in BOOLEAN, ok => configured, Finish(ok)
    PROVE  BootInv'
<1>1. configured' \in BOOLEAN /\ (configured => configured')
  BY Zenon DEF BootInv, BootType, Finish
<1>2. requests' = <<>> /\ ddc' = <<>> /\ boot' = "stream" /\ waiting' = FALSE
      /\ fault' \in BOOLEAN /\ awake' \in BOOLEAN /\ (~fault' => ok)
  BY Zenon DEF BootInv, BootType, Finish
<1>3. requests' \in Seq({"probe", "valset", "verify"})
      /\ ddc' \in Seq(Answers) /\ 1 .. Len(ddc') = {}
  BY <1>2, EmptyIsSeq, Zenon
<1> QED
  BY <1>1, <1>2, <1>3 DEF BootInv, BootType, NoFaultIsConfigured, Stages

LEMMA FailsKeeps ==
    ASSUME BootInv, boot # "stream", Fails
    PROVE  BootInv'
<1>1. CASE Finish(FALSE)
  BY <1>1, FinishKeeps, Zenon
<1>2. CASE waiting' = FALSE /\ UNCHANGED <<receiverVars, boot, fault>>
  BY <1>2 DEF BootInv, BootType, NoFaultIsConfigured, receiverVars
<1> QED
  BY <1>1, <1>2, Zenon DEF Fails

LEMMA BootStepKeeps ==
    ASSUME BootInv, BootStep
    PROVE  BootInv'
<1>1. CASE WriteRefused
  BY <1>1, FailsKeeps, Zenon DEF WriteRefused
<1>2. CASE GiveUp
  BY <1>2, FailsKeeps, Zenon DEF GiveUp, BootInv
<1>3. CASE Write
  <2>1. requests' \in Seq({"probe", "valset", "verify"})
    BY <1>3 DEF Write, BootInv, BootType, Stages
  <2> QED
    BY <1>3, <2>1 DEF Write, BootInv, BootType, NoFaultIsConfigured
<1>4. CASE Poll
  <2>1. PICK n \in 1 .. Len(ddc) :
          LET found == {i \in 1 .. n : ddc[i] \in Wanted}
          IN IF found # {} /\ boot = "verify" THEN Finish(Verified(ddc[Min(found)]))
             ELSE /\ ddc' = SubSeq(ddc, n + 1, Len(ddc))
                  /\ IF found = {} THEN UNCHANGED <<boot, waiting, attempt>>
                     ELSE /\ waiting' = FALSE /\ attempt' = 0
                          /\ boot' = IF boot = "probe" THEN "valset" ELSE "verify"
                  /\ UNCHANGED <<awake, configured, requests, restarts, fault>>
    BY <1>4, Zenon DEF Poll
  <2> DEFINE found == {i \in 1 .. n : ddc[i] \in Wanted}
  <2>2. boot # "stream"
    BY <1>4 DEF Poll, BootInv
  <2>3. CASE found # {} /\ boot = "verify"
    <3>1. Min(found) \in found
      BY <2>3, FirstFound
    <3>2. Min(found) \in 1 .. Len(ddc)
      BY <3>1 DEF BootInv, BootType
    <3>3. ASSUME Verified(ddc[Min(found)]) PROVE configured
      BY <3>2, <3>3 DEF Verified, BootInv
    <3>4. Finish(Verified(ddc[Min(found)]))
      BY <2>1, <2>3, Zenon
    <3>5. Verified(ddc[Min(found)]) \in BOOLEAN
      BY DEF Verified
    <3> QED
      BY <3>3, <3>4, <3>5, FinishKeeps, Zenon
  <2>4. CASE ~(found # {} /\ boot = "verify")
    <3>1. ddc' = SubSeq(ddc, n + 1, Len(ddc)) /\ ddc \in Seq(Answers)
          /\ UNCHANGED <<awake, configured, requests, restarts, fault>>
      BY <2>1, <2>4, Zenon DEF BootInv, BootType
    <3>2. boot' \in Stages /\ boot' # "stream" /\ waiting' \in BOOLEAN
      BY <2>1, <2>2, <2>4 DEF Stages, BootInv, BootType
    <3>3. ddc' \in Seq(Answers)
      BY <3>1
    <3>4. \A i \in 1 .. Len(ddc') : ddc'[i] = ddc[n + i] /\ n + i \in 1 .. Len(ddc)
      BY <3>1
    <3> QED
      BY <3>1, <3>2, <3>3, <3>4 DEF BootInv, BootType, NoFaultIsConfigured
  <2> QED
    BY <2>3, <2>4
<1> QED
  BY <1>1, <1>2, <1>3, <1>4 DEF BootStep

LEMMA ReceiverStepKeeps ==
    ASSUME BootInv, ReceiverStep
    PROVE  BootInv'
<1>1. CASE Wakes
  BY <1>1 DEF Wakes, BootInv, BootType, NoFaultIsConfigured
<1>2. CASE Restarts
  <2>1. /\ awake' = FALSE /\ configured' = FALSE /\ requests' = <<>> /\ ddc' = <<>>
        /\ boot # "stream" /\ UNCHANGED <<boot, waiting, fault>>
    BY <1>2 DEF Restarts
  <2>2. requests' \in Seq({"probe", "valset", "verify"})
        /\ ddc' \in Seq(Answers) /\ 1 .. Len(ddc') = {}
    BY <2>1, EmptyIsSeq, Zenon
  <2> QED
    BY <2>1, <2>2 DEF BootInv, BootType, NoFaultIsConfigured
<1>3. CASE Answer
  <2>1. PICK answer \in Answers :
          /\ answer = "match" => configured
          /\ ddc' = Append(ddc, answer)
          /\ configured' \in {configured, configured \/ answer = "ack"}
    <3>1. Head(requests) \in {"probe", "valset", "verify"}
      BY <1>3 DEF Answer, BootInv, BootType
    <3> QED
      BY <1>3, <3>1, Zenon DEF Answer, Answers
  <2>2. configured' \in BOOLEAN /\ (configured => configured')
    BY <2>1, Zenon DEF BootInv, BootType
  <2>3. requests' \in Seq({"probe", "valset", "verify"})
    BY <1>3 DEF Answer, BootInv, BootType
  <2>4. ddc' \in Seq(Answers)
    BY <2>1 DEF BootInv, BootType
  <2>5. \A i \in 1 .. Len(ddc') : ddc'[i] = "match" => configured
    BY <2>1 DEF BootInv, BootType
  <2>6. UNCHANGED <<awake, restarts, boot, waiting, attempt, fault>>
    BY <1>3, Zenon DEF Answer
  <2> QED
    BY <2>2, <2>3, <2>4, <2>5, <2>6 DEF BootInv, BootType, NoFaultIsConfigured
<1> QED
  BY <1>1, <1>2, <1>3 DEF ReceiverStep

\* GPS_FAULT not published at the end of the boot means that the receiver has the
\* configuration, however long it took to wake, whatever it answered to which
\* request or left from an earlier boot, and whenever it restarted in between.
THEOREM ConfigurationIsVerified ==
    Spec => []NoFaultIsConfigured
<1>1. BootInv /\ [Next]_vars => BootInv'
  <2> SUFFICES ASSUME BootInv, [Next]_vars PROVE BootInv'
    OBVIOUS
  <2>1. CASE BootStep
    BY <2>1, BootStepKeeps
  <2>2. CASE ReceiverStep
    BY <2>2, ReceiverStepKeeps
  <2>3. CASE UNCHANGED bootVars
    BY <2>3 DEF BootInv, BootType, NoFaultIsConfigured, bootVars, receiverVars
  <2>4. BootStep \/ ReceiverStep \/ UNCHANGED bootVars
    BY Zenon DEF Next, ProcessorStep, StreamStep, TransferComplete, LineError, Byte, Idle,
                 Noise, vars
  <2> QED
    BY <2>1, <2>2, <2>3, <2>4
<1>2. BootInv => NoFaultIsConfigured
  BY DEF BootInv
<1> QED
  BY BootInvInit, <1>1, <1>2, PTL DEF Spec

-----------------------------------------------------------------------------
(* The ring: read_idx, the DMA's index and the events between them.        *)

\* Bytes do not come faster than an error is handled, and no event and error
\* both come between a return of the wait and the look at the error flag.
OrderlyLine == Admit = {}

Index == 0 .. Ring - 1

\* No frame is longer: two fit the ring (GpsAssumption).
HalfRing == (Ring - 1) \div 2

StreamType ==
    /\ frame \in 1 .. Len(Frames) /\ byte \in 1 .. Len(Frames[frame]) + 1
    /\ ring \in [Index -> {Read} \union 0 .. ByteMod - 1]
    /\ pos \in Index /\ readIdx \in Index /\ writeIdx \in Index
    /\ note \in 0 .. Ring
    /\ pc \in {"arm", "enable", "request", "reset", "wait", "check", "drain"}
    /\ flag \in {"none", "framing"}
    /\ dmar \in BOOLEAN /\ toIdle \in BOOLEAN /\ idleIrq \in BOOLEAN
    /\ errIrq \in BOOLEAN
    /\ wrapped \in BOOLEAN /\ uartError \in BOOLEAN /\ notified \in BOOLEAN

\* The states that the handle, the DMA and the task can be in together.
Wiring ==
    /\ rxState = dma /\ dma \in {"ready", "busy"}
    /\ dmar => rxState = "busy" /\ toIdle /\ idleIrq /\ errIrq
    /\ ~dmar => ~idleIrq /\ ~wrapped
    /\ rxState = "busy" => dmar \/ pc \in {"enable", "request"}
    /\ pc \in {"enable", "request"} =>
          ~dmar /\ rxState = "busy" /\ toIdle /\ pos = 0 /\ ring = Empty
    /\ pc = "request" => errIrq
    /\ pc \in {"reset", "wait", "check", "drain"} => dmar \/ uartError

\* An error that is not seen yet has notified the task.  While the reception
\* runs on, after a framing error that was pending when it was armed, nothing
\* of the ring has been read.
ErrorPlace ==
    /\ uartError => notified \/ pc = "check"
    /\ uartError /\ dmar => pc \in {"reset", "wait", "check"}
    /\ uartError /\ dmar /\ pc \in {"wait", "check"} => readIdx = 0

\* Where the task reads next, or will once it has reset read_idx.
Base == IF pc \in {"arm", "enable", "request", "reset"} THEN 0 ELSE readIdx

\* How far slot a is ahead of slot b, around the ring.
Distance(b, a) == IF a >= b THEN a - b ELSE a - b + Ring

\* How far slot a is ahead of where the task reads.
Ahead(a) == Distance(Base, a)

\* The bytes that are not read are those from there to the DMA's index.
RingOK ==
    (pc = "arm" => dmar) =>
        \A i \in Index : ring[i] # Read <=> Ahead(i) < Ahead(pos)

\* The bytes of the frame on the line, or of the one before it.
Sent == IF byte > 1 THEN byte - 1 ELSE HalfRing

\* No event waits to be handled: a new frame may begin.
Settled == ~notified /\ pc \notin {"check", "drain"}

Fill ==
    dmar => /\ uartError => Ahead(pos) <= Sent
            /\ ~uartError => Ahead(pos) <= HalfRing + Sent
            /\ ~uartError /\ Settled /\ byte = 1 => Ahead(pos) <= HalfRing

\* The value of the notification that the task will act on, for it will see no
\* error, or has taken the notification of the error.
Counts == notified /\ (~uartError \/ pc = "check")

\* Such an event is no further than the DMA, and when the line is idle no less.
Events ==
    /\ ~notified => note = 0
    /\ Counts /\ ~dmar /\ pc \in {"arm", "enable", "request", "check"} => note = 0
    /\ Counts /\ dmar => Ahead(note % Ring) <= Ahead(pos)
    /\ Counts /\ dmar /\ byte = 1 => note % Ring = pos

\* So is write_idx, and an event that came after it is no nearer.
Limits ==
    /\ pc = "drain" \/ (pc = "check" /\ ~uartError) => Ahead(writeIdx) <= Ahead(pos)
    /\ pc \in {"check", "drain"} /\ dmar /\ ~uartError /\ notified =>
          Ahead(writeIdx) <= Ahead(note % Ring)
    /\ pc \in {"check", "drain"} /\ dmar /\ ~uartError /\ ~notified /\ byte = 1 =>
          writeIdx = pos

StreamInv ==
    /\ StreamType
    /\ Wiring
    /\ ErrorPlace
    /\ RingOK
    /\ Fill
    /\ Events
    /\ Limits

LEMMA SeqElement ==
    ASSUME NEW S, NEW s \in Seq(S), NEW k \in 1 .. Len(s)
    PROVE  s[k] \in S
OBVIOUS

\* Sizes: the ring holds two frames.
LEMMA Sizes ==
    /\ Ring \in Nat /\ Ring > 0 /\ HalfRing \in Nat /\ 2 * HalfRing < Ring
    /\ \A i \in 1 .. Len(Frames) :
         /\ Len(Frames[i]) \in Nat /\ Len(Frames[i]) <= HalfRing
         /\ \A k \in 1 .. Len(Frames[i]) : Frames[i][k] \in 0 .. ByteMod - 1
<1>1. 1 \in 1 .. Len(Frames)
  BY GpsAssumption
<1>2. ASSUME NEW i \in 1 .. Len(Frames)
      PROVE  /\ Len(Frames[i]) \in Nat /\ 2 * Len(Frames[i]) < Ring
             /\ \A k \in 1 .. Len(Frames[i]) : Frames[i][k] \in 0 .. ByteMod - 1
  <2>1. Frames[i] \in Seq(0 .. ByteMod - 1) /\ i \in DOMAIN Frames
    BY GpsAssumption
  <2>2. Ring > Len(Frames[i]) + Len(Frames[i])
    BY <2>1, GpsAssumption
  <2>3. Len(Frames[i]) \in Nat
    BY <2>1
  <2>4. \A k \in 1 .. Len(Frames[i]) : Frames[i][k] \in 0 .. ByteMod - 1
    BY <2>1, SeqElement, Zenon
  <2>5. 2 * Len(Frames[i]) < Ring
    BY <2>2, <2>3, GpsAssumption
  <2> QED
    BY <2>3, <2>4, <2>5
<1>3. Ring \in Nat /\ Ring > 0
  BY <1>1, <1>2, GpsAssumption
<1>4. HalfRing \in Nat /\ 2 * HalfRing < Ring /\ 2 * HalfRing >= Ring - 2
  BY <1>3 DEF HalfRing
<1> QED
  BY <1>2, <1>3, <1>4

\* The next slot, and the slot of an event's position.
LEMMA Slots ==
    /\ \A r \in Index : (r + 1) % Ring = (IF r + 1 = Ring THEN 0 ELSE r + 1)
    /\ \A p \in 0 .. Ring : p % Ring = (IF p = Ring THEN 0 ELSE p)
    /\ \A p, r \in Index : (p - r) % Ring = Distance(r, p)
    /\ \A n, r \in Index : (r + n) % Ring = (IF r + n < Ring THEN r + n ELSE r + n - Ring)
<1>1. Ring \in Nat /\ Ring > 0
  BY Sizes
<1>2. ASSUME NEW r \in Index
      PROVE  (r + 1) % Ring = (IF r + 1 = Ring THEN 0 ELSE r + 1)
  <2>1. r + 1 \in Int /\ r + 1 \in 0 .. 2 * Ring - 1
    BY <1>1 DEF Index
  <2> QED
    BY <1>1, <2>1, ModOnce DEF Index
<1>3. ASSUME NEW p \in 0 .. Ring
      PROVE  p % Ring = (IF p = Ring THEN 0 ELSE p)
  BY <1>1, ModOnce
<1>4. ASSUME NEW p \in Index, NEW r \in Index
      PROVE  (p - r) % Ring = Distance(r, p)
  <2>1. p - r \in Int /\ p - r \in -Ring .. Ring - 1
    BY <1>1 DEF Index
  <2>2. (p - r) % Ring = (IF p >= r THEN p - r ELSE p - r + Ring)
    BY <1>1, <2>1, ModOnce DEF Index
  <2> QED
    BY <2>2 DEF Distance
<1>5. ASSUME NEW n \in Index, NEW r \in Index
      PROVE  (r + n) % Ring = (IF r + n < Ring THEN r + n ELSE r + n - Ring)
  <2>1. r + n \in Int /\ r + n \in 0 .. 2 * Ring - 1
    BY <1>1 DEF Index
  <2> QED
    BY <1>1, <2>1, ModOnce DEF Index
<1> QED
  BY <1>2, <1>3, <1>4, <1>5

\* The slot of an event's position; the end of the ring is its start.
LEMMA EventSlots ==
    /\ \A p \in 0 .. Ring : p % Ring \in Index
    /\ \A p \in Index : LET position == IF p = 0 THEN Ring ELSE p
                        IN position \in 0 .. Ring /\ position % Ring = p
<1>1. Ring \in Nat /\ Ring > 0
  BY Sizes
<1>2. ASSUME NEW p \in 0 .. Ring PROVE p % Ring \in Index
  <2>1. p % Ring = (IF p = Ring THEN 0 ELSE p)
    BY Slots
  <2> QED
    BY <1>1, <2>1 DEF Index
<1>3. ASSUME NEW p \in Index
      PROVE  LET position == IF p = 0 THEN Ring ELSE p
             IN position \in 0 .. Ring /\ position % Ring = p
  <2>1. CASE p = 0
    <3>1. Ring \in 0 .. Ring /\ Ring % Ring = (IF Ring = Ring THEN 0 ELSE Ring)
      BY <1>1, Slots
    <3> QED
      BY <2>1, <3>1
  <2>2. CASE p # 0
    <3>1. p \in 0 .. Ring /\ p # Ring
      BY <1>1 DEF Index
    <3>2. p % Ring = p
      BY <3>1, Slots
    <3> QED
      BY <2>2, <3>1, <3>2
  <2> QED
    BY <2>1, <2>2
<1> QED
  BY <1>2, <1>3

\* Distances are below the size of the ring, and tell the slots apart.
LEMMA Distances ==
    ASSUME StreamType
    PROVE  /\ Base \in Index
           /\ \A a \in Index : Ahead(a) \in 0 .. Ring - 1
           /\ \A a, b \in Index : Ahead(a) = Ahead(b) => a = b
<1>1. Base \in Index
  BY Sizes DEF StreamType, Base, Index
<1> QED
  BY <1>1, Sizes DEF Ahead, Distance, Index

\* When the task reads from the next slot on, the slots are one less ahead, but for
\* the one it leaves, which is now the last.
LEMMA NextSlot ==
    ASSUME NEW r \in Index
    PROVE  LET next == IF r + 1 = Ring THEN 0 ELSE r + 1
           IN /\ \A a \in Index : a # r =>
                    Distance(r, a) > 0 /\ Distance(next, a) = Distance(r, a) - 1
              /\ Distance(r, r) = 0 /\ Distance(next, r) = Ring - 1
<1>1. Ring \in Nat /\ Ring > 0 /\ r \in Nat /\ r < Ring
  BY Sizes DEF Index
<1>2. CASE r + 1 = Ring
  BY <1>1, <1>2 DEF Distance, Index
<1>3. CASE r + 1 # Ring
  BY <1>1, <1>3 DEF Distance, Index
<1> QED
  BY <1>2, <1>3

LEMMA StreamInvInit ==
    Init => StreamInv
<1> SUFFICES ASSUME Init PROVE StreamInv
  OBVIOUS
<1>1. frame \in 1 .. Len(Frames) /\ byte \in 1 .. Len(Frames[frame]) + 1
  BY Sizes, GpsAssumption DEF Init
<1>2. ring \in [Index -> {Read} \union 0 .. ByteMod - 1]
  BY DEF Init, Empty, Index
<1>3. pos \in Index /\ readIdx \in Index /\ writeIdx \in Index /\ note \in 0 .. Ring
  BY Sizes DEF Init, Index
<1> QED
  BY <1>1, <1>2, <1>3 DEF StreamInv, StreamType, Wiring, ErrorPlace, RingOK, Fill, Events,
     Limits, Counts, Init

\* The interrupts and the noise.

LEMMA TransferCompleteKeeps ==
    ASSUME StreamInv, TransferComplete
    PROVE  StreamInv'
<1>1. wrapped /\ dmar /\ toIdle
  BY Zenon DEF TransferComplete, StreamInv, Wiring
<1>2. /\ wrapped' = FALSE /\ notified' = TRUE /\ note' = (IF pos = 0 THEN Ring ELSE pos)
      /\ UNCHANGED <<frame, byte, ring, pos, dma, dmar, rxState, toIdle, idleIrq, errIrq,
                     flag, uartError, pc, readIdx, writeIdx>>
  BY <1>1, Zenon DEF TransferComplete, RxEvent, uartVars, taskVars, lineVars
<1>3. note' \in 0 .. Ring /\ note' % Ring = pos
  BY <1>2, EventSlots, Zenon DEF StreamInv, StreamType
<1>4. StreamType'
  BY <1>2, <1>3 DEF StreamInv, StreamType
<1>5. Wiring' /\ ErrorPlace'
  BY <1>1, <1>2 DEF StreamInv, Wiring, ErrorPlace
<1>6. Base' = Base /\ \A a \in Index : Ahead(a)' = Ahead(a)
  BY <1>2 DEF Base, Ahead, Distance
<1>7. RingOK'
  BY <1>2, <1>6 DEF StreamInv, StreamType, RingOK
<1>8. Fill'
  BY <1>2, <1>6 DEF StreamInv, StreamType, Fill, Sent, Settled
<1>9. Events'
  BY <1>1, <1>2, <1>3, <1>6 DEF StreamInv, StreamType, Events, Ahead, Distance, Base, Index
<1>10. Limits'
  BY <1>1, <1>2, <1>3, <1>6 DEF StreamInv, StreamType, Limits, Ahead, Distance, Base, Index
<1> QED
  BY <1>4, <1>5, <1>7, <1>8, <1>9, <1>10 DEF StreamInv

LEMMA LineErrorKeeps ==
    ASSUME StreamInv, OrderlyLine, LineError
    PROVE  StreamInv'
<1>1. dmar /\ ~(pc = "check" /\ notified)
  BY Zenon DEF LineError, OrderlyLine
<1>2. /\ rxState' = "ready" /\ dma' = "ready" /\ dmar' = FALSE /\ toIdle' = FALSE
      /\ idleIrq' = FALSE /\ errIrq' = FALSE /\ wrapped' = FALSE
      /\ uartError' = TRUE /\ notified' = TRUE
      /\ UNCHANGED <<note, ring, pos, flag, frame, byte, pc, readIdx, writeIdx>>
  BY Zenon DEF LineError, EndRxTransfer, ErrorCallback, taskVars
<1>3. pc \notin {"enable", "request"}
  BY <1>1 DEF StreamInv, Wiring
<1>4. StreamType'
  BY <1>2 DEF StreamInv, StreamType
<1>5. Wiring' /\ ErrorPlace'
  BY <1>2, <1>3 DEF StreamInv, StreamType, Wiring, ErrorPlace
<1>6. Base' = Base /\ \A a \in Index : Ahead(a)' = Ahead(a)
  BY <1>2 DEF Base, Ahead, Distance
<1>7. RingOK'
  BY <1>1, <1>2, <1>6 DEF StreamInv, StreamType, RingOK
<1>8. Fill'
  BY <1>2 DEF Fill
<1>9. Events'
  BY <1>1, <1>2 DEF StreamInv, StreamType, Events, Counts
<1>10. Limits'
  BY <1>1, <1>2, <1>6 DEF StreamInv, StreamType, Limits
<1> QED
  BY <1>4, <1>5, <1>7, <1>8, <1>9, <1>10 DEF StreamInv

LEMMA NoiseKeeps ==
    ASSUME StreamInv, Noise
    PROVE  StreamInv'
<1>1. /\ flag' = "framing"
      /\ UNCHANGED <<dma, dmar, rxState, toIdle, idleIrq, errIrq, uartError, ring, pos,
                     wrapped, notified, note, pc, readIdx, writeIdx, frame, byte>>
  BY Zenon DEF Noise, ringVars, notifyVars, taskVars
<1>2. StreamType'
  BY <1>1 DEF StreamInv, StreamType
<1>3. Wiring' /\ ErrorPlace'
  BY <1>1 DEF StreamInv, Wiring, ErrorPlace
<1>4. RingOK' /\ Fill' /\ Events' /\ Limits'
  BY <1>1 DEF StreamInv, StreamType, RingOK, Fill, Events, Limits, Ahead, Base, Distance,
              Sent, Settled, Counts
<1> QED
  BY <1>2, <1>3, <1>4 DEF StreamInv

\* A byte is stored behind those that are not read yet, and does not reach them:
\* a new frame begins when at most one is unread.
LEMMA ByteKeeps ==
    ASSUME StreamInv, OrderlyLine, Byte
    PROVE  StreamInv'
<1>1. /\ byte \in 1 .. Len(Frames[frame]) /\ byte' = byte + 1 /\ frame' = frame
      /\ Frames[frame][byte] \in 0 .. ByteMod - 1
      /\ byte \in Nat \ {0} /\ byte <= HalfRing
  BY Sizes DEF Byte, StreamInv, StreamType
<1>2. byte \in Int /\ byte >= 1
  BY <1>1
<1>3. byte = 1 => Settled
  BY Zenon DEF Byte, Settled
<1>4. UNCHANGED <<frame, dma, dmar, rxState, toIdle, idleIrq, errIrq, uartError, notified,
                  note, pc, readIdx, writeIdx>>
  BY Zenon DEF Byte, notifyVars, taskVars
<1>5. Base' = Base
  BY <1>4 DEF Base
<1>6. CASE dmar
  <2>1. /\ ring' = [ring EXCEPT ![pos] = Frames[frame][byte]]
        /\ pos' = (pos + 1) % Ring /\ flag' = flag
    BY <1>6, Zenon DEF Byte, Store
  <2>2. wrapped' \in BOOLEAN
    BY <1>6, Zenon DEF Byte, Store
  <2>3. pos \in Index /\ pos' = (IF pos + 1 = Ring THEN 0 ELSE pos + 1) /\ pos' \in Index
    BY <2>1, Slots, Sizes DEF StreamInv, StreamType, Index
  <2>4. Ahead(pos) + 1 <= 2 * HalfRing
    <3>1. CASE byte = 1
      <4>1. ~uartError
        BY <1>3, <3>1 DEF StreamInv, ErrorPlace, Settled
      <4>2. Ahead(pos) <= HalfRing
        BY <1>3, <1>6, <3>1, <4>1, Zenon DEF StreamInv, Fill
      <4> QED
        BY <1>1, <3>1, <4>2, Sizes DEF Ahead, Distance, Base, StreamInv, StreamType, Index
    <3>2. CASE byte # 1
      <4>1. Ahead(pos) <= HalfRing + byte - 1
        <5>1. Sent = byte - 1
          BY <3>2, <1>2, Sizes DEF Sent
        <5>2. Ahead(pos) <= Sent \/ Ahead(pos) <= HalfRing + Sent
          BY <1>6, Zenon DEF StreamInv, Fill
        <5> QED
          BY <1>1, <5>1, <5>2, Sizes
             DEF Ahead, Distance, Base, StreamInv, StreamType, Index
      <4> QED
        BY <1>1, <4>1, Sizes DEF Ahead, Distance, Base, StreamInv, StreamType, Index
    <3> QED
      BY <3>1, <3>2
  <2>5. Ahead(pos)' = Ahead(pos) + 1 /\ Ahead(pos) \in Int
    <3>1. Base \in Index
      BY Distances DEF StreamInv
    <3> QED
      BY <1>5, <2>3, <2>4, <3>1, Sizes DEF Ahead, Distance, Index
  <2>6. \A a \in Index : Ahead(a)' = Ahead(a)
    BY <1>5 DEF Ahead
  <2>7. StreamType'
    BY <1>1, <1>4, <2>1, <2>2, <2>3 DEF StreamInv, StreamType
  <2>8. Wiring'
    BY <1>4, <1>6, <2>1 DEF StreamInv, Wiring
  <2>9. ErrorPlace'
    BY <1>4 DEF StreamInv, ErrorPlace
  <2>10. RingOK'
    <3> SUFFICES ASSUME NEW i \in Index
                 PROVE  ring'[i] # Read <=> Ahead(i)' < Ahead(pos)'
      BY DEF RingOK
    <3>1. ring[i] # Read <=> Ahead(i) < Ahead(pos)
      BY <1>6 DEF StreamInv, RingOK
    <3>2. CASE i = pos
      <4>1. ring'[i] # Read
        BY <1>1, <2>1, <2>3, <3>2, UbxAssumption, SMTT(30) DEF StreamInv, StreamType, Read
      <4>2. Ahead(i)' = Ahead(pos)
        BY <2>6, <3>2
      <4> QED
        BY <2>5, <4>1, <4>2
    <3>3. CASE i # pos
      <4>1. ring'[i] = ring[i]
        BY <2>1, <3>3 DEF StreamInv, StreamType
      <4>2. Ahead(i) # Ahead(pos)
        BY <2>3, <3>3, Sizes DEF Ahead, Distance, Base, StreamInv, StreamType, Index
      <4>3. Ahead(i) \in Int /\ Ahead(pos) \in Int
        BY <2>3, Sizes DEF Ahead, Distance, Base, StreamInv, StreamType, Index
      <4> QED
        BY <2>5, <2>6, <3>1, <4>1, <4>2, <4>3
    <3> QED
      BY <3>2, <3>3
  <2>11. Fill'
    <3>1. byte' > 1 /\ Sent' = byte /\ Ahead(pos) \in Int /\ HalfRing \in Int /\ byte \in Int
      BY <1>1, <2>3, Sizes DEF Sent, Ahead, Distance, Base, StreamInv, StreamType, Index
    <3>2. CASE byte = 1
      <4>1. ~uartError
        BY <1>3, <3>2 DEF StreamInv, ErrorPlace, Settled
      <4>2. Ahead(pos) <= HalfRing
        BY <1>3, <1>6, <3>2, <4>1, Zenon DEF StreamInv, Fill
      <4> QED
        BY <1>1, <1>4, <2>5, <3>1, <3>2, <4>1, <4>2 DEF Fill
    <3>3. CASE byte # 1
      <4>1. Sent = byte - 1
        BY <3>3, <1>2, Sizes DEF Sent
      <4> QED
        BY <1>1, <1>4, <1>6, <2>5, <3>1, <4>1 DEF StreamInv, Fill
    <3> QED
      BY <3>2, <3>3
  <2>12. Events' /\ Limits'
    <3>1. byte' # 1 /\ note % Ring \in Index /\ writeIdx \in Index
      <4>1. byte' # 1
        BY <1>1
      <4> QED
        BY <4>1, EventSlots, Zenon DEF StreamInv, StreamType
    <3>2. Ahead(note % Ring)' = Ahead(note % Ring) /\ Ahead(writeIdx)' = Ahead(writeIdx)
      BY <1>4, <1>5 DEF Ahead
    <3>3. Ahead(note % Ring) \in Int /\ Ahead(writeIdx) \in Int /\ Ahead(pos) \in Int
      BY <2>3, <3>1, Sizes DEF Ahead, Distance, Base, StreamInv, StreamType, Index
    <3>4. Events'
      BY <1>4, <1>6, <2>5, <3>1, <3>2, <3>3 DEF StreamInv, Events, Counts
    <3>5. Limits'
      BY <1>4, <1>6, <2>5, <3>1, <3>2, <3>3 DEF StreamInv, Limits
    <3> QED
      BY <3>4, <3>5
  <2> QED
    BY <2>7, <2>8, <2>9, <2>10, <2>11, <2>12 DEF StreamInv
<1>7. CASE ~dmar
  <2>1. UNCHANGED <<ring, pos, wrapped>> /\ flag' \in {flag} \union {}
    BY <1>7, Zenon DEF Byte, ringVars, OrderlyLine
  <2>2. StreamType'
    BY <1>1, <1>4, <2>1 DEF StreamInv, StreamType
  <2>3. Wiring' /\ ErrorPlace'
    BY <1>4, <2>1 DEF StreamInv, Wiring, ErrorPlace
  <2>4. RingOK' /\ Fill' /\ Events' /\ Limits'
    BY <1>4, <1>7, <2>1 DEF StreamInv, StreamType, RingOK, Fill, Events, Limits, Ahead,
                            Base, Distance, Counts
  <2> QED
    BY <2>2, <2>3, <2>4 DEF StreamInv
<1> QED
  BY <1>6, <1>7

\* The end of a frame: while the reception runs, an event with the DMA's index.
LEMMA IdleKeeps ==
    ASSUME StreamInv, Idle
    PROVE  StreamInv'
<1>1. byte' = 1 /\ frame' \in 1 .. Len(Frames)
  <2>1. Len(Frames) \in Nat /\ Len(Frames) > 0 /\ frame \in 1 .. Len(Frames)
    BY GpsAssumption DEF StreamInv, StreamType
  <2>2. frame % Len(Frames) = (IF frame = Len(Frames) THEN 0 ELSE frame)
    BY <2>1, ModOnce
  <2> QED
    BY <2>1, <2>2 DEF Idle
<1>2. UNCHANGED <<ring, pos, dma, dmar, rxState, toIdle, idleIrq, errIrq, flag, uartError,
                  wrapped, pc, readIdx, writeIdx>>
  BY Zenon DEF Idle, uartVars, ringVars, taskVars
<1>3. byte = Len(Frames[frame]) + 1 /\ Len(Frames[frame]) <= HalfRing /\ Sent \in Int
      /\ Sent <= HalfRing
  <2>1. frame \in 1 .. Len(Frames) /\ byte \in 1 .. Len(Frames[frame]) + 1
        /\ byte > Len(Frames[frame])
    BY Zenon DEF Idle, StreamInv, StreamType
  <2>2. /\ Len(Frames[frame]) \in Nat /\ Len(Frames[frame]) <= HalfRing /\ HalfRing \in Nat
    BY <2>1, Sizes
  <2>3. byte = Len(Frames[frame]) + 1
    BY <2>1, <2>2
  <2> QED
    BY <2>2, <2>3 DEF Sent
<1>4. byte' \in 1 .. Len(Frames[frame']) + 1
  BY <1>1, Sizes
<1>5. Base' = Base /\ \A a \in Index : Ahead(a)' = Ahead(a)
  BY <1>2 DEF Base, Ahead, Distance
<1>6. RingOK'
  BY <1>2, <1>5 DEF StreamInv, StreamType, RingOK
<1>7. Wiring'
  BY <1>2 DEF StreamInv, Wiring
<1>8. CASE dmar
  <2>1. idleIrq
    BY <1>8 DEF StreamInv, Wiring
  <2>2. notified' = TRUE /\ note' = (IF pos = 0 THEN Ring ELSE pos)
    BY <2>1, Zenon DEF Idle, IdleLine, RxEvent
  <2>3. note' \in 0 .. Ring /\ note' % Ring = pos
    BY <2>2, EventSlots, Zenon DEF StreamInv, StreamType
  <2>4. StreamType'
    BY <1>1, <1>2, <1>4, <2>2, <2>3 DEF StreamInv, StreamType
  <2>5. ErrorPlace'
    BY <1>2, <2>2 DEF StreamInv, ErrorPlace
  <2>6. Fill'
    <3>1. Sent' = HalfRing /\ HalfRing \in Int /\ Ahead(pos) \in Int
      BY <1>1, Sizes DEF Sent, Ahead, Distance, Base, StreamInv, StreamType, Index
    <3>2. Ahead(pos)' = Ahead(pos)
      BY <1>2, <1>5 DEF StreamInv, StreamType
    <3> QED
      BY <1>2, <1>3, <2>2, <3>1, <3>2 DEF StreamInv, Fill, Settled
  <2>7. Events'
    BY <1>2, <1>8, <2>2, <2>3 DEF StreamInv, StreamType, Events, Ahead, Distance, Base, Index
  <2>8. Limits'
    BY <1>2, <1>5, <1>8, <2>2, <2>3
       DEF StreamInv, StreamType, Limits, Ahead, Distance, Base, Index
  <2> QED
    BY <1>6, <1>7, <2>4, <2>5, <2>6, <2>7, <2>8 DEF StreamInv
<1>9. CASE ~dmar
  <2>1. UNCHANGED <<notified, note>>
    BY <1>9, Zenon DEF Idle, IdleLine, StreamInv, Wiring, notifyVars
  <2>2. StreamType'
    BY <1>1, <1>2, <1>4, <2>1 DEF StreamInv, StreamType
  <2>3. ErrorPlace'
    BY <1>2, <2>1 DEF StreamInv, ErrorPlace
  <2>4. Fill' /\ Events' /\ Limits'
    BY <1>2, <1>5, <1>9, <2>1 DEF StreamInv, StreamType, Fill, Events, Limits, Counts
  <2> QED
    BY <1>6, <1>7, <2>2, <2>3, <2>4 DEF StreamInv
<1> QED
  BY <1>8, <1>9

\* The task.

LEMMA ArmKeeps ==
    ASSUME StreamInv, Arm, UNCHANGED lineVars
    PROVE  StreamInv'
<1>1. UNCHANGED <<frame, byte, dmar, idleIrq, errIrq, flag, uartError, wrapped, notified, note,
                  readIdx, writeIdx>> /\ pc = "arm"
  BY Zenon DEF Arm, lineVars, notifyVars
<1>2. Base = 0 /\ ~(uartError /\ dmar)
  BY <1>1, Zenon DEF Base, StreamInv, ErrorPlace
<1>3. CASE rxState = "busy"
  <2>1. pc' = "reset" /\ UNCHANGED <<toIdle, rxState, dma, pos, ring>>
    BY <1>3, Zenon DEF Arm
  <2>2. dmar
    BY <1>1, <1>3 DEF StreamInv, Wiring
  <2>3. StreamType'
    BY <1>1, <2>1 DEF StreamInv, StreamType
  <2>4. Wiring' /\ ErrorPlace'
    BY <1>1, <1>2, <2>1, <2>2 DEF StreamInv, Wiring, ErrorPlace
  <2>5. Base' = 0
    BY <2>1 DEF Base
  <2>6. \A a \in Index : Ahead(a)' = Ahead(a)
    BY <1>2, <2>5 DEF Ahead
  <2>7. RingOK' /\ Fill' /\ Events' /\ Limits'
    <3>1. RingOK'
      BY <1>1, <2>1, <2>2, <2>6 DEF StreamInv, StreamType, RingOK
    <3>2. Fill'
      BY <1>1, <2>1, <2>6 DEF StreamInv, StreamType, Fill, Sent, Settled
    <3>3. Events'
      <4>1. note % Ring \in Index /\ pos \in Index
        BY EventSlots, Zenon DEF StreamInv, StreamType
      <4>2. Ahead(note % Ring)' = Ahead(note % Ring) /\ Ahead(pos)' = Ahead(pos)
        BY <1>1, <1>2, <2>1, <2>5 DEF Ahead
      <4> QED
        BY <1>1, <2>1, <2>2, <4>1, <4>2 DEF StreamInv, Events, Counts
    <3>4. Limits'
      BY <2>1 DEF Limits
    <3> QED
      BY <3>1, <3>2, <3>3, <3>4
  <2> QED
    BY <2>3, <2>4, <2>7 DEF StreamInv
<1>4. CASE rxState # "busy"
  <2>1. dma # "busy" /\ ~dmar
    BY <1>4 DEF StreamInv, Wiring
  <2>2. toIdle' = TRUE /\ rxState' = "busy" /\ dma' = "busy" /\ pos' = 0 /\ ring' = Empty
        /\ pc' = "enable"
    BY <1>4, <2>1, Zenon DEF Arm
  <2>3. ring' \in [Index -> {Read} \union 0 .. ByteMod - 1] /\ \A i \in Index : ring'[i] = Read
    BY <2>2 DEF Empty, Index
  <2>4. 0 \in Index
    BY Sizes DEF Index
  <2>5. StreamType'
    BY <1>1, <2>2, <2>3, <2>4 DEF StreamInv, StreamType
  <2>6. Wiring'
    BY <1>1, <2>1, <2>2 DEF StreamInv, Wiring, Empty
  <2>7. ErrorPlace'
    BY <1>1, <2>1, <2>2 DEF StreamInv, ErrorPlace
  <2>8. RingOK'
    <3>1. Base' = 0
      BY <2>2 DEF Base
    <3>2. Ahead(pos)' = 0 /\ \A i \in Index : Ahead(i)' = i
      BY <2>2, <3>1, Sizes DEF Ahead, Distance, Index
    <3>3. \A i \in Index : ring'[i] = Read /\ ~(i < 0)
      BY <2>3, Sizes DEF Index
    <3> QED
      BY <3>2, <3>3, Zenon DEF RingOK
  <2>9. Fill' /\ Limits'
    BY <1>1, <2>1, <2>2 DEF Fill, Limits
  <2>10. Events'
    BY <1>1, <2>1, <2>2 DEF StreamInv, Events, Counts
  <2> QED
    BY <2>5, <2>6, <2>7, <2>8, <2>9, <2>10 DEF StreamInv
<1> QED
  BY <1>3, <1>4

LEMMA EnableErrorsKeeps ==
    ASSUME StreamInv, EnableErrors, UNCHANGED lineVars
    PROVE  StreamInv'
<1>1. /\ pc = "enable" /\ pc' = "request" /\ flag' = "none"
      /\ UNCHANGED <<frame, byte, dma, dmar, ring, pos, wrapped, readIdx, writeIdx>>
  BY Zenon DEF EnableErrors, lineVars, ringVars
<1>2. ~dmar /\ rxState = "busy" /\ toIdle /\ pos = 0 /\ ring = Empty
  BY <1>1 DEF StreamInv, Wiring
<1>3. /\ errIrq' = TRUE /\ UNCHANGED <<rxState, toIdle, idleIrq, note>>
      /\ \/ UNCHANGED <<uartError, notified>>
         \/ uartError' = TRUE /\ notified' = TRUE
  <2>1. CASE flag = "none"
    BY <2>1, Zenon DEF EnableErrors, notifyVars
  <2>2. CASE flag = "framing"
    <3>1. flag # "none" /\ flag # "overrun"
      BY <2>2
    <3>2. errIrq' = TRUE /\ ErrorCallback /\ UNCHANGED <<rxState, toIdle, idleIrq>>
      BY <2>2, <3>1 DEF EnableErrors
    <3> QED
      BY <3>2, Zenon DEF ErrorCallback
  <2> QED
    BY <2>1, <2>2, Zenon DEF StreamInv, StreamType
<1>4. StreamType'
  BY <1>1, <1>3 DEF StreamInv, StreamType
<1>5. Wiring'
  <2>1. Empty' = Empty
    BY DEF Empty, Read
  <2> QED
    BY <1>1, <1>2, <1>3, <2>1 DEF StreamInv, Wiring
<1>6. ErrorPlace'
  BY <1>1, <1>2, <1>3 DEF StreamInv, ErrorPlace
<1>7. Base' = Base
  BY <1>1 DEF Base
<1>8. RingOK'
  BY <1>1, <1>7 DEF StreamInv, RingOK, Ahead
<1>9. Fill' /\ Limits'
  BY <1>1, <1>2 DEF Fill, Limits
<1>10. Events'
  BY <1>1, <1>2, <1>3 DEF StreamInv, StreamType, Events, Counts
<1> QED
  BY <1>4, <1>5, <1>6, <1>8, <1>9, <1>10 DEF StreamInv

LEMMA EnableRequestsKeeps ==
    ASSUME StreamInv, EnableRequests, UNCHANGED lineVars
    PROVE  StreamInv'
<1>1. /\ pc = "request" /\ pc' = "reset" /\ dmar' = TRUE /\ idleIrq' = toIdle
      /\ UNCHANGED <<frame, byte, dma, rxState, toIdle, errIrq, flag, uartError, ring, pos,
                     wrapped, notified, note, readIdx, writeIdx>>
  BY Zenon DEF EnableRequests, lineVars, ringVars, notifyVars
<1>2. ~dmar /\ rxState = "busy" /\ toIdle /\ errIrq /\ pos = 0
  BY <1>1 DEF StreamInv, Wiring
<1>3. StreamType'
  BY <1>1 DEF StreamInv, StreamType
<1>4. Wiring' /\ ErrorPlace'
  BY <1>1, <1>2 DEF StreamInv, StreamType, Wiring, ErrorPlace
<1>5. Base = 0 /\ Base' = 0
  BY <1>1 DEF Base
<1>6. RingOK'
  BY <1>1, <1>5 DEF StreamInv, RingOK, Ahead
<1>7. Ahead(pos)' = 0
  BY <1>1, <1>2, <1>5 DEF Ahead, Distance
<1>8. Fill'
  <2>1. Sent' \in Nat /\ HalfRing \in Nat
    <3>1. byte \in Int /\ byte >= 1
      BY Sizes DEF StreamInv, StreamType
    <3>2. byte' = byte
      BY <1>1
    <3> QED
      BY <3>1, <3>2, Sizes DEF Sent
  <2>2. 0 <= Sent' /\ 0 <= HalfRing + Sent' /\ 0 <= HalfRing
    <3>1. \A m, n \in Nat : 0 <= m /\ 0 <= n + m /\ 0 <= n
      OBVIOUS
    <3> QED
      BY <2>1, <3>1, Zenon
  <2>3. Ahead(pos)' <= Sent' /\ Ahead(pos)' <= HalfRing + Sent' /\ Ahead(pos)' <= HalfRing
    BY <1>7, <2>2, Zenon
  <2> QED
    BY <2>3, Zenon DEF Fill
<1>9. Events'
  <2>1. Counts' <=> Counts
    BY <1>1 DEF Counts
  <2>2. CASE Counts
    <3>1. note = 0
      BY <1>1, <1>2, <2>2 DEF StreamInv, Events
    <3>2. note' % Ring = 0 /\ pos' = 0 /\ note' = 0
      BY <1>1, <1>2, <3>1, Slots, Sizes
    <3>3. Ahead(note % Ring)' = Ahead(pos)' /\ Ahead(pos)' <= Ahead(pos)'
      BY <1>7, <3>2 DEF Ahead
    <3> QED
      BY <1>1, <3>2, <3>3 DEF Events
  <2>3. CASE ~Counts
    BY <1>1, <2>1, <2>3 DEF StreamInv, Events
  <2> QED
    BY <2>2, <2>3
<1>10. Limits'
  BY <1>1 DEF Limits
<1> QED
  BY <1>3, <1>4, <1>6, <1>8, <1>9, <1>10 DEF StreamInv

LEMMA ResetReadIdxKeeps ==
    ASSUME StreamInv, ResetReadIdx, UNCHANGED lineVars
    PROVE  StreamInv'
<1>1. /\ pc = "reset" /\ pc' = "wait" /\ readIdx' = 0
      /\ UNCHANGED <<frame, byte, dma, dmar, rxState, toIdle, idleIrq, errIrq, flag, uartError,
                     ring, pos, wrapped, notified, note, writeIdx>>
  BY Zenon DEF ResetReadIdx, ReadIdxAfterArm, lineVars, uartVars, ringVars, notifyVars
<1>2. Base = 0 /\ Base' = 0 /\ readIdx' \in Index
  BY <1>1, Sizes DEF Base, Index
<1>3. StreamType'
  BY <1>1, <1>2 DEF StreamInv, StreamType
<1>4. Wiring' /\ ErrorPlace'
  BY <1>1 DEF StreamInv, Wiring, ErrorPlace
<1>5. RingOK'
  BY <1>1, <1>2 DEF StreamInv, RingOK, Ahead
<1>6. Fill'
  BY <1>1, <1>2 DEF StreamInv, Fill, Ahead, Settled, Sent
<1>7. Events'
  BY <1>1, <1>2 DEF StreamInv, Events, Ahead, Counts
<1>8. Limits'
  BY <1>1 DEF Limits
<1> QED
  BY <1>3, <1>4, <1>5, <1>6, <1>7, <1>8 DEF StreamInv

\* The event that the task acts on becomes write_idx.
LEMMA WaitReturnsKeeps ==
    ASSUME StreamInv, WaitReturns, UNCHANGED lineVars
    PROVE  StreamInv'
<1>1. /\ pc = "wait" /\ notified /\ notified' = FALSE /\ note' = 0 /\ writeIdx' = note % Ring
      /\ pc' = "check"
      /\ UNCHANGED <<frame, byte, dma, dmar, rxState, toIdle, idleIrq, errIrq, flag, uartError,
                     ring, pos, wrapped, readIdx>>
  BY Zenon DEF WaitReturns, lineVars, uartVars, ringVars
<1>2. Base' = Base
  BY <1>1 DEF Base
<1>3. StreamType'
  <2>1. writeIdx' \in Index /\ note' \in 0 .. Ring
    BY <1>1, EventSlots, Sizes DEF StreamInv, StreamType
  <2> QED
    BY <1>1, <2>1 DEF StreamInv, StreamType
<1>4. Wiring' /\ ErrorPlace'
  BY <1>1 DEF StreamInv, Wiring, ErrorPlace
<1>5. RingOK'
  BY <1>1, <1>2 DEF StreamInv, RingOK, Ahead
<1>6. Fill'
  BY <1>1, <1>2 DEF StreamInv, Fill, Ahead, Settled, Sent
<1>7. Events'
  BY <1>1 DEF Events, Counts
<1>8. Limits'
  <2>1. ASSUME ~uartError PROVE Ahead(note % Ring) <= Ahead(pos) /\ (byte = 1 => note % Ring = pos)
    <3>1. dmar /\ Counts
      BY <1>1, <2>1, Zenon DEF StreamInv, Wiring, Counts
    <3> QED
      BY <3>1 DEF StreamInv, Events
  <2>2. Ahead(writeIdx)' = Ahead(note % Ring) /\ Ahead(pos)' = Ahead(pos)
    BY <1>1, <1>2 DEF Ahead
  <2> QED
    BY <1>1, <2>1, <2>2 DEF Limits
<1> QED
  BY <1>3, <1>4, <1>5, <1>6, <1>7, <1>8 DEF StreamInv

LEMMA CheckErrorKeeps ==
    ASSUME StreamInv, CheckError, UNCHANGED lineVars
    PROVE  StreamInv'
<1>1. /\ pc = "check"
      /\ UNCHANGED <<frame, byte, dma, dmar, rxState, toIdle, idleIrq, errIrq, flag,
                     ring, pos, wrapped, notified, note, readIdx, writeIdx>>
  BY Zenon DEF CheckError, lineVars, ringVars, notifyVars
<1>2. CASE uartError
  <2>1. uartError' = FALSE /\ pc' = "arm"
    BY <1>2, Zenon DEF CheckError, ErrorSeen
  <2>2. StreamType'
    BY <1>1, <2>1 DEF StreamInv, StreamType
  <2>3. Wiring' /\ ErrorPlace'
    BY <1>1, <2>1 DEF StreamInv, Wiring, ErrorPlace
  <2>4. CASE dmar
    <3>1. Base = 0 /\ Base' = 0
      BY <1>1, <1>2, <2>1, <2>4 DEF Base, StreamInv, ErrorPlace
    <3>2. RingOK'
      BY <1>1, <2>1, <2>4, <3>1 DEF StreamInv, RingOK, Ahead
    <3>3. Fill'
      <4>1. Ahead(pos) <= Sent /\ Ahead(pos)' = Ahead(pos) /\ Sent' = Sent
        BY <1>1, <1>2, <2>4, <3>1 DEF StreamInv, Fill, Ahead, Sent
      <4>2. Ahead(pos) \in Nat /\ HalfRing \in Nat
        BY Distances, Sizes, SMTT(30) DEF StreamInv, StreamType, Index
      <4>3. Sent \in Int /\ (byte = 1 => Sent = HalfRing)
        <5>1. byte \in Int
          BY Sizes DEF StreamInv, StreamType
        <5> QED
          BY <5>1, Sizes DEF Sent
      <4> QED
        BY <1>1, <2>1, <4>1, <4>2, <4>3 DEF Fill
    <3>4. Events'
      BY <1>1, <2>1, <2>4, <3>1 DEF StreamInv, Events, Counts, Ahead
    <3>5. Limits'
      BY <2>1 DEF Limits
    <3> QED
      BY <2>2, <2>3, <3>2, <3>3, <3>4, <3>5 DEF StreamInv
  <2>5. CASE ~dmar
    <3>1. RingOK' /\ Fill' /\ Limits'
      BY <1>1, <2>1, <2>5 DEF RingOK, Fill, Limits
    <3>2. Events'
      BY <1>1, <2>1, <2>5 DEF StreamInv, Events, Counts
    <3> QED
      BY <2>2, <2>3, <3>1, <3>2 DEF StreamInv
  <2> QED
    BY <2>4, <2>5
<1>3. CASE ~uartError
  <2>1. uartError' = uartError /\ pc' = "drain"
    BY <1>3, Zenon DEF CheckError, ErrorSeen
  <2>2. Base' = Base
    BY <1>1, <2>1 DEF Base
  <2>3. StreamType'
    BY <1>1, <2>1 DEF StreamInv, StreamType
  <2>4. Wiring' /\ ErrorPlace'
    BY <1>1, <1>3, <2>1 DEF StreamInv, Wiring, ErrorPlace
  <2>5. RingOK'
    BY <1>1, <2>1, <2>2 DEF StreamInv, RingOK, Ahead
  <2>6. Fill'
    BY <1>1, <2>1, <2>2 DEF StreamInv, Fill, Ahead, Settled, Sent
  <2>7. Events'
    BY <1>1, <1>3, <2>1, <2>2 DEF StreamInv, Events, Counts, Ahead
  <2>8. Limits'
    BY <1>1, <1>3, <2>1, <2>2 DEF StreamInv, Limits, Ahead
  <2> QED
    BY <2>3, <2>4, <2>5, <2>6, <2>7, <2>8 DEF StreamInv
<1> QED
  BY <1>2, <1>3

\* A byte is read: read_idx and the bytes that are not read move on together.
LEMMA DrainKeeps ==
    ASSUME StreamInv, Drain, UNCHANGED lineVars
    PROVE  StreamInv'
<1>1. /\ pc = "drain" /\ readIdx # writeIdx
      /\ ring' = [ring EXCEPT ![readIdx] = Read] /\ readIdx' = (readIdx + 1) % Ring
      /\ UNCHANGED <<frame, byte, dma, dmar, rxState, toIdle, idleIrq, errIrq, flag, uartError,
                     pos, wrapped, notified, note, pc, writeIdx>>
  BY Zenon DEF Drain, lineVars, uartVars, notifyVars
<1>2. readIdx \in Index /\ readIdx' = (IF readIdx + 1 = Ring THEN 0 ELSE readIdx + 1)
      /\ readIdx' \in Index
  BY <1>1, Slots, Sizes DEF StreamInv, StreamType, Index
<1>3. Base = readIdx /\ Base' = readIdx'
  BY <1>1 DEF Base
<1>4. ~(uartError /\ dmar) /\ (uartError \/ dmar)
  BY <1>1, Zenon DEF StreamInv, ErrorPlace, Wiring
<1>5. /\ \A a \in Index : a # readIdx => Ahead(a) > 0 /\ Ahead(a)' = Ahead(a) - 1
      /\ Ahead(readIdx) = 0 /\ Distance(readIdx', readIdx) = Ring - 1
  <2>1. \A a \in Index : Ahead(a) = Distance(readIdx, a) /\ Ahead(a)' = Distance(readIdx', a)
    BY <1>3 DEF Ahead
  <2>2. \A a \in Index : a # readIdx =>
            Distance(readIdx, a) > 0 /\ Distance(readIdx', a) = Distance(readIdx, a) - 1
    BY <1>2, NextSlot, Zenon
  <2>3. Distance(readIdx, readIdx) = 0 /\ Distance(readIdx', readIdx) = Ring - 1
    BY <1>2, NextSlot, Zenon
  <2> QED
    BY <1>2, <2>1, <2>2, <2>3
<1>6. \A a \in Index : Ahead(a) \in 0 .. Ring - 1
  BY Distances DEF StreamInv
<1>7. Ahead(writeIdx) <= Ahead(pos) /\ writeIdx \in Index /\ pos \in Index
  BY <1>1 DEF StreamInv, StreamType, Limits
<1>8. pos # readIdx
  BY <1>1, <1>5, <1>6, <1>7
<1>9. Ahead(pos)' = Ahead(pos) - 1 /\ Ahead(writeIdx)' = Ahead(writeIdx) - 1
      /\ Ahead(pos) \in Int /\ Ahead(writeIdx) \in Int
  <2>1. Ahead(pos)' = Distance(readIdx', pos) /\ Ahead(writeIdx)' = Distance(readIdx', writeIdx)
    BY <1>1, <1>3 DEF Ahead
  <2>2. Distance(readIdx', pos) = Ahead(pos) - 1
        /\ Distance(readIdx', writeIdx) = Ahead(writeIdx) - 1
    BY <1>1, <1>2, <1>3, <1>7, <1>8, Sizes DEF Ahead, Distance, Index
  <2> QED
    BY <1>6, <1>7, <2>1, <2>2
<1>10. StreamType'
  BY <1>1, <1>2 DEF StreamInv, StreamType
<1>11. Wiring' /\ ErrorPlace'
  BY <1>1, <1>4 DEF StreamInv, Wiring, ErrorPlace
<1>12. RingOK'
  <2> SUFFICES ASSUME NEW i \in Index
               PROVE  ring'[i] # Read <=> Ahead(i)' < Ahead(pos)'
    BY DEF RingOK
  <2>1. ring[i] # Read <=> Ahead(i) < Ahead(pos)
    BY <1>1 DEF StreamInv, RingOK
  <2>2. CASE i = readIdx
    <3>1. ring'[i] = Read
      BY <1>1, <2>2 DEF StreamInv, StreamType
    <3>2. Ahead(i)' = Ring - 1
      BY <1>3, <1>5, <2>2 DEF Ahead
    <3>3. Ahead(pos)' <= Ring - 1
      BY <1>6, <1>7, <1>9, Sizes
    <3> QED
      BY <1>9, <3>1, <3>2, <3>3, Sizes
  <2>3. CASE i # readIdx
    <3>1. ring'[i] = ring[i]
      BY <1>1, <2>3 DEF StreamInv, StreamType
    <3>2. Ahead(i)' = Ahead(i) - 1 /\ Ahead(i) \in Int
      BY <1>5, <1>6, <2>3
    <3> QED
      BY <1>9, <2>1, <3>1, <3>2
  <2> QED
    BY <2>2, <2>3
<1>13. Fill'
  <2>1. Sent' = Sent /\ ~Settled' /\ HalfRing \in Int /\ Sent \in Int
    <3>1. byte \in Int /\ byte' = byte
      BY <1>1, Sizes DEF StreamInv, StreamType
    <3> QED
      BY <1>1, <3>1, Sizes DEF Sent, Settled
  <2> QED
    BY <1>1, <1>4, <1>9, <2>1 DEF StreamInv, Fill
<1>14. Events' /\ Limits'
  <2>1. note % Ring \in Index
    BY EventSlots, Zenon DEF StreamInv, StreamType
  <2>2. Counts' <=> Counts
    BY <1>1 DEF Counts
  <2>3. ASSUME notified, dmar, ~uartError
        PROVE  /\ Ahead(note % Ring)' = Ahead(note % Ring) - 1 /\ Ahead(note % Ring) \in Int
               /\ Ahead(writeIdx) <= Ahead(note % Ring)
    <3>1. Ahead(writeIdx) <= Ahead(note % Ring)
      BY <1>1, <2>3 DEF StreamInv, Limits
    <3>2. note % Ring # readIdx
      BY <1>1, <1>5, <1>6, <1>7, <3>1
    <3>3. Ahead(note % Ring)' = Distance(readIdx', note % Ring)
      BY <1>1, <1>3 DEF Ahead
    <3>4. Distance(readIdx', note % Ring) = Ahead(note % Ring) - 1
      BY <1>2, <1>3, <2>1, <3>2, Sizes DEF Ahead, Distance, Index
    <3> QED
      BY <1>6, <2>1, <3>1, <3>3, <3>4
  <2>4. Events'
    <3>1. (~notified => note = 0) /\ (Counts /\ dmar /\ byte = 1 => note % Ring = pos)
      BY DEF StreamInv, Events
    <3>2. ASSUME Counts, dmar PROVE Ahead(note % Ring)' <= Ahead(pos)'
      <4>1. Ahead(note % Ring) <= Ahead(pos)
        BY <3>2 DEF StreamInv, Events
      <4>2. notified /\ ~uartError
        BY <1>4, <3>2 DEF Counts
      <4> QED
        BY <1>9, <2>3, <3>2, <4>1, <4>2
    <3> QED
      BY <1>1, <2>2, <3>1, <3>2 DEF Events
  <2>5. Limits'
    <3>1. Ahead(writeIdx)' <= Ahead(pos)'
      BY <1>7, <1>9
    <3>2. ASSUME notified, dmar, ~uartError
          PROVE  Ahead(writeIdx)' <= Ahead(note % Ring)'
      BY <1>9, <2>3, <3>2
    <3>3. dmar /\ ~uartError /\ ~notified /\ byte = 1 => writeIdx = pos
      BY <1>1 DEF StreamInv, Limits
    <3> QED
      BY <1>1, <3>1, <3>2, <3>3 DEF Limits
  <2> QED
    BY <2>4, <2>5
<1> QED
  BY <1>10, <1>11, <1>12, <1>13, <1>14 DEF StreamInv

\* The task waits again: if no event has come since, it has read up to the DMA's
\* index of the last idle line.
LEMMA DrainedKeeps ==
    ASSUME StreamInv, Drained, UNCHANGED lineVars
    PROVE  StreamInv'
<1>1. /\ pc = "drain" /\ pc' = "wait" /\ readIdx = writeIdx
      /\ UNCHANGED <<frame, byte, dma, dmar, rxState, toIdle, idleIrq, errIrq, flag, uartError,
                     ring, pos, wrapped, notified, note, readIdx, writeIdx>>
  BY Zenon DEF Drained, lineVars, uartVars, ringVars, notifyVars
<1>2. Base = readIdx /\ Base' = Base
  BY <1>1 DEF Base
<1>3. StreamType'
  BY <1>1 DEF StreamInv, StreamType
<1>4. Wiring' /\ ErrorPlace'
  BY <1>1 DEF StreamInv, Wiring, ErrorPlace
<1>5. RingOK'
  BY <1>1, <1>2 DEF StreamInv, RingOK, Ahead
<1>6. Fill'
  <2>1. Ahead(pos)' = Ahead(pos) /\ Sent' = Sent
    BY <1>1, <1>2 DEF Ahead, Sent
  <2>2. ASSUME dmar, ~uartError, ~notified, byte = 1 PROVE Ahead(pos) <= HalfRing
    <3>1. writeIdx = pos
      BY <1>1, <2>2 DEF StreamInv, Limits
    <3>2. Ahead(pos) = 0
      <4>1. pos \in Index
        BY DEF StreamInv, StreamType
      <4> QED
        BY <1>1, <1>2, <3>1, <4>1 DEF Ahead, Distance, Index
    <3> QED
      BY <3>2, Sizes
  <2> QED
    BY <1>1, <2>1, <2>2 DEF StreamInv, Fill, Settled
<1>7. Events'
  BY <1>1, <1>2 DEF StreamInv, Events, Counts, Ahead
<1>8. Limits'
  BY <1>1 DEF Limits
<1> QED
  BY <1>3, <1>4, <1>5, <1>6, <1>7, <1>8 DEF StreamInv

\* What the invariant says of the bytes that are not read yet.
LEMMA StreamInvImplies ==
    ASSUME StreamInv
    PROVE  InStep
<1> SUFFICES ASSUME pc \in {"wait", "check", "drain"}
             PROVE  /\ Unread = {(readIdx + n) % Ring : n \in 0 .. ((pos - readIdx) % Ring) - 1}
                    /\ pc = "drain" /\ readIdx # writeIdx => readIdx \in Unread
  BY DEF InStep
<1>1. pos \in Index /\ readIdx \in Index /\ writeIdx \in Index /\ Base = readIdx
      /\ DOMAIN ring = Index
  BY DEF StreamInv, StreamType, Base
<1>2. \A i \in Index : ring[i] # Read <=> Ahead(i) < Ahead(pos)
  BY DEF StreamInv, RingOK
<1>3. (pos - readIdx) % Ring = Ahead(pos) /\ Ahead(pos) \in 0 .. Ring - 1
  BY <1>1, Slots, Distances DEF Ahead, StreamInv
<1>4. \A n \in 0 .. Ahead(pos) - 1 : (readIdx + n) % Ring \in Unread
  <2> SUFFICES ASSUME NEW n \in 0 .. Ahead(pos) - 1
               PROVE  (readIdx + n) % Ring \in Unread
    OBVIOUS
  <2>1. n \in Index
    BY <1>3, Sizes DEF Index
  <2>2. (readIdx + n) % Ring = (IF readIdx + n < Ring THEN readIdx + n ELSE readIdx + n - Ring)
    BY <1>1, <2>1, Slots
  <2>3. (readIdx + n) % Ring \in Index /\ Ahead((readIdx + n) % Ring) = n
    BY <1>1, <2>1, <2>2, Sizes DEF Ahead, Distance, Index
  <2> QED
    BY <1>1, <1>2, <1>3, <2>3 DEF Unread
<1>5. \A i \in Unread : \E n \in 0 .. Ahead(pos) - 1 : i = (readIdx + n) % Ring
  <2> SUFFICES ASSUME NEW i \in Unread
               PROVE  \E n \in 0 .. Ahead(pos) - 1 : i = (readIdx + n) % Ring
    OBVIOUS
  <2>1. i \in Index /\ Ahead(i) < Ahead(pos)
    BY <1>1, <1>2 DEF Unread
  <2>2. Ahead(i) \in Index /\ Ahead(i) \in 0 .. Ahead(pos) - 1
    BY <1>3, <2>1, Distances DEF StreamInv, Index
  <2>3. (readIdx + Ahead(i)) % Ring
          = (IF readIdx + Ahead(i) < Ring THEN readIdx + Ahead(i) ELSE readIdx + Ahead(i) - Ring)
    BY <1>1, <2>2, Slots
  <2>4. i = (readIdx + Ahead(i)) % Ring
    BY <1>1, <2>1, <2>3, Sizes DEF Ahead, Distance, Index
  <2> QED
    BY <2>2, <2>4
<1>6. Unread = {(readIdx + n) % Ring : n \in 0 .. Ahead(pos) - 1}
  BY <1>4, <1>5
<1>7. ASSUME pc = "drain", readIdx # writeIdx PROVE readIdx \in Unread
  <2>1. Ahead(writeIdx) <= Ahead(pos) /\ Ahead(writeIdx) > 0 /\ Ahead(readIdx) = 0
    BY <1>1, <1>7, Sizes DEF StreamInv, Limits, Ahead, Distance, Index
  <2>2. Ahead(writeIdx) \in Int
    BY <1>1, Distances DEF StreamInv
  <2> QED
    BY <1>1, <1>2, <1>3, <2>1, <2>2 DEF Unread
<1> QED
  BY <1>3, <1>6, <1>7

LEMMA StreamInvStep ==
    ASSUME OrderlyLine, StreamInv, [Next]_vars
    PROVE  StreamInv'
<1>1. CASE StreamStep
  <2>1. UNCHANGED lineVars
    BY <1>1, Zenon DEF StreamStep
  <2> QED
    BY <1>1, <2>1, ArmKeeps, EnableErrorsKeeps, EnableRequestsKeeps, ResetReadIdxKeeps,
       WaitReturnsKeeps, CheckErrorKeeps, DrainKeeps, DrainedKeeps, Zenon DEF StreamStep
<1>2. CASE TransferComplete
  BY <1>2, TransferCompleteKeeps
<1>3. CASE LineError \/ Byte \/ Idle \/ Noise
  BY <1>3, LineErrorKeeps, ByteKeeps, IdleKeeps, NoiseKeeps
<1>4. CASE UNCHANGED streamVars
  <2>1. UNCHANGED <<frame, byte, dma, dmar, rxState, toIdle, idleIrq, errIrq, flag, uartError,
                    ring, pos, wrapped, notified, note, pc, readIdx, writeIdx>>
    BY <1>4, Zenon DEF streamVars, uartVars, ringVars, notifyVars, taskVars, lineVars
  <2>2. StreamType' /\ Wiring' /\ ErrorPlace'
    BY <2>1 DEF StreamInv, StreamType, Wiring, ErrorPlace
  <2>3. RingOK' /\ Fill' /\ Events' /\ Limits'
    BY <2>1 DEF StreamInv, RingOK, Fill, Events, Limits, Ahead, Base, Sent, Settled, Counts
  <2> QED
    BY <2>2, <2>3 DEF StreamInv
<1> QED
  BY <1>1, <1>2, <1>3, <1>4, Zenon DEF Next, ProcessorStep, vars

\* On an orderly line, whatever events were overwritten before the task took them
\* and whenever the reception ended and was armed again, the bytes not read yet
\* are those from read_idx up to the DMA's index, and the drain reads no other:
\* each byte is fed to the parser once and in order, for a ring and frames of any
\* size such that two frames fit the ring.
THEOREM DrainInStep ==
    ASSUME OrderlyLine
    PROVE  Spec => []InStep
<1>1. StreamInv /\ [Next]_vars => StreamInv'
  BY StreamInvStep
<1> QED
  BY StreamInvInit, <1>1, StreamInvImplies, PTL DEF Spec

-----------------------------------------------------------------------------
(* The parser on the bytes of the line.                                    *)

Bytes == 0 .. ByteMod - 1

\* The receiver sends what ubx_frame_build gives, of payloads that a byte tells
\* the length of.
FramesWellFormed ==
    \A i \in 1 .. Len(Frames) :
        \E cls \in Bytes, id \in Bytes, payload \in Seq(Bytes) :
            Len(payload) < ByteMod /\ Frames[i] = Frame(cls, id, payload)

\* ck[n] has the checksum of the first n bytes of the body of f, and f ends in that
\* of all of them.
IsChecksum(f, ck) ==
    /\ ck[0].ckA = 0 /\ ck[0].ckB = 0
    /\ \A n \in 1 .. Len(f) - 4 :
          /\ ck[n].ckA = (ck[n - 1].ckA + f[n + 2]) % ByteMod
          /\ ck[n].ckB = (ck[n - 1].ckB + ck[n - 1].ckA + f[n + 2]) % ByteMod
    /\ f[Len(f) - 1] = ck[Len(f) - 4].ckA
    /\ f[Len(f)] = ck[Len(f) - 4].ckB

\* What the parser relies on in a frame.
FrameShape(f) ==
    /\ Len(f) \in 8 .. ByteMod + 7
    /\ f[1] = Sync1 /\ f[2] = Sync2
    /\ f[5] = Len(f) - 8 /\ f[6] = 0
    /\ \E ck : IsChecksum(f, ck)

LEMMA ByteSizes ==
    /\ ByteMod \in Nat /\ ByteMod > 1
    /\ Sync1 \in Bytes /\ Sync2 \in Bytes /\ Sync1 # Sync2 /\ 0 \in Bytes
    /\ MaxLen \in Nat /\ \A b \in Bytes : b \in Nat /\ b <= MaxLen
<1>1. /\ ByteMod \in Nat /\ ByteMod > 1 /\ Sync1 \in Bytes /\ Sync2 \in Bytes
      /\ Sync1 # Sync2 /\ 0 \in Bytes
  BY UbxAssumption DEF Bytes
<1>2. ByteMod * ByteMod >= ByteMod /\ ByteMod * ByteMod \in Nat
  BY <1>1, SMTT(30)
<1> QED
  BY <1>1, <1>2 DEF MaxLen, Bytes

\* The states of ubx_frame_build over the body of a frame.
Sum == [state : {"SYNC1"}, cls : {0}, id : {0}, len : {0}, idx : {0}, ckA : Bytes, ckB : Bytes]

LEMMA SumUpdated ==
    ASSUME NEW p \in Sum, NEW b \in Bytes
    PROVE  /\ CkUpdate(p, b) \in Sum
           /\ CkUpdate(p, b).ckA = (p.ckA + b) % ByteMod
           /\ CkUpdate(p, b).ckB = (p.ckB + p.ckA + b) % ByteMod
<1>1. p.ckA \in Nat /\ p.ckB \in Nat /\ b \in Nat
  BY ByteSizes DEF Sum
<1>2. (p.ckA + b) % ByteMod \in Bytes /\ (p.ckB + p.ckA + b) % ByteMod \in Bytes
  BY <1>1, ByteSizes DEF Bytes
<1> QED
  BY <1>2 DEF CkUpdate, Sum

\* ubx_frame_build gives such a frame.
LEMMA BuiltFrame ==
    ASSUME NEW cls \in Bytes, NEW id \in Bytes, NEW payload \in Seq(Bytes),
           Len(payload) < ByteMod
    PROVE  FrameShape(Frame(cls, id, payload))
<1> DEFINE body == <<cls, id, Len(payload), 0>> \o payload
           N == Len(body)
           s0 == CkStart(ParserInit)
           step == [a \in Sum \X (1 .. N) |-> CkUpdate(a[1], body[a[2]])]
           IsLoop(g) == g = [n \in 0 .. N |-> IF n = 0 THEN s0 ELSE CkUpdate(g[n - 1], body[n])]
           L == CHOOSE g : IsLoop(g)
           F == <<Sync1, Sync2>> \o body \o <<L[N].ckA, L[N].ckB>>
<1>1. Frame(cls, id, payload) = F
  BY DEF Frame
<1>2. /\ Len(payload) \in 0 .. ByteMod - 1 /\ N = Len(payload) + 4 /\ N \in Nat
      /\ body[3] = Len(payload) /\ body[4] = 0
  BY ByteSizes
<1>3. \A n \in 1 .. N : body[n] \in Bytes
  <2>1. <<cls, id, Len(payload), 0>> \in Seq(Bytes)
    <3>1. Len(payload) \in Bytes /\ 0 \in Bytes
      BY <1>2, ByteSizes DEF Bytes
    <3> QED
      BY <3>1
  <2>2. body \in Seq(Bytes)
    BY <2>1
  <2> QED
    BY <2>2, SeqElement
<1> HIDE DEF body, N
<1>4. s0 \in Sum /\ s0.ckA = 0 /\ s0.ckB = 0
  BY ByteSizes DEF CkStart, ParserInit, Sum
<1>5. step \in [Sum \X (1 .. N) -> Sum]
  <2> SUFFICES ASSUME NEW a \in Sum \X (1 .. N) PROVE CkUpdate(a[1], body[a[2]]) \in Sum
    OBVIOUS
  <2>1. a[1] \in Sum /\ body[a[2]] \in Bytes
    BY <1>3
  <2> QED
    BY <2>1, SumUpdated
<1>6. \A x \in Sum : \A n \in 1 .. N : step[<<x, n>>] = CkUpdate(x, body[n])
  OBVIOUS
<1> HIDE DEF step, s0
<1>7. PICK f \in [0 .. N -> Sum] : IteratesTo(f, N, s0, step)
  BY <1>2, <1>4, <1>5, BoundedRecursion
<1>8. IsLoop(f)
  <2>1. \A n \in 0 .. N : n # 0 => n - 1 \in 0 .. N /\ n \in 1 .. N
    BY <1>2
  <2>2. \A n \in 0 .. N : n # 0 => step[<<f[n - 1], n>>] = CkUpdate(f[n - 1], body[n])
    BY <1>6, <1>7, <2>1
  <2> QED
    BY <1>7, <2>2 DEF IteratesTo
<1>9. IsLoop(L)
  BY <1>8
<1> HIDE DEF L
<1>10. L[0] = s0 /\ \A n \in 1 .. N : L[n] = CkUpdate(L[n - 1], body[n])
  <2> DEFINE G(n) == IF n = 0 THEN s0 ELSE CkUpdate(L[n - 1], body[n])
  <2>1. L = [n \in 0 .. N |-> G(n)]
    BY <1>9
  <2> HIDE DEF G
  <2>2. \A n \in 0 .. N : L[n] = G(n)
    BY <2>1
  <2>3. 0 \in 0 .. N /\ \A n \in 1 .. N : n \in 0 .. N /\ n # 0
    BY <1>2
  <2> QED
    BY <2>2, <2>3 DEF G
<1>11. \A n \in 0 .. N : L[n] \in Sum
  <2> DEFINE P == {n \in 0 .. N : L[n] \in Sum}
  <2>1. 0 \in P
    BY <1>2, <1>4, <1>10
  <2>2. \A n \in 0 .. N - 1 : n \in P => n + 1 \in P
    <3> SUFFICES ASSUME NEW n \in 0 .. N - 1, n \in P PROVE n + 1 \in P
      OBVIOUS
    <3>1. n + 1 \in 1 .. N /\ (n + 1) - 1 = n /\ L[n] \in Sum
      BY <1>2
    <3>2. L[n + 1] = CkUpdate(L[n], body[n + 1]) /\ body[n + 1] \in Bytes
      BY <1>3, <1>10, <3>1
    <3> QED
      BY <3>1, <3>2, SumUpdated
  <2> HIDE DEF P
  <2>3. 0 .. N \subseteq P
    BY <1>2, <2>1, <2>2, BoundedInduction
  <2> QED
    BY <2>3 DEF P
<1>12. /\ Len(F) = N + 4 /\ F[1] = Sync1 /\ F[2] = Sync2
       /\ \A n \in 1 .. N : F[n + 2] = body[n]
       /\ F[N + 3] = L[N].ckA /\ F[N + 4] = L[N].ckB
  BY <1>2 DEF N, body
<1> HIDE DEF F
<1>13. IsChecksum(F, L)
  <2>1. Len(F) - 4 = N /\ Len(F) - 1 = N + 3 /\ Len(F) = N + 4
    BY <1>2, <1>12
  <2>2. ASSUME NEW n \in 1 .. N
        PROVE  /\ L[n].ckA = (L[n - 1].ckA + F[n + 2]) % ByteMod
               /\ L[n].ckB = (L[n - 1].ckB + L[n - 1].ckA + F[n + 2]) % ByteMod
    <3>1. n - 1 \in 0 .. N
      BY <1>2
    <3>2. L[n - 1] \in Sum /\ body[n] \in Bytes /\ F[n + 2] = body[n]
      BY <3>1, <1>3, <1>11, <1>12
    <3>3. L[n] = CkUpdate(L[n - 1], body[n])
      BY <1>10
    <3> QED
      BY <3>2, <3>3, SumUpdated
  <2> QED
    BY <1>4, <1>10, <1>12, <2>1, <2>2 DEF IsChecksum
<1>14. F[5] = Len(payload) /\ F[6] = 0 /\ Len(F) = Len(payload) + 8
  <2>1. 3 \in 1 .. N /\ 4 \in 1 .. N /\ 3 + 2 = 5 /\ 4 + 2 = 6
    BY <1>2
  <2> QED
    BY <1>2, <1>12, <2>1
<1>15. FrameShape(F)
  <2>1. Len(payload) \in Nat /\ Len(payload) <= ByteMod - 1 /\ ByteMod \in Nat
    BY <1>2, ByteSizes
  <2>2. Len(F) \in 8 .. ByteMod + 7 /\ F[5] = Len(F) - 8
    BY <1>14, <2>1
  <2> QED
    BY <2>2, <1>12, <1>13, <1>14 DEF FrameShape
<1> QED
  BY <1>1, <1>15

\* The longest frame.
MaxFrame == Max({Len(Frames[i]) : i \in DOMAIN Frames})

LEMMA FrameSizes ==
    ASSUME FramesWellFormed
    PROVE  /\ MaxFrame \in Nat /\ MaxResync \in Nat
           /\ MaxResync = MaxLen + 8 + 2 * MaxFrame
           /\ \A i \in 1 .. Len(Frames) :
                 /\ FrameShape(Frames[i])
                 /\ Len(Frames[i]) \in Nat /\ 8 <= Len(Frames[i]) /\ Len(Frames[i]) <= MaxFrame
                 /\ \A b \in 1 .. Len(Frames[i]) : Frames[i][b] \in Bytes
<1> DEFINE lengths == {Len(Frames[i]) : i \in DOMAIN Frames}
<1>1. Len(Frames) \in Nat /\ Len(Frames) > 0 /\ DOMAIN Frames = 1 .. Len(Frames)
  BY GpsAssumption
<1>2. ASSUME NEW i \in 1 .. Len(Frames) PROVE FrameShape(Frames[i])
  <2>1. PICK cls \in Bytes, id \in Bytes, payload \in Seq(Bytes) :
            Len(payload) < ByteMod /\ Frames[i] = Frame(cls, id, payload)
    BY DEF FramesWellFormed
  <2> QED
    BY <2>1, BuiltFrame
<1>3. \A i \in 1 .. Len(Frames) :
          /\ Len(Frames[i]) \in Nat /\ 8 <= Len(Frames[i]) /\ Len(Frames[i]) <= HalfRing
          /\ \A b \in 1 .. Len(Frames[i]) : Frames[i][b] \in Bytes
  BY <1>2, Sizes, ByteSizes DEF FrameShape, Bytes
<1>4. lengths \in SUBSET Int /\ lengths # {} /\ \A n \in lengths : n <= HalfRing /\ n \in Nat
  <2>1. \A n \in lengths : \E i \in 1 .. Len(Frames) : n = Len(Frames[i])
    BY <1>1
  <2>2. Len(Frames[1]) \in lengths
    BY <1>1
  <2> HIDE DEF lengths
  <2>3. \A n \in lengths : n <= HalfRing /\ n \in Nat
    BY <1>3, <2>1
  <2> QED
    BY <2>2, <2>3
<1>5. \E m \in lengths : \A n \in lengths : n <= m
  <2> HIDE DEF lengths
  <2>1. HalfRing \in Int /\ \A n \in lengths : n <= HalfRing
    BY <1>4, Sizes
  <2> QED
    BY <1>4, <2>1, GreatestElement
<1>6. MaxFrame \in lengths /\ \A n \in lengths : n <= MaxFrame
  <2>1. MaxFrame = CHOOSE m \in lengths : \A n \in lengths : m >= n
    BY DEF MaxFrame, Max
  <2>2. \E m \in lengths : \A n \in lengths : m >= n
    BY <1>4, <1>5
  <2> HIDE DEF lengths
  <2>3. MaxFrame \in lengths /\ \A n \in lengths : MaxFrame >= n
    BY <2>1, <2>2
  <2> QED
    BY <1>4, <2>3
<1>7. MaxFrame \in Nat
  BY <1>4, <1>6
<1>8. MaxResync = MaxLen + 8 + 2 * MaxFrame
  BY <1>7, ByteSizes DEF MaxResync, MaxFrame
<1>9. \A i \in 1 .. Len(Frames) : Len(Frames[i]) <= MaxFrame
  BY <1>1, <1>6
<1>10. MaxResync \in Nat
  BY <1>7, <1>8, ByteSizes
<1> QED
  BY <1>2, <1>3, <1>7, <1>8, <1>9, <1>10

\* The receiver goes on to the next byte, in this frame or the next one.
Forward(i, b) == IF b < Len(Frames[i]) THEN <<i, b + 1>> ELSE <<(i % Len(Frames)) + 1, 1>>

LEMMA ForwardIsAPlace ==
    ASSUME FramesWellFormed, NEW i \in 1 .. Len(Frames), NEW b \in 1 .. Len(Frames[i])
    PROVE  /\ Forward(i, b)[1] \in 1 .. Len(Frames)
           /\ Forward(i, b)[2] \in 1 .. Len(Frames[Forward(i, b)[1]])
<1>1. Len(Frames) \in Nat /\ Len(Frames) > 0
  BY GpsAssumption
<1>2. (i % Len(Frames)) + 1 \in 1 .. Len(Frames)
  BY <1>1
<1>3. Len(Frames[i]) \in Nat /\ 1 \in 1 .. Len(Frames[(i % Len(Frames)) + 1])
  BY <1>2, FrameSizes
<1> QED
  BY <1>2, <1>3 DEF Forward

ParserStates ==
    {"SYNC1", "SYNC2", "CLASS", "ID", "LEN1", "LEN2", "PAYLOAD", "CK_A", "CK_B"}

\* What the parser can be: it is nowhere past the end of a payload.
ParserOK(p) ==
    /\ p \in [state : ParserStates, cls : Bytes, id : Bytes, len : 0 .. MaxLen,
              idx : 0 .. MaxLen, ckA : Bytes, ckB : Bytes]
    /\ p.state = "LEN2" => p.len \in Bytes
    /\ p.state = "PAYLOAD" => p.idx < p.len

\* What ubx_parser_feed does, state by state.
LEMMA Fed ==
    ASSUME NEW p, ParserOK(p), NEW byte0 \in Bytes
    PROVE  LET q == Feed(p, byte0)
               a == (p.ckA + byte0) % ByteMod
               c == (p.ckB + p.ckA + byte0) % ByteMod
           IN /\ p.state = "SYNC1" => q.state = IF byte0 = Sync1 THEN "SYNC2" ELSE "SYNC1"
              /\ p.state = "SYNC2" =>
                    IF byte0 = Sync2 THEN q.state = "CLASS" /\ q.ckA = 0 /\ q.ckB = 0
                                     ELSE q.state = IF byte0 = Sync1 THEN "SYNC2" ELSE "SYNC1"
              /\ p.state = "CLASS" => q.state = "ID" /\ q.ckA = a /\ q.ckB = c
              /\ p.state = "ID" => q.state = "LEN1" /\ q.ckA = a /\ q.ckB = c
              /\ p.state = "LEN1" => q.state = "LEN2" /\ q.ckA = a /\ q.ckB = c /\ q.len = byte0
              /\ p.state = "LEN2" =>
                    /\ q.len = p.len + ByteMod * byte0 /\ q.ckA = a /\ q.ckB = c /\ q.idx = 0
                    /\ q.state = IF q.len = 0 THEN "CK_A" ELSE "PAYLOAD"
              /\ p.state = "PAYLOAD" =>
                    /\ q.len = p.len /\ q.ckA = a /\ q.ckB = c /\ q.idx = p.idx + 1
                    /\ q.state = IF p.idx + 1 >= p.len THEN "CK_A" ELSE "PAYLOAD"
              /\ p.state = "CK_A" => /\ q.ckA = p.ckA /\ q.ckB = p.ckB
                                     /\ q.state = IF byte0 = p.ckA THEN "CK_B" ELSE "SYNC1"
              /\ p.state = "CK_B" => q.state = "SYNC1"
<1> USE DEF ParserOK
<1>1. CASE p.state = "SYNC1"
  BY <1>1 DEF Feed
<1>2. CASE p.state = "SYNC2"
  BY <1>2 DEF Feed, CkStart, AfterBadSync
<1>3. CASE p.state = "CLASS"
  BY <1>3 DEF Feed, CkUpdate
<1>4. CASE p.state = "ID"
  BY <1>4 DEF Feed, CkUpdate
<1>5. CASE p.state = "LEN1"
  BY <1>5 DEF Feed, CkUpdate
<1>6. CASE p.state = "LEN2"
  BY <1>6 DEF Feed, CkUpdate
<1>7. CASE p.state = "PAYLOAD"
  BY <1>7 DEF Feed, CkUpdate
<1>8. CASE p.state = "CK_A"
  BY <1>8 DEF Feed
<1>9. CASE p.state = "CK_B"
  BY <1>9 DEF Feed
<1> QED
  BY <1>1, <1>2, <1>3, <1>4, <1>5, <1>6, <1>7, <1>8, <1>9 DEF ParserStates

LEMMA FeedOK ==
    ASSUME NEW p, ParserOK(p), NEW byte0 \in Bytes
    PROVE  ParserOK(Feed(p, byte0))
<1> DEFINE a == (p.ckA + byte0) % ByteMod
           c == (p.ckB + p.ckA + byte0) % ByteMod
           q == Feed(p, byte0)
<1>1. a \in Bytes /\ c \in Bytes
  <2>1. p.ckA \in Nat /\ p.ckB \in Nat /\ byte0 \in Nat
    BY ByteSizes DEF ParserOK
  <2> QED
    BY <2>1, ByteSizes DEF Bytes
<1>2. byte0 \in 0 .. MaxLen /\ 0 \in Bytes /\ 0 \in 0 .. MaxLen
  BY ByteSizes
<1> USE DEF ParserOK
<1>3. CASE p.state = "SYNC1"
  BY <1>3 DEF Feed, ParserStates
<1>4. CASE p.state = "SYNC2"
  BY <1>2, <1>4 DEF Feed, CkStart, AfterBadSync, ParserStates
<1>5. CASE p.state = "CLASS"
  BY <1>1, <1>5 DEF Feed, CkUpdate, ParserStates
<1>6. CASE p.state = "ID"
  BY <1>1, <1>6 DEF Feed, CkUpdate, ParserStates
<1>7. CASE p.state = "LEN1"
  BY <1>1, <1>2, <1>7 DEF Feed, CkUpdate, ParserStates
<1>8. CASE p.state = "LEN2"
  <2>1. p.len + ByteMod * byte0 \in 0 .. MaxLen
    <3>1. p.len \in Nat /\ p.len <= ByteMod - 1 /\ byte0 \in Nat /\ byte0 <= ByteMod - 1
          /\ ByteMod \in Nat
      BY <1>8, ByteSizes DEF Bytes
    <3>2. ByteMod * byte0 <= ByteMod * (ByteMod - 1) /\ ByteMod * byte0 \in Nat
      BY <3>1, SMTT(30)
    <3>3. ByteMod * (ByteMod - 1) = ByteMod * ByteMod - ByteMod /\ ByteMod * ByteMod \in Nat
      BY <3>1, SMTT(30)
    <3> QED
      BY <3>1, <3>2, <3>3 DEF MaxLen
  <2> DEFINE len == p.len + ByteMod * byte0
  <2>2. q = [p EXCEPT !.ckA = a, !.ckB = c, !.len = len, !.idx = 0,
                      !.state = IF len = 0 THEN "CK_A" ELSE "PAYLOAD"]
    BY <1>8 DEF Feed, CkUpdate
  <2>3. len \in 0 .. MaxLen
    BY <2>1
  <2> HIDE DEF len, q, a, c
  <2>4. q \in [state : ParserStates, cls : Bytes, id : Bytes, len : 0 .. MaxLen,
               idx : 0 .. MaxLen, ckA : Bytes, ckB : Bytes]
    BY <1>1, <1>2, <2>2, <2>3 DEF ParserStates
  <2>5. q.state # "LEN2" /\ (q.state = "PAYLOAD" => q.idx < q.len)
    BY <2>2, <2>3, ByteSizes
  <2> QED
    BY <2>4, <2>5 DEF q
<1>9. CASE p.state = "PAYLOAD"
  <2>1. p.idx + 1 \in 0 .. MaxLen /\ p.idx \in Nat /\ p.len \in Nat
    BY <1>9, ByteSizes
  <2> DEFINE state == IF p.idx + 1 >= p.len THEN "CK_A" ELSE "PAYLOAD"
  <2>2. q = [p EXCEPT !.ckA = a, !.ckB = c, !.idx = p.idx + 1, !.state = state]
    BY <1>9 DEF Feed, CkUpdate
  <2>3. state \in ParserStates /\ state # "LEN2"
    BY DEF ParserStates
  <2>4. state = "PAYLOAD" => p.idx + 1 < p.len
    BY <2>1
  <2> HIDE DEF state, q, a, c
  <2>5. q \in [state : ParserStates, cls : Bytes, id : Bytes, len : 0 .. MaxLen,
               idx : 0 .. MaxLen, ckA : Bytes, ckB : Bytes]
    BY <1>1, <2>1, <2>2, <2>3
  <2>6. q.state = state /\ q.idx = p.idx + 1 /\ q.len = p.len
    BY <2>2
  <2> QED
    BY <2>3, <2>4, <2>5, <2>6 DEF q
<1>10. CASE p.state = "CK_A"
  BY <1>10 DEF Feed, ParserStates
<1>11. CASE p.state = "CK_B"
  BY <1>11 DEF Feed, ParserStates
<1> QED
  BY <1>3, <1>4, <1>5, <1>6, <1>7, <1>8, <1>9, <1>10, <1>11 DEF ParserStates

\* The checksums of the beginnings of frame i.
Sums(i) == CHOOSE ck : IsChecksum(Frames[i], ck)

\* What is left of frame i from byte b on.
Left(i, b) == Len(Frames[i]) - b + 1

\* The state in which the parser should read byte b of a frame of n bytes.
StateAt(n, b) ==
    IF b = 3 THEN "CLASS"
    ELSE IF b = 4 THEN "ID"
    ELSE IF b = 5 THEN "LEN1"
    ELSE IF b = 6 THEN "LEN2"
    ELSE IF b < n - 1 THEN "PAYLOAD"
    ELSE IF b = n - 1 THEN "CK_A"
    ELSE "CK_B"

LEMMA StatesInFrame ==
    ASSUME NEW n \in Nat, 8 <= n
    PROVE  /\ StateAt(n, n) = "CK_B"
           /\ StateAt(n, n - 1) = "CK_A"
           /\ \A b \in Nat : 6 < b /\ b < n - 1 => StateAt(n, b) = "PAYLOAD"
BY DEF StateAt

\* The parser is in the frame: it has taken in what came before byte b of it.
InFrame(p, i, b) ==
    LET n == Len(Frames[i])
        sum == Sums(i)[IF b = n THEN n - 4 ELSE b - 3]
    IN /\ b >= 3
       /\ p.state = StateAt(n, b)
       /\ p.ckA = sum.ckA /\ p.ckB = sum.ckB
       /\ b = 6 => p.len = n - 8
       /\ p.state = "PAYLOAD" => p.len = n - 8 /\ p.idx = b - 7

\* It looks for the next frame: it can only find that one.
Searching(p, i, b) ==
    \/ p.state = "SYNC1"
    \/ p.state = "SYNC2" /\ (b > 2 => Frames[i][b - 1] = Sync1)

\* How long it looks, at most: the frame that has begun is lost.
Search(p, i, b) ==
    IF b = 1 \/ (p.state = "SYNC2" /\ b = 2) THEN Left(i, b) ELSE Left(i, b) + MaxFrame

\* It takes other bytes for a frame, and will have taken so many.
Junk(p) ==
    IF p.state = "SYNC2" THEN MaxLen + 7
    ELSE IF p.state = "CLASS" THEN MaxLen + 6
    ELSE IF p.state = "ID" THEN MaxLen + 5
    ELSE IF p.state = "LEN1" THEN MaxLen + 4
    ELSE IF p.state = "LEN2" THEN MaxLen + 3
    ELSE IF p.state = "PAYLOAD" THEN p.len - p.idx + 2
    ELSE IF p.state = "CK_A" THEN 2
    ELSE 1

\* After s bytes without a frame the parser is about to read byte b of frame i.
Parsing(p, s, i, b) ==
    \/ InFrame(p, i, b) /\ s + Left(i, b) <= MaxResync
    \/ Searching(p, i, b) /\ s + Search(p, i, b) <= MaxResync
    \/ p.state # "SYNC1" /\ s + Junk(p) + 2 * MaxFrame <= MaxResync

LEMMA JunkBound ==
    ASSUME NEW p, ParserOK(p)
    PROVE  Junk(p) \in 1 .. MaxLen + 7
<1>1. p.len \in 0 .. MaxLen /\ p.idx \in 0 .. MaxLen /\ (p.state = "PAYLOAD" => p.idx < p.len)
  BY DEF ParserOK
<1> QED
  BY <1>1, ByteSizes DEF Junk

\* However the parser begins, and wherever in the line.
LEMMA ParsingFromAnywhere ==
    ASSUME FramesWellFormed, NEW p, ParserOK(p),
           NEW i \in 1 .. Len(Frames), NEW b \in 1 .. Len(Frames[i])
    PROVE  Parsing(p, 0, i, b)
<1>1. /\ MaxFrame \in Nat /\ MaxLen \in Nat /\ MaxResync = MaxLen + 8 + 2 * MaxFrame
      /\ Len(Frames[i]) \in Nat /\ Len(Frames[i]) <= MaxFrame
  BY FrameSizes, ByteSizes
<1>2. CASE p.state = "SYNC1"
  <2>1. Searching(p, i, b)
    BY <1>2 DEF Searching
  <2>2. 0 + Search(p, i, b) <= MaxResync
    BY <1>1 DEF Search, Left
  <2> QED
    BY <2>1, <2>2 DEF Parsing
<1>3. CASE p.state # "SYNC1"
  BY <1>1, <1>3, JunkBound DEF Parsing
<1> QED
  BY <1>2, <1>3

\* The parser has just read byte b of frame i and is at the start of a frame, or
\* thinks that byte the first of one.
LEMMA ParsingSearches ==
    ASSUME FramesWellFormed, NEW q, NEW s \in Nat, s + 2 * MaxFrame <= MaxResync,
           NEW i \in 1 .. Len(Frames), NEW b \in 1 .. Len(Frames[i]),
           q.state = IF Frames[i][b] = Sync1 THEN "SYNC2" ELSE "SYNC1"
    PROVE  Parsing(q, s, Forward(i, b)[1], Forward(i, b)[2])
<1> DEFINE j == Forward(i, b)[1]
           c == Forward(i, b)[2]
<1>1. j \in 1 .. Len(Frames) /\ c \in 1 .. Len(Frames[j])
  BY ForwardIsAPlace
<1>3. c = 1 \/ (j = i /\ c = b + 1 /\ c - 1 = b)
  BY DEF Forward
<1> HIDE DEF j, c
<1>2. /\ MaxFrame \in Nat /\ MaxResync \in Nat
      /\ Len(Frames[j]) \in Nat /\ Len(Frames[j]) <= MaxFrame
  BY <1>1, FrameSizes
<1>4. Searching(q, j, c)
  <2>1. CASE c = 1
    BY <2>1 DEF Searching
  <2>2. CASE j = i /\ c - 1 = b
    BY <2>2 DEF Searching
  <2> QED
    BY <1>3, <2>1, <2>2
<1>5. s + Search(q, j, c) <= MaxResync
  BY <1>1, <1>2 DEF Search, Left
<1>6. Parsing(q, s, j, c)
  BY <1>4, <1>5 DEF Parsing
<1> QED
  BY <1>6 DEF j, c

\* A turn of the search.
LEMMA SearchStep ==
    ASSUME FramesWellFormed, NEW p, ParserOK(p), NEW s \in Nat,
           NEW i \in 1 .. Len(Frames), NEW b \in 1 .. Len(Frames[i]),
           Searching(p, i, b), s + Search(p, i, b) <= MaxResync
    PROVE  /\ Parsing(Feed(p, Frames[i][b]), s + 1, Forward(i, b)[1], Forward(i, b)[2])
           /\ s + 1 <= MaxResync
<1> DEFINE j == Forward(i, b)[1]
           c == Forward(i, b)[2]
           x == Frames[i][b]
           q == Feed(p, x)
           n == Len(Frames[i])
<1>1. j \in 1 .. Len(Frames) /\ c \in 1 .. Len(Frames[j])
  BY ForwardIsAPlace
<1>3. IF b < n THEN j = i /\ c = b + 1 ELSE c = 1
  BY DEF Forward
<1> HIDE DEF j, c
<1>8. b \in Nat /\ b >= 1
  OBVIOUS
<1>2. /\ MaxFrame \in Nat /\ MaxResync \in Nat
      /\ Len(Frames[j]) \in Nat /\ Len(Frames[j]) <= MaxFrame
      /\ n \in Nat /\ n <= MaxFrame /\ 8 <= n
      /\ x \in Bytes /\ FrameShape(Frames[i]) /\ b \in Nat
  BY <1>1, <1>8, FrameSizes
<1>4. Frames[i][1] = Sync1 /\ Frames[i][2] = Sync2 /\ Sync1 # Sync2
  BY <1>2, ByteSizes DEF FrameShape
<1>5. s + 1 <= MaxResync
  BY <1>2 DEF Search, Left
<1>9. n \in Nat /\ 8 <= n
  BY <1>2
<1> SUFFICES Parsing(q, s + 1, j, c)
  BY <1>5 DEF j, c
<1>6. CASE p.state = "SYNC2" /\ b = 2
  <2>1. q.state = "CLASS" /\ q.ckA = 0 /\ q.ckB = 0
    BY <1>2, <1>4, <1>6, Fed
  <2>2. j = i /\ c = 3
    BY <1>2, <1>3, <1>6
  <2>3. IsChecksum(Frames[i], Sums(i))
    BY <1>2 DEF FrameShape, Sums
  <2>4. InFrame(q, i, 3)
    <3>1. 3 # n /\ 3 - 3 = 0 /\ 3 # 6 /\ StateAt(n, 3) = "CLASS"
      <4>1. 3 # n /\ 3 - 3 = 0 /\ 3 # 6
        <5> HIDE DEF n, x, q
        <5> QED
          BY <1>9
      <4>2. \A m : StateAt(m, 3) = "CLASS"
        BY DEF StateAt
      <4> QED
        BY <4>1, <4>2
    <3> QED
      BY <2>1, <2>3, <3>1 DEF InFrame, IsChecksum
  <2>5. (s + 1) + Left(i, 3) <= MaxResync
    <3>1. Search(p, i, b) = n - 1 /\ Left(i, 3) = n - 2
      BY <1>2, <1>6 DEF Search, Left
    <3> DEFINE k == Search(p, i, b)
               m == Left(i, 3)
    <3>2. m + 1 = k /\ m \in Int /\ k \in Int /\ s + k <= MaxResync
      BY <1>9, <3>1
    <3> HIDE DEF n, x, q, k, m
    <3>3. (s + 1) + m <= MaxResync
      BY <1>2, <3>2
    <3> QED
      BY <3>3 DEF m
  <2> QED
    BY <2>2, <2>4, <2>5 DEF Parsing
<1>7. CASE ~(p.state = "SYNC2" /\ b = 2)
  <2>1. q.state = IF x = Sync1 THEN "SYNC2" ELSE "SYNC1"
    <3>1. CASE p.state = "SYNC1"
      BY <1>2, <3>1, Fed
    <3>2. CASE p.state = "SYNC2"
      <4>1. x # Sync2
        <5>1. CASE b = 1
          BY <1>4, <5>1
        <5>2. CASE b > 2
          <6>1. Frames[i][b - 1] = Sync1
            BY <3>2, <5>2 DEF Searching
          <6>2. i \in DOMAIN Frames
            BY GpsAssumption
          <6>3. NoInnerSync(Frames[i], Frames[i])
            BY <6>2, GpsAssumption
          <6>4. b - 1 \in 2 .. Len(Frames[i]) /\ (b - 1) + 1 = b
            BY <1>2, <5>2
          <6>5. Frames[i] \in Seq(0 .. ByteMod - 1)
            BY <6>2, GpsAssumption
          <6>6. \A k \in 1 .. Len(Frames[i]) : (Frames[i] \o Frames[i])[k] = Frames[i][k]
            BY <6>5
          <6>7. b - 1 \in 1 .. Len(Frames[i])
            BY <1>2, <5>2
          <6> QED
            BY <6>1, <6>3, <6>4, <6>6, <6>7 DEF NoInnerSync
        <5> QED
          BY <1>2, <1>7, <3>2, <5>1, <5>2
      <4> QED
        BY <1>2, <3>2, <4>1, Fed
    <3> QED
      BY <3>1, <3>2 DEF Searching
  <2>2. Searching(q, j, c)
    <3>1. CASE c = 1
      BY <2>1, <3>1 DEF Searching
    <3>2. CASE j = i /\ c = b + 1
      <4>1. c - 1 = b
        BY <1>2, <3>2
      <4> QED
        BY <2>1, <3>2, <4>1 DEF Searching
    <3> QED
      BY <1>3, <3>1, <3>2
  <2>3. Search(q, j, c) + 1 <= Search(p, i, b) /\ Search(q, j, c) \in Int /\ Search(p, i, b) \in Int
    <3>1. CASE b = n
      <4>1. c = 1 /\ Search(p, i, b) = 1 + MaxFrame
        BY <1>2, <1>3, <3>1 DEF Search, Left
      <4>2. Search(q, j, c) = Len(Frames[j])
        BY <1>2, <4>1 DEF Search, Left
      <4> HIDE DEF n, x, q
      <4> QED
        BY <1>2, <4>1, <4>2
    <3>2. CASE b < n /\ b = 1
      <4>1. c = 2 /\ j = i /\ q.state = "SYNC2"
        BY <1>3, <1>4, <2>1, <3>2
      <4>2. Search(p, i, b) = n /\ Search(q, j, c) = n - 1
        BY <1>9, <3>2, <4>1 DEF Search, Left
      <4> HIDE DEF n, x, q
      <4> QED
        BY <1>9, <4>2
    <3>3. CASE b < n /\ b # 1
      <4>1. c = b + 1 /\ j = i /\ Search(p, i, b) = Left(i, b) + MaxFrame
        BY <1>3, <1>7, <3>3 DEF Search
      <4>2. Search(q, i, b + 1) = Left(i, b + 1) + MaxFrame
        BY <1>2, <3>3 DEF Search
      <4>3. Left(i, b) = n - b + 1 /\ Left(i, b + 1) = n - (b + 1) + 1
        BY DEF Left
      <4> HIDE DEF n, x, q
      <4> QED
        BY <1>2, <4>1, <4>2, <4>3
    <3> QED
      BY <1>2, <3>1, <3>2, <3>3
  <2>4. (s + 1) + Search(q, j, c) <= MaxResync
    <3> DEFINE k == Search(p, i, b)
               m == Search(q, j, c)
    <3>1. m + 1 <= k /\ m \in Int /\ k \in Int /\ s + k <= MaxResync
      BY <2>3
    <3> HIDE DEF n, x, q, k, m
    <3>2. (s + 1) + m <= MaxResync
      BY <1>2, <3>1
    <3> QED
      BY <3>2 DEF m
  <2> QED
    BY <2>2, <2>4 DEF Parsing
<1> QED
  BY <1>6, <1>7

\* A turn of a parser that is lost.
LEMMA LostStep ==
    ASSUME FramesWellFormed, NEW p, ParserOK(p), NEW s \in Nat,
           NEW i \in 1 .. Len(Frames), NEW b \in 1 .. Len(Frames[i]),
           p.state # "SYNC1", s + Junk(p) + 2 * MaxFrame <= MaxResync
    PROVE  /\ Parsing(Feed(p, Frames[i][b]), s + 1, Forward(i, b)[1], Forward(i, b)[2])
           /\ s + 1 <= MaxResync
<1> DEFINE j == Forward(i, b)[1]
           c == Forward(i, b)[2]
           x == Frames[i][b]
           q == Feed(p, x)
<1>1. j \in 1 .. Len(Frames) /\ c \in 1 .. Len(Frames[j])
  BY ForwardIsAPlace
<1>2. x \in Bytes /\ MaxFrame \in Nat /\ MaxResync \in Nat /\ MaxLen \in Nat
  BY FrameSizes, ByteSizes
<1>3. Junk(p) \in 1 .. MaxLen + 7 /\ Junk(p) \in Int
  BY JunkBound, ByteSizes
<1>4. s + 1 <= MaxResync /\ (s + 1) + 2 * MaxFrame <= MaxResync
  <2> DEFINE m == Junk(p)
  <2>1. m \in Int /\ m >= 1 /\ s + m + 2 * MaxFrame <= MaxResync
    BY <1>3
  <2> HIDE DEF j, c, x, q, m
  <2> QED
    BY <1>2, <2>1
<1>5. ParserOK(q) /\ Junk(q) \in 1 .. MaxLen + 7 /\ Junk(q) \in Int
  <2>1. ParserOK(q)
    BY <1>2, FeedOK
  <2> HIDE DEF q
  <2> QED
    BY <2>1, JunkBound, ByteSizes
<1>6. ASSUME q.state = "SYNC1" PROVE Parsing(q, s + 1, j, c)
  <2>1. (s + 1) + 2 * MaxFrame <= MaxResync
    BY <1>4
  <2>2. /\ Len(Frames[j]) \in Nat /\ Len(Frames[j]) <= MaxFrame
    BY <1>1, FrameSizes
  <2> HIDE DEF j, c, q
  <2>3. Left(j, c) \in Int /\ Left(j, c) <= MaxFrame
    BY <1>1, <1>2, <2>2 DEF Left
  <2>4. (s + 1) + Search(q, j, c) <= MaxResync
    <3> DEFINE m == Search(q, j, c)
    <3>1. m \in Int /\ m <= 2 * MaxFrame
      BY <1>2, <2>3 DEF Search
    <3> HIDE DEF m, x
    <3>2. (s + 1) + m <= MaxResync
      BY <1>2, <2>1, <3>1
    <3> QED
      BY <3>2 DEF m
  <2> QED
    BY <1>6, <2>4 DEF Parsing, Searching
<1>7. ASSUME q.state # "SYNC1", Junk(q) <= Junk(p) - 1 PROVE Parsing(q, s + 1, j, c)
  <2>1. (s + 1) + Junk(q) + 2 * MaxFrame <= MaxResync
    <3> DEFINE u == Junk(q)
               v == Junk(p)
    <3>1. u \in Int /\ v \in Int /\ u <= v - 1 /\ s + v + 2 * MaxFrame <= MaxResync
      BY <1>3, <1>5, <1>7
    <3> HIDE DEF u, v, j, c, x, q
    <3>2. (s + 1) + u + 2 * MaxFrame <= MaxResync
      BY <1>2, <3>1
    <3> QED
      BY <3>2 DEF u
  <2> QED
    BY <1>7, <2>1 DEF Parsing
<1> SUFFICES Parsing(q, s + 1, j, c)
  BY <1>4
<1>8. CASE p.state = "SYNC2" /\ x # Sync2
  <2>1. q.state = IF x = Sync1 THEN "SYNC2" ELSE "SYNC1"
    BY <1>2, <1>8, Fed
  <2>2. (s + 1) + 2 * MaxFrame <= MaxResync /\ s + 1 \in Nat
    BY <1>4
  <2> HIDE DEF q
  <2> QED
    BY <2>1, <2>2, ParsingSearches
<1>9. CASE p.state \in {"CLASS", "ID", "LEN1"} \/ (p.state = "SYNC2" /\ x = Sync2)
  <2>1. \/ p.state = "SYNC2" /\ q.state = "CLASS"
        \/ p.state = "CLASS" /\ q.state = "ID"
        \/ p.state = "ID" /\ q.state = "LEN1"
        \/ p.state = "LEN1" /\ q.state = "LEN2"
    BY <1>2, <1>9, Fed
  <2> HIDE DEF q
  <2>2. q.state # "SYNC1" /\ Junk(q) = Junk(p) - 1
    <3>1. \/ Junk(p) = MaxLen + 7 /\ Junk(q) = MaxLen + 6
          \/ Junk(p) = MaxLen + 6 /\ Junk(q) = MaxLen + 5
          \/ Junk(p) = MaxLen + 5 /\ Junk(q) = MaxLen + 4
          \/ Junk(p) = MaxLen + 4 /\ Junk(q) = MaxLen + 3
      BY <2>1 DEF Junk
    <3>2. q.state # "SYNC1"
      BY <2>1
    <3> QED
      BY <1>2, <3>1, <3>2
  <2> QED
    BY <1>3, <1>7, <2>2
<1>10. CASE p.state = "LEN2"
  <2>1. q.len \in 0 .. MaxLen /\ q.idx = 0 /\ q.state = (IF q.len = 0 THEN "CK_A" ELSE "PAYLOAD")
    BY <1>2, <1>5, <1>10, Fed DEF ParserOK
  <2> HIDE DEF q
  <2>2. Junk(p) = MaxLen + 3
    BY <1>10 DEF Junk
  <2>3. q.state # "SYNC1" /\ Junk(q) <= MaxLen + 2
    BY <1>2, <2>1 DEF Junk
  <2> QED
    BY <1>2, <1>5, <1>7, <2>2, <2>3
<1>11. CASE p.state = "PAYLOAD"
  <2>1. /\ q.len = p.len /\ q.idx = p.idx + 1
        /\ q.state = (IF p.idx + 1 >= p.len THEN "CK_A" ELSE "PAYLOAD")
    BY <1>2, <1>11, Fed
  <2>2. p.len \in Nat /\ p.idx \in Nat /\ p.idx < p.len
    BY <1>2, <1>11 DEF ParserOK
  <2> HIDE DEF q
  <2>3. Junk(p) = p.len - p.idx + 2
    BY <1>11 DEF Junk
  <2>4. q.state # "SYNC1" /\ Junk(q) <= p.len - p.idx + 1
    BY <2>1, <2>2 DEF Junk
  <2> QED
    BY <1>5, <1>7, <2>2, <2>3, <2>4
<1>12. CASE p.state = "CK_A"
  <2>1. q.state \in {"CK_B", "SYNC1"}
    BY <1>2, <1>12, Fed
  <2>2. q.state = "CK_B" => Junk(q) = 1 /\ Junk(p) = 2
    BY <1>12 DEF Junk
  <2> HIDE DEF q
  <2> QED
    BY <1>6, <1>7, <2>1, <2>2
<1>13. CASE p.state = "CK_B"
  <2>1. q.state = "SYNC1"
    BY <1>2, <1>13, Fed
  <2> QED
    BY <1>6, <2>1
<1> QED
  BY <1>8, <1>9, <1>10, <1>11, <1>12, <1>13 DEF ParserOK, ParserStates

\* A turn in a frame: the parser goes on in it, and returns it at its end.
LEMMA InFrameNext ==
    ASSUME FramesWellFormed, NEW p, ParserOK(p),
           NEW i \in 1 .. Len(Frames), NEW b \in 1 .. Len(Frames[i]), InFrame(p, i, b)
    PROVE  IF b = Len(Frames[i]) THEN Returns(p, Frames[i][b])
                                 ELSE InFrame(Feed(p, Frames[i][b]), i, b + 1)
<1> DEFINE n == Len(Frames[i])
           x == Frames[i][b]
           q == Feed(p, x)
           ck == Sums(i)
<1>1. /\ n \in Nat /\ 8 <= n /\ x \in Bytes /\ FrameShape(Frames[i])
      /\ b \in Nat /\ b <= n
  <2>1. n \in Nat
    BY FrameSizes
  <2> QED
    BY <2>1, FrameSizes
<1>2. IsChecksum(Frames[i], ck) /\ Frames[i][5] = n - 8 /\ Frames[i][6] = 0
  BY <1>1 DEF FrameShape, Sums
<1>3. /\ b >= 3 /\ p.state = StateAt(n, b)
      /\ p.ckA = ck[IF b = n THEN n - 4 ELSE b - 3].ckA
      /\ p.ckB = ck[IF b = n THEN n - 4 ELSE b - 3].ckB
      /\ b = 6 => p.len = n - 8
      /\ p.state = "PAYLOAD" => p.len = n - 8 /\ p.idx = b - 7
  BY DEF InFrame
<1>4. /\ \A k \in 1 .. n - 4 :
            /\ ck[k].ckA = (ck[k - 1].ckA + Frames[i][k + 2]) % ByteMod
            /\ ck[k].ckB = (ck[k - 1].ckB + ck[k - 1].ckA + Frames[i][k + 2]) % ByteMod
      /\ Frames[i][n - 1] = ck[n - 4].ckA /\ Frames[i][n] = ck[n - 4].ckB
  BY <1>2 DEF IsChecksum
<1> HIDE DEF n, ck
<1>5. CASE b = n
  <2>1. StateAt(n, b) = "CK_B"
    BY <1>1, <1>5, StatesInFrame
  <2>2. p.state = "CK_B" /\ x = p.ckB
    BY <1>3, <1>4, <1>5, <2>1
  <2> QED
    BY <1>5, <2>2 DEF Returns, n
<1>6. CASE b < n
  <2> SUFFICES InFrame(q, i, b + 1)
    BY <1>6 DEF n
  <2> SUFFICES /\ q.state = StateAt(n, b + 1)
               /\ q.ckA = ck[IF b + 1 = n THEN n - 4 ELSE b + 1 - 3].ckA
               /\ q.ckB = ck[IF b + 1 = n THEN n - 4 ELSE b + 1 - 3].ckB
               /\ b + 1 = 6 => q.len = n - 8
               /\ q.state = "PAYLOAD" => q.len = n - 8 /\ q.idx = b + 1 - 7
    BY <1>1, <1>3 DEF InFrame, n, ck
  <2>1. CASE b = n - 1
    <3>1. p.state = "CK_A" /\ x = p.ckA
      <4>1. StateAt(n, b) = "CK_A" /\ b # n /\ b - 3 = n - 4
        <5> HIDE DEF x, q
        <5> QED
          BY <1>1, <2>1, StatesInFrame
      <4>2. x = ck[n - 4].ckA
        BY <1>4, <2>1
      <4> QED
        BY <1>3, <4>1, <4>2
    <3>2. q.state = "CK_B" /\ q.ckA = p.ckA /\ q.ckB = p.ckB
      BY <1>1, <3>1, Fed
    <3>3. /\ StateAt(n, b + 1) = "CK_B"
          /\ b + 1 = n /\ b # n /\ b - 3 = n - 4 /\ b + 1 # 6
      <4> HIDE DEF x, q
      <4>1. b + 1 = n /\ b # n /\ b - 3 = n - 4 /\ b + 1 # 6
        BY <1>1, <2>1
      <4> QED
        BY <1>1, <4>1, StatesInFrame
    <3> QED
      BY <1>3, <3>2, <3>3
  <2>2. CASE b < n - 1
    <3>1. /\ b - 2 \in 1 .. n - 4 /\ (b - 2) - 1 = b - 3 /\ (b - 2) + 2 = b /\ b # n /\ b + 1 # n
          /\ b + 1 - 3 = b - 2
      <4>1. b \in Nat /\ n \in Nat /\ b >= 3
        BY <1>1, <1>3
      <4> HIDE DEF x, q
      <4> QED
        BY <4>1, <2>2
    <3>2. /\ ck[b - 2].ckA = (p.ckA + x) % ByteMod
          /\ ck[b - 2].ckB = (p.ckB + p.ckA + x) % ByteMod
      BY <1>3, <1>4, <3>1
    <3>3. p.state \in {"CLASS", "ID", "LEN1", "LEN2", "PAYLOAD"}
      BY <1>1, <1>3, <2>2 DEF StateAt
    <3>4. q.ckA = (p.ckA + x) % ByteMod /\ q.ckB = (p.ckB + p.ckA + x) % ByteMod
      BY <1>1, <3>3, Fed
    <3>5. b + 1 = 6 => q.len = n - 8
      <4> SUFFICES ASSUME b = 5 PROVE q.len = n - 8
        BY <1>1
      <4>1. p.state = "LEN1" /\ x = n - 8
        BY <1>2, <1>3 DEF StateAt
      <4> QED
        BY <1>1, <4>1, Fed
    <3>6. q.state = StateAt(n, b + 1) /\ (q.state = "PAYLOAD" => q.len = n - 8 /\ q.idx = b + 1 - 7)
      <4>1. CASE b \in {3, 4, 5}
        <5>1. \/ b = 3 /\ p.state = "CLASS"
              \/ b = 4 /\ p.state = "ID"
              \/ b = 5 /\ p.state = "LEN1"
          BY <1>3, <4>1 DEF StateAt
        <5>2. \/ b = 3 /\ q.state = "ID"
              \/ b = 4 /\ q.state = "LEN1"
              \/ b = 5 /\ q.state = "LEN2"
          BY <1>1, <5>1, Fed
        <5>3. StateAt(n, 4) = "ID" /\ StateAt(n, 5) = "LEN1" /\ StateAt(n, 6) = "LEN2"
          BY DEF StateAt
        <5> QED
          BY <5>2, <5>3
      <4>2. CASE b = 6
        <5>1. p.state = "LEN2" /\ x = 0 /\ p.len = n - 8
          BY <1>2, <1>3, <4>2 DEF StateAt
        <5>2. ByteMod * 0 = 0 /\ p.len + 0 = n - 8
          BY <1>1, <5>1, ByteSizes
        <5>3. q.len = n - 8 /\ q.idx = 0 /\ q.state = IF q.len = 0 THEN "CK_A" ELSE "PAYLOAD"
          BY <1>1, <5>1, <5>2, Fed
        <5>4. StateAt(n, 7) = IF 7 < n - 1 THEN "PAYLOAD" ELSE "CK_A"
          BY <1>1, <2>2, <4>2 DEF StateAt
        <5> QED
          BY <1>1, <4>2, <5>3, <5>4
      <4>3. CASE b > 6
        <5>1. p.state = "PAYLOAD" /\ p.len = n - 8 /\ p.idx = b - 7
          <6>1. StateAt(n, b) = "PAYLOAD"
            BY <1>1, <2>2, <4>3, StatesInFrame
          <6> QED
            BY <1>3, <6>1
        <5>2. q.len = n - 8 /\ q.idx = (b - 7) + 1
              /\ q.state = IF (b - 7) + 1 >= n - 8 THEN "CK_A" ELSE "PAYLOAD"
          BY <1>1, <5>1, Fed
        <5>3. StateAt(n, b + 1) = IF b + 1 < n - 1 THEN "PAYLOAD" ELSE "CK_A"
          <6> HIDE DEF x, q
          <6>1. b + 1 \in Nat /\ 6 < b + 1 /\ (b + 1 < n - 1 \/ b + 1 = n - 1)
            BY <1>1, <2>2, <4>3
          <6> QED
            BY <1>1, <6>1, StatesInFrame
        <5> HIDE DEF q
        <5> QED
          BY <1>1, <5>2, <5>3
      <4> QED
        BY <1>1, <1>3, <4>1, <4>2, <4>3
    <3> HIDE DEF q
    <3> QED
      BY <3>1, <3>2, <3>4, <3>5, <3>6
  <2> QED
    BY <1>1, <1>6, <2>1, <2>2
<1> QED
  BY <1>1, <1>5, <1>6 DEF n

LEMMA InFrameStep ==
    ASSUME FramesWellFormed, NEW p, ParserOK(p), NEW s \in Nat,
           NEW i \in 1 .. Len(Frames), NEW b \in 1 .. Len(Frames[i]),
           InFrame(p, i, b), s + Left(i, b) <= MaxResync
    PROVE  \/ b = Len(Frames[i]) /\ Returns(p, Frames[i][b])
           \/ /\ Parsing(Feed(p, Frames[i][b]), s + 1, Forward(i, b)[1], Forward(i, b)[2])
              /\ s + 1 <= MaxResync
<1> DEFINE n == Len(Frames[i])
           q == Feed(p, Frames[i][b])
<1>1. CASE b = n
  BY <1>1, InFrameNext
<1>2. CASE b # n
  <2>1. InFrame(q, i, b + 1)
    BY <1>2, InFrameNext
  <2>2. n \in Nat /\ MaxResync \in Nat
    BY FrameSizes
  <2>3. b \in Nat /\ b <= n
    BY <2>2
  <2> HIDE DEF q
  <2>4. (s + 1) + Left(i, b + 1) <= MaxResync /\ s + 1 <= MaxResync
    <3>1. Left(i, b) = n - b + 1 /\ Left(i, b + 1) = n - (b + 1) + 1
      BY DEF Left
    <3> HIDE DEF n
    <3> QED
      BY <1>2, <2>2, <2>3, <3>1
  <2>5. Forward(i, b)[1] = i /\ Forward(i, b)[2] = b + 1
    BY <1>2, <2>2, <2>3 DEF Forward
  <2> QED
    BY <2>1, <2>4, <2>5 DEF Parsing, q
<1> QED
  BY <1>1, <1>2

\* A parser that waits for a first sync byte and is fed a frame of the receiver
\* returns it at its last byte, and nothing before; run[b] is the parser when byte
\* b is fed.
THEOREM FramesAreReturned ==
    ASSUME FramesWellFormed, NEW i \in 1 .. Len(Frames), NEW run,
           ParserOK(run[1]), run[1].state = "SYNC1",
           \A b \in 1 .. Len(Frames[i]) - 1 : run[b + 1] = Feed(run[b], Frames[i][b])
    PROVE  \A b \in 1 .. Len(Frames[i]) :
               Returns(run[b], Frames[i][b]) <=> b = Len(Frames[i])
<1> DEFINE f == Frames[i]
           n == Len(f)
<1>1. n \in Nat /\ 8 <= n /\ FrameShape(f) /\ \A b \in 1 .. n : f[b] \in Bytes
  BY FrameSizes
<1>2. f[1] = Sync1 /\ f[2] = Sync2 /\ IsChecksum(f, Sums(i))
  BY <1>1 DEF FrameShape, Sums
<1> HIDE DEF n
<1>3. \A b \in 1 .. n - 1 : run[b + 1] = Feed(run[b], f[b]) /\ f[b] \in Bytes
  BY <1>1 DEF n
<1>4. /\ ParserOK(run[2]) /\ run[2].state = "SYNC2"
      /\ ParserOK(run[3]) /\ run[3].state = "CLASS" /\ run[3].ckA = 0 /\ run[3].ckB = 0
  <2>1. 1 \in 1 .. n - 1 /\ 2 \in 1 .. n - 1 /\ 1 + 1 = 2 /\ 2 + 1 = 3
    BY <1>1
  <2>2. ParserOK(run[2]) /\ run[2].state = "SYNC2"
    BY <1>2, <1>3, <2>1, Fed, FeedOK
  <2> QED
    BY <1>2, <1>3, <2>1, <2>2, Fed, FeedOK
<1>5. InFrame(run[3], i, 3)
  <2>1. 3 # n /\ 3 - 3 = 0 /\ 3 # 6 /\ 3 >= 3
    BY <1>1
  <2>2. StateAt(n, 3) = "CLASS"
    BY DEF StateAt
  <2>3. Sums(i)[0].ckA = 0 /\ Sums(i)[0].ckB = 0
    BY <1>2 DEF IsChecksum
  <2> QED
    BY <1>4, <2>1, <2>2, <2>3 DEF InFrame, n
<1>6. \A b \in 3 .. n : InFrame(run[b], i, b) /\ ParserOK(run[b])
  <2> DEFINE P == {b \in 3 .. n : InFrame(run[b], i, b) /\ ParserOK(run[b])}
  <2>1. 3 \in P
    BY <1>1, <1>4, <1>5
  <2>2. \A b \in 3 .. n - 1 : b \in P => b + 1 \in P
    <3> SUFFICES ASSUME NEW b \in 3 .. n - 1, InFrame(run[b], i, b), ParserOK(run[b])
                 PROVE  b + 1 \in P
      OBVIOUS
    <3>1. b \in 1 .. n /\ b # n /\ b \in 1 .. n - 1 /\ b + 1 \in 3 .. n
      BY <1>1
    <3>2. run[b + 1] = Feed(run[b], f[b]) /\ f[b] \in Bytes
      BY <1>3, <3>1
    <3>3. InFrame(run[b + 1], i, b + 1)
      BY <3>1, <3>2, InFrameNext DEF n
    <3>4. ParserOK(run[b + 1])
      BY <3>2, FeedOK
    <3> QED
      BY <3>1, <3>3, <3>4
  <2> HIDE DEF P
  <2>3. 3 .. n \subseteq P
    <3>1. 3 \in Int /\ n \in Int
      BY <1>1
    <3> QED
      BY <2>1, <2>2, <3>1, IntervalInduction, Zenon
  <2> QED
    BY <2>3 DEF P
<1>7. ASSUME NEW b \in 1 .. n PROVE Returns(run[b], f[b]) <=> b = n
  <2>1. CASE b = n
    <3>1. b \in 3 .. n
      BY <1>1, <2>1
    <3>2. Returns(run[b], Frames[i][b])
      BY <1>6, <2>1, <3>1, InFrameNext DEF n
    <3> QED
      BY <2>1, <3>2
  <2>2. CASE b # n
    <3>1. run[b].state # "CK_B"
      <4>1. CASE b \in {1, 2}
        BY <1>4, <4>1
      <4>2. CASE b \in 3 .. n - 1
        <5>1. run[b].state = StateAt(n, b)
          BY <1>6, <4>2 DEF InFrame, n
        <5>2. b # n /\ (b < n - 1 \/ b = n - 1)
          BY <1>1, <4>2
        <5> QED
          BY <5>1, <5>2 DEF StateAt
      <4> QED
        BY <1>1, <2>2, <4>1, <4>2
    <3> QED
      BY <2>2, <3>1 DEF Returns
  <2> QED
    BY <2>1, <2>2
<1> QED
  BY <1>7 DEF n

\* A turn of the drain.
LEMMA ParsingStep ==
    ASSUME FramesWellFormed, NEW p, ParserOK(p), NEW s \in Nat,
           NEW i \in 1 .. Len(Frames), NEW b \in 1 .. Len(Frames[i]), Parsing(p, s, i, b)
    PROVE  LET x == Frames[i][b]
               t == IF Returns(p, x) THEN 0 ELSE s + 1
           IN Parsing(Feed(p, x), t, Forward(i, b)[1], Forward(i, b)[2]) /\ t \in 0 .. MaxResync
<1> DEFINE x == Frames[i][b]
           q == Feed(p, x)
           j == Forward(i, b)[1]
           c == Forward(i, b)[2]
<1>1. x \in Bytes /\ MaxResync \in Nat
  BY FrameSizes
<1>2. Parsing(q, 0, j, c)
  <2>1. ParserOK(q)
    BY <1>1, FeedOK
  <2>2. j \in 1 .. Len(Frames) /\ c \in 1 .. Len(Frames[j])
    BY ForwardIsAPlace
  <2> HIDE DEF q, j, c
  <2> QED
    BY <2>1, <2>2, ParsingFromAnywhere
<1>3. CASE Returns(p, x)
  BY <1>1, <1>2, <1>3
<1>4. CASE ~Returns(p, x)
  <2>1. Parsing(q, s + 1, j, c) /\ s + 1 <= MaxResync
    BY <1>4, InFrameStep, SearchStep, LostStep DEF Parsing
  <2> QED
    BY <1>1, <1>4, <2>1
<1> QED
  BY <1>3, <1>4

-----------------------------------------------------------------------------
(* The parser and the ring: what is not read is a piece of the line.       *)

Place == {x \in Nat \X Nat : x[1] \in 1 .. Len(Frames) /\ x[2] \in 1 .. Len(Frames[x[1]])}

\* The place of the byte that comes next.
LinePlace ==
    IF byte <= Len(Frames[frame]) THEN <<frame, byte>> ELSE <<(frame % Len(Frames)) + 1, 1>>

\* The ring has what it will be read for.
InUse == pc = "arm" => dmar

\* The bytes that are not read are those of the places w[0], w[1], ... of the line,
\* one after the other, up to the one that comes next if the DMA still runs; and
\* the parser is ready for the first of them.
OnLine(w) ==
    /\ w \in [Index -> Place]
    /\ InUse =>
          /\ \A a \in Index :
                Ahead(a) < Ahead(pos) => ring[a] = Frames[w[Ahead(a)][1]][w[Ahead(a)][2]]
          /\ \A n \in Index : n < Ahead(pos) => w[n + 1] = Forward(w[n][1], w[n][2])
    /\ dmar => w[Ahead(pos)] = LinePlace
    /\ pc \in {"wait", "check", "drain"} => Parsing(parser, since, w[0][1], w[0][2])

\* The parser and the count.
Counted == ParserOK(parser) /\ since \in 0 .. MaxResync

ResyncInv == StreamInv /\ Counted /\ \E w : OnLine(w)

LEMMA LinePlaceIsAPlace ==
    ASSUME FramesWellFormed, StreamType
    PROVE  LinePlace \in Place
<1>1. frame \in 1 .. Len(Frames) /\ byte \in 1 .. Len(Frames[frame]) + 1
  BY DEF StreamType
<1>2. Len(Frames) \in Nat /\ Len(Frames) > 0
  BY GpsAssumption
<1>3. Len(Frames[frame]) \in Nat
  BY <1>1, FrameSizes
<1>4. CASE byte <= Len(Frames[frame])
  <2>1. byte \in 1 .. Len(Frames[frame]) /\ frame \in Nat /\ byte \in Nat
    BY <1>1, <1>2, <1>3, <1>4
  <2> QED
    BY <1>1, <1>4, <2>1 DEF LinePlace, Place
<1>5. CASE byte > Len(Frames[frame])
  <2> DEFINE next == (frame % Len(Frames)) + 1
  <2>1. next \in 1 .. Len(Frames) /\ next \in Nat
    BY <1>1, <1>2
  <2>2. 1 \in 1 .. Len(Frames[next])
    BY <2>1, FrameSizes
  <2>3. LinePlace = <<next, 1>>
    BY <1>1, <1>3, <1>5 DEF LinePlace
  <2> HIDE DEF next
  <2> QED
    BY <2>1, <2>2, <2>3 DEF Place
<1> QED
  BY <1>1, <1>3, <1>4, <1>5

LEMMA ForwardInPlace ==
    ASSUME FramesWellFormed, NEW i \in 1 .. Len(Frames), NEW b \in 1 .. Len(Frames[i])
    PROVE  Forward(i, b) \in Place
<1>1. (i % Len(Frames)) + 1 \in Nat
  BY GpsAssumption
<1>2. Forward(i, b) \in Nat \X Nat
  BY <1>1 DEF Forward
<1> HIDE DEF Forward
<1> QED
  BY <1>2, ForwardIsAPlace DEF Place

\* A step that leaves the ring and the parser alone.
LEMMA QuietStep ==
    ASSUME NEW w, OnLine(w), UNCHANGED <<ring, pos, parser, since>>, Base' = Base,
           InUse' => InUse, dmar' => dmar /\ LinePlace' = LinePlace,
           pc' \in {"wait", "check", "drain"} => pc \in {"wait", "check", "drain"}
    PROVE  OnLine(w)'
<1>1. Ahead(pos)' = Ahead(pos) /\ \A a \in Index : Ahead(a)' = Ahead(a)
  BY DEF Ahead
<1> QED
  BY <1>1 DEF OnLine

\* A byte that the DMA stores is one more to read, and there is room for it.
LEMMA ByteAhead ==
    ASSUME StreamInv, OrderlyLine, Byte, dmar
    PROVE  /\ Ahead(pos)' = Ahead(pos) + 1
           /\ Ahead(pos) \in Index /\ Ahead(pos) + 1 \in Index
<1>1. /\ byte \in 1 .. Len(Frames[frame]) /\ byte \in Nat \ {0} /\ byte <= HalfRing
  BY Sizes DEF Byte, StreamInv, StreamType
<1>2. pos' = (pos + 1) % Ring /\ UNCHANGED <<pc, readIdx>>
  BY Zenon DEF Byte, Store, taskVars
<1>3. byte = 1 => Settled
  BY Zenon DEF Byte, Settled
<1>4. pos \in Index /\ pos' = (IF pos + 1 = Ring THEN 0 ELSE pos + 1) /\ pos' \in Index
  BY <1>2, Slots, Sizes DEF StreamInv, StreamType, Index
<1>5. Base' = Base /\ Base \in Index
  BY <1>2, Distances DEF Base, StreamInv
<1>6. Ahead(pos) \in Int
  BY <1>4, <1>5, Sizes DEF Ahead, Distance, Index
<1>7. Ahead(pos) + 1 <= 2 * HalfRing
  <2>1. CASE byte = 1
    <3>1. ~uartError
      BY <1>3, <2>1 DEF StreamInv, ErrorPlace, Settled
    <3>2. Ahead(pos) <= HalfRing
      BY <1>3, <2>1, <3>1, Zenon DEF StreamInv, Fill
    <3> QED
      BY <1>1, <1>6, <2>1, <3>2, Sizes
  <2>2. CASE byte # 1
    <3>1. Sent = byte - 1
      <4>1. byte > 1
        BY <1>1, <2>2
      <4> QED
        BY <4>1 DEF Sent
    <3>2. Ahead(pos) <= Sent \/ Ahead(pos) <= HalfRing + Sent
      BY Zenon DEF StreamInv, Fill
    <3> QED
      BY <1>1, <1>6, <3>1, <3>2, Sizes
  <2> QED
    BY <2>1, <2>2
<1>8. Ahead(pos)' = Ahead(pos) + 1
  BY <1>4, <1>5, <1>7, Sizes DEF Ahead, Distance, Index
<1>9. Ahead(pos) >= 0
  BY <1>4, <1>5, Sizes DEF Ahead, Distance, Index
<1> QED
  BY <1>6, <1>7, <1>8, <1>9, Sizes DEF Index

\* Bytes that come are the next ones of the line.
LEMMA ByteOnLine ==
    ASSUME FramesWellFormed, OrderlyLine, StreamInv, Byte, NEW w, OnLine(w)
    PROVE  \E v : OnLine(v)'
<1>1. /\ UNCHANGED <<frame, dmar, pc, readIdx, parser, since>> /\ byte' = byte + 1
      /\ byte <= Len(Frames[frame])
  BY Zenon DEF Byte, taskVars
<1>2. Base' = Base /\ InUse' = InUse
  BY <1>1 DEF Base, InUse
<1>3. CASE ~dmar
  <2>1. UNCHANGED <<ring, pos>>
    BY <1>3, Zenon DEF Byte, ringVars
  <2>2. OnLine(w)'
    BY <1>1, <1>2, <1>3, <2>1, QuietStep
  <2> QED
    BY <2>2
<1>4. CASE dmar
  <2>1. ring' = [ring EXCEPT ![pos] = Frames[frame][byte]]
    BY <1>4, Zenon DEF Byte, Store
  <2>2. /\ pos \in Index /\ ring \in [Index -> {Read} \union 0 .. ByteMod - 1]
        /\ frame \in 1 .. Len(Frames) /\ byte \in Nat /\ Len(Frames[frame]) \in Nat
        /\ byte \in 1 .. Len(Frames[frame]) /\ InUse
    <3>1. /\ pos \in Index /\ ring \in [Index -> {Read} \union 0 .. ByteMod - 1]
          /\ frame \in 1 .. Len(Frames) /\ byte \in 1 .. Len(Frames[frame]) + 1
      BY Zenon DEF StreamInv, StreamType
    <3>2. Len(Frames[frame]) \in Nat
      BY <3>1, FrameSizes
    <3>3. byte \in Nat /\ byte \in 1 .. Len(Frames[frame])
      BY <1>1, <3>1, <3>2
    <3> QED
      BY <1>4, <3>1, <3>2, <3>3, Zenon DEF InUse
  <2> DEFINE u == Ahead(pos)
  <2>3. Ahead(pos)' = u + 1 /\ u + 1 \in Index /\ u \in Index
    BY <1>4, ByteAhead DEF StreamInv
  <2>4. w \in [Index -> Place] /\ w[u] = LinePlace /\ LinePlace = <<frame, byte>>
    BY <1>1, <1>4 DEF OnLine, LinePlace
  <2>5. LinePlace' = Forward(frame, byte)
    <3>1. byte + 1 <= Len(Frames[frame]) <=> byte < Len(Frames[frame])
      BY <2>2
    <3> QED
      BY <1>1, <3>1 DEF LinePlace, Forward
  <2>6. LinePlace' \in Place
    BY <2>2, <2>5, ForwardInPlace
  <2> PICK next \in Place : next = LinePlace'
    BY <2>6
  <2>7. PICK m \in Index : m = u
    BY <2>3
  <2> DEFINE v == [w EXCEPT ![m + 1] = next]
  <2>8. /\ v \in [Index -> Place] /\ v[m + 1] = next
        /\ \A n \in Index : n <= m => v[n] = w[n]
        /\ m + 1 \in Index
    <3>1. m + 1 \in Index /\ m \in Int
      BY <2>3, <2>7, Sizes DEF Index
    <3>2. \A n \in Index : n <= m => n # m + 1
      BY <3>1, Sizes DEF Index
    <3> QED
      BY <2>4, <3>1, <3>2
  <2> HIDE DEF u, v
  <2>9. \A a \in Index : Ahead(a)' = Ahead(a) /\ Ahead(a) \in Index
    <3>1. \A a \in Index : Ahead(a) \in 0 .. Ring - 1
      BY <2>2, Distances DEF StreamInv
    <3> QED
      BY <1>2, <3>1 DEF Ahead, Index
  <2>10. ASSUME NEW a \in Index, Ahead(a)' < Ahead(pos)'
         PROVE  ring'[a] = Frames[v[Ahead(a)'][1]][v[Ahead(a)'][2]]
    <3>1. Ahead(a) <= m /\ Ahead(a) \in Index /\ Ahead(a)' = Ahead(a)
      BY <2>3, <2>7, <2>9, <2>10, Sizes DEF Index
    <3>2. v[Ahead(a)] = w[Ahead(a)]
      BY <2>8, <3>1
    <3>3. CASE a = pos
      <4>1. Ahead(a) = m
        BY <2>7, <3>3 DEF u
      <4>2. w[Ahead(a)] = <<frame, byte>>
        BY <2>4, <2>7, <4>1
      <4>3. ring'[a] = Frames[frame][byte]
        BY <2>1, <2>2, <3>3
      <4> QED
        BY <3>1, <3>2, <4>2, <4>3
    <3>4. CASE a # pos
      <4>1. Ahead(a) # Ahead(pos) /\ StreamType
        BY <2>2, <3>4, Distances DEF StreamInv
      <4>2. Ahead(a) < Ahead(pos)
        BY <2>3, <2>7, <3>1, <4>1, Sizes DEF Index, u
      <4>3. ring'[a] = ring[a]
        BY <2>1, <2>2, <3>4
      <4>4. ring[a] = Frames[w[Ahead(a)][1]][w[Ahead(a)][2]]
        BY <2>2, <4>2 DEF OnLine
      <4> QED
        BY <3>1, <3>2, <4>3, <4>4
    <3> QED
      BY <3>3, <3>4
  <2>11. ASSUME NEW n \in Index, n < Ahead(pos)'
         PROVE  v[n + 1] = Forward(v[n][1], v[n][2])
    <3>1. CASE n = m
      <4>1. v[n] = <<frame, byte>>
        BY <2>4, <2>7, <2>8, <3>1, Sizes DEF Index
      <4> QED
        BY <2>5, <2>8, <3>1, <4>1
    <3>2. CASE n < m
      <4>1. n + 1 \in Index /\ n + 1 <= m /\ n <= m
        BY <3>2, Sizes DEF Index
      <4>2. w[n + 1] = Forward(w[n][1], w[n][2])
        BY <2>2, <2>7, <3>2 DEF OnLine, u
      <4> QED
        BY <2>8, <4>1, <4>2
    <3> QED
      BY <2>3, <2>7, <2>11, <3>1, <3>2, Sizes DEF Index
  <2>12. v[Ahead(pos)'] = LinePlace'
    BY <2>3, <2>7, <2>8
  <2>13. v[0] = w[0]
    BY <2>8, Sizes DEF Index
  <2>14. OnLine(v)'
    BY <1>1, <1>2, <2>8, <2>10, <2>11, <2>12, <2>13 DEF OnLine
  <2> QED
    BY <2>14
<1> QED
  BY <1>3, <1>4

\* Steps that leave the ring and the parser alone.
LEMMA InterruptsQuiet ==
    ASSUME StreamInv, NEW w, OnLine(w),
           TransferComplete \/ LineError \/ Noise \/ UNCHANGED streamVars
    PROVE  OnLine(w)'
<1>1. /\ UNCHANGED <<ring, pos, parser, since, pc, readIdx, frame, byte>>
      /\ dmar' = dmar \/ dmar' = FALSE
  <2>1. CASE TransferComplete
    BY <2>1, Zenon DEF TransferComplete, uartVars, taskVars, lineVars
  <2>2. CASE LineError
    BY <2>2, Zenon DEF LineError, taskVars
  <2>3. CASE Noise
    BY <2>3, Zenon DEF Noise, ringVars, taskVars
  <2>4. CASE UNCHANGED streamVars
    BY <2>4, Zenon DEF streamVars, uartVars, ringVars, taskVars, lineVars
  <2> QED
    BY <2>1, <2>2, <2>3, <2>4
<1>2. Base' = Base /\ LinePlace' = LinePlace /\ (InUse' => InUse)
  BY <1>1 DEF Base, LinePlace, InUse
<1>3. dmar' => dmar
  BY <1>1
<1> QED
  BY <1>1, <1>2, <1>3, QuietStep

\* Past its end a frame is as good as at the start of the next one.
LEMMA IdleQuiet ==
    ASSUME FramesWellFormed, StreamInv, NEW w, OnLine(w), Idle
    PROVE  OnLine(w)'
<1>1. /\ UNCHANGED <<ring, pos, parser, since, pc, readIdx, dmar>>
      /\ byte > Len(Frames[frame]) /\ byte' = 1 /\ frame' = (frame % Len(Frames)) + 1
  BY Zenon DEF Idle, uartVars, ringVars, taskVars
<1>2. /\ frame \in 1 .. Len(Frames) /\ byte \in 1 .. Len(Frames[frame]) + 1
      /\ Len(Frames) \in Nat /\ Len(Frames) > 0
  BY GpsAssumption DEF StreamInv, StreamType
<1>3. (frame % Len(Frames)) + 1 \in 1 .. Len(Frames)
  <2>1. frame % Len(Frames) = (IF frame = Len(Frames) THEN 0 ELSE frame)
    BY <1>2, ModOnce
  <2> QED
    BY <1>2, <2>1
<1>4. Len(Frames[frame]) \in Nat /\ 1 <= Len(Frames[(frame % Len(Frames)) + 1])
  BY <1>2, <1>3, FrameSizes
<1>5. LinePlace' = LinePlace
  <2>1. ~(byte <= Len(Frames[frame])) /\ byte' <= Len(Frames[frame'])
    BY <1>1, <1>2, <1>4
  <2> QED
    BY <1>1, <2>1 DEF LinePlace
<1>6. Base' = Base /\ InUse' = InUse
  BY <1>1 DEF Base, InUse
<1> QED
  BY <1>1, <1>5, <1>6, QuietStep

LEMMA TaskQuiet ==
    ASSUME StreamInv, NEW w, OnLine(w), UNCHANGED lineVars,
           EnableErrors \/ WaitReturns \/ Drained
    PROVE  OnLine(w)'
<1>1. /\ UNCHANGED <<ring, pos, parser, since, readIdx, dmar, frame, byte>>
      /\ \/ pc = "enable" /\ pc' = "request"
         \/ pc = "wait" /\ pc' = "check"
         \/ pc = "drain" /\ pc' = "wait"
  <2>1. UNCHANGED <<frame, byte>>
    BY Zenon DEF lineVars
  <2>2. CASE EnableErrors
    BY <2>1, <2>2, Zenon DEF EnableErrors, ringVars
  <2>3. CASE WaitReturns
    BY <2>1, <2>3, Zenon DEF WaitReturns, uartVars, ringVars
  <2>4. CASE Drained
    BY <2>1, <2>4, Zenon DEF Drained, uartVars, ringVars
  <2> QED
    BY <2>2, <2>3, <2>4
<1>2. Base' = Base /\ LinePlace' = LinePlace /\ InUse
  BY <1>1 DEF Base, LinePlace, InUse
<1> QED
  BY <1>1, <1>2, QuietStep

\* The task goes on to the drain, or to arm the reception; if it still runs then,
\* nothing of the ring has been read.
LEMMA CheckErrorQuiet ==
    ASSUME StreamInv, NEW w, OnLine(w), UNCHANGED lineVars, CheckError
    PROVE  OnLine(w)'
<1>1. /\ UNCHANGED <<ring, pos, parser, since, readIdx, dmar, frame, byte>> /\ pc = "check"
  BY Zenon DEF CheckError, ringVars, lineVars
<1>2. LinePlace' = LinePlace /\ InUse
  BY <1>1 DEF LinePlace, InUse
<1>3. CASE uartError /\ ~dmar
  <2>1. pc' = "arm" /\ ~InUse' /\ ~dmar'
    BY <1>1, <1>3 DEF CheckError, ErrorSeen, InUse
  <2>2. w \in [Index -> Place]
    BY DEF OnLine
  <2> QED
    BY <2>1, <2>2 DEF OnLine
<1>4. CASE ~(uartError /\ ~dmar)
  <2>1. Base' = Base
    <3>1. CASE uartError
      <4>1. pc' = "arm" /\ readIdx = 0
        BY <1>1, <1>4, <3>1 DEF CheckError, ErrorSeen, StreamInv, ErrorPlace
      <4> QED
        BY <1>1, <4>1 DEF Base
    <3>2. CASE ~uartError
      <4>1. pc' = "drain"
        BY <3>2 DEF CheckError, ErrorSeen
      <4> QED
        BY <1>1, <4>1 DEF Base
    <3> QED
      BY <3>1, <3>2
  <2> QED
    BY <1>1, <1>2, <2>1, QuietStep
<1> QED
  BY <1>3, <1>4

\* The ring starts again, empty.
LEMMA ArmOnLine ==
    ASSUME StreamInv, NEW w, OnLine(w), UNCHANGED lineVars, Arm
    PROVE  OnLine(w)'
<1>1. /\ UNCHANGED <<frame, byte, dmar, readIdx, parser, since>> /\ pc = "arm"
  BY Zenon DEF Arm, lineVars
<1>2. CASE rxState = "busy"
  <2>1. pc' = "reset" /\ UNCHANGED <<pos, ring>>
    BY <1>2, Zenon DEF Arm
  <2>2. dmar
    BY <1>1, <1>2 DEF StreamInv, Wiring
  <2>3. Base' = Base /\ LinePlace' = LinePlace /\ InUse
    BY <1>1, <2>1, <2>2 DEF Base, LinePlace, InUse
  <2> QED
    BY <1>1, <2>1, <2>3, QuietStep
<1>3. CASE rxState # "busy"
  <2>1. dma # "busy" /\ ~dmar
    BY <1>3 DEF StreamInv, Wiring
  <2>2. pos' = 0 /\ pc' = "enable"
    BY <1>3, <2>1, Zenon DEF Arm
  <2>3. ~dmar'
    BY <1>1, <2>1
  <2>4. Base' = 0
    BY <2>2 DEF Base
  <2>5. Ahead(pos)' = 0 /\ \A a \in Index : Ahead(a)' = a
    BY <2>2, <2>4, Sizes DEF Ahead, Distance, Index
  <2>6. \A a \in Index : ~(a < 0)
    BY Sizes DEF Index
  <2>7. w \in [Index -> Place]
    BY DEF OnLine
  <2>8. /\ \A a \in Index : ~(Ahead(a)' < Ahead(pos)')
        /\ \A n \in Index : ~(n < Ahead(pos)')
    BY <2>5, <2>6
  <2> QED
    BY <2>2, <2>3, <2>7, <2>8 DEF OnLine
<1> QED
  BY <1>2, <1>3

\* The first byte that the DMA will store is the next one of the line.
LEMMA EnableRequestsOnLine ==
    ASSUME FramesWellFormed, StreamInv, NEW w, OnLine(w), UNCHANGED lineVars, EnableRequests
    PROVE  \E v : OnLine(v)'
<1>1. /\ UNCHANGED <<frame, byte, pos, ring>> /\ pc = "request" /\ pc' = "reset"
  BY Zenon DEF EnableRequests, lineVars, ringVars
<1>2. pos' = 0 /\ Base' = 0 /\ LinePlace' = LinePlace
  BY <1>1 DEF StreamInv, Wiring, Base, LinePlace
<1>3. Ahead(pos)' = 0 /\ \A a \in Index : Ahead(a)' = a
  BY <1>2, Sizes DEF Ahead, Distance, Index
<1>4. 0 \in Index /\ \A a \in Index : ~(a < 0)
  BY Sizes DEF Index
<1>5. PICK next \in Place : next = LinePlace
  BY LinePlaceIsAPlace DEF StreamInv
<1> DEFINE v == [w EXCEPT ![0] = next]
<1>6. v \in [Index -> Place] /\ v[0] = LinePlace'
  <2>1. w \in [Index -> Place]
    BY DEF OnLine
  <2> QED
    BY <1>2, <1>4, <1>5, <2>1
<1> HIDE DEF v
<1>7. /\ \A a \in Index : ~(Ahead(a)' < Ahead(pos)')
      /\ \A n \in Index : ~(n < Ahead(pos)')
  BY <1>3, <1>4
<1>8. OnLine(v)'
  BY <1>1, <1>3, <1>6, <1>7 DEF OnLine
<1> QED
  BY <1>8

\* The task waits for what the line sends from here on, whatever the parser is at.
LEMMA ResetReadIdxOnLine ==
    ASSUME FramesWellFormed, StreamInv, Counted, NEW w, OnLine(w), UNCHANGED lineVars,
           ResetReadIdx
    PROVE  OnLine(w)'
<1>1. /\ UNCHANGED <<frame, byte, dmar, pos, ring, parser>> /\ pc = "reset" /\ pc' = "wait"
      /\ readIdx' = 0 /\ since' = 0
  BY Zenon DEF ResetReadIdx, ReadIdxAfterArm, lineVars, uartVars, ringVars
<1>2. Base' = Base /\ LinePlace' = LinePlace /\ InUse
  BY <1>1 DEF Base, LinePlace, InUse
<1>3. Ahead(pos)' = Ahead(pos) /\ \A a \in Index : Ahead(a)' = Ahead(a)
  BY <1>1, <1>2 DEF Ahead
<1>4. Parsing(parser, 0, w[0][1], w[0][2])
  <2>1. 0 \in Index /\ w \in [Index -> Place]
    BY Sizes DEF Index, OnLine
  <2>2. w[0][1] \in 1 .. Len(Frames) /\ w[0][2] \in 1 .. Len(Frames[w[0][1]])
    BY <2>1 DEF Place
  <2> QED
    BY <2>2, ParsingFromAnywhere DEF Counted
<1> QED
  BY <1>1, <1>2, <1>3, <1>4 DEF OnLine

\* A turn of the drain reads the first of the bytes, and those behind it move up.
LEMMA TurnAhead ==
    ASSUME StreamInv, Drain
    PROVE  /\ Ahead(readIdx) = 0 /\ Ahead(readIdx) < Ahead(pos)
           /\ Ahead(pos)' = Ahead(pos) - 1
           /\ Distance(readIdx', readIdx) = Ring - 1
           /\ \A a \in Index : a # readIdx =>
                 Distance(readIdx', a) = Ahead(a) - 1 /\ Ahead(a) > 0
           /\ \A a \in Index : Ahead(a)' = Distance(readIdx', a)
<1>1. /\ pc = "drain" /\ pc' = "drain" /\ readIdx # writeIdx
      /\ readIdx' = (readIdx + 1) % Ring /\ pos' = pos
  BY Zenon DEF Drain
<1>2. /\ readIdx \in Index /\ pos \in Index /\ DOMAIN ring = Index
      /\ readIdx' = (IF readIdx + 1 = Ring THEN 0 ELSE readIdx + 1)
  BY <1>1, Slots, Sizes DEF StreamInv, StreamType, Index
<1>3. Base = readIdx /\ Base' = readIdx'
  BY <1>1 DEF Base
<1>4. \A a \in Index : Ahead(a) = Distance(readIdx, a) /\ Ahead(a)' = Distance(readIdx', a)
  BY <1>3 DEF Ahead
<1>5. \A a \in Index : a # readIdx =>
          Distance(readIdx, a) > 0 /\ Distance(readIdx', a) = Distance(readIdx, a) - 1
  BY <1>2, NextSlot, Zenon
<1>6. Distance(readIdx, readIdx) = 0 /\ Distance(readIdx', readIdx) = Ring - 1
  BY <1>2, NextSlot, Zenon
<1>7. Ahead(readIdx) < Ahead(pos)
  <2>1. readIdx \in Unread
    BY <1>1, StreamInvImplies DEF InStep
  <2> QED
    BY <1>1, <1>2, <2>1 DEF Unread, StreamInv, RingOK
<1>8. pos # readIdx
  BY <1>2, <1>4, <1>6, <1>7
<1>9. Ahead(pos)' = Distance(readIdx', pos)
  BY <1>1, <1>3 DEF Ahead
<1> QED
  BY <1>2, <1>4, <1>5, <1>6, <1>7, <1>8, <1>9

LEMMA DrainOnLine ==
    ASSUME FramesWellFormed, StreamInv, Counted, NEW w, OnLine(w), UNCHANGED lineVars, Drain
    PROVE  Counted' /\ \E v : OnLine(v)'
<1>1. /\ UNCHANGED <<frame, byte, dmar, pos, pc>> /\ pc = "drain"
      /\ ring' = [ring EXCEPT ![readIdx] = Read]
      /\ parser' = Feed(parser, ring[readIdx])
      /\ since' = IF Returns(parser, ring[readIdx]) THEN 0 ELSE since + 1
  BY Zenon DEF Drain, lineVars, uartVars
<1>2. /\ readIdx \in Index /\ ring \in [Index -> {Read} \union 0 .. ByteMod - 1]
      /\ w \in [Index -> Place] /\ InUse
  BY <1>1 DEF StreamInv, StreamType, OnLine, InUse
<1>3. /\ Ahead(pos) \in Index /\ Ahead(pos) > 0 /\ Ahead(pos)' = Ahead(pos) - 1
      /\ Ahead(pos)' \in Index /\ Ahead(pos)' < Ring - 1
      /\ 0 \in Index /\ 0 < Ring - 1
  <2>1. Ahead(pos) \in 0 .. Ring - 1 /\ Ahead(pos) > 0
    BY TurnAhead, Distances DEF StreamInv, StreamType
  <2> QED
    BY <2>1, TurnAhead, Sizes DEF Index
<1> DEFINE i == w[0][1]
           b == w[0][2]
<1>4. i \in 1 .. Len(Frames) /\ b \in 1 .. Len(Frames[i])
  <2>1. w[0] \in Place
    BY <1>2, <1>3
  <2> QED
    BY <2>1 DEF Place
<1> HIDE DEF i, b
<1>5. ring[readIdx] = Frames[i][b] /\ Parsing(parser, since, i, b)
  <2>1. ring[readIdx] = Frames[w[0][1]][w[0][2]]
    BY <1>2, TurnAhead DEF OnLine
  <2>2. Parsing(parser, since, w[0][1], w[0][2])
    BY <1>1 DEF OnLine
  <2> QED
    BY <2>1, <2>2 DEF i, b
<1>6. /\ Parsing(parser', since', Forward(i, b)[1], Forward(i, b)[2])
      /\ since' \in 0 .. MaxResync
  <2>1. since \in Nat /\ ParserOK(parser)
    BY FrameSizes DEF Counted
  <2> QED
    BY <1>1, <1>4, <1>5, <2>1, ParsingStep
<1>7. Counted'
  <2>1. Frames[i][b] \in Bytes
    BY <1>4, FrameSizes
  <2>2. ParserOK(parser')
    BY <1>1, <1>5, <2>1, FeedOK DEF Counted
  <2> QED
    BY <1>6, <2>2 DEF Counted
<1> DEFINE v == [n \in Index |-> IF n < Ring - 1 THEN w[n + 1] ELSE w[n]]
<1>8. v \in [Index -> Place] /\ \A n \in Index : n < Ring - 1 => v[n] = w[n + 1] /\ n + 1 \in Index
  <2>1. \A n \in Index : n < Ring - 1 => n + 1 \in Index
    BY Sizes DEF Index
  <2> QED
    BY <1>2, <2>1
<1> HIDE DEF v
<1>9. v[0] = Forward(i, b)
  <2>1. w[0 + 1] = Forward(w[0][1], w[0][2])
    BY <1>2, <1>3 DEF OnLine
  <2> QED
    BY <1>3, <1>8, <2>1 DEF i, b
<1>10. ASSUME NEW a \in Index, Ahead(a)' < Ahead(pos)'
       PROVE  ring'[a] = Frames[v[Ahead(a)'][1]][v[Ahead(a)'][2]]
  <2>1. a # readIdx
    BY <1>3, <1>10, TurnAhead, Sizes DEF Index
  <2>2. Ahead(a)' = Ahead(a) - 1 /\ Ahead(a) > 0 /\ Ahead(a) \in Index
    BY <2>1, TurnAhead, Distances DEF StreamInv, Index
  <2>3. Ahead(a) < Ahead(pos) /\ Ahead(a)' \in Index /\ Ahead(a)' < Ring - 1
        /\ Ahead(a)' + 1 = Ahead(a)
    BY <1>3, <1>10, <2>2, Sizes DEF Index
  <2>4. v[Ahead(a)'] = w[Ahead(a)]
    BY <1>8, <2>3
  <2>5. ring'[a] = ring[a]
    BY <1>1, <1>2, <2>1
  <2>6. ring[a] = Frames[w[Ahead(a)][1]][w[Ahead(a)][2]]
    BY <1>2, <2>3 DEF OnLine
  <2> QED
    BY <2>4, <2>5, <2>6
<1>11. ASSUME NEW n \in Index, n < Ahead(pos)'
       PROVE  v[n + 1] = Forward(v[n][1], v[n][2])
  <2>1. n < Ring - 1 /\ n + 1 \in Index /\ n + 1 < Ring - 1 /\ n + 1 < Ahead(pos)
    BY <1>3, <1>11, Sizes DEF Index
  <2>2. w[(n + 1) + 1] = Forward(w[n + 1][1], w[n + 1][2])
    BY <1>2, <2>1 DEF OnLine
  <2> QED
    BY <1>8, <2>1, <2>2
<1>12. dmar' => v[Ahead(pos)'] = LinePlace'
  <2>1. Ahead(pos)' + 1 = Ahead(pos)
    BY <1>3, Sizes DEF Index
  <2>2. v[Ahead(pos)'] = w[Ahead(pos)]
    BY <1>3, <1>8, <2>1
  <2>3. LinePlace' = LinePlace
    BY <1>1 DEF LinePlace
  <2> QED
    BY <1>1, <2>2, <2>3 DEF OnLine
<1>13. OnLine(v)'
  <2>1. Parsing(parser', since', v[0][1], v[0][2])
    BY <1>6, <1>9
  <2> QED
    BY <1>8, <1>10, <1>11, <1>12, <2>1 DEF OnLine
<1> QED
  BY <1>7, <1>13

LEMMA ResyncInit ==
    ASSUME FramesWellFormed, Init
    PROVE  ResyncInv
<1>1. StreamInv
  BY StreamInvInit
<1>2. pc = "arm" /\ ~dmar /\ parser = ParserInit /\ since = 0
  BY Zenon DEF Init
<1>3. Counted
  <2>1. ParserOK(ParserInit)
    BY ByteSizes DEF ParserOK, ParserInit, ParserStates
  <2> QED
    BY <1>2, <2>1, FrameSizes DEF Counted
<1> DEFINE w == [n \in Index |-> <<1, 1>>]
<1>4. w \in [Index -> Place]
  <2>1. 1 \in 1 .. Len(Frames)
    BY GpsAssumption
  <2>2. 1 \in 1 .. Len(Frames[1])
    BY <2>1, FrameSizes
  <2> QED
    BY <2>1, <2>2 DEF Place
<1> HIDE DEF w
<1>5. OnLine(w)
  BY <1>2, <1>4 DEF OnLine, InUse
<1> QED
  BY <1>1, <1>3, <1>5 DEF ResyncInv

LEMMA ResyncStep ==
    ASSUME OrderlyLine, FramesWellFormed, ResyncInv, [Next]_vars
    PROVE  ResyncInv'
<1>1. StreamInv /\ Counted /\ StreamInv'
  BY StreamInvStep DEF ResyncInv
<1>2. PICK w : OnLine(w)
  BY DEF ResyncInv
<1>3. MaxResync \in Nat
  BY FrameSizes
<1> SUFFICES Counted' /\ \E v : OnLine(v)'
  BY <1>1 DEF ResyncInv
<1>4. UNCHANGED <<parser, since>> => Counted'
  BY <1>1 DEF Counted
<1>5. CASE StreamStep
  <2>1. UNCHANGED lineVars
    BY <1>5, Zenon DEF StreamStep
  <2>2. CASE Arm \/ CheckError
    <3>1. UNCHANGED <<parser, since>>
      BY <2>2, Zenon DEF Arm, CheckError
    <3>2. OnLine(w)'
      BY <1>1, <1>2, <2>1, <2>2, ArmOnLine, CheckErrorQuiet
    <3> QED
      BY <1>4, <3>1, <3>2
  <2>3. CASE EnableErrors \/ WaitReturns \/ Drained
    <3>1. UNCHANGED <<parser, since>>
      BY <2>3, Zenon DEF EnableErrors, WaitReturns, Drained
    <3>2. OnLine(w)'
      BY <1>1, <1>2, <2>1, <2>3, TaskQuiet
    <3> QED
      BY <1>4, <3>1, <3>2
  <2>4. CASE EnableRequests
    <3>1. UNCHANGED <<parser, since>>
      BY <2>4, Zenon DEF EnableRequests
    <3>2. \E v : OnLine(v)'
      BY <1>1, <1>2, <2>1, <2>4, EnableRequestsOnLine
    <3> QED
      BY <1>4, <3>1, <3>2
  <2>5. CASE ResetReadIdx
    <3>1. parser' = parser /\ since' = 0
      BY <2>5, Zenon DEF ResetReadIdx
    <3>2. Counted'
      BY <1>1, <1>3, <3>1 DEF Counted
    <3>3. OnLine(w)'
      BY <1>1, <1>2, <2>1, <2>5, ResetReadIdxOnLine
    <3> QED
      BY <3>2, <3>3
  <2>6. CASE Drain
    BY <1>1, <1>2, <2>1, <2>6, DrainOnLine
  <2> QED
    BY <1>5, <2>2, <2>3, <2>4, <2>5, <2>6, Zenon DEF StreamStep
<1>6. CASE TransferComplete \/ LineError \/ Noise \/ UNCHANGED streamVars
  <2>1. UNCHANGED <<parser, since>>
    BY <1>6, Zenon DEF TransferComplete, LineError, Noise, streamVars, taskVars
  <2>2. OnLine(w)'
    BY <1>1, <1>2, <1>6, InterruptsQuiet
  <2> QED
    BY <1>4, <2>1, <2>2
<1>7. CASE Idle
  <2>1. UNCHANGED <<parser, since>>
    BY <1>7, Zenon DEF Idle, taskVars
  <2>2. OnLine(w)'
    BY <1>1, <1>2, <1>7, IdleQuiet
  <2> QED
    BY <1>4, <2>1, <2>2
<1>8. CASE Byte
  <2>1. UNCHANGED <<parser, since>>
    BY <1>8, Zenon DEF Byte, taskVars
  <2>2. \E v : OnLine(v)'
    BY <1>1, <1>2, <1>8, ByteOnLine
  <2> QED
    BY <1>4, <2>1, <2>2
<1> QED
  BY <1>5, <1>6, <1>7, <1>8, Zenon DEF Next, ProcessorStep, vars

\* The parser finds a frame again within MaxResync bytes, from any state it may be
\* in and wherever an error cut the stream, on an orderly line, for any frames of
\* ubx_frame_build of which two fit the ring and none has a pair of sync bytes
\* inside: a length field of junk costs at most its longest payload, and then at
\* most the rest of one frame and the next one.
THEOREM ResyncWithin ==
    ASSUME OrderlyLine, FramesWellFormed
    PROVE  Spec => []ResyncBounded
<1>1. Init => ResyncInv
  BY ResyncInit
<1>2. ResyncInv /\ [Next]_vars => ResyncInv'
  BY ResyncStep
<1>3. ResyncInv => ResyncBounded
  BY FrameSizes DEF ResyncInv, Counted, ResyncBounded
<1> QED
  BY <1>1, <1>2, <1>3, PTL DEF Spec

-----------------------------------------------------------------------------
(* The time of week: arithmetic of the map.                                *)

\* The sizes, as plain inequalities.
LEMMA TimeSizes ==
    /\ Second \in Nat /\ Week \in Nat /\ TickMod \in Nat /\ MaxGap \in Nat /\ MaxAge \in Nat
    /\ MaxDelay \in Nat
    /\ 0 < Second /\ Second <= MaxGap /\ MaxGap < MaxAge /\ 2 * MaxDelay <= Second
    /\ 2 * MaxAge <= Week /\ 2 * MaxAge <= TickMod
    /\ \E h \in Nat : Second = 2 * h /\ Second \div 2 = h
    /\ \E w \in Nat : Week = Second * w
    /\ \E h \in Nat : Week = 2 * h /\ Week \div 2 = h
<1>1. /\ Second \in Nat /\ Week \in Nat /\ TickMod \in Nat /\ MaxGap \in Nat /\ MaxAge \in Nat
      /\ MaxDelay \in Nat /\ 0 < Second /\ 0 < Week
  BY TimeAssumption
<1>2. Second % 2 = 0 /\ Week % Second = 0
  BY TimeAssumption
<1>3. Second = 2 * (Second \div 2) /\ Second \div 2 \in Nat
  BY <1>1, <1>2
<1>4. Week = Second * (Week \div Second) /\ Week \div Second \in Nat
  BY <1>1, <1>2
<1>5. Week = 2 * ((Second \div 2) * (Week \div Second))
  BY <1>3, <1>4
<1>6. (Second \div 2) * (Week \div Second) \in Nat
  BY <1>3, <1>4
<1>7. \A h \in Nat : (2 * h) \div 2 = h
  OBVIOUS
<1>8. Week \div 2 = (Second \div 2) * (Week \div Second)
  BY <1>5, <1>6, <1>7
<1> QED
  BY <1>1, <1>3, <1>4, <1>5, <1>6, <1>8, TimeAssumption

\* A remainder, up to once the modulus away.
LEMMA Around ==
    ASSUME NEW m \in Nat, NEW x \in Int, -m <= x, x < 2 * m, m > 0
    PROVE  /\ x % m \in 0 .. m - 1
           /\ x % m = IF x < 0 THEN x + m ELSE IF x < m THEN x ELSE x - m
  BY ModOnce

\* What is a multiple of the modulus more has the same remainder.
LEMMA SameRemainder ==
    ASSUME NEW m \in Nat, m > 0, NEW x \in Int, NEW k \in {-1, 0, 1}
    PROVE  (x + m * k) % m = x % m
<1> DEFINE q == x \div m
           r == x % m
<1>1. q \in Int /\ r \in 0 .. m - 1 /\ x = m * q + r
  BY SMTT(30)
<1> HIDE DEF q, r
<1>2. x + m * k = m * (q + k) + r
  BY <1>1
<1>3. (m * (q + k) + r) % m = r
  BY <1>1, RemainderIs
<1> QED
  BY <1>2, <1>3 DEF r

\* The rates, as plain inequalities.
LEMMA RateSizes ==
    /\ Rate \in Nat /\ 0 < Rate /\ NominalRate \in Nat /\ 0 < NominalRate
    /\ MaxAge * Rate \in Nat /\ 2 * (MaxAge * Rate) <= TickMod
    /\ Rate <= 2 * NominalRate /\ NominalRate <= 2 * Rate
<1>1. Rate \in Nat /\ 0 < Rate /\ NominalRate \in Nat /\ 0 < NominalRate /\ MaxAge \in Nat
  BY TimeAssumption
<1>2. MaxAge * Rate \in Nat
  BY <1>1
<1> QED
  BY <1>1, <1>2, TimeAssumption

\* A product grows with its factors.
LEMMA Scaled ==
    ASSUME NEW x \in Int, NEW y \in Int, NEW k \in Nat, x <= y
    PROVE  x * k <= y * k
  BY SMTT(30)

\* The ticks of an age that is told apart are less than half of the range.
LEMMA AgeInTicks ==
    ASSUME NEW a \in 0 .. MaxAge, a < MaxAge
    PROVE  a * Rate \in Nat /\ (a + 1) * Rate = a * Rate + Rate
           /\ 2 * (a * Rate + Rate) <= TickMod
<1>1. a \in Int /\ a + 1 \in Int /\ MaxAge \in Int /\ a + 1 <= MaxAge /\ a \in Nat
  BY TimeSizes
<1>2. a * Rate \in Nat /\ (a + 1) * Rate = a * Rate + Rate
  BY <1>1, RateSizes
<1>3. (a + 1) * Rate <= MaxAge * Rate
  BY <1>1, RateSizes, Scaled
<1> QED
  BY <1>2, <1>3, RateSizes, TimeSizes

\* s of time later, ages and what is that long ago have moved together.
LEMMA UnitLater ==
    ASSUME NEW m \in Nat, NEW n \in 0 .. m - 1, NEW a \in Nat, NEW s \in Nat, a + s < m
    PROVE  (((n + s) % m) - (a + s)) % m = (n - a) % m
<1>1. (n + s) % m = IF n + s < m THEN n + s ELSE n + s - m
  BY Around
<1>2. (n - a) % m = IF n - a < 0 THEN n - a + m ELSE n - a
  BY Around
<1>3. CASE n + s < m
  BY <1>1, <1>3
<1>4. CASE n + s >= m
  <2>1. ((n + s) % m) - (a + s) = n - a - m /\ -m < n - a - m /\ n - a - m < 0
    BY <1>1, <1>4
  <2>2. (n - a - m) % m = n - a
    BY <2>1, Around
  <2> QED
    BY <2>1, <2>2, <1>2
<1> QED
  BY <1>3, <1>4

\* And a message is under way for that much longer.
LEMMA AgeLater ==
    ASSUME NEW n \in Itow, NEW t \in Itow, (n - t) % Week <= MaxDelay
    PROVE  (((n + 1) % Week) - t) % Week = ((n - t) % Week) + 1
<1>1. (n + 1) % Week = IF n + 1 < Week THEN n + 1 ELSE 0
  BY Around, TimeSizes DEF Itow
<1>2. (n - t) % Week = IF n - t < 0 THEN n - t + Week ELSE n - t
  BY Around, TimeSizes DEF Itow
<1>3. CASE n + 1 < Week
  <2>1. (n + 1 - t) % Week = IF n + 1 - t < 0 THEN n + 1 - t + Week
                             ELSE IF n + 1 - t < Week THEN n + 1 - t ELSE n + 1 - t - Week
    BY Around, TimeSizes DEF Itow
  <2>2. (n + 1) % Week = n + 1
    BY <1>1, <1>3
  <2> QED
    BY <2>1, <2>2, <1>2, TimeSizes DEF Itow
<1>4. CASE n + 1 >= Week
  <2>1. (0 - t) % Week = IF 0 - t < 0 THEN 0 - t + Week ELSE 0 - t
    BY Around, TimeSizes DEF Itow
  <2>2. n = Week - 1 /\ (n + 1) % Week = 0
    BY <1>1, <1>4, TimeSizes DEF Itow
  <2> QED
    BY <2>1, <2>2, <1>2, TimeSizes DEF Itow
<1> QED
  BY <1>3, <1>4, TimeSizes DEF Itow

\* A number without a remainder.
LEMMA Divided ==
    ASSUME NEW m \in Nat, m > 0, NEW x \in Int, x % m = 0
    PROVE  x = m * (x \div m) /\ x \div m \in Int
<1>1. x = m * (x \div m) + (x % m) /\ x \div m \in Int
  BY SMTT(30)
<1> QED
  BY <1>1

\* Multiples of a second.
AtSecond(t) == \E q \in Int : t = Second * q

LEMMA SecondsApart ==
    ASSUME NEW t \in Int, AtSecond(t)
    PROVE  AtSecond(t + Week) /\ AtSecond(t - Week)
<1>1. PICK q \in Int : t = Second * q
  BY DEF AtSecond
<1>2. PICK w \in Nat : Week = Second * w
  BY TimeSizes
<1>3. t + Week = Second * (q + w) /\ t - Week = Second * (q - w)
  BY <1>1, <1>2, TimeSizes
<1> QED
  BY <1>3 DEF AtSecond

\* round_to_second gives a second of the week, or the end of it.
LEMMA RoundedIsASecond ==
    ASSUME NEW t \in Itow
    PROVE  RoundToSecond(t) \in Seconds
<1> DEFINE h == Second \div 2
           q == (t + h) \div Second
<1>1. h \in Nat /\ Second = 2 * h /\ t \in Nat /\ Second \in Nat /\ 0 < Second
  BY TimeSizes DEF Itow
<1>2. q \in Nat /\ Second * q <= t + h
  <2>1. t + h \in Nat
    BY <1>1
  <2> HIDE DEF h
  <2> QED
    BY <1>1, <2>1, SMTT(30)
<1>3. PICK w \in Nat : Week = Second * w
  BY TimeSizes
<1>4. q <= w
  <2> SUFFICES ASSUME q >= w + 1 PROVE FALSE
    BY <1>2, <1>3
  <2> HIDE DEF q, h
  <2>1. Second * q >= Second * (w + 1)
    BY <1>1, <1>2, <1>3, SMTT(30)
  <2>2. Second * q >= Week + Second
    BY <2>1, <1>1, <1>2, <1>3
  <2>3. t < Week
    BY TimeSizes DEF Itow
  <2> QED
    BY <1>1, <1>2, <2>2, <2>3, TimeSizes
<1> HIDE DEF q
<1>5. q * Second \in 0 .. Week
  BY <1>1, <1>2, <1>3, <1>4, SMTT(30)
<1>6. (q * Second) % Second = 0
  <2>1. q * Second = Second * q + 0 /\ 0 \in 0 .. Second - 1 /\ q \in Int
    BY <1>1, <1>2
  <2>2. (Second * q + 0) % Second = 0
    BY <1>1, <2>1, RemainderIs
  <2> QED
    BY <2>1, <2>2
<1> QED
  BY <1>5, <1>6 DEF RoundToSecond, Seconds, q

\* The message of an edge, by no more than half a second later or less than half
\* a second earlier, is rounded to the second of the edge.
LEMMA RoundedToTheEdge ==
    ASSUME NEW t \in Nat, NEW edge \in Int, AtSecond(edge),
           -Second <= 2 * (t - edge), 2 * (t - edge) < Second
    PROVE  RoundToSecond(t) = edge
<1> DEFINE h == Second \div 2
           r == t - edge + h
<1>1. h \in Nat /\ Second = 2 * h /\ Second \in Nat /\ 0 < Second
  BY TimeSizes
<1> HIDE DEF h
<1>2. r \in 0 .. Second - 1
  BY <1>1
<1>3. PICK q \in Int : edge = Second * q
  BY DEF AtSecond
<1>4. t + h = Second * q + r
  BY <1>1, <1>3
<1>5. r \in Int
  BY <1>2, <1>1
<1> HIDE DEF r
<1>6. (Second * q + r) \div Second = q
  <2> DEFINE x == Second * q + r
             d == x \div Second
             m == x % Second
  <2>1. m = r
    BY <1>1, <1>2, <1>3, RemainderIs
  <2>2. x \in Int
    BY <1>1, <1>3, <1>5
  <2> HIDE DEF x
  <2>3. d \in Int /\ x = Second * d + m
    BY <1>1, <2>2, SMTT(30)
  <2> HIDE DEF d, m
  <2>4. Second * d = Second * q
    BY <2>1, <2>3, <1>1, <1>2, <1>3, <1>5 DEF x
  <2>5. d = q
    BY <2>4, <2>3, <1>1, <1>3, SMTT(30)
  <2> QED
    BY <2>5 DEF d, x
<1> QED
  BY <1>3, <1>4, <1>6, <1>1 DEF RoundToSecond, h

\* A difference of two ticks, cast to 32 bits, is that of their ages.
LEMMA TicksApart ==
    ASSUME NEW c \in Clock, NEW a \in Clock, NEW b \in Clock,
           2 * (b - a) < TickMod, 2 * (a - b) <= TickMod
    PROVE  Signed(((c - a) % TickMod) - ((c - b) % TickMod)) = b - a
<1> DEFINE x == (c - a) % TickMod
           y == (c - b) % TickMod
           d == x - y
<1>1. /\ x \in Int /\ y \in Int /\ a \in 0 .. TickMod - 1 /\ b \in 0 .. TickMod - 1
      /\ x \in 0 .. TickMod - 1 /\ y \in 0 .. TickMod - 1
      /\ x = IF c - a < 0 THEN c - a + TickMod ELSE c - a
      /\ y = IF c - b < 0 THEN c - b + TickMod ELSE c - b
  BY TimeSizes, Around DEF Clock
<1> HIDE DEF x, y
<1>2. d \in {b - a - TickMod, b - a, b - a + TickMod}
  BY <1>1, TimeSizes DEF Clock
<1>3. d \in Int /\ d \in -TickMod .. TickMod - 1
  BY <1>1, TimeSizes
<1> HIDE DEF d
<1>4. d % TickMod = IF d < 0 THEN d + TickMod ELSE d
  BY <1>3, TimeSizes, Around
<1>5. Signed(d) = b - a
  BY <1>1, <1>2, <1>3, <1>4, TimeSizes DEF Signed
<1> QED
  BY <1>5 DEF d, x, y

\* A time of week that is that of a moment ago, the end of the week for its
\* beginning, is one of two numbers.
LEMMA ItowAgo ==
    ASSUME NEW n \in Itow, NEW a \in 0 .. MaxAge, NEW x \in 0 .. Week,
           x % Week = (n - a) % Week
    PROVE  x \in {n - a, n - a + Week}
<1>1. (n - a) % Week = IF n - a < 0 THEN n - a + Week ELSE n - a
  BY TimeSizes, Around DEF Itow
<1>2. x % Week = IF x < Week THEN x ELSE 0
  BY TimeSizes, Around
<1> QED
  BY <1>1, <1>2, TimeSizes DEF Itow

\* itow_diff_ms of two such times is the difference of the ages.
LEMMA ItowsApart ==
    ASSUME NEW n \in Itow, NEW a \in 0 .. MaxAge, NEW b \in 0 .. MaxAge,
           NEW x \in 0 .. Week, NEW y \in 0 .. Week,
           x % Week = (n - a) % Week, y % Week = (n - b) % Week,
           2 * (b - a) < Week, 2 * (a - b) < Week
    PROVE  ItowDiff(x, y) = b - a
<1>1. x \in {n - a, n - a + Week} /\ y \in {n - b, n - b + Week}
  BY ItowAgo
<1>2. x - y \in {b - a - Week, b - a, b - a + Week} /\ x - y \in Int
  BY <1>1, TimeSizes DEF Itow
<1>3. PICK h \in Nat : Week = 2 * h /\ Week \div 2 = h
  BY TimeSizes
<1> QED
  BY <1>2, <1>3, TimeSizes DEF ItowDiff

\* The division of a product by one of its factors.
LEMMA QuotientOfProduct ==
    ASSUME NEW s \in Int, NEW k \in Nat, k > 0
    PROVE  Quotient(s * k, k) = s
<1>0. ASSUME NEW u \in Nat PROVE (k * u) \div k = u
  <2> DEFINE x == k * u
             d == x \div k
             m == x % k
  <2>1. x = k * u + 0 /\ x \in Nat
    OBVIOUS
  <2>2. m = 0
    BY <2>1, RemainderIs
  <2> HIDE DEF x
  <2>3. d \in Int /\ x = k * d + m
    BY <2>1, SMTT(30)
  <2> HIDE DEF d, m
  <2>4. k * d = k * u
    BY <2>1, <2>2, <2>3
  <2>5. d = u
    BY <2>3, <2>4, SMTT(30)
  <2> QED
    BY <2>5 DEF d, x
<1>1. CASE s < 0
  <2>1. s * k < 0 /\ -(s * k) = k * (-s) /\ -s \in Nat
    BY <1>1, SMTT(30)
  <2>2. (k * (-s)) \div k = -s
    BY <2>1, <1>0
  <2>3. Quotient(s * k, k) = -((k * (-s)) \div k)
    BY <2>1 DEF Quotient
  <2> QED
    BY <2>2, <2>3
<1>2. CASE s >= 0
  <2>1. s * k >= 0 /\ s * k = k * s /\ s \in Nat
    BY <1>2, SMTT(30)
  <2>2. Quotient(s * k, k) = (k * s) \div k
    BY <2>1 DEF Quotient
  <2> QED
    BY <2>1, <2>2, <1>0
<1> QED
  BY <1>1, <1>2

-----------------------------------------------------------------------------
(* The time of week: types and the pairing of edges with messages.         *)

\* gps_task is at a message.
Handling == task \in {"clear", "write"} => stream # <<>>

LEMMA TimeTypeInit == TimeInit => TimeTypeOK /\ Handling
<1> SUFFICES ASSUME TimeInit PROVE TimeTypeOK /\ Handling
  OBVIOUS
<1>1. now \in Itow
  BY TimeAssumption DEF TimeInit, Itow
<1>2. 0 \in Clock /\ MaxAge \in Age /\ 0 \in 0 .. MaxGap
  BY TimeSizes DEF Clock, Age
<1>3. NoObservation \in Observation
  <2>1. 0 \in Seconds
    BY TimeSizes, ModOnce DEF Seconds
  <2> QED
    BY <1>2, <2>1 DEF NoObservation, Observation
<1>4. <<>> \in Seq(Message)
  OBVIOUS
<1>5. [o \in {"pending", "new", "last", "prev"} |-> MaxAge]
          \in [{"pending", "new", "last", "prev"} -> Age]
  BY <1>2
<1> QED
  BY <1>1, <1>2, <1>3, <1>4, <1>5 DEF TimeInit, TimeTypeOK, Handling

LEMMA TimeTypeStep ==
    TimeTypeOK /\ Handling /\ [TimeNext]_timeVars => TimeTypeOK' /\ Handling'
<1> SUFFICES ASSUME TimeTypeOK, Handling, [TimeNext]_timeVars PROVE TimeTypeOK' /\ Handling'
  OBVIOUS
<1> USE DEF TimeTypeOK, Handling
<1>1. CASE Millisecond
  <2>1. now' \in Itow /\ clock' \in Clock
    <3>1. now + 1 \in Int /\ clock + Rate \in Int
      BY RateSizes DEF Itow, Clock
    <3>2. \A x \in Int : x % Week \in 0 .. Week - 1 /\ x % TickMod \in 0 .. TickMod - 1
      BY TimeSizes
    <3>3. now' = (now + 1) % Week /\ clock' = (clock + Rate) % TickMod
      BY <1>1 DEF Millisecond
    <3> QED
      BY <3>1, <3>2, <3>3 DEF Itow, Clock
  <2>2. resolved' \in BOOLEAN /\ edgeDue' \in BOOLEAN
    BY <1>1 DEF Millisecond
  <2>3. stream' \in Seq(Message)
    <3>1. [itow |-> now', valid |-> resolved'] \in Message
      BY <2>1, <2>2 DEF Message
    <3>2. stream' = Append(stream, [itow |-> now', valid |-> resolved']) \/ stream' = stream
      BY <1>1 DEF Millisecond
    <3>3. stream \in Seq(Message)
      OBVIOUS
    <3> QED
      BY <3>1, <3>2, <3>3
  <2>4. age' \in [{"pending", "new", "last", "prev"} -> Age]
    <3>1. \A a \in Age : Older(a) \in Age
      BY TimeSizes DEF Age, Older
    <3> QED
      BY <1>1, <3>1 DEF Millisecond
  <2>5. silent' \in 0 .. MaxGap
    BY <1>1, TimeSizes DEF Millisecond
  <2> QED
    BY <1>1, <2>1, <2>2, <2>3, <2>4, <2>5 DEF Millisecond
<1>2. CASE Edge
  <2>1. 0 \in Age
    BY TimeSizes DEF Age
  <2>2. age' \in [{"pending", "new", "last", "prev"} -> Age] /\ pending' \in BOOLEAN
        /\ pendTick' \in Clock
    BY <1>2, <2>1 DEF Edge
  <2> QED
    BY <1>2, <2>2 DEF Edge
<1>3. CASE TakePps
  <2>1. stream # <<>> /\ Head(stream) \in Message
        /\ Tail(stream) \in Seq(Message)
    BY <1>3 DEF TakePps
  <2>2. RoundToSecond(Head(stream).itow) \in Seconds
    BY <2>1, RoundedIsASecond DEF Message
  <2>5. age' \in [{"pending", "new", "last", "prev"} -> Age] /\ silent' \in 0 .. MaxGap
    BY <1>3, TimeSizes DEF TakePps, Handled
  <2>3. CASE pending
    <3>1. [tick |-> pendTick, itow |-> RoundToSecond(Head(stream).itow), valid |-> TRUE]
              \in Observation
      BY <2>2 DEF Observation
    <3> QED
      BY <1>3, <2>3, <2>5, <3>1 DEF TakePps
  <2>4. CASE ~pending
    BY <1>3, <2>1, <2>4, <2>5 DEF TakePps, Handled
  <2> QED
    BY <2>3, <2>4
<1>4. CASE ClearPending
  <2>1. stream' \in Seq(Message) /\ silent' \in 0 .. MaxGap
        /\ task' \in {"idle", "write"} /\ Handling'
    <3>1. stream # <<>> /\ task = "clear"
      BY <1>4 DEF ClearPending
    <3>2. CASE Head(stream).valid
      BY <1>4, <3>1, <3>2 DEF ClearPending
    <3>3. CASE ~Head(stream).valid
      BY <1>4, <3>1, <3>3, TimeSizes DEF ClearPending, Handled
    <3> QED
      BY <3>2, <3>3
  <2> QED
    BY <1>4, <2>1 DEF ClearPending, Taken
<1>5. CASE OnPps
  <2>1. stream' \in Seq(Message) /\ silent' \in 0 .. MaxGap /\ task' = "idle"
    BY <1>5, TimeSizes DEF OnPps, Handled
  <2>2. prev' \in Observation /\ last' \in Observation
    BY <1>5 DEF OnPps, PrevAfter
  <2> QED
    BY <1>5, <2>1, <2>2 DEF OnPps
<1>6. CASE UNCHANGED timeVars
  BY <1>6 DEF timeVars
<1> QED
  BY <1>1, <1>2, <1>3, <1>4, <1>5, <1>6 DEF TimeNext, GpsTask

\* How long ago message i of the stream was sent.
Delay(i) == (now - stream[i].itow) % Week

\* Messages are under way for no longer than MaxDelay, and in order.
StreamAges ==
    \A i \in 1 .. Len(stream) :
        /\ Delay(i) <= MaxDelay
        /\ \A j \in i .. Len(stream) : Delay(j) <= Delay(i)

\* An edge comes when a second begins, and its tick and age are kept.
EdgeOK ==
    /\ edgeDue => AtSecond(now)
    /\ age["pending"] < MaxAge =>
          /\ pendTick = (clock - age["pending"] * Rate) % TickMod
          /\ AtSecond(now - age["pending"])

\* The edge that is pending came after the last message that was handled, and
\* when it came during the handling of one, just now.
Fresh ==
    /\ pending /\ silent < MaxGap => age["pending"] <= silent
    /\ pending /\ task = "write" => age["pending"] = 0

\* The observation that gps_task is making.
Taking ==
    task \in {"clear", "write"} =>
        /\ new.valid
        /\ new.itow = RoundToSecond(Head(stream).itow)
        /\ silent < MaxGap => age["new"] <= silent
        /\ age["new"] < MaxAge =>
              /\ new.tick = (clock - age["new"] * Rate) % TickMod
              /\ AtSecond(now - age["new"])

PairingInv == TimeTypeOK /\ Handling /\ StreamAges /\ EdgeOK /\ Fresh /\ Taking

LEMMA PairingInit == TimeInit => PairingInv
<1> SUFFICES ASSUME TimeInit PROVE PairingInv
  OBVIOUS
<1>1. StreamAges /\ Taking
  BY DEF TimeInit, StreamAges, Taking
<1>2. EdgeOK /\ Fresh
  BY TimeSizes DEF TimeInit, EdgeOK, Fresh
<1> QED
  BY <1>1, <1>2, TimeTypeInit DEF PairingInv

LEMMA PairingMillisecond == PairingInv /\ Millisecond => PairingInv'
<1> SUFFICES ASSUME PairingInv, Millisecond PROVE PairingInv'
  OBVIOUS
<1>1. TimeTypeOK /\ Handling /\ TimeTypeOK' /\ Handling'
  BY TimeTypeStep DEF PairingInv, TimeNext
<1>2. now' = (now + 1) % Week /\ clock' = (clock + Rate) % TickMod
      /\ task = "idle" /\ task' = "idle"
      /\ edgeDue' = (now' % Second = 0) /\ pending' = pending /\ pendTick' = pendTick /\ ~edgeDue
  BY DEF Millisecond
<1>3. Taking'
  BY <1>2 DEF Taking
<1>4. StreamAges'
  <2>1. \A i \in 1 .. Len(stream) : stream[i] \in Message
    BY <1>1 DEF TimeTypeOK
  <2> DEFINE Later(i) == (now' - stream[i].itow) % Week
  <2>2. ASSUME NEW i \in 1 .. Len(stream)
        PROVE  Later(i) = Delay(i) + 1 /\ Delay(i) \in 0 .. MaxDelay /\ Delay(i) < MaxDelay
    <3>1. stream[i].itow \in Itow /\ now \in Itow
      BY <1>1, <2>1 DEF TimeTypeOK, Message
    <3>2. Delay(i) <= MaxDelay
      BY DEF PairingInv, StreamAges
    <3>3. Delay(i) \in Nat
      BY <3>1, TimeSizes, Around DEF Delay, Itow
    <3>4. Later(i) = Delay(i) + 1
      BY <3>1, <3>2, <1>2, AgeLater DEF Delay
    <3>5. Delay(1) < MaxDelay /\ Delay(i) <= Delay(1)
      <4>1. stream # <<>> /\ Head(stream) = stream[1] /\ 1 \in 1 .. Len(stream)
            /\ i \in 1 .. Len(stream)
        BY <1>1 DEF TimeTypeOK
      <4>2. Delay(1) < MaxDelay
        BY <4>1 DEF Millisecond, Delay
      <4> QED
        BY <4>1, <4>2 DEF PairingInv, StreamAges
    <3>6. 1 \in 1 .. Len(stream)
      <4>1. Len(stream) \in Nat
        BY <1>1 DEF TimeTypeOK
      <4> QED
        BY <4>1
    <3>7. stream[1].itow \in Itow
      BY <3>6, <2>1 DEF Message
    <3>8. Delay(1) \in Nat
      <4>1. now \in 0 .. Week - 1 /\ stream[1].itow \in 0 .. Week - 1
        BY <3>1, <3>7 DEF Itow
      <4>2. (now - stream[1].itow) % Week \in Nat
        BY <4>1, TimeSizes
      <4> QED
        BY <4>2 DEF Delay
    <3>9. Delay(i) < MaxDelay
      BY <3>3, <3>5, <3>8, TimeSizes
    <3> QED
      BY <3>2, <3>3, <3>4, <3>9, TimeSizes
  <2>3. \A i \in 1 .. Len(stream) : \A j \in i .. Len(stream) : Delay(j) <= Delay(i)
    BY DEF PairingInv, StreamAges
  <2>4. CASE stream' = stream
    <3>1. \A i \in 1 .. Len(stream') : Delay(i)' = Later(i)
      BY <2>4 DEF Delay
    <3> HIDE DEF Later
    <3>2. \A i \in 1 .. Len(stream) : Delay(i)' \in 0 .. MaxDelay /\ Delay(i)' = Delay(i) + 1
      BY <2>2, <3>1, <2>4, TimeSizes
    <3>3. \A i \in 1 .. Len(stream) : \A j \in i .. Len(stream) : Delay(j)' <= Delay(i)'
      <4> SUFFICES ASSUME NEW i \in 1 .. Len(stream), NEW j \in i .. Len(stream)
                   PROVE  Delay(j)' <= Delay(i)'
        OBVIOUS
      <4>1. j \in 1 .. Len(stream)
        BY <1>1 DEF TimeTypeOK
      <4> QED
        BY <4>1, <3>2, <2>2, <2>3
    <3> QED
      BY <3>2, <3>3, <2>4 DEF StreamAges
  <2>5. CASE stream' = Append(stream, [itow |-> now', valid |-> resolved'])
    <3> PICK n \in Nat : n = Len(stream)
      BY <1>1 DEF TimeTypeOK
    <3>1. Len(stream') = n + 1
          /\ stream'[n + 1] = [itow |-> now', valid |-> resolved']
          /\ \A i \in 1 .. n : stream'[i] = stream[i]
      BY <2>5, <1>1 DEF TimeTypeOK
    <3>2. \A i \in 1 .. n : Delay(i)' = Later(i)
      BY <3>1 DEF Delay
    <3>3. Delay(n + 1)' = 0
      <4>1. Delay(n + 1)' = (now' - now') % Week
        BY <3>1 DEF Delay
      <4>2. now' \in 0 .. Week - 1
        BY <1>1 DEF TimeTypeOK, Itow
      <4>3. \A x \in 0 .. Week - 1 : x - x = 0
        BY TimeSizes
      <4> QED
        BY <4>1, <4>2, <4>3, TimeSizes, ModOnce
    <3> HIDE DEF Later
    <3>4. \A i \in 1 .. n : Delay(i)' \in 0 .. MaxDelay /\ Delay(i)' = Delay(i) + 1
      BY <2>2, <3>2, TimeSizes
    <3>5. ASSUME NEW i \in 1 .. Len(stream') PROVE Delay(i)' \in 0 .. MaxDelay
      <4>1. i = n + 1 \/ i \in 1 .. n
        BY <3>1
      <4> QED
        BY <4>1, <3>3, <3>4, TimeSizes
    <3>6. ASSUME NEW i \in 1 .. Len(stream'), NEW j \in i .. Len(stream')
          PROVE  Delay(j)' <= Delay(i)'
      <4>1. CASE j = n + 1
        <5>1. Delay(i)' \in 0 .. MaxDelay /\ Delay(j)' = 0
          BY <3>3, <3>5, <4>1
        <5> QED
          BY <5>1, TimeSizes
      <4>2. CASE j # n + 1
        <5>1. i \in 1 .. n /\ j \in 1 .. n /\ j \in i .. n
          BY <4>2, <3>1, <3>6
        <5> QED
          BY <5>1, <3>4, <2>2, <2>3
      <4> QED
        BY <4>1, <4>2
    <3> QED
      BY <3>5, <3>6 DEF StreamAges
  <2> QED
    BY <2>4, <2>5 DEF Millisecond
<1>5. age["pending"] \in Nat /\ silent \in Nat /\ silent <= MaxGap
      /\ age'["pending"] = Older(age["pending"])
      /\ silent' = IF silent = MaxGap THEN MaxGap ELSE silent + 1
  BY <1>1, TimeSizes DEF TimeTypeOK, Age, Millisecond
<1>6. EdgeOK'
  <2>1. ASSUME edgeDue' PROVE AtSecond(now')
    <3>1. now' % Second = 0 /\ now' \in Int
      BY <2>1, <1>1, <1>2, TimeSizes DEF TimeTypeOK, Itow
    <3>2. now' = Second * (now' \div Second) /\ now' \div Second \in Int
      BY <3>1, TimeSizes, Divided
    <3> QED
      BY <3>2 DEF AtSecond
  <2>2. ASSUME age'["pending"] < MaxAge
        PROVE  /\ pendTick' = (clock' - age'["pending"] * Rate) % TickMod
               /\ AtSecond(now' - age'["pending"])
    <3>1. age["pending"] < MaxAge /\ age'["pending"] = age["pending"] + 1
      <4>1. age["pending"] \in 0 .. MaxAge
        BY <1>1 DEF TimeTypeOK, Age
      <4> QED
        BY <2>2, <4>1, <1>5, TimeSizes DEF Older
    <3>2. pendTick = (clock - age["pending"] * Rate) % TickMod /\ AtSecond(now - age["pending"])
      BY <3>1 DEF PairingInv, EdgeOK
    <3>3. (((clock + Rate) % TickMod) - (age["pending"] + 1) * Rate) % TickMod
              = (clock - age["pending"] * Rate) % TickMod
      <4>1. clock \in 0 .. TickMod - 1 /\ age["pending"] \in 0 .. MaxAge
        BY <1>1 DEF TimeTypeOK, Clock, Age
      <4>2. /\ age["pending"] * Rate \in Nat
            /\ (age["pending"] + 1) * Rate = age["pending"] * Rate + Rate
            /\ age["pending"] * Rate + Rate < TickMod
        BY <4>1, <3>1, AgeInTicks, RateSizes, TimeSizes
      <4> QED
        BY <4>1, <4>2, RateSizes, TimeSizes, UnitLater
    <3>4. now \in Int /\ now' = IF now + 1 < Week THEN now + 1 ELSE now + 1 - Week
      <4>1. now \in 0 .. Week - 1
        BY <1>1 DEF TimeTypeOK, Itow
      <4> QED
        BY <4>1, <1>2, Around, TimeSizes
    <3>5. now' - age'["pending"] \in {now - age["pending"], (now - age["pending"]) - Week}
      BY <3>1, <3>4, <1>5, TimeSizes
    <3>6. AtSecond((now - age["pending"]) - Week)
      BY <3>2, <3>4, <1>5, SecondsApart
    <3> QED
      BY <1>2, <3>1, <3>2, <3>3, <3>5, <3>6
  <2> QED
    BY <2>1, <2>2 DEF EdgeOK
<1>7. Fresh'
  BY <1>2, <1>5, TimeSizes DEF Fresh, PairingInv, Older
<1> QED
  BY <1>1, <1>3, <1>4, <1>6, <1>7 DEF PairingInv

LEMMA PairingEdge == PairingInv /\ Edge => PairingInv'
<1> SUFFICES ASSUME PairingInv, Edge PROVE PairingInv'
  OBVIOUS
<1>1. TimeTypeOK /\ Handling /\ TimeTypeOK' /\ Handling'
  BY TimeTypeStep DEF PairingInv, TimeNext
<1>2. /\ edgeDue /\ ~edgeDue'
      /\ now' = now /\ clock' = clock /\ stream' = stream /\ task' = task /\ new' = new
      /\ silent' = silent
  BY DEF Edge
<1>3. age'["new"] = age["new"]
  BY <1>1 DEF Edge, TimeTypeOK
<1>4. StreamAges' /\ Taking'
  BY <1>2, <1>3 DEF PairingInv, StreamAges, Delay, Taking
<1>5. EdgeOK' /\ Fresh'
  <2>1. CASE pending' = TRUE /\ pendTick' = clock /\ age' = [age EXCEPT !["pending"] = 0]
    <3>1. age'["pending"] = 0
      BY <2>1, <1>1 DEF TimeTypeOK
    <3>2. AtSecond(now)
      BY <1>2 DEF PairingInv, EdgeOK
    <3>3. clock % TickMod = clock /\ clock \in Int /\ now \in Int
      <4>1. clock \in 0 .. TickMod - 1 /\ now \in 0 .. Week - 1
        BY <1>1 DEF TimeTypeOK, Clock, Itow
      <4> QED
        BY <4>1, ModOnce, TimeSizes
    <3>4. clock - 0 * Rate = clock /\ now - 0 = now
      BY <3>3, RateSizes
    <3> QED
      BY <1>1, <1>2, <2>1, <3>1, <3>2, <3>3, <3>4 DEF EdgeOK, Fresh, TimeTypeOK
  <2>2. CASE UNCHANGED <<pending, pendTick, age>>
    BY <1>2, <2>2 DEF PairingInv, EdgeOK, Fresh
  <2> QED
    BY <2>1, <2>2 DEF Edge
<1> QED
  BY <1>1, <1>4, <1>5 DEF PairingInv

\* Handling a message leaves the ages of the others.
LEMMA HandledAges ==
    ASSUME TimeTypeOK, StreamAges, stream # <<>>, Handled, now' = now
    PROVE  StreamAges'
<1>1. Len(stream) \in Nat /\ Len(stream) > 0 /\ Len(stream') = Len(stream) - 1
      /\ \A i \in 1 .. Len(stream') : stream'[i] = stream[i + 1]
  BY DEF TimeTypeOK, Handled
<1>2. \A i \in 1 .. Len(stream') : Delay(i)' = Delay(i + 1)
  BY <1>1 DEF Delay
<1> QED
  BY <1>1, <1>2 DEF StreamAges

LEMMA PairingTask == PairingInv /\ GpsTask => PairingInv'
<1> SUFFICES ASSUME PairingInv, GpsTask PROVE PairingInv'
  OBVIOUS
<1>1. TimeTypeOK /\ Handling /\ TimeTypeOK' /\ Handling'
  BY TimeTypeStep DEF PairingInv, TimeNext
<1>2. now' = now /\ clock' = clock /\ edgeDue' = edgeDue /\ pendTick' = pendTick
      /\ age'["pending"] = age["pending"]
  BY <1>1 DEF GpsTask, TakePps, ClearPending, OnPps, TimeTypeOK
<1>3. EdgeOK'
  BY <1>2 DEF PairingInv, EdgeOK
<1>4. CASE TakePps /\ pending
  <2>1. /\ task' = "clear" /\ stream # <<>> /\ stream' = stream /\ silent' = silent
        /\ pending' = pending
        /\ new' = [tick |-> pendTick, itow |-> RoundToSecond(Head(stream).itow), valid |-> TRUE]
        /\ age'["new"] = age["pending"]
    BY <1>4, <1>1 DEF TakePps, TimeTypeOK
  <2>2. StreamAges'
    BY <1>2, <2>1 DEF PairingInv, StreamAges, Delay
  <2>3. Fresh'
    BY <1>2, <2>1 DEF PairingInv, Fresh
  <2>4. Taking'
    BY <1>2, <1>4, <2>1 DEF PairingInv, Taking, Fresh, EdgeOK
  <2> QED
    BY <1>1, <1>3, <2>2, <2>3, <2>4 DEF PairingInv
<1>5. CASE TakePps /\ ~pending
  <2>1. Handled /\ stream # <<>> /\ pending' = pending
    BY <1>5 DEF TakePps
  <2>2. StreamAges'
    BY <1>1, <1>2, <2>1, HandledAges DEF PairingInv
  <2> QED
    BY <1>1, <1>3, <1>5, <2>1, <2>2 DEF PairingInv, Handled, Fresh, Taking
<1>6. CASE ClearPending
  <2>1. ~pending' /\ task = "clear" /\ new' = new /\ age' = age /\ stream # <<>>
    BY <1>1, <1>6 DEF ClearPending, Taken, Handling
  <2>2. CASE Head(stream).valid
    <3>1. UNCHANGED <<stream, silent>>
      BY <1>6, <2>2 DEF ClearPending
    <3> QED
      BY <1>1, <1>2, <1>3, <2>1, <3>1 DEF PairingInv, Fresh, Taking, StreamAges, Delay
  <2>3. CASE ~Head(stream).valid
    <3>1. Handled
      BY <1>6, <2>3 DEF ClearPending
    <3>2. StreamAges'
      BY <1>1, <1>2, <2>1, <3>1, HandledAges DEF PairingInv
    <3> QED
      BY <1>1, <1>3, <2>1, <3>1, <3>2 DEF PairingInv, Fresh, Taking, Handled
  <2> QED
    BY <2>2, <2>3
<1>7. CASE OnPps
  <2>1. Handled /\ pending' = pending /\ task = "write" /\ stream # <<>>
    BY <1>1, <1>7 DEF OnPps, Handling
  <2>2. StreamAges'
    BY <1>1, <1>2, <2>1, HandledAges DEF PairingInv
  <2> QED
    BY <1>1, <1>2, <1>3, <2>1, <2>2 DEF PairingInv, Fresh, Taking, Handled
<1> QED
  BY <1>4, <1>5, <1>6, <1>7 DEF GpsTask

LEMMA PairingStep == PairingInv /\ [TimeNext]_timeVars => PairingInv'
<1> SUFFICES ASSUME PairingInv, [TimeNext]_timeVars PROVE PairingInv'
  OBVIOUS
<1>1. CASE UNCHANGED timeVars
  BY <1>1, TimeTypeStep
     DEF timeVars, PairingInv, StreamAges, Delay, EdgeOK, Fresh, Taking
<1> QED
  BY <1>1, PairingMillisecond, PairingEdge, PairingTask DEF TimeNext

LEMMA PairingImplies == PairingInv => PairedWhenFlowing
<1> SUFFICES ASSUME PairingInv, task = "write", 2 * silent < Second
             PROVE  True(new, age["new"])
  BY DEF PairedWhenFlowing
<1>1. TimeTypeOK /\ stream # <<>>
  BY DEF PairingInv, Handling
<1>2. silent \in Nat /\ silent < MaxGap /\ age["new"] \in Nat /\ now \in 0 .. Week - 1
  BY <1>1, TimeSizes DEF TimeTypeOK, Age, Itow
<1>3. age["new"] <= silent /\ age["new"] < MaxAge
  BY <1>2, TimeSizes DEF PairingInv, Taking
<1>4. new.tick = (clock - age["new"] * Rate) % TickMod /\ AtSecond(now - age["new"])
  BY <1>3 DEF PairingInv, Taking
<1>5. new.itow = RoundToSecond(Head(stream).itow)
  BY DEF PairingInv, Taking
<1> DEFINE t == Head(stream).itow
           d == Delay(1)
           edge == now - age["new"]
<1>6. t \in 0 .. Week - 1 /\ d = (now - t) % Week /\ d <= MaxDelay
  <2>1. 1 \in 1 .. Len(stream) /\ Head(stream) = stream[1] /\ Head(stream) \in Message
    BY <1>1 DEF TimeTypeOK
  <2> QED
    BY <2>1 DEF PairingInv, StreamAges, Delay, Message, Itow
<1>7. d \in Nat /\ (t = now - d \/ t = now - d + Week)
  <2>1. (now - t) % Week = IF now - t < 0 THEN now - t + Week ELSE now - t
    BY <1>2, <1>6, TimeSizes, Around
  <2> QED
    BY <2>1, <1>2, <1>6, TimeSizes
<1>8. edge \in Int /\ edge = now - age["new"] /\ edge + Week \in Int
  BY <1>2, TimeSizes
<1> HIDE DEF t, d, edge
<1>9. CASE t = now - d
  <2>1. RoundToSecond(t) = edge
    <3>1. -Second <= 2 * (t - edge) /\ 2 * (t - edge) < Second
      BY <1>2, <1>3, <1>6, <1>7, <1>8, <1>9, TimeSizes
    <3>2. AtSecond(edge) /\ t \in Nat
      BY <1>4, <1>6, <1>8, TimeSizes
    <3> QED
      BY <3>1, <3>2, <1>8, RoundedToTheEdge
  <2> QED
    BY <2>1, <1>3, <1>4, <1>5 DEF True, t, edge
<1>10. CASE t = now - d + Week
  <2>1. RoundToSecond(t) = edge + Week
    <3>1. -Second <= 2 * (t - (edge + Week)) /\ 2 * (t - (edge + Week)) < Second
      BY <1>2, <1>3, <1>6, <1>7, <1>8, <1>10, TimeSizes
    <3>2. AtSecond(edge + Week) /\ t \in Nat
      BY <1>4, <1>6, <1>8, SecondsApart, TimeSizes
    <3> QED
      BY <3>1, <3>2, <1>8, RoundedToTheEdge
  <2>2. (edge + Week * 1) % Week = edge % Week
    BY <1>8, TimeSizes, SameRemainder
  <2>3. edge + Week * 1 = edge + Week
    BY TimeSizes
  <2>4. new.itow % Week = (now - age["new"]) % Week
    BY <2>1, <2>2, <2>3, <1>5, <1>8 DEF t
  <2> QED
    BY <2>4, <1>3, <1>4 DEF True
<1> QED
  BY <1>7, <1>9, <1>10

\* The clock and the time of week stay in their ranges, and the observations that
\* handle_nav_pvt makes hold whole seconds of the week, for any sizes.
THEOREM TimeTypeCorrect == TimeSpec => []TimeTypeOK
<1>1. PairingInv => TimeTypeOK
  BY DEF PairingInv
<1> QED
  BY <1>1, PairingInit, PairingStep, PTL DEF TimeSpec

\* While messages are handled at least every half second, handle_nav_pvt pairs
\* every edge with the second that it marks, for any length of the week, range of
\* the tick and delay of a message up to half a second: round_to_second is wide
\* enough for the latest message, and no edge is left over from an earlier one.
THEOREM EdgesPaired == TimeSpec => []PairedWhenFlowing
  BY PairingInit, PairingStep, PairingImplies, PTL DEF TimeSpec

-----------------------------------------------------------------------------
(* The time of week: the map keeps to the time.                            *)

AgeNames == {"pending", "new", "last", "prev"}

\* Edge x came after edge y, if that can still be told.
After(x, y) == age[x] < age[y] \/ age[y] = MaxAge

\* The edges come in the order pending, new, last, prev: none is used twice.
Newer ==
    /\ edgeDue => \A o \in AgeNames : age[o] > 0
    /\ pending => After("pending", "last")
    /\ task \in {"clear", "write"} => After("new", "last")
    /\ pending /\ task = "write" => After("pending", "new")
    /\ prev.valid => last.valid /\ After("last", "prev")

LEMMA NewerInit == TimeInit => Newer
  BY DEF TimeInit, Newer, AgeNames, NoObservation

LEMMA NewerStep == PairingInv /\ Newer /\ [TimeNext]_timeVars => Newer'
<1> SUFFICES ASSUME PairingInv, Newer, [TimeNext]_timeVars PROVE Newer'
  OBVIOUS
<1>1. TimeTypeOK /\ (task \in {"clear", "write"} => new.valid)
  BY DEF PairingInv, Taking
<1>2. age \in [AgeNames -> 0 .. MaxAge]
  BY <1>1 DEF TimeTypeOK, Age, AgeNames
<1>3. {"pending", "new", "last", "prev"} = AgeNames
  BY DEF AgeNames
<1>4. CASE Millisecond
  <2>1. task = "idle" /\ task' = "idle" /\ UNCHANGED <<pending, last, prev>>
        /\ \A o \in AgeNames : age'[o] = Older(age[o])
    BY <1>2, <1>4 DEF Millisecond
  <2>2. \A a \in 0 .. MaxAge : Older(a) \in 0 .. MaxAge /\ Older(a) > 0
    BY TimeSizes DEF Older
  <2>3. \A a \in 0 .. MaxAge : \A b \in 0 .. MaxAge :
            (a < b \/ b = MaxAge) => (Older(a) < Older(b) \/ Older(b) = MaxAge)
    BY TimeSizes DEF Older
  <2>4. ASSUME NEW x \in AgeNames, NEW y \in AgeNames, After(x, y)
        PROVE  After(x, y)'
    <3>1. age[x] \in 0 .. MaxAge /\ age[y] \in 0 .. MaxAge
      BY <1>2
    <3> QED
      BY <2>1, <2>3, <2>4, <3>1 DEF After
  <2> QED
    BY <1>2, <2>1, <2>2, <2>4 DEF Newer, AgeNames
<1>5. CASE Edge
  <2>1. /\ edgeDue /\ ~edgeDue' /\ UNCHANGED <<task, last, prev>>
        /\ \A o \in AgeNames \ {"pending"} : age'[o] = age[o]
        /\ age'["pending"] = 0 \/ (pending' = pending /\ age'["pending"] = age["pending"])
    <3>1. edgeDue /\ ~edgeDue' /\ UNCHANGED <<task, last, prev>>
      BY <1>5 DEF Edge
    <3>2. CASE age' = [age EXCEPT !["pending"] = 0]
      BY <1>2, <3>1, <3>2 DEF AgeNames
    <3>3. CASE UNCHANGED <<pending, pendTick, age>>
      BY <3>1, <3>3
    <3> QED
      BY <1>5, <3>2, <3>3 DEF Edge
  <2>2. \A o \in AgeNames : age[o] > 0
    BY <2>1 DEF Newer
  <2> QED
    BY <2>1, <2>2 DEF Newer, After, AgeNames
<1>6. CASE TakePps
  <2>1. edgeDue' = edgeDue /\ UNCHANGED <<pending, last, prev>> /\ task = "idle"
        /\ \A o \in AgeNames \ {"new"} : age'[o] = age[o]
    BY <1>2, <1>6 DEF TakePps
  <2>2. CASE pending
    <3>1. task' = "clear" /\ age'["new"] = age["pending"]
      BY <1>2, <1>6, <2>2 DEF TakePps, AgeNames
    <3> QED
      BY <2>1, <2>2, <3>1 DEF Newer, After, AgeNames
  <2>3. CASE ~pending
    <3>1. task' = "idle" /\ age' = age
      BY <1>6, <2>3 DEF TakePps, Handled
    <3> QED
      BY <2>1, <2>3, <3>1 DEF Newer, After
  <2> QED
    BY <2>2, <2>3
<1>7. CASE ClearPending
  <2>1. edgeDue' = edgeDue /\ ~pending' /\ UNCHANGED <<last, prev, age>> /\ task = "clear"
    BY <1>7 DEF ClearPending, Taken
  <2> QED
    BY <2>1 DEF Newer, After
<1>8. CASE OnPps
  <2>1. /\ edgeDue' = edgeDue /\ UNCHANGED pending /\ task = "write" /\ task' = "idle"
        /\ prev' = PrevAfter /\ last' = new /\ new.valid
        /\ age'["pending"] = age["pending"] /\ age'["new"] = age["new"]
        /\ age'["last"] = age["new"]
        /\ age'["prev"] = IF last.valid THEN age["last"] ELSE age["prev"]
    BY <1>1, <1>2, <1>8 DEF OnPps, AgeNames, Handled
  <2>2. CASE last.valid
    BY <2>1, <2>2 DEF Newer, After, AgeNames, PrevAfter
  <2>3. CASE ~last.valid
    <3>1. ~prev.valid
      BY <2>3 DEF Newer
    <3> QED
      BY <2>1, <2>3, <3>1 DEF Newer, After, AgeNames, PrevAfter
  <2> QED
    BY <2>2, <2>3
<1>9. CASE UNCHANGED timeVars
  BY <1>9 DEF timeVars, Newer, After
<1> QED
  BY <1>4, <1>5, <1>6, <1>7, <1>8, <1>9 DEF TimeNext, GpsTask

\* itow_diff_ms is never more than half a week.
LEMMA HalfAWeek ==
    ASSUME NEW x \in Itow, NEW y \in Itow
    PROVE  /\ ItowDiff(x, y) \in Int
           /\ -Week <= 2 * ItowDiff(x, y) /\ 2 * ItowDiff(x, y) <= Week
<1>1. PICK h \in Nat : Week = 2 * h /\ Week \div 2 = h
  BY TimeSizes
<1>2. x \in 0 .. Week - 1 /\ y \in 0 .. Week - 1
  BY DEF Itow
<1> QED
  BY <1>1, <1>2, TimeSizes DEF ItowDiff

\* How far off a time of week is that is e too late.
LEMMA ErrorIs ==
    ASSUME NEW n \in Itow, NEW e \in Int, -Week < 2 * e, 2 * e < Week
    PROVE  ItowDiff((n + e) % Week, n) = e
<1>1. PICK h \in Nat : Week = 2 * h /\ Week \div 2 = h
  BY TimeSizes
<1>2. n \in 0 .. Week - 1
  BY DEF Itow
<1>3. (n + e) % Week = IF n + e < 0 THEN n + e + Week
                       ELSE IF n + e < Week THEN n + e ELSE n + e - Week
  <2> DEFINE s == n + e
  <2>1. s \in Int /\ -Week <= s /\ s < 2 * Week
    BY <1>2, TimeSizes
  <2> HIDE DEF s
  <2>2. s % Week = IF s < 0 THEN s + Week ELSE IF s < Week THEN s ELSE s - Week
    BY <2>1, TimeSizes, Around
  <2> QED
    BY <1>2, <2>2, TimeSizes DEF s
<1> QED
  BY <1>1, <1>2, <1>3, TimeSizes DEF ItowDiff

\* A division as C does it leaves less than the divisor.
LEMMA QuotientClose ==
    ASSUME NEW x \in Int, NEW k \in Nat, k > 0
    PROVE  /\ Quotient(x, k) \in Int
           /\ -k < Quotient(x, k) * k - x /\ Quotient(x, k) * k - x < k
<1>1. ASSUME NEW u \in Nat
      PROVE  u \div k \in Nat /\ (u \div k) * k <= u /\ u < (u \div k) * k + k
  <2> DEFINE q == u \div k
             r == u % k
  <2>1. q \in Nat /\ r \in 0 .. k - 1 /\ u = k * q + r
    BY SMTT(30)
  <2> HIDE DEF q, r
  <2>2. k * q = q * k /\ q * k \in Nat
    BY <2>1
  <2>3. q \in Nat /\ q * k <= u /\ u < q * k + k
    BY <2>1, <2>2
  <2> QED
    BY <2>3 DEF q
<1>2. CASE x < 0
  <2> DEFINE q == (-x) \div k
  <2>1. -x \in Nat
    BY <1>2
  <2>2. q \in Nat /\ q * k <= -x /\ -x < q * k + k
    BY <2>1, <1>1
  <2>3. Quotient(x, k) = -q
    BY <1>2 DEF Quotient
  <2> HIDE DEF q
  <2>4. (-q) * k = -(q * k) /\ q * k \in Nat
    BY <2>2
  <2> QED
    BY <2>2, <2>3, <2>4
<1>3. CASE x >= 0
  <2> DEFINE q == x \div k
  <2>1. x \in Nat
    BY <1>3
  <2>2. q \in Nat /\ q * k <= x /\ x < q * k + k
    BY <2>1, <1>1
  <2>3. Quotient(x, k) = q
    BY <1>3 DEF Quotient
  <2> HIDE DEF q
  <2>4. q * k \in Nat
    BY <2>2
  <2> QED
    BY <2>2, <2>3, <2>4
<1> QED
  BY <1>2, <1>3

\* A number close to a quotient has the bounds of it.
LEMMA QuotientBounds ==
    ASSUME NEW q \in Int, NEW k \in Nat, k > 0, NEW x \in Int,
           -k < q * k - x, q * k - x < k, NEW u \in Int
    PROVE  /\ x <= u * k => q <= u
           /\ u * k <= x => u <= q
<1>1. q * k \in Int /\ u * k \in Int /\ (u + 1) * k = u * k + k /\ (u - 1) * k = u * k - k
  OBVIOUS
<1>2. ASSUME x <= u * k, u + 1 <= q PROVE FALSE
  <2>1. (u + 1) * k <= q * k
    BY <1>2, Scaled
  <2> QED
    BY <1>1, <1>2, <2>1
<1>3. ASSUME u * k <= x, q <= u - 1 PROVE FALSE
  <2>1. q * k <= (u - 1) * k
    BY <1>3, Scaled
  <2> QED
    BY <1>1, <1>3, <2>1
<1>4. (q <= u \/ u + 1 <= q) /\ (u <= q \/ q <= u - 1)
  OBVIOUS
<1> QED
  BY <1>2, <1>3, <1>4

\* A common factor of the dividend and of the divisor goes.
LEMMA CommonFactor ==
    ASSUME NEW q \in Int, NEW x \in Int, NEW r \in Nat, NEW k \in Nat, k > 0,
           -(k * r) < q * (k * r) - x * k, q * (k * r) - x * k < k * r
    PROVE  -r < q * r - x /\ q * r - x < r
<1> DEFINE z == q * r - x
<1>1. z \in Int /\ q * (k * r) - x * k = z * k
  <2>1. q * r \in Int /\ (q * r) * k = q * (k * r) /\ (q * r - x) * k = (q * r) * k - x * k
    BY SMTT(30)
  <2> QED
    BY <2>1
<1> HIDE DEF z
<1>2. k * r = r * k /\ -(k * r) = (-r) * k /\ r * k \in Int /\ (-r) * k \in Int /\ z * k \in Int
  BY <1>1
<1>3. (-r) * k < z * k /\ z * k < r * k
  BY <1>1, <1>2
<1>4. ASSUME r <= z PROVE FALSE
  <2>1. r * k <= z * k
    BY <1>1, <1>4, Scaled
  <2> QED
    BY <1>2, <1>3, <2>1
<1>5. ASSUME z <= -r PROVE FALSE
  <2>1. z * k <= (-r) * k
    BY <1>1, <1>5, Scaled
  <2> QED
    BY <1>2, <1>3, <2>1
<1>6. -r < z /\ z < r
  BY <1>1, <1>4, <1>5
<1> QED
  BY <1>6 DEF z

\* A tick off by e at the clock.
LEMMA TickErrorIs ==
    ASSUME NEW c \in Clock, NEW e \in Int, -TickMod < 2 * e, 2 * e < TickMod
    PROVE  Signed(((c + e) % TickMod) - c) = e
<1>1. c \in 0 .. TickMod - 1
  BY DEF Clock
<1>2. (c + e) % TickMod = IF c + e < 0 THEN c + e + TickMod
                          ELSE IF c + e < TickMod THEN c + e ELSE c + e - TickMod
  BY <1>1, TimeSizes, Around
<1> DEFINE d == ((c + e) % TickMod) - c
<1>3. d \in {e, e + TickMod, e - TickMod} /\ d \in Int /\ -TickMod <= d /\ d < 2 * TickMod
      /\ -TickMod < d /\ d < TickMod
  BY <1>1, <1>2, TimeSizes
<1> HIDE DEF d
<1>4. d % TickMod = IF d < 0 THEN d + TickMod ELSE d
  BY <1>3, TimeSizes, Around
<1>5. Signed(d) = e
  BY <1>3, <1>4, TimeSizes DEF Signed
<1> QED
  BY <1>5 DEF d

LEMMA AbsOf ==
    ASSUME NEW x \in Int, NEW y \in Int
    PROVE  /\ Abs(x) \in Nat /\ Abs(x) >= x /\ Abs(x) >= -x
           /\ Abs(x) < y <=> -y < x /\ x < y
  BY DEF Abs

LEMMA AbsProduct ==
    ASSUME NEW x \in Int, NEW y \in Int
    PROVE  Abs(x * y) = Abs(x) * Abs(y)
<1>1. CASE x >= 0 /\ y >= 0
  <2>1. x * y >= 0
    BY <1>1, SMTT(30)
  <2> QED
    BY <1>1, <2>1 DEF Abs
<1>2. CASE x >= 0 /\ y < 0
  <2>1. x * (-y) >= 0
    BY <1>2, SMTT(30)
  <2>2. x * (-y) = -(x * y) /\ x * y \in Int
    OBVIOUS
  <2> QED
    BY <1>2, <2>1, <2>2 DEF Abs
<1>3. CASE x < 0 /\ y >= 0
  <2>1. (-x) * y >= 0
    BY <1>3, SMTT(30)
  <2>2. (-x) * y = -(x * y) /\ x * y \in Int
    OBVIOUS
  <2> QED
    BY <1>3, <2>1, <2>2 DEF Abs
<1>4. CASE x < 0 /\ y < 0
  <2>1. (-x) * (-y) >= 0
    BY <1>4, SMTT(30)
  <2>2. (-x) * (-y) = x * y /\ x * y \in Int
    OBVIOUS
  <2> QED
    BY <1>4, <2>1, <2>2 DEF Abs
<1> QED
  BY <1>1, <1>2, <1>3, <1>4

\* When the observations are those of the edges a and b ago, so are the ticks and
\* the ms between them; and the newer one places the moments d ago.
LEMMA OnTheMap ==
    ASSUME TimeTypeOK, last.valid, True(last, age["last"])
    PROVE  LET a == age["last"]
               b == age["prev"] IN
           /\ a \in Nat /\ a < MaxAge /\ a * Rate \in Nat
           /\ prev.valid /\ True(prev, b) /\ a < b =>
                 /\ b - a \in Nat /\ b - a > 0
                 /\ Ticks(prev, last) = (b - a) * Rate /\ Span(prev, last) = b - a
           /\ \A d \in 0 .. MaxDelay * Rate :
                 Signed(((clock - d) % TickMod) - last.tick) = a * Rate - d
           /\ \A d \in 0 .. MaxDelay : ItowDiff((now - d) % Week, last.itow) = a - d
           /\ \A q \in Int : (last.itow + q) % Week = (now + (q - a)) % Week
           /\ \A f \in Int : (last.tick + f) % TickMod = (clock + (f - a * Rate)) % TickMod
<1> DEFINE a == age["last"]
           b == age["prev"]
<1>1. a \in 0 .. MaxAge /\ b \in 0 .. MaxAge /\ clock \in Clock /\ now \in Itow
      /\ now \in 0 .. Week - 1 /\ clock \in 0 .. TickMod - 1
      /\ last \in Observation /\ prev \in Observation
  BY DEF TimeTypeOK, Age, Itow, Clock
<1>2. /\ last.itow \in 0 .. Week /\ prev.itow \in 0 .. Week
      /\ last.tick \in 0 .. TickMod - 1
  BY <1>1 DEF Observation, Seconds, Clock
<1>3. a < MaxAge /\ last.tick = (clock - a * Rate) % TickMod
      /\ last.itow % Week = (now - a) % Week
  BY DEF True
<1>4. True(prev, b) => /\ b < MaxAge /\ prev.tick = (clock - b * Rate) % TickMod
                       /\ prev.itow % Week = (now - b) % Week
  BY DEF True
<1> HIDE DEF a, b
<1>5. a \in Nat /\ a * Rate \in Nat /\ 2 * (a * Rate) < TickMod /\ a * Rate \in Clock
  <2>1. a * Rate \in Nat /\ 2 * (a * Rate + Rate) <= TickMod
    BY <1>1, <1>3, AgeInTicks
  <2> QED
    BY <1>1, <2>1, RateSizes, TimeSizes DEF Clock
<1>6. ASSUME prev.valid, True(prev, b), a < b
      PROVE  /\ b - a \in Nat /\ b - a > 0
             /\ Ticks(prev, last) = (b - a) * Rate /\ Span(prev, last) = b - a
  <2>1. b \in Nat /\ b * Rate \in Nat /\ 2 * (b * Rate) < TickMod /\ b * Rate \in Clock
    <3>1. b * Rate \in Nat /\ 2 * (b * Rate + Rate) <= TickMod
      BY <1>1, <1>4, <1>6, AgeInTicks
    <3> QED
      BY <1>1, <3>1, RateSizes, TimeSizes DEF Clock
  <2>2. (b - a) * Rate = b * Rate - a * Rate
    BY <1>5, <2>1, RateSizes
  <2>3. Ticks(prev, last) = b * Rate - a * Rate
    <3>1. 2 * (b * Rate - a * Rate) < TickMod /\ 2 * (a * Rate - b * Rate) <= TickMod
      BY <1>5, <2>1, TimeSizes
    <3> QED
      BY <3>1, <1>1, <1>3, <1>4, <1>5, <1>6, <2>1, TicksApart DEF Ticks
  <2>4. 2 * (b - a) < Week /\ 2 * (a - b) < Week
    BY <1>1, <1>3, <1>4, <1>6, TimeSizes
  <2>5. Span(prev, last) = b - a
    BY <2>4, <1>1, <1>2, <1>3, <1>4, <1>6, ItowsApart DEF Span
  <2> QED
    BY <1>5, <1>6, <2>1, <2>2, <2>3, <2>5
<1>7. ASSUME NEW d \in 0 .. MaxDelay * Rate
      PROVE  Signed(((clock - d) % TickMod) - last.tick) = a * Rate - d
  <2>1. MaxDelay * Rate \in Nat /\ 2 * (MaxDelay * Rate) < TickMod
    <3>1. MaxDelay \in 0 .. MaxAge /\ MaxDelay < MaxAge
      BY TimeSizes
    <3>2. MaxDelay * Rate \in Nat /\ 2 * (MaxDelay * Rate + Rate) <= TickMod
      BY <3>1, AgeInTicks
    <3> QED
      BY <3>2, RateSizes, TimeSizes
  <2>2. d \in Clock /\ 2 * (a * Rate - d) < TickMod /\ 2 * (d - a * Rate) <= TickMod
    BY <1>5, <2>1, TimeSizes DEF Clock
  <2> QED
    BY <2>2, <1>1, <1>3, <1>5, TicksApart
<1>8. ASSUME NEW d \in 0 .. MaxDelay
      PROVE  ItowDiff((now - d) % Week, last.itow) = a - d
  <2>0. d \in 0 .. MaxAge /\ d < MaxAge /\ d \in Int
    BY TimeSizes
  <2>1. (now - d) % Week \in 0 .. Week - 1
        /\ ((now - d) % Week) % Week = (now - d) % Week
    BY <1>1, <2>0, TimeSizes, Around, ModOnce
  <2>2. (now - d) % Week \in 0 .. Week
    BY <2>1, TimeSizes
  <2>3. 2 * (a - d) < Week /\ 2 * (d - a) < Week
    BY <1>1, <1>3, <2>0, TimeSizes
  <2> QED
    BY <2>0, <2>1, <2>2, <2>3, <1>1, <1>2, <1>3, ItowsApart
<1>9. ASSUME NEW q \in Int
      PROVE  (last.itow + q) % Week = (now + (q - a)) % Week
  <2>1. last.itow \in {now - a, now - a + Week}
    BY <1>1, <1>2, <1>3, ItowAgo
  <2>2. last.itow + q \in {now + (q - a), now + (q - a) + Week * 1}
    BY <2>1, <1>1, TimeSizes
  <2>3. now + (q - a) \in Int
    BY <1>1, TimeSizes
  <2>4. (now + (q - a) + Week * 1) % Week = (now + (q - a)) % Week
    BY <2>3, TimeSizes, SameRemainder
  <2> QED
    BY <2>2, <2>4
<1>10. ASSUME NEW f \in Int
       PROVE  (last.tick + f) % TickMod = (clock + (f - a * Rate)) % TickMod
  <2>1. last.tick = IF clock - a * Rate < 0 THEN clock - a * Rate + TickMod
                    ELSE clock - a * Rate
    BY <1>1, <1>3, <1>5, TimeSizes, Around
  <2>2. last.tick + f \in {clock + (f - a * Rate), clock + (f - a * Rate) + TickMod * 1}
    BY <2>1, <1>1, <1>5, TimeSizes
  <2>3. clock + (f - a * Rate) \in Int
    BY <1>1, <1>5, TimeSizes
  <2>4. (clock + (f - a * Rate) + TickMod * 1) % TickMod = (clock + (f - a * Rate)) % TickMod
    BY <2>3, TimeSizes, SameRemainder
  <2> QED
    BY <2>2, <2>4
<1> QED
  BY <1>3, <1>5, <1>6, <1>7, <1>8, <1>9, <1>10 DEF a, b

\* From the tick of d ago: to less than a ms, and the drift.
LEMMA TimeIsClose ==
    ASSUME TimeTypeOK, last.valid, True(last, age["last"]),
           prev.valid => True(prev, age["prev"]) /\ age["last"] < age["prev"],
           NEW d \in 0 .. MaxDelay * Rate
    PROVE  LET a == age["last"]
               drift == IF prev.valid THEN 0 ELSE Abs(Rate - NominalRate)
               e == ItowDiff(TickToItow(prev, last, (clock - d) % TickMod), now)
           IN NominalRate * Abs(e * Rate + d) < drift * Abs(a * Rate - d) + NominalRate * Rate
<1> DEFINE a == age["last"]
           b == age["prev"]
           s == a * Rate - d
           q == IF prev.valid THEN Quotient(s * (b - a), (b - a) * Rate)
                              ELSE Quotient(s, NominalRate)
           e == q - a
           z == q * Rate - s
           drift == IF prev.valid THEN 0 ELSE Abs(Rate - NominalRate)
<1>1. /\ a \in Nat /\ a < MaxAge /\ a * Rate \in Nat /\ now \in Itow
      /\ Rate \in Nat /\ 0 < Rate /\ NominalRate \in Nat /\ 0 < NominalRate
      /\ MaxDelay \in Nat /\ MaxDelay * Rate \in Nat /\ d \in Nat /\ d <= MaxDelay * Rate
      /\ s \in Int /\ s <= a * Rate /\ a * Rate - MaxDelay * Rate <= s
  <2>1. a \in Nat /\ a < MaxAge /\ a * Rate \in Nat
    BY OnTheMap
  <2>2. MaxDelay * Rate \in Nat
    BY RateSizes, TimeSizes
  <2>3. now \in Itow
    BY DEF TimeTypeOK
  <2>4. /\ Rate \in Nat /\ 0 < Rate /\ NominalRate \in Nat /\ 0 < NominalRate
        /\ MaxDelay \in Nat
    BY RateSizes, TimeSizes
  <2>5. d \in Nat /\ d <= MaxDelay * Rate
    BY <2>2
  <2> HIDE DEF a, s
  <2>6. s = a * Rate - d
    BY DEF s
  <2>7. s \in Int /\ s <= a * Rate /\ a * Rate - MaxDelay * Rate <= s
    BY <2>1, <2>2, <2>5, <2>6
  <2> QED
    BY <2>1, <2>2, <2>3, <2>4, <2>5, <2>7
<1>2. prev.valid => b - a \in Nat /\ b - a > 0 /\ (b - a) * Rate \in Nat /\ (b - a) * Rate > 0
  <2>1. prev.valid => b - a \in Nat /\ b - a > 0
    BY OnTheMap
  <2>2. \A k \in Nat : k > 0 => k * Rate \in Nat /\ k * Rate > 0
    BY <1>1, SMTT(30)
  <2> QED
    BY <2>1, <2>2
<1>3. TickToItow(prev, last, (clock - d) % TickMod) = (last.itow + q) % Week
  <2>1. Signed(((clock - d) % TickMod) - last.tick) = s
    BY OnTheMap
  <2>2. prev.valid => Ticks(prev, last) = (b - a) * Rate /\ Span(prev, last) = b - a
    BY OnTheMap
  <2>3. prev.valid => ~(Ticks(prev, last) <= 0)
    BY <1>2, <2>2
  <2> QED
    BY <2>1, <2>2, <2>3 DEF TickToItow, ItowAdd
<1>4. q \in Int
  <2>1. CASE prev.valid
    <3>1. s * (b - a) \in Int
      BY <1>1, <1>2, <2>1
    <3> QED
      BY <1>2, <2>1, <3>1, QuotientClose
  <2>2. CASE ~prev.valid
    BY <1>1, <2>2, QuotientClose
  <2> QED
    BY <2>1, <2>2
<1>5. (last.itow + q) % Week = (now + e) % Week
  BY <1>4, OnTheMap
<1>6. prev.valid => -Rate < z /\ z < Rate
  <2> SUFFICES ASSUME prev.valid PROVE -Rate < z /\ z < Rate
    OBVIOUS
  <2> DEFINE k == b - a
  <2>1. k \in Nat /\ k > 0 /\ k * Rate \in Nat /\ k * Rate > 0 /\ s * k \in Int
    BY <1>1, <1>2
  <2>2. q = Quotient(s * k, k * Rate)
    OBVIOUS
  <2> HIDE DEF q, k, s
  <2>3. -(k * Rate) < q * (k * Rate) - s * k /\ q * (k * Rate) - s * k < k * Rate
    BY <2>1, <2>2, QuotientClose
  <2> QED
    BY <1>1, <1>4, <2>1, <2>3, CommonFactor
<1>7. ~prev.valid => -NominalRate < q * NominalRate - s /\ q * NominalRate - s < NominalRate
  BY <1>1, QuotientClose
<1> HIDE DEF q, s
<1>8. -Week < 2 * e /\ 2 * e < Week /\ e \in Int
  <2>1. (a - MaxDelay) * Rate <= s /\ a - MaxDelay \in Int
    BY <1>1
  <2>2. CASE prev.valid
    <3>1. q <= a /\ a - MaxDelay <= q
      BY <1>1, <1>4, <1>6, <2>1, <2>2, QuotientBounds
    <3> QED
      BY <1>1, <1>4, <3>1, TimeSizes
  <2>3. CASE ~prev.valid
    <3>1. s <= (2 * a) * NominalRate
      <4>1. a * Rate <= a * (2 * NominalRate)
        <5>1. Rate * a <= (2 * NominalRate) * a
          BY <1>1, RateSizes, Scaled
        <5> QED
          BY <5>1, <1>1
      <4>2. a * (2 * NominalRate) = (2 * a) * NominalRate /\ (2 * a) * NominalRate \in Int
        BY <1>1
      <4> QED
        BY <1>1, <4>1, <4>2
    <3>2. q <= 2 * a
      <4>1. 2 * a \in Int
        BY <1>1
      <4> QED
        BY <1>1, <1>4, <1>7, <2>3, <3>1, <4>1, QuotientBounds
    <3>3. CASE MaxDelay <= a
      <4>1. 0 * Rate <= (a - MaxDelay) * Rate
        BY <1>1, <2>1, <3>3, Scaled
      <4>2. 0 * NominalRate <= s
        BY <1>1, <2>1, <4>1
      <4>3. 0 <= q
        BY <1>1, <1>4, <1>7, <2>3, <4>2, QuotientBounds
      <4> QED
        BY <1>1, <1>4, <3>2, <4>3, TimeSizes
    <3>4. CASE a < MaxDelay
      <4> DEFINE w == MaxDelay - a
      <4>1. w \in Nat
        BY <1>1, <3>4
      <4>2. Rate * w <= (2 * NominalRate) * w
        BY <1>1, <4>1, RateSizes, Scaled
      <4>3. (a - MaxDelay) * Rate = -(Rate * w)
            /\ (2 * NominalRate) * w = -((2 * (a - MaxDelay)) * NominalRate)
            /\ Rate * w \in Int /\ (2 * (a - MaxDelay)) * NominalRate \in Int
        BY <1>1, <4>1
      <4>4. (2 * (a - MaxDelay)) * NominalRate <= s
        BY <1>1, <2>1, <4>2, <4>3
      <4>5. 2 * (a - MaxDelay) <= q
        BY <1>1, <1>4, <1>7, <2>1, <2>3, <4>4, QuotientBounds
      <4> QED
        BY <1>1, <1>4, <3>2, <4>5, TimeSizes
    <3> QED
      BY <1>1, <3>3, <3>4
  <2> QED
    BY <2>2, <2>3
<1>9. ItowDiff(TickToItow(prev, last, (clock - d) % TickMod), now) = e
  <2> HIDE DEF e
  <2> QED
    BY <1>1, <1>3, <1>5, <1>8, ErrorIs
<1>10. e * Rate + d = z /\ z \in Int
  <2>1. \A i, j, r \in Int : (i - j) * r = i * r - j * r /\ i * r \in Int
    BY SMTT(30)
  <2>2. (q - a) * Rate = q * Rate - a * Rate /\ q * Rate \in Int
    BY <1>1, <1>4, <2>1
  <2> DEFINE er == (q - a) * Rate
             qr == q * Rate
             ar == a * Rate
  <2>3. er = qr - ar /\ qr \in Int /\ ar \in Int /\ d \in Int
    BY <1>1, <2>2
  <2> HIDE DEF er, qr, ar
  <2>4. er + d = qr - (ar - d) /\ qr - (ar - d) \in Int
    BY <2>3
  <2> QED
    BY <2>4 DEF er, qr, ar, s
<1> HIDE DEF e, z
<1>11. NominalRate * Abs(z) < drift * Abs(s) + NominalRate * Rate
  <2>1. Abs(s) \in Nat /\ Abs(z) \in Nat
    BY <1>1, <1>10, AbsOf
  <2>2. CASE prev.valid
    <3>1. Abs(z) + 1 <= Rate
      BY <1>1, <1>6, <1>10, <2>1, <2>2, AbsOf
    <3>2. (Abs(z) + 1) * NominalRate <= Rate * NominalRate
      BY <1>1, <2>1, <3>1, Scaled
    <3>3. (Abs(z) + 1) * NominalRate = NominalRate * Abs(z) + NominalRate
          /\ Rate * NominalRate = NominalRate * Rate /\ NominalRate * Rate \in Int
          /\ NominalRate * Abs(z) \in Int
      BY <1>1, <2>1
    <3>4. drift * Abs(s) = 0
      BY <2>1, <2>2
    <3> QED
      BY <1>1, <3>2, <3>3, <3>4
  <2>3. CASE ~prev.valid
    <3> DEFINE w == q * NominalRate - s
               x == NominalRate * z
               y == (Rate - NominalRate) * s
               g == Rate * w
    <3>1. w \in Int /\ -NominalRate < w /\ w < NominalRate
      BY <1>1, <1>4, <1>7, <2>3
    <3>2. x = g + y /\ x \in Int /\ y \in Int /\ g \in Int
      <4>1. x = NominalRate * (q * Rate) - NominalRate * s
        BY <1>1, <1>4 DEF z
      <4>2. g = Rate * (q * NominalRate) - Rate * s
        BY <1>1, <1>4
      <4>3. y = Rate * s - NominalRate * s
        BY <1>1
      <4>4. NominalRate * (q * Rate) = Rate * (q * NominalRate)
            /\ Rate * (q * NominalRate) \in Int /\ Rate * s \in Int /\ NominalRate * s \in Int
        BY <1>1, <1>4, SMTT(30)
      <4> QED
        BY <4>1, <4>2, <4>3, <4>4
    <3>3. -(NominalRate * Rate) < g /\ g < NominalRate * Rate
      <4>1. w * Rate <= (NominalRate - 1) * Rate
        BY <1>1, <3>1, Scaled
      <4>2. (1 - NominalRate) * Rate <= w * Rate
        BY <1>1, <3>1, Scaled
      <4>3. /\ (NominalRate - 1) * Rate = NominalRate * Rate - Rate
            /\ (1 - NominalRate) * Rate = Rate - NominalRate * Rate
            /\ g = w * Rate /\ NominalRate * Rate \in Int
        BY <1>1, <3>1
      <4> QED
        BY <1>1, <4>1, <4>2, <4>3, <3>2
    <3>4. Abs(x) = NominalRate * Abs(z)
      <4>1. Abs(NominalRate) = NominalRate
        BY <1>1 DEF Abs
      <4>2. Abs(NominalRate * z) = Abs(NominalRate) * Abs(z)
        BY <1>1, <1>10, AbsProduct
      <4> QED
        BY <4>1, <4>2
    <3>5. Abs(y) = drift * Abs(s)
      <4>1. Abs((Rate - NominalRate) * s) = Abs(Rate - NominalRate) * Abs(s)
        BY <1>1, AbsProduct
      <4> QED
        BY <2>3, <4>1
    <3> HIDE DEF w, x, y, g, drift
    <3>6. Abs(y) \in Nat /\ Abs(y) >= y /\ Abs(y) >= -y /\ NominalRate * Rate \in Int
      BY <1>1, <3>2, AbsOf
    <3>7. -(Abs(y) + NominalRate * Rate) < x /\ x < Abs(y) + NominalRate * Rate
      BY <3>2, <3>3, <3>6
    <3>8. Abs(x) < Abs(y) + NominalRate * Rate
      BY <3>2, <3>6, <3>7, AbsOf
    <3> QED
      BY <3>4, <3>5, <3>8
  <2> QED
    BY <2>2, <2>3
<1> QED
  BY <1>9, <1>10, <1>11 DEF s

\* From the time of d ago: to the tick, and the drift.
LEMMA TickIsClose ==
    ASSUME TimeTypeOK, last.valid, True(last, age["last"]),
           prev.valid => True(prev, age["prev"]) /\ age["last"] < age["prev"],
           NEW d \in 0 .. MaxDelay
    PROVE  LET a == age["last"]
               drift == IF prev.valid THEN 0 ELSE Abs(Rate - NominalRate)
               e == Signed(ItowToTick(prev, last, (now - d) % Week) - clock)
           IN Abs(e + d * Rate) <= drift * Abs(a - d)
<1> DEFINE a == age["last"]
           b == age["prev"]
           s == a - d
           f == s * (IF prev.valid THEN Rate ELSE NominalRate)
           e == f - a * Rate
           drift == IF prev.valid THEN 0 ELSE Abs(Rate - NominalRate)
<1>1. /\ a \in Nat /\ a < MaxAge /\ a * Rate \in Nat /\ clock \in Clock
      /\ Rate \in Nat /\ 0 < Rate /\ NominalRate \in Nat /\ 0 < NominalRate
      /\ MaxDelay \in Nat /\ d \in Nat /\ d <= MaxDelay /\ s \in Int /\ f \in Int
      /\ d * Rate \in Nat
  <2>1. a \in Nat /\ a < MaxAge /\ a * Rate \in Nat
    BY OnTheMap
  <2>2. clock \in Clock
    BY DEF TimeTypeOK
  <2>3. /\ Rate \in Nat /\ 0 < Rate /\ NominalRate \in Nat /\ 0 < NominalRate
        /\ MaxDelay \in Nat
    BY RateSizes, TimeSizes
  <2>4. d \in Nat /\ d <= MaxDelay
    BY <2>3
  <2>5. s \in Int
    BY <2>1, <2>4
  <2>6. \A k \in Int : k * Rate \in Int /\ k * NominalRate \in Int /\ (k >= 0 => k * Rate >= 0)
    BY <2>3, SMTT(30)
  <2> HIDE DEF s
  <2>7. f \in Int /\ d * Rate \in Nat
    BY <2>4, <2>5, <2>6
  <2> QED
    BY <2>1, <2>2, <2>3, <2>4, <2>5, <2>7
<1>2. ItowToTick(prev, last, (now - d) % Week) = (last.tick + f) % TickMod
  <2>1. ItowDiff((now - d) % Week, last.itow) = s
    BY OnTheMap
  <2>2. CASE prev.valid
    <3> DEFINE k == b - a
    <3>1. k \in Nat /\ k > 0 /\ Ticks(prev, last) = k * Rate /\ Span(prev, last) = k
      BY <2>2, OnTheMap
    <3>2. k * Rate > 0 /\ k * Rate \in Nat
      <4> HIDE DEF k
      <4> QED
        BY <1>1, <3>1, SMTT(30)
    <3>3. s * (k * Rate) = (s * Rate) * k /\ s * Rate \in Int
      <4> HIDE DEF k, s
      <4> QED
        BY <1>1, <3>1, SMTT(30)
    <3>4. Quotient(s * (k * Rate), k) = s * Rate
      BY <3>1, <3>3, QuotientOfProduct
    <3>5. ~(Ticks(prev, last) <= 0) /\ Span(prev, last) # 0
      BY <3>1, <3>2
    <3> QED
      BY <2>1, <2>2, <3>1, <3>4, <3>5 DEF ItowToTick
  <2>3. CASE ~prev.valid
    BY <2>1, <2>3 DEF ItowToTick
  <2> QED
    BY <2>2, <2>3
<1>3. (last.tick + f) % TickMod = (clock + e) % TickMod
  BY <1>1, OnTheMap
<1>4. e + d * Rate = s * ((IF prev.valid THEN Rate ELSE NominalRate) - Rate)
  BY <1>1
<1>5. e \in Int /\ -TickMod < 2 * e /\ 2 * e < TickMod
  <2>1. 2 * (a * Rate) < TickMod /\ 4 * (d * Rate) < TickMod
    <3>1. 2 * d \in 0 .. MaxAge /\ 2 * d < MaxAge /\ a \in 0 .. MaxAge
      BY <1>1, TimeSizes
    <3>2. 2 * ((2 * d) * Rate + Rate) <= TickMod /\ 2 * (a * Rate + Rate) <= TickMod
      BY <3>1, <1>1, AgeInTicks
    <3>3. (2 * d) * Rate = 2 * (d * Rate)
      BY <1>1
    <3> QED
      BY <3>2, <3>3, <1>1, TimeSizes
  <2>2. CASE prev.valid
    <3>1. e = -(d * Rate)
      BY <1>1, <2>2
    <3> QED
      BY <1>1, <2>1, <3>1, TimeSizes
  <2>3. CASE ~prev.valid /\ d <= a
    <3>1. s \in Nat /\ f = NominalRate * s /\ (2 * Rate) * s = 2 * (a * Rate) - 2 * (d * Rate)
      BY <1>1, <2>3
    <3>2. NominalRate * s <= (2 * Rate) * s /\ 0 <= NominalRate * s
      <4>1. NominalRate * s <= (2 * Rate) * s
        BY <1>1, <3>1, RateSizes, Scaled
      <4>2. 0 * s <= NominalRate * s
        BY <1>1, <3>1, Scaled
      <4> QED
        BY <4>1, <4>2, <3>1
    <3> HIDE DEF f, s
    <3> QED
      BY <1>1, <2>1, <3>1, <3>2, TimeSizes
  <2>4. CASE ~prev.valid /\ a < d
    <3>1. -s \in Nat /\ f = -(NominalRate * (-s))
          /\ (2 * Rate) * (-s) = 2 * (d * Rate) - 2 * (a * Rate)
      BY <1>1, <2>4
    <3>2. NominalRate * (-s) <= (2 * Rate) * (-s) /\ 0 <= NominalRate * (-s)
      <4>1. NominalRate * (-s) <= (2 * Rate) * (-s)
        BY <1>1, <3>1, RateSizes, Scaled
      <4>2. 0 * (-s) <= NominalRate * (-s)
        BY <1>1, <3>1, Scaled
      <4> QED
        BY <4>1, <4>2, <3>1
    <3> DEFINE g == NominalRate * (-s)
    <3>3. g \in Int /\ f = -g /\ 0 <= g /\ g <= 2 * (d * Rate) - 2 * (a * Rate)
      BY <1>1, <3>1, <3>2
    <3> HIDE DEF f, s, g
    <3> QED
      BY <1>1, <2>1, <3>3, TimeSizes
  <2> QED
    BY <1>1, <2>2, <2>3, <2>4
<1>6. Signed(ItowToTick(prev, last, (now - d) % Week) - clock) = e
  BY <1>1, <1>2, <1>3, <1>5, TickErrorIs
<1>7. Abs(e + d * Rate) <= drift * Abs(s)
  <2>1. Abs(s) \in Nat
    BY <1>1, AbsOf
  <2>2. CASE prev.valid
    <3>1. e + d * Rate = 0 /\ drift * Abs(s) = 0
      BY <1>1, <1>4, <2>1, <2>2
    <3> QED
      BY <3>1 DEF Abs
  <2>3. CASE ~prev.valid
    <3>1. e + d * Rate = (NominalRate - Rate) * s
      BY <1>1, <1>4, <2>3
    <3>2. Abs(NominalRate - Rate) = Abs(Rate - NominalRate)
      BY <1>1 DEF Abs
    <3>3. Abs(Rate - NominalRate) \in Nat
      BY <1>1 DEF Abs
    <3>4. Abs((NominalRate - Rate) * s) = Abs(NominalRate - Rate) * Abs(s)
      <4>1. NominalRate - Rate \in Int /\ s \in Int
        BY <1>1
      <4> HIDE DEF s
      <4> QED
        BY <4>1, AbsProduct, Zenon
    <3>5. Abs(Rate - NominalRate) * Abs(s) \in Nat
      BY <2>1, <3>3
    <3> QED
      BY <2>3, <3>1, <3>2, <3>4, <3>5
  <2> QED
    BY <2>2, <2>3
<1> QED
  BY <1>6, <1>7

\* With true observations timebase_tick_to_itow_ms is right to less than a ms and
\* timebase_itow_ms_to_tick to the tick, and with a single one each is off by no
\* more than the drift since besides, whatever the drift of the oscillator (by up
\* to a factor of two), at every place of the week and of the range of the tick:
\* the two observations that there are at any time lie apart, in order.
THEOREM MapKeepsTime == TimeSpec => []MapTracksTime
<1>1. PairingInv /\ Newer => MapTracksTime
  <2> SUFFICES ASSUME PairingInv, Newer, last.valid, True(last, age["last"]),
                      prev.valid => True(prev, age["prev"])
               PROVE  LET a == age["last"]
                          drift == IF prev.valid THEN 0 ELSE Abs(Rate - NominalRate) IN
          /\ \A d \in 0 .. MaxDelay * Rate :
               LET e == ItowDiff(TickToItow(prev, last, (clock - d) % TickMod), now)
               IN NominalRate * Abs(e * Rate + d)
                      < drift * Abs(a * Rate - d) + NominalRate * Rate
          /\ \A d \in 0 .. MaxDelay :
               LET e == Signed(ItowToTick(prev, last, (now - d) % Week) - clock)
               IN Abs(e + d * Rate) <= drift * Abs(a - d)
    BY DEF MapTracksTime
  <2>1. TimeTypeOK
    BY DEF PairingInv
  <2>2. prev.valid => age["last"] < age["prev"]
    <3>1. age["prev"] \in 0 .. MaxAge /\ age["last"] \in 0 .. MaxAge
      BY <2>1 DEF TimeTypeOK, Age
    <3> QED
      BY <3>1, TimeSizes DEF Newer, After, True
  <2> QED
    BY <2>1, <2>2, TimeIsClose, TickIsClose
<1>2. TimeInit => PairingInv /\ Newer
  BY PairingInit, NewerInit
<1>3. PairingInv /\ Newer /\ [TimeNext]_timeVars => PairingInv' /\ Newer'
  BY PairingStep, NewerStep
<1> QED
  BY <1>1, <1>2, <1>3, PTL DEF TimeSpec

\* A torn rate: none, one or two seconds of iTOW to one or two seconds of ticks; or
\* the nominal one.
LEMMA TornRate ==
    ASSUME NEW s \in Nat, NEW ticks \in {Second * Rate, 2 * (Second * Rate)},
           NEW span \in {0, Second, 2 * Second}
    PROVE  /\ Quotient((s * Rate) * span, ticks) \in 0 .. 2 * s
           /\ Quotient(s * Rate, NominalRate) \in 0 .. 2 * s
<1>1. Second \in Nat /\ Second > 0 /\ Rate \in Nat /\ Rate > 0 /\ NominalRate \in Nat
      /\ NominalRate > 0 /\ s * Rate \in Nat /\ 2 * s \in Nat
  BY TimeSizes, RateSizes
<1>2. Second * Rate \in Nat /\ Second * Rate > 0
  BY <1>1, SMTT(30)
<1>3. ASSUME NEW x \in Nat, NEW k \in Nat, k > 0, x <= (2 * s) * k
      PROVE  Quotient(x, k) \in 0 .. 2 * s
  <2> DEFINE q == Quotient(x, k)
  <2>1. q \in Int /\ -k < q * k - x /\ q * k - x < k
    BY <1>3, QuotientClose
  <2>2. 0 * k <= x /\ x \in Int /\ k \in Nat /\ k > 0 /\ 0 \in Int /\ 2 * s \in Int
    BY <1>1, <1>3
  <2> HIDE DEF q
  <2>3. 0 <= q
    BY <2>1, <2>2, QuotientBounds
  <2>4. q <= 2 * s
    BY <1>3, <2>1, <2>2, QuotientBounds
  <2> QED
    BY <1>1, <2>1, <2>3, <2>4 DEF q
<1>4. Quotient((s * Rate) * span, ticks) \in 0 .. 2 * s
  <2>1. span \in Nat /\ span <= 2 * Second /\ ticks \in Nat /\ ticks > 0 /\ Second * Rate <= ticks
    BY <1>1, <1>2
  <2>2. span * (s * Rate) <= (2 * Second) * (s * Rate)
    BY <1>1, <2>1, Scaled
  <2>3. (Second * Rate) * (2 * s) <= ticks * (2 * s)
    BY <1>1, <1>2, <2>1, Scaled
  <2>4. /\ (s * Rate) * span = span * (s * Rate) /\ (s * Rate) * span \in Nat
        /\ (2 * Second) * (s * Rate) = (Second * Rate) * (2 * s)
        /\ ticks * (2 * s) = (2 * s) * ticks
        /\ (2 * Second) * (s * Rate) \in Int /\ (2 * s) * ticks \in Int
    BY <1>1, <2>1, SMTT(30)
  <2>5. (s * Rate) * span <= (2 * s) * ticks
    BY <2>2, <2>3, <2>4
  <2> QED
    BY <1>3, <2>1, <2>4, <2>5
<1>5. Quotient(s * Rate, NominalRate) \in 0 .. 2 * s
  <2>1. Rate * s <= (2 * NominalRate) * s
    BY <1>1, RateSizes, Scaled
  <2>2. s * Rate = Rate * s /\ (2 * s) * NominalRate = (2 * NominalRate) * s
    BY <1>1
  <2> QED
    BY <1>1, <1>3, <2>1, <2>2
<1> QED
  BY <1>4, <1>5

\* A torn reading, of the words of two or three observations a second apart.
LEMMA TornReading ==
    ASSUME TimeTypeOK,
           NEW e \in Nat, e + 2 * Second < MaxAge,
           NEW p, NEW l, p.valid, l.valid,
           NEW pt \in {e + Second, e + 2 * Second}, p.tick = (clock - pt * Rate) % TickMod,
           NEW pi \in {e + Second, e + 2 * Second}, p.itow \in 0 .. Week,
           p.itow % Week = (now - pi) % Week,
           NEW lt \in {e, e + Second}, l.tick = (clock - lt * Rate) % TickMod,
           NEW li \in {e, e + Second}, l.itow \in 0 .. Week,
           l.itow % Week = (now - li) % Week
    PROVE  ItowDiff(TickToItow(p, l, clock), now)
               \in -2 * (e + Second) .. 2 * (e + Second)
<1> DEFINE ticks == Ticks(p, l)
           span == Span(p, l)
           elapsed == Signed(clock - l.tick)
           x == IF ticks <= 0 THEN Quotient(elapsed, NominalRate)
                ELSE Quotient(elapsed * span, ticks)
           error == x - li
           bound == 2 * (e + Second)
<1>1. /\ clock \in Clock /\ now \in Itow /\ clock \in 0 .. TickMod - 1 /\ now \in 0 .. Week - 1
      /\ Second \in Nat /\ Second > 0
  BY TimeSizes DEF TimeTypeOK, Clock, Itow
<1>2. /\ pt \in 0 .. MaxAge /\ pi \in 0 .. MaxAge /\ lt \in 0 .. MaxAge /\ li \in 0 .. MaxAge
      /\ pt < MaxAge /\ lt < MaxAge /\ pt \in Nat /\ lt \in Nat
      /\ 2 * pt < Week /\ 2 * pi < Week /\ 2 * lt < Week /\ 2 * li < Week
  BY <1>1, TimeSizes
<1>3. /\ pt * Rate \in Nat /\ 2 * (pt * Rate) < TickMod /\ pt * Rate \in Clock
      /\ lt * Rate \in Nat /\ 2 * (lt * Rate) < TickMod /\ lt * Rate \in Clock
  <2>1. \A t \in 0 .. MaxAge : t < MaxAge =>
            t * Rate \in Nat /\ 2 * (t * Rate + Rate) <= TickMod
    BY AgeInTicks
  <2> QED
    BY <1>2, <2>1, RateSizes, TimeSizes DEF Clock
<1>4. span = pi - li
  <2>1. 2 * (pi - li) < Week /\ 2 * (li - pi) < Week
    BY <1>2, TimeSizes
  <2> QED
    BY <2>1, <1>1, <1>2, ItowsApart DEF Span
<1>5. elapsed = lt * Rate
  <2>1. (clock - 0) % TickMod = clock
    BY <1>1, ModOnce, TimeSizes
  <2>2. /\ 0 \in Clock /\ 2 * (lt * Rate - 0) < TickMod /\ 2 * (0 - lt * Rate) <= TickMod
        /\ lt * Rate - 0 = lt * Rate
    BY <1>3, TimeSizes DEF Clock
  <2> QED
    BY <2>1, <2>2, <1>1, <1>3, TicksApart
<1>6. ticks \in {0, Second * Rate, 2 * (Second * Rate)} /\ span \in {0, Second, 2 * Second}
  <2>1. ticks = pt * Rate - lt * Rate
    <3>1. 2 * (pt * Rate - lt * Rate) < TickMod /\ 2 * (lt * Rate - pt * Rate) <= TickMod
      BY <1>3, TimeSizes
    <3> QED
      BY <3>1, <1>1, <1>3, TicksApart DEF Ticks
  <2>2. pt * Rate - lt * Rate = (pt - lt) * Rate
    BY <1>2, RateSizes
  <2>3. pt - lt \in {0, Second, 2 * Second}
    BY <1>1
  <2>4. 0 * Rate = 0 /\ (2 * Second) * Rate = 2 * (Second * Rate)
    BY <1>1, RateSizes
  <2> QED
    BY <1>1, <1>4, <2>1, <2>2, <2>3, <2>4
<1>7. lt \in Nat /\ li \in Nat
  BY <1>1
<1> HIDE DEF ticks, span, elapsed
<1>8. x \in 0 .. 2 * lt
  <2>1. CASE ticks <= 0
    BY <2>1, <1>5, <1>7, TornRate
  <2>2. CASE ~(ticks <= 0)
    <3>1. ticks \in {Second * Rate, 2 * (Second * Rate)}
      BY <2>2, <1>6
    <3> QED
      BY <3>1, <2>2, <1>5, <1>6, <1>7, TornRate
  <2> QED
    BY <2>1, <2>2
<1>9. TickToItow(p, l, clock) = (l.itow + x) % Week
  BY DEF TickToItow, ItowAdd, ticks, span, elapsed
<1> HIDE DEF x
<1>10. error \in Int /\ -bound <= error /\ error <= bound /\ bound \in Nat
  BY <1>1, <1>7, <1>8
<1>11. (l.itow + x) % Week = (now + error) % Week
  <2>1. l.itow \in {now - li, now - li + Week}
    BY <1>1, <1>2, ItowAgo
  <2>2. x \in Int
    BY <1>7, <1>8
  <2>3. l.itow + x \in {now + error, now + error + Week * 1} /\ now + error \in Int
    BY <2>1, <2>2, <1>1, <1>7, TimeSizes
  <2>4. (now + error + Week * 1) % Week = (now + error) % Week
    BY <2>3, TimeSizes, SameRemainder
  <2> QED
    BY <2>3, <2>4
<1> DEFINE off == ItowDiff(TickToItow(p, l, clock), now)
<1> HIDE DEF error
<1>12. off \in Int /\ -bound <= off /\ off <= bound
  <2>1. CASE 2 * bound < Week
    <3>1. -Week < 2 * error /\ 2 * error < Week
      BY <2>1, <1>1, <1>10, TimeSizes
    <3> QED
      BY <3>1, <1>1, <1>9, <1>10, <1>11, ErrorIs
  <2>2. CASE 2 * bound >= Week
    <3>1. (now + error) % Week \in Itow
      <4>1. now + error \in Int
        BY <1>1, <1>10
      <4> QED
        BY <4>1, TimeSizes DEF Itow
    <3>2. off \in Int /\ -Week <= 2 * off /\ 2 * off <= Week
      BY <3>1, <1>1, <1>9, <1>11, HalfAWeek
    <3> HIDE DEF off, bound
    <3> QED
      BY <3>2, <2>2, <1>10, TimeSizes
  <2> QED
    BY <2>1, <2>2, <1>10, TimeSizes
<1> HIDE DEF off
<1> QED
  BY <1>12, <1>10, -2 * (e + Second) = -bound DEF off

LEMMA PairingBoundsTornReads == PairingInv => TornReadBounded
<1> SUFFICES ASSUME PairingInv, task = "write",
                    True(new, age["new"]),
                    last.valid, True(last, age["last"]), age["last"] = age["new"] + Second,
                    prev.valid, True(prev, age["prev"]), age["prev"] = age["last"] + Second,
                    NEW v \in Views
             PROVE  ItowDiff(TickToItow(v[1], v[2], clock), now)
                        \in -2 * age["last"] .. 2 * age["last"]
  BY DEF TornReadBounded
<1> DEFINE e == age["new"]
<1>1. TimeTypeOK /\ new.valid
  BY DEF PairingInv, Taking
<1>2. e \in Nat /\ age["last"] = e + Second /\ age["prev"] = e + 2 * Second
      /\ e + 2 * Second < MaxAge
  <2>1. age["new"] \in Nat
    BY <1>1, TimeSizes DEF TimeTypeOK, Age
  <2>2. age["prev"] < MaxAge
    BY DEF True
  <2> QED
    BY <2>1, <2>2, TimeSizes
<1>3. new \in Observation /\ prev \in Observation /\ last \in Observation
  BY <1>1 DEF TimeTypeOK
<1>4. \A o \in Observation : o.itow \in 0 .. Week
  BY DEF Observation, Seconds
<1>5. v[1] \in Mixed(prev, last) /\ v[2] \in Mixed(last, new)
  BY DEF Views, PrevAfter
<1> DEFINE p == v[1]
           l == v[2]
<1>6. /\ p.valid /\ l.valid
      /\ p.tick \in {prev.tick, last.tick} /\ p.itow \in {prev.itow, last.itow}
      /\ l.tick \in {last.tick, new.tick} /\ l.itow \in {last.itow, new.itow}
  BY <1>1, <1>5 DEF Mixed
<1> HIDE DEF e, p, l
<1>7. \E pt \in {e + Second, e + 2 * Second} : p.tick = (clock - pt * Rate) % TickMod
  BY <1>2, <1>6 DEF True
<1>8. \E pi \in {e + Second, e + 2 * Second} :
          p.itow \in 0 .. Week /\ p.itow % Week = (now - pi) % Week
  BY <1>2, <1>3, <1>4, <1>6 DEF True
<1>9. \E lt \in {e, e + Second} : l.tick = (clock - lt * Rate) % TickMod
  BY <1>2, <1>6 DEF True, e
<1>10. \E li \in {e, e + Second} :
          l.itow \in 0 .. Week /\ l.itow % Week = (now - li) % Week
  BY <1>2, <1>3, <1>4, <1>6 DEF True, e
<1>11. ItowDiff(TickToItow(p, l, clock), now) \in -2 * (e + Second) .. 2 * (e + Second)
  BY <1>1, <1>2, <1>6, <1>7, <1>8, <1>9, <1>10, TornReading
<1> QED
  BY <1>2, <1>11 DEF p, l

\* Whatever stores of timebase_on_pps the compiler puts first, a reading that falls
\* between two of them, of true observations a second apart, is off by no more
\* than twice the age of the observation that is replaced; for any sizes, at the
\* end of the week and at the wrap of the tick too.
THEOREM TornReadsBounded == TimeSpec => []TornReadBounded
  BY PairingInit, PairingStep, PairingBoundsTornReads, PTL DEF TimeSpec

=============================================================================

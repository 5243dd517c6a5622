--------------------------- MODULE ImuSensorProofs ---------------------------
(***************************************************************************)
(* What holds of ImuSensor for bring-ups of any length, any number of      *)
(* polls and any number of resets.  The invariants are proved from two     *)
(* inductive ones that do not depend on each other:                        *)
(*   ReadInv     what the driver, the HAL and the interrupts may be at for *)
(*               each place of read_regs;                                  *)
(*   BringUpInv  which bank is selected, and what runs, at each place of   *)
(*               the bring-up, while no fault is published.                *)
(***************************************************************************)
EXTENDS ImuSensor, NatFacts, SequenceTheorems

-----------------------------------------------------------------------------
(* The read.                                                               *)

\* No transfer is in flight, and none can raise an interrupt.
Quiet == spi = "ready" /\ rxDma = "ready" /\ txDma = "ready" /\ ~errIrq

\* The transfer of this read is in flight, and no interrupt has come.
InFlight ==
    /\ spi = "busy" /\ rxDma = "busy" /\ txDma = "busy"
    /\ errIrq /\ ~error
    /\ done = 0

\* HAL_SPI_Abort has stopped the Tx channel; the Rx channel is still on.
HalfAborted ==
    /\ spi = "busy" /\ rxDma = "busy" /\ txDma = "ready"
    /\ ~errIrq
    /\ done = 0

\* The transfer has ended by an interrupt: in full, or with the error code set.
Ended == Quiet /\ done = 1 /\ (error \/ rx = "whole")

ReadInv ==
    /\ SpiTypeOK
    /\ call \in {"idle", "ok", "failed"} => Quiet /\ done = 0
    /\ call = "ok" => rx = "whole"
    /\ call \in {"wait", "timeout"} => InFlight \/ Ended
    /\ call = "abort" => HalfAborted \/ Ended
    /\ call = "drain" => Quiet

LEMMA ReadInvInit == Init => ReadInv
<1> SUFFICES ASSUME SpiInit PROVE ReadInv
  BY DEF Init
<1>1. SpiTypeOK
  BY DEF SpiInit, SpiTypeOK
<1> QED
  BY <1>1 DEF SpiInit, ReadInv, Quiet

\* The interrupts end a transfer that is in flight and nothing else.
LEMMA InterruptKeepsReadInv == ReadInv /\ Interrupt => ReadInv'
<1> SUFFICES ASSUME ReadInv, Interrupt PROVE ReadInv'
  OBVIOUS
<1> USE DEF ReadInv, SpiTypeOK, Quiet, InFlight, HalfAborted, Ended
<1>1. CASE TransferComplete
  BY <1>1 DEF TransferComplete
<1>2. CASE TransferError
  BY <1>2 DEF TransferError
<1> QED
  BY <1>1, <1>2 DEF Interrupt

LEMMA ReadStepKeepsReadInv == ReadInv /\ ReadStep => ReadInv'
<1> SUFFICES ASSUME ReadInv, ReadStep PROVE ReadInv'
  OBVIOUS
<1> USE DEF ReadInv, SpiTypeOK, Quiet, InFlight, HalfAborted, Ended
<1>1. CASE StartRead
  BY <1>1 DEF StartRead
<1>2. CASE Woken
  BY <1>2 DEF Woken
<1>3. CASE TakeTimesOut
  BY <1>3 DEF TakeTimesOut
<1>4. CASE AbortTx
  BY <1>4 DEF AbortTx
<1>5. CASE AbortRx
  BY <1>5 DEF AbortRx, AfterAbort
<1>6. CASE Drain
  BY <1>6 DEF Drain, Drained
<1> QED
  BY <1>1, <1>2, <1>3, <1>4, <1>5, <1>6 DEF ReadStep

\* imu_task goes on with what a read returned.
LEMMA ReturnKeepsReadInv == ReadInv /\ Returned => ReadInv'
BY DEF ReadInv, SpiTypeOK, Quiet, InFlight, HalfAborted, Ended, Returned

LEMMA ReadInvNext == ReadInv /\ [Next]_vars => ReadInv'
<1> SUFFICES ASSUME ReadInv, [Next]_vars PROVE ReadInv'
  OBVIOUS
<1>1. CASE ReadStep
  BY <1>1, ReadStepKeepsReadInv
<1>2. CASE WhoAmI \/ Poll \/ Turn
  BY <1>2, ReturnKeepsReadInv DEF WhoAmI, Poll, Turn
<1>3. CASE Ctrl \/ OpenHub \/ CloseHub \/ UNCHANGED vars
  BY <1>3 DEF Ctrl, OpenHub, CloseHub, vars, spiVars, ReadInv, SpiTypeOK, Quiet, InFlight, HalfAborted, Ended
<1>4. CASE Interrupt
  BY <1>4, InterruptKeepsReadInv
<1>5. CASE LinkChanges
  BY <1>5 DEF LinkChanges, ReadInv, SpiTypeOK, Quiet, InFlight, HalfAborted, Ended
<1>6. CASE Reset
  BY <1>6 DEF Reset, ReadInv, SpiTypeOK, Quiet
<1> QED
  BY <1>1, <1>2, <1>3, <1>4, <1>5, <1>6 DEF Next, ImuTask

LEMMA ReadInvariant == Spec => []ReadInv
BY ReadInvInit, ReadInvNext, PTL DEF Spec

\* A read that returns STATUS_OK returns all of what its own transfer brought:
\* however the timeout, the abort and the interrupts fell, no token of another
\* transfer ended its wait.
THEOREM ReadsAreFresh == Spec => []ReadIsFresh
<1>1. ReadInv => ReadIsFresh
  BY DEF ReadInv, ReadIsFresh
<1> QED
  BY <1>1, ReadInvariant, PTL

\* When read_regs has returned, the handle and both channels are ready, no
\* interrupt can come any more and the semaphore is empty.
THEOREM NothingInFlight == Spec => []QuietBetweenReads
<1>1. ReadInv => QuietBetweenReads
  BY DEF ReadInv, QuietBetweenReads, Quiet
<1> QED
  BY <1>1, ReadInvariant, PTL


-----------------------------------------------------------------------------
(* The bring-up.                                                           *)

HubPlace == {"open", "start", "close", "poll"}

\* The places that select the hub's bank.
Opening == {"open", "start"}

(***************************************************************************)
(* A part of the bring-up that leaves the hub's bank as soon as it has     *)
(* entered it, and is outside of it at its end.                            *)
(***************************************************************************)
Bracketed(w) ==
    /\ w \in Seq(HubPlace)
    /\ \A i \in 1 .. Len(w) : w[i] = "close" <=> i > 1 /\ w[i - 1] \in Opening
    /\ Len(w) > 0 => w[Len(w)] \notin Opening

LEMMA BracketedConcat ==
    ASSUME NEW v, NEW w, Bracketed(v), Bracketed(w)
    PROVE  Bracketed(v \o w)
<1> DEFINE m == Len(v)
           n == Len(w)
<1>1. v \in Seq(HubPlace) /\ w \in Seq(HubPlace) /\ m \in Nat /\ n \in Nat
  BY LenProperties DEF Bracketed
<1>2. /\ v \o w \in Seq(HubPlace)
      /\ Len(v \o w) = m + n
      /\ \A i \in 1 .. m + n : (v \o w)[i] = IF i <= m THEN v[i] ELSE w[i - m]
  BY <1>1, ConcatProperties
<1>3. ASSUME NEW i \in 1 .. m + n
      PROVE  (v \o w)[i] = "close" <=> i > 1 /\ (v \o w)[i - 1] \in Opening
  <2>1. CASE i <= m
    BY <1>1, <1>2, <2>1 DEF Bracketed
  <2>2. CASE i = m + 1
    <3>1. w[1] # "close"
      BY <1>1, <2>2 DEF Bracketed
    <3>2. m > 0 => v[m] \notin Opening
      BY DEF Bracketed
    <3> QED
      BY <1>1, <1>2, <2>2, <3>1, <3>2
  <2>3. CASE i > m + 1
    <3>1. i - m \in 1 .. n /\ i - m > 1 /\ i - 1 \in 1 .. m + n
      BY <1>1, <2>3
    <3>2. w[i - m] = "close" <=> w[(i - m) - 1] \in Opening
      BY <3>1 DEF Bracketed
    <3>3. (v \o w)[i] = w[i - m] /\ (v \o w)[i - 1] = w[(i - m) - 1]
      BY <1>1, <1>2, <2>3, <3>1
    <3> QED
      BY <1>1, <2>3, <3>2, <3>3
  <2> QED
    BY <1>1, <2>1, <2>2, <2>3
<1>4. m + n > 0 => (v \o w)[m + n] \notin Opening
  <2>1. CASE n = 0
    BY <1>1, <1>2, <2>1 DEF Bracketed
  <2>2. CASE n > 0
    <3>1. (v \o w)[m + n] = w[n]
      BY <1>1, <1>2, <2>2
    <3> QED
      BY <2>2, <3>1 DEF Bracketed
  <2> QED
    BY <1>1, <2>1, <2>2
<1> QED
  BY <1>2, <1>3, <1>4 DEF Bracketed

LEMMA MagWriteBracketed == Bracketed(MagWrite) /\ Bracketed(ContinuousRead) /\ Bracketed(<<>>)
<1>1. Bracketed(MagWrite)
  BY DEF Bracketed, MagWrite, HubPlace, Opening
<1>2. Bracketed(ContinuousRead)
  BY DEF Bracketed, ContinuousRead, HubPlace, Opening
<1>3. Bracketed(<<>>)
  BY DEF Bracketed
<1> QED
  BY <1>1, <1>2, <1>3

\* The recursive function MagConfig satisfies its equations.
LEMMA MagConfigIs ==
    /\ MagConfig[0] = <<>>
    /\ \A n \in Nat : MagConfig[n + 1] = MagConfig[n] \o MagWrite
<1> DEFINE S == Seq(HubPlace)
           step == [p \in S \X Nat |-> p[1] \o MagWrite]
           Eq(f) == f = [n \in Nat |-> IF n = 0 THEN <<>> ELSE f[n - 1] \o MagWrite]
<1>1. <<>> \in S /\ MagWrite \in S
  BY MagWriteBracketed DEF Bracketed
<1>2. \A s \in S : s \o MagWrite \in S
  BY <1>1, ConcatProperties
<1> HIDE DEF S
<1>3. step \in [S \X Nat -> S]
  BY <1>2
<1>4. \A s \in S, n \in Nat : step[<<s, n>>] = s \o MagWrite
  OBVIOUS
<1> HIDE DEF step
<1>5. PICK f : Iterates(f, S, <<>>, step)
  BY <1>1, <1>3, PrimitiveRecursion
<1>6. Eq(f)
  <2>1. ASSUME NEW n \in Nat
        PROVE  f[n] = IF n = 0 THEN <<>> ELSE f[n - 1] \o MagWrite
    <3>1. CASE n = 0
      BY <1>5, <3>1 DEF Iterates
    <3>2. CASE n # 0
      <4>1. n - 1 \in Nat /\ (n - 1) + 1 = n
        BY <3>2
      <4>2. f[n] = step[<<f[n - 1], n>>] /\ f[n - 1] \in S
        BY <1>5, <4>1 DEF Iterates
      <4> QED
        BY <1>4, <3>2, <4>2
    <3> QED
      BY <3>1, <3>2
  <2> QED
    BY <1>5, <2>1 DEF Iterates
<1>7. Eq(MagConfig)
  <2>1. MagConfig = CHOOSE g : Eq(g)
    BY DEF MagConfig
  <2> HIDE DEF Eq
  <2> QED
    BY <1>6, <2>1
<1>8. ASSUME NEW n \in Nat PROVE MagConfig[n + 1] = MagConfig[n] \o MagWrite
  <2>1. n + 1 \in Nat /\ n + 1 # 0 /\ (n + 1) - 1 = n
    OBVIOUS
  <2> QED
    BY <1>7, <2>1
<1> QED
  BY <1>7, <1>8

LEMMA MagConfigBracketed == \A n \in Nat : Bracketed(MagConfig[n])
<1> DEFINE A == {n \in Nat : Bracketed(MagConfig[n])}
<1>1. 0 \in A
  BY MagConfigIs, MagWriteBracketed
<1>2. ASSUME NEW n \in Nat, n \in A PROVE n + 1 \in A
  <2>1. Bracketed(MagConfig[n] \o MagWrite)
    BY <1>2, MagWriteBracketed, BracketedConcat
  <2>2. MagConfig[n + 1] = MagConfig[n] \o MagWrite /\ n + 1 \in Nat
    <3>1. n \in Nat /\ n + 1 \in Nat
      OBVIOUS
    <3> QED
      BY <3>1, MagConfigIs, Zenon
  <2>3. Bracketed(MagConfig[n + 1])
    BY <2>1, <2>2
  <2> QED
    BY <2>2, <2>3
<1> HIDE DEF A
<1>3. Nat \subseteq A
  BY <1>1, <1>2, SetInduction
<1> QED
  BY <1>3 DEF A

\* The bring-up is in the hub's bank between each opening and the "close" that
\* comes next, and nowhere else, whatever the number of writes.
LEMMA BringUpShape ==
    /\ Len(BringUp) \in Nat
    /\ Len(BringUp) >= 4
    /\ BringUp[1] = "who_am_i" /\ BringUp[2] = "ctrl"
    /\ \A i \in 3 .. Len(BringUp) :
         /\ BringUp[i] \in HubPlace
         /\ BringUp[i] = "close" <=> BringUp[i - 1] \in Opening
    /\ BringUp[Len(BringUp)] \notin Opening
<1> DEFINE config == MagConfig[MagWrites]
           w == config \o ContinuousRead
           n == Len(w)
           P == HubPlace \union {"who_am_i", "ctrl"}
           head == <<"who_am_i", "ctrl">>
<1>1. Bracketed(config)
  BY MagConfigBracketed, ImuAssumption
<1>2. Bracketed(w)
  BY <1>1, MagWriteBracketed, BracketedConcat
<1> HIDE DEF config
<1>3. n \in Nat /\ n >= 2
  <2>1. config \in Seq(HubPlace) /\ ContinuousRead \in Seq(HubPlace)
    BY <1>1, MagWriteBracketed DEF Bracketed
  <2>2. n = Len(config) + Len(ContinuousRead)
    BY <2>1, ConcatProperties
  <2>3. Len(config) \in Nat /\ Len(ContinuousRead) = 2
    BY <2>1, LenProperties DEF ContinuousRead
  <2> QED
    BY <2>2, <2>3
<1>4. /\ head \in Seq(P) /\ config \in Seq(P) /\ ContinuousRead \in Seq(P) /\ w \in Seq(P)
  BY <1>1, <1>2, MagWriteBracketed, SeqMonotonic DEF Bracketed
<1>5. Len(head) = 2 /\ head[1] = "who_am_i" /\ head[2] = "ctrl"
  OBVIOUS
<1> HIDE DEF P, head
<1>e. BringUp = head \o w
  <2>1. BringUp = (head \o config) \o ContinuousRead
    BY DEF BringUp, head, config
  <2> QED
    BY <1>4, <2>1, ConcatAssociative
<1> HIDE DEF w
<1>6. /\ Len(BringUp) = 2 + n
      /\ \A i \in 1 .. 2 + n : BringUp[i] = IF i <= 2 THEN head[i] ELSE w[i - 2]
  <2>1. /\ Len(head \o w) = Len(head) + n
        /\ \A i \in 1 .. Len(head) + n :
             (head \o w)[i] = IF i <= Len(head) THEN head[i] ELSE w[i - Len(head)]
    BY <1>4, ConcatProperties
  <2> QED
    BY <1>5, <1>e, <2>1
<1>7. BringUp[1] = "who_am_i" /\ BringUp[2] = "ctrl"
  BY <1>3, <1>5, <1>6
<1>8. \A j \in 1 .. n : w[j] \in HubPlace
  BY <1>2, ElementOfSeq DEF Bracketed
<1>9. ASSUME NEW i \in 3 .. Len(BringUp)
      PROVE  BringUp[i] \in HubPlace /\ (BringUp[i] = "close" <=> BringUp[i - 1] \in Opening)
  <2>1. i - 2 \in 1 .. n /\ BringUp[i] = w[i - 2]
    BY <1>3, <1>6
  <2>2. CASE i = 3
    <3>1. w[1] # "close"
      BY <1>2, <1>3 DEF Bracketed
    <3> QED
      BY <1>7, <1>8, <2>1, <2>2, <3>1 DEF Opening
  <2>3. CASE i > 3
    <3>1. BringUp[i - 1] = w[(i - 2) - 1]
      BY <1>3, <1>6, <2>3
    <3>2. w[i - 2] = "close" <=> w[(i - 2) - 1] \in Opening
      BY <1>2, <2>1, <2>3 DEF Bracketed
    <3> QED
      BY <1>8, <2>1, <3>1, <3>2
  <2> QED
    BY <2>2, <2>3
<1>10. BringUp[Len(BringUp)] \notin Opening
  <2>1. BringUp[Len(BringUp)] = w[n]
    BY <1>3, <1>6
  <2> QED
    BY <1>2, <1>3, <2>1 DEF Bracketed
<1> QED
  BY <1>3, <1>6, <1>7, <1>9, <1>10


(***************************************************************************)
(* Once WHO_AM_I has been read, and unless it could not be or a fault came *)
(* later, the sensor is in the hub's bank only after an opening or when a  *)
(* closing write is missing, and it runs from the second place on unless a *)
(* write of lsm6dso32_init is missing.                                     *)
(***************************************************************************)
BringUpInv ==
    /\ stage \in 1 .. Loop
    /\ bank \in {"main", "shub"}
    /\ stage > 1 =>
         \/ fault
         \/ /\ bank = "shub" => BringUp[stage - 1] \in Opening \/ "close" \in lost
            /\ stage > 2 => odr \/ "ctrl" \in lost
    /\ stage < Loop => used = "none"
    /\ used = "junk" => fault \/ lost # {}

LEMMA LoopIs == Loop \in Nat /\ Loop >= 5 /\ Loop - 1 = Len(BringUp)
BY BringUpShape DEF Loop

LEMMA BringUpInvInit == Init => BringUpInv
BY LoopIs DEF Init, BringUpInv

LEMMA BringUpInvNext == BringUpInv /\ [Next]_vars => BringUpInv'
<1> SUFFICES ASSUME BringUpInv, [Next]_vars PROVE BringUpInv'
  OBVIOUS
<1>1. CASE UNCHANGED taskVars
  BY <1>1 DEF taskVars, BringUpInv
<1>2. CASE WhoAmI
  <2>0. stage < Loop /\ UNCHANGED <<bank, odr, used, lost>>
    BY <1>2 DEF WhoAmI, At
  <2>1. CASE stage' = stage + 1 /\ UNCHANGED fault /\ bank = "main"
    <3>1. stage = 1
      BY <1>2, LoopIs, BringUpShape DEF WhoAmI, At, HubPlace, BringUpInv
    <3> QED
      BY <2>0, <2>1, <3>1, LoopIs, BringUpShape DEF BringUpInv
  <2>2. CASE stage' = Loop /\ fault' = TRUE
    BY <2>0, <2>2, LoopIs DEF BringUpInv
  <2> QED
    BY <1>2, <2>1, <2>2 DEF WhoAmI, Identified
<1>3. CASE Ctrl
  <2>1. stage = 2
    <3>1. stage \in 1 .. Len(BringUp) /\ BringUp[stage] = "ctrl"
      BY <1>3, LoopIs DEF Ctrl, At, BringUpInv
    <3> QED
      BY <3>1, BringUpShape DEF HubPlace
  <2>2. UNCHANGED <<bank, used>> /\ used = "none"
    BY <1>3, <2>1, LoopIs DEF Ctrl, BringUpInv
  <2>3. PICK w \in Written :
            /\ odr' = (odr \/ w.landed)
            /\ stage' = IF w.ok THEN stage + 1 ELSE Loop
            /\ fault' = (fault \/ ~w.ok)
            /\ lost' = IF w.ok /\ ~w.landed THEN lost \union {"ctrl"} ELSE lost
    BY <1>3, Zenon DEF Ctrl
  <2>4. CASE ~w.ok
    <3>1. fault'
      BY <2>3, <2>4, Zenon
    <3>2. stage' = Loop
      BY <2>3, <2>4
    <3> QED
      BY <2>2, <3>1, <3>2, LoopIs DEF BringUpInv
  <2>5. CASE w.ok
    <3>1. stage' = 3 /\ stage' \in 1 .. Loop /\ stage' - 1 = 2 /\ (odr' \/ "ctrl" \in lost')
      <4>1. stage' = 3
        BY <2>1, <2>3, <2>5
      <4>2. odr' \/ "ctrl" \in lost'
        <5>1. CASE w.landed
          BY <2>3, <5>1, Zenon
        <5>2. CASE ~w.landed
          BY <2>3, <2>5, <5>2
        <5> QED
          BY <5>1, <5>2
      <4> QED
        BY <4>1, <4>2, LoopIs
    <3>2. bank = "shub" /\ ~fault => "close" \in lost
      BY <2>1, BringUpShape DEF BringUpInv, Opening
    <3>3. fault => fault'
      BY <2>3, Zenon
    <3>4. lost \subseteq lost'
      BY <2>3
    <3> QED
      BY <2>2, <3>1, <3>2, <3>3, <3>4 DEF BringUpInv
  <2> QED
    BY <2>4, <2>5
<1>4. CASE OpenHub
  <2>1. stage \in 3 .. Len(BringUp) /\ BringUp[stage] \in Opening
        /\ stage < Loop /\ used = "none" /\ UNCHANGED <<odr, fault, used>>
    <3>1. stage \in 1 .. Len(BringUp) /\ BringUp[stage] \in Opening
      BY <1>4, LoopIs DEF OpenHub, At, BringUpInv, Opening
    <3>2. stage # 1 /\ stage # 2
      BY <3>1, BringUpShape DEF Opening
    <3> QED
      BY <1>4, <3>1, <3>2, LoopIs, BringUpShape DEF OpenHub, BringUpInv
  <2>2. fault \/ odr \/ "ctrl" \in lost
    BY <2>1, LoopIs, BringUpShape DEF BringUpInv
  <2>3. bank' \in {"main", "shub"}
    BY <1>4 DEF OpenHub, BringUpInv
  <2>4. CASE stage' = stage + 1 /\ UNCHANGED lost
    <3>1. stage' \in 1 .. Loop /\ stage' - 1 = stage
      BY <2>1, <2>4, LoopIs
    <3> QED
      BY <2>1, <2>2, <2>3, <2>4, <3>1 DEF BringUpInv
  <2>5. CASE \E w \in Written :
               /\ bank' = IF w.landed THEN "shub" ELSE bank
               /\ stage' = Loop
               /\ lost' = IF w.landed THEN lost \union {"close"} ELSE lost
    <3>1. lost \subseteq lost' /\ (bank' = "shub" => bank = "shub" \/ "close" \in lost')
      BY <2>5
    <3>2. BringUp[stage - 1] \notin Opening
      BY <2>1, BringUpShape DEF Opening
    <3>3. bank = "shub" => fault \/ "close" \in lost
      BY <2>1, <3>2, LoopIs DEF BringUpInv
    <3> QED
      BY <2>1, <2>2, <2>3, <2>5, <3>1, <3>3, LoopIs DEF BringUpInv
  <2> QED
    BY <1>4, <2>4, <2>5 DEF OpenHub
<1>5. CASE CloseHub
  <2>1. stage \in 3 .. Len(BringUp) /\ BringUp[stage] = "close"
        /\ stage < Loop /\ used = "none" /\ UNCHANGED <<odr, fault, used>>
    <3>1. stage \in 1 .. Len(BringUp) /\ BringUp[stage] = "close"
      BY <1>5, LoopIs DEF CloseHub, At, BringUpInv
    <3>2. stage # 1 /\ stage # 2
      BY <3>1, BringUpShape
    <3> QED
      BY <1>5, <3>1, <3>2, LoopIs, BringUpShape DEF CloseHub, BringUpInv
  <2>2. fault \/ odr \/ "ctrl" \in lost
    BY <2>1, LoopIs, BringUpShape DEF BringUpInv
  <2>3. /\ bank' \in {"main", "shub"}
        /\ bank' = "shub" => "close" \in lost'
        /\ "ctrl" \in lost => "ctrl" \in lost'
    BY <1>5 DEF CloseHub, BringUpInv
  <2>4. stage' \in 1 .. Loop
    BY <1>5, <2>1, LoopIs DEF CloseHub
  <2> QED
    BY <2>1, <2>2, <2>3, <2>4 DEF BringUpInv
<1>6. CASE Poll
  <2>1. stage \in 3 .. Len(BringUp) /\ BringUp[stage] = "poll" /\ stage < Loop
    <3>1. stage \in 1 .. Len(BringUp) /\ BringUp[stage] = "poll"
      BY <1>6, LoopIs DEF Poll, At, BringUpInv
    <3>2. stage # 1 /\ stage # 2
      BY <3>1, BringUpShape
    <3> QED
      BY <3>1, <3>2, LoopIs
  <2>2. BringUp[stage - 1] \notin Opening
    BY <2>1, BringUpShape
  <2>3. fault \/ ((bank = "shub" => "close" \in lost) /\ (odr \/ "ctrl" \in lost))
    BY <2>1, <2>2, LoopIs DEF BringUpInv
  <2>4. stage' \in {stage, stage + 1, Loop} /\ UNCHANGED <<bank, odr, fault, used, lost>>
    BY <1>6 DEF Poll
  <2>5. stage' \in 1 .. Loop /\ stage' > 2
    BY <2>1, <2>4, LoopIs
  <2>6. used = "none"
    BY <2>1 DEF BringUpInv
  <2> QED
    BY <2>3, <2>4, <2>5, <2>6 DEF BringUpInv
<1>7. CASE Turn
  <2>1. /\ stage = Loop /\ UNCHANGED <<stage, bank, odr, fault, lost>>
        /\ used' = "junk" => bank # "main" \/ ~odr
    BY <1>7 DEF Turn
  <2>2. BringUp[stage - 1] \notin Opening /\ stage > 2
    BY <2>1, LoopIs, BringUpShape
  <2>3. used' = "junk" => fault \/ lost # {}
    BY <2>1, <2>2 DEF BringUpInv
  <2> QED
    BY <2>1, <2>3, LoopIs DEF BringUpInv
<1>8. CASE Reset
  BY <1>8, LoopIs DEF Reset, BringUpInv
<1> QED
  BY <1>1, <1>2, <1>3, <1>4, <1>5, <1>6, <1>7, <1>8 DEF Next, ImuTask, vars

\* What is not a sample of the running sensor reaches fusion only while
\* IMU_FAULT is published or when a write that the driver does not look after got
\* lost: one of lsm6dso32_init that returned STATUS_OK, or the last that closes the
\* hub's bank.  It does so wherever the processor was reset, whichever writes fail
\* and however long the bring-up is.
THEOREM FaultCoversJunk == Spec => []JunkIsFlagged
<1>1. Spec => []BringUpInv
  BY BringUpInvInit, BringUpInvNext, PTL DEF Spec
<1>2. BringUpInv => JunkIsFlagged
  BY DEF BringUpInv, JunkIsFlagged
<1> QED
  BY <1>1, <1>2, PTL

(***************************************************************************)
(* Types.                                                                  *)
(***************************************************************************)
\* Every variable of the driver, the HAL and the task keeps its type, the
\* place in the bring-up stays within it, and no wait polls too often.
THEOREM TypeCorrect == Spec => []TypeOK
<1> DEFINE TaskTypes ==
             /\ polls \in 0 .. MaxPolls
             /\ st \in BOOLEAN /\ odr \in BOOLEAN /\ fault \in BOOLEAN
             /\ used \in {"none", "sample", "junk"}
             /\ lost \subseteq {"ctrl", "close"}
             /\ resets \in 0 .. MaxResets
<1>1. MaxPolls \in Nat /\ MaxResets \in Nat
  BY ImuAssumption
<1>2. Init => TaskTypes
  <2> SUFFICES ASSUME Init PROVE TaskTypes
    OBVIOUS
  <2>1. 0 \in 0 .. MaxPolls /\ 0 \in 0 .. MaxResets
    BY <1>1
  <2> QED
    BY <2>1 DEF Init
<1>3. TaskTypes /\ [Next]_vars => TaskTypes'
  <2> SUFFICES ASSUME TaskTypes, [Next]_vars PROVE TaskTypes'
    OBVIOUS
  <2>1. CASE UNCHANGED taskVars
    BY <2>1 DEF taskVars
  <2>2. CASE WhoAmI \/ Ctrl \/ OpenHub \/ CloseHub \/ Turn
    <3>1. \A w \in Written : w.ok \in BOOLEAN /\ w.landed \in BOOLEAN
      <4> SUFFICES ASSUME NEW w \in Written
                   PROVE  w.ok \in BOOLEAN /\ w.landed \in BOOLEAN
        OBVIOUS
      <4>1. CASE w \in [ok : BOOLEAN, landed : BOOLEAN]
        BY <4>1
      <4>2. CASE w = [ok |-> FALSE, landed |-> FALSE]
        BY <4>2, Zenon
      <4>3. CASE w = [ok |-> TRUE, landed |-> TRUE]
        BY <4>3, Zenon
      <4> QED
        BY <4>1, <4>2, <4>3, Zenon DEF Written
    <3>2. CASE WhoAmI \/ Turn
      BY <3>2 DEF WhoAmI, Turn
    <3>3. CASE Ctrl
      BY <3>1, <3>3 DEF Ctrl
    <3>4. CASE OpenHub
      BY <3>1, <3>4 DEF OpenHub
    <3>5. CASE CloseHub
      BY <3>1, <3>5 DEF CloseHub
    <3> QED
      BY <2>2, <3>2, <3>3, <3>4, <3>5
  <2>3. CASE Poll
    <3>1. polls' \in 0 .. MaxPolls
      BY <1>1, <2>3 DEF Poll, MorePolls
    <3> QED
      BY <2>3, <3>1 DEF Poll
  <2>4. CASE Reset
    <3>1. polls' \in 0 .. MaxPolls /\ resets' \in 0 .. MaxResets
      BY <1>1, <2>4 DEF Reset
    <3> QED
      BY <2>4, <3>1 DEF Reset
  <2> QED
    BY <2>1, <2>2, <2>3, <2>4 DEF Next, ImuTask, vars
<1>4. ReadInv /\ BringUpInv /\ TaskTypes => TypeOK
  BY DEF ReadInv, BringUpInv, TypeOK
<1>5. Spec => []BringUpInv
  BY BringUpInvInit, BringUpInvNext, PTL DEF Spec
<1> HIDE DEF TaskTypes
<1> QED
  BY <1>2, <1>3, <1>4, <1>5, ReadInvariant, PTL DEF Spec

=============================================================================

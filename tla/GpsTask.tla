------------------------------ MODULE GpsTask ------------------------------
(***************************************************************************)
(* gps/gps_task.c: after the boot configuration (GpsBoot), the UBX stream  *)
(* of the receiver through the UART, the DMA ring and the parser           *)
(* (UbxParser), with what the HAL does under it (stm32g4xx_hal_uart.c,     *)
(* stm32g4xx_hal_uart_ex.c, stm32g4xx_hal_dma.c).                          *)
(*                                                                         *)
(* An idle line, the wrap of the ring and an error notify the task.  An    *)
(* error ends the reception; the task arms it again, in steps between      *)
(* which bytes come and errors are raised.                                 *)
(***************************************************************************)
EXTENDS UbxParser, GpsBoot, FiniteSetsExt

CONSTANTS
    Ring,           \* GPS_RX_RING_SIZE
    Frames,         \* the frames of the receiver, in order; the line is idle after each
    Admit,          \* "overrun": bytes may come faster than an error is handled;
                    \* "stale_event": an event and an error may both come between a
                    \* return of the wait and the look at the error flag
    MaxErrors       \* bound: errors on the line of a configured receiver

\* No pair of sync bytes but those a frame begins with: on such a pair the parser
\* would start, and with equal frames for ever.
NoInnerSync(f, next) ==
    LET line == f \o next
    IN \A i \in 2 .. Len(f) : line[i] = Sync1 => line[i + 1] # Sync2

ASSUME GpsAssumption ==
    /\ Ring \in Nat /\ MaxErrors \in Nat /\ Admit \subseteq {"overrun", "stale_event"}
    /\ Frames \in Seq(Seq(0 .. ByteMod - 1)) /\ Frames # <<>>
    /\ \A i, j \in DOMAIN Frames :
         NoInnerSync(Frames[i], Frames[j]) /\ Ring > Len(Frames[i]) + Len(Frames[j])

VARIABLES
    frame, byte,    \* the receiver: what it sends next; a byte past the end is the idle line
    errors,         \* errors so far
    ring,           \* s_rx_ring; Read for a byte that is not unread
    pos,            \* the DMA's next index in it
    dma,            \* hdma_usart3_rx.State: "ready" or "busy"
    dmar,           \* the UART hands its bytes to the DMA
    rxState,        \* huart3.RxState: "ready" or "busy"
    toIdle,         \* huart3.ReceptionType
    idleIrq, errIrq,\* IDLEIE, EIE
    flag,           \* the error flags of the UART: "none", "framing" or "overrun"
    wrapped,        \* the transfer-complete interrupt is pending
    uartError,      \* s_uart_error
    notified, note, \* the notification and its value
    pc,             \* where gps_task is
    readIdx,        \* read_idx
    writeIdx,       \* write_idx
    parser,         \* parser
    pvt,            \* history: the last byte fed has made a fix for imu_task
    since           \* history: bytes read since a frame or an arming of the reception

uartVars == <<dma, dmar, rxState, toIdle, idleIrq, errIrq, flag, uartError>>
ringVars == <<ring, pos, wrapped>>
notifyVars == <<notified, note>>
taskVars == <<pc, readIdx, writeIdx, parser, pvt, since>>
lineVars == <<frame, byte, errors>>
streamVars == <<uartVars, ringVars, notifyVars, taskVars, lineVars>>
vars == <<bootVars, streamVars>>

\* A byte that has been read, or is from before the ring was started again: no
\* byte of the line, and none that the parser may be fed.
Read == -1

Empty == [i \in 0 .. Ring - 1 |-> Read]

Unread == {i \in DOMAIN ring : ring[i] # Read}

Init ==
    /\ BootInit
    /\ frame = 1 /\ byte = 1 /\ errors = 0
    /\ ring = Empty /\ pos = 0 /\ wrapped = FALSE
    /\ dma = "ready" /\ dmar = FALSE /\ rxState = "ready" /\ toIdle = FALSE
    /\ idleIrq = FALSE /\ errIrq = FALSE /\ flag = "none"
    /\ uartError = FALSE /\ notified = FALSE /\ note = 0
    /\ pc = "arm" /\ readIdx = 0 /\ writeIdx = 0
    /\ parser = ParserInit /\ pvt = FALSE /\ since = 0

-----------------------------------------------------------------------------
(* The interrupts.                                                         *)

\* HAL_UARTEx_RxEventCallback
RxEvent(position) == notified' = TRUE /\ note' = position

\* HAL_UART_IRQHandler, an idle line, in circular mode.
IdleLine ==
    IF idleIrq THEN RxEvent(IF pos = 0 THEN Ring ELSE pos)
               ELSE UNCHANGED notifyVars

\* HAL_DMA_IRQHandler and UART_DMAReceiveCplt, after a byte more, perhaps.
TransferComplete ==
    /\ wrapped /\ wrapped' = FALSE
    /\ IF toIdle THEN RxEvent(IF pos = 0 THEN Ring ELSE pos) ELSE UNCHANGED notifyVars
    /\ UNCHANGED <<bootVars, uartVars, ring, pos, taskVars, lineVars>>

\* UART_EndRxTransfer
EndRxTransfer == rxState' = "ready" /\ toIdle' = FALSE /\ idleIrq' = FALSE /\ errIrq' = FALSE

\* HAL_UART_ErrorCallback
ErrorCallback == uartError' = TRUE /\ notified' = TRUE /\ UNCHANGED note

\* HAL_UART_IRQHandler for an error while the DMA runs: the reception ends and
\* the DMA is aborted.  A wrong baud rate is an error at any time.
LineError ==
    /\ errIrq /\ dmar
    /\ "stale_event" \in Admit \/ ~(pc = "check" /\ notified)
    /\ IF configured THEN errors < MaxErrors /\ errors' = errors + 1 ELSE UNCHANGED errors
    /\ EndRxTransfer /\ ErrorCallback
    /\ dmar' = FALSE /\ dma' = "ready" /\ wrapped' = FALSE
    /\ UNCHANGED <<bootVars, ring, pos, flag, taskVars, frame, byte>>

-----------------------------------------------------------------------------
(* The line.                                                               *)

\* The DMA stores a byte.
Store(b) ==
    /\ ring' = [ring EXCEPT ![pos] = b]
    /\ pos' = (pos + 1) % Ring
    /\ wrapped' = (wrapped \/ pos' = 0)

\* A byte of a configured receiver.  The task has dealt with an event before the
\* next frame begins.
Byte ==
    /\ configured /\ byte <= Len(Frames[frame])
    /\ byte = 1 => ~notified /\ pc \notin {"check", "drain"}
    /\ byte' = byte + 1
    /\ IF dmar THEN Store(Frames[frame][byte]) /\ UNCHANGED flag
       ELSE /\ flag' \in {flag} \union (IF "overrun" \in Admit THEN {"overrun"} ELSE {})
            /\ UNCHANGED ringVars
    /\ UNCHANGED <<bootVars, dma, dmar, rxState, toIdle, idleIrq, errIrq, uartError,
                   notifyVars, taskVars, frame, errors>>

\* The end of a frame.
Idle ==
    /\ configured /\ byte > Len(Frames[frame])
    /\ IdleLine
    /\ byte' = 1 /\ frame' = (frame % Len(Frames)) + 1
    /\ UNCHANGED <<bootVars, uartVars, ringVars, taskVars, errors>>

\* A bad byte while nobody listens: its flag stays.
Noise ==
    /\ ~dmar /\ flag = "none"
    /\ IF configured THEN errors < MaxErrors /\ errors' = errors + 1 ELSE UNCHANGED errors
    /\ flag' = "framing"
    /\ UNCHANGED <<bootVars, dma, dmar, rxState, toIdle, idleIrq, errIrq, uartError,
                   ringVars, notifyVars, taskVars, frame, byte>>

-----------------------------------------------------------------------------
(* The task.                                                               *)

\* HAL_UARTEx_ReceiveToIdle_DMA up to HAL_DMA_Start_IT.  A handle or a channel
\* that is busy refuses it, and the task does not look at the result.
Arm ==
    /\ pc = "arm"
    /\ IF rxState = "busy" THEN pc' = "reset" /\ UNCHANGED <<toIdle, rxState, dma, pos, ring>>
       ELSE /\ toIdle' = TRUE
            /\ IF dma = "busy" THEN pc' = "reset" /\ UNCHANGED <<rxState, dma, pos, ring>>
               ELSE /\ rxState' = "busy" /\ dma' = "busy" /\ pos' = 0 /\ ring' = Empty
                    /\ pc' = "enable"
    /\ UNCHANGED <<dmar, idleIrq, errIrq, flag, uartError, wrapped, notifyVars,
                   readIdx, writeIdx, parser, pvt, since>>

\* EIE is set, and an error that is pending raises its interrupt at once: an
\* overrun ends the reception, a framing error does not yet.
EnableErrors ==
    /\ pc = "enable" /\ pc' = "request"
    /\ flag' = "none"
    /\ CASE flag = "none" -> errIrq' = TRUE
                             /\ UNCHANGED <<rxState, toIdle, idleIrq, uartError, notifyVars>>
         [] flag = "framing" -> errIrq' = TRUE /\ ErrorCallback
                                /\ UNCHANGED <<rxState, toIdle, idleIrq>>
         [] flag = "overrun" -> EndRxTransfer /\ ErrorCallback
    /\ UNCHANGED <<dma, dmar, ringVars, readIdx, writeIdx, parser, pvt, since>>

\* DMAR is set, and IDLEIE when the reception has not ended.
EnableRequests ==
    /\ pc = "request" /\ pc' = "reset"
    /\ dmar' = TRUE /\ idleIrq' = toIdle
    /\ UNCHANGED <<dma, rxState, toIdle, errIrq, flag, uartError, ringVars, notifyVars,
                   readIdx, writeIdx, parser, pvt, since>>

\* As ReadIdxAfterArm, without the reset.
ReadIdxAfterArm_Kept == readIdx

\* read_idx when the ring starts again.
ReadIdxAfterArm == 0

ResetReadIdx ==
    /\ pc = "reset" /\ pc' = "wait"
    /\ readIdx' = ReadIdxAfterArm /\ since' = 0
    /\ UNCHANGED <<uartVars, ringVars, notifyVars, writeIdx, parser, pvt>>

\* xTaskNotifyWait
WaitReturns ==
    /\ pc = "wait" /\ notified
    /\ notified' = FALSE /\ note' = 0
    /\ writeIdx' = note % Ring
    /\ pc' = "check"
    /\ UNCHANGED <<uartVars, ringVars, readIdx, parser, pvt, since>>

\* As ErrorSeen, never looked at.
ErrorSeen_Never == FALSE

\* s_uart_error
ErrorSeen == uartError

CheckError ==
    /\ pc = "check"
    /\ IF ErrorSeen THEN uartError' = FALSE /\ pc' = "arm" ELSE pc' = "drain" /\ UNCHANGED uartError
    /\ UNCHANGED <<dma, dmar, rxState, toIdle, idleIrq, errIrq, flag, ringVars, notifyVars,
                   readIdx, writeIdx, parser, pvt, since>>

\* A turn of the drain, with process_frame, which hands a NAV-PVT to imu_task.
Drain ==
    LET b == ring[readIdx]
        whole == Returns(parser, b)
    IN /\ pc = "drain" /\ readIdx # writeIdx
       /\ parser' = Feed(parser, b)
       /\ pvt' = (whole /\ parser.cls = Frames[1][3] /\ parser.id = Frames[1][4])
       /\ since' = IF whole THEN 0 ELSE since + 1
       /\ ring' = [ring EXCEPT ![readIdx] = Read]
       /\ readIdx' = (readIdx + 1) % Ring
       /\ UNCHANGED <<uartVars, pos, wrapped, notifyVars, pc, writeIdx>>

Drained ==
    /\ pc = "drain" /\ readIdx = writeIdx
    /\ pc' = "wait"
    /\ UNCHANGED <<uartVars, ringVars, notifyVars, readIdx, writeIdx, parser, pvt, since>>

\* The interrupts come first.
StreamStep ==
    /\ boot = "stream" /\ ~wrapped
    /\ \/ Arm \/ EnableErrors \/ EnableRequests \/ ResetReadIdx
       \/ WaitReturns \/ CheckError \/ Drain \/ Drained
    /\ UNCHANGED <<bootVars, lineVars>>

\* What the processor does.
ProcessorStep ==
    \/ BootStep /\ UNCHANGED streamVars
    \/ StreamStep \/ TransferComplete

Next ==
    \/ ProcessorStep
    \/ ReceiverStep /\ UNCHANGED streamVars
    \/ LineError \/ Byte \/ Idle \/ Noise

\* The processor runs, and a configured receiver goes on sending; no fairness for
\* errors, for restarts and for what the receiver answers.
Spec == Init /\ [][Next]_vars /\ WF_vars(ProcessorStep) /\ WF_vars(Byte \/ Idle)

-----------------------------------------------------------------------------
(* What is checked.                                                        *)

\* Whatever events were overwritten and whenever errors came, the bytes not read
\* yet are those from read_idx up to the DMA's next index, and a drain reads none
\* but them: each byte is fed to the parser once and in order.
InStep ==
    pc \in {"wait", "check", "drain"} =>
        /\ Unread = {(readIdx + n) % Ring : n \in 0 .. ((pos - readIdx) % Ring) - 1}
        /\ pc = "drain" /\ readIdx # writeIdx => readIdx \in Unread

\* The longest the parser may take over a cut frame: a length field of any value,
\* then the rest of the frame it ends in, and the next one.
MaxResync == 6 + MaxLen + 2 + 2 * Max({Len(Frames[i]) : i \in DOMAIN Frames})

\* The parser finds a frame again within that many bytes, from any state and
\* wherever the stream was cut.
ResyncBounded == since <= MaxResync

\* A receiver that stays configured gets its fixes through to imu_task for ever,
\* after any errors on the line.
StreamRecovers == <>[]configured => []<><<pvt'>>_pvt

=============================================================================

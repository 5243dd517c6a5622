------------------------------ MODULE SpiRead ------------------------------
(***************************************************************************)
(* imu/lsm6dso32.c, read_regs: a register read by DMA, with what the HAL   *)
(* (stm32g4xx_hal_spi.c, stm32g4xx_hal_dma.c) does under it.               *)
(*                                                                         *)
(* imu_task starts the transfer and waits for a semaphore that the         *)
(* completion or the error interrupt gives, for 5 ms; on a timeout it      *)
(* aborts the transfer and drains the semaphore.  The interrupts may come  *)
(* between any two of its steps.                                           *)
(***************************************************************************)
EXTENDS Integers

VARIABLES
    link,       \* the wiring to the sensor: "good" or "bad"
    spi,        \* hspi1.State
    error,      \* hspi1.ErrorCode is set
    errIrq,     \* SPI_IT_ERR is enabled
    rxDma,      \* hdma_spi1_rx.State
    txDma,      \* hdma_spi1_tx.State
    done,       \* s_spi_done
    rx,         \* s_spi_rx: "stale", "partial" or "whole", for this read
    call        \* where read_regs is

spiVars == <<link, spi, error, errIrq, rxDma, txDma, done, rx, call>>

SpiTypeOK ==
    /\ link \in {"good", "bad"}
    /\ spi \in {"ready", "busy"}
    /\ rxDma \in {"ready", "busy"} /\ txDma \in {"ready", "busy"}
    /\ error \in BOOLEAN /\ errIrq \in BOOLEAN
    /\ done \in {0, 1}
    /\ rx \in {"stale", "partial", "whole"}
    /\ call \in {"idle", "wait", "timeout", "abort", "drain", "ok", "failed"}

SpiInit ==
    /\ link \in {"good", "bad"}
    /\ spi = "ready" /\ error = FALSE /\ errIrq = FALSE
    /\ rxDma = "ready" /\ txDma = "ready"
    /\ done = 0 /\ rx = "stale" /\ call = "idle"

-----------------------------------------------------------------------------
(* imu_task.                                                               *)

\* read_regs up to the wait: HAL_SPI_TransmitReceive_DMA, which leaves the
\* handle busy when a DMA channel does not start.
StartRead ==
    /\ call = "idle"
    /\ rx' = "stale"
    /\ IF spi = "busy"
       THEN call' = "failed" /\ UNCHANGED <<spi, error, errIrq, rxDma, txDma>>
       ELSE /\ spi' = "busy" /\ rxDma' = "busy" /\ txDma' = "busy"
            /\ IF rxDma = "busy" \/ txDma = "busy"
               THEN call' = "failed" /\ error' = TRUE /\ UNCHANGED errIrq
               ELSE call' = "wait" /\ error' = FALSE /\ errIrq' = TRUE
    /\ UNCHANGED <<link, done>>

\* xSemaphoreTake, then HAL_SPI_GetError and the copy.
Woken ==
    /\ call = "wait" /\ done = 1
    /\ done' = 0
    /\ call' = IF error THEN "failed" ELSE "ok"
    /\ UNCHANGED <<link, spi, error, errIrq, rxDma, txDma, rx>>

\* SPI_DMA_TIMEOUT_MS are over.
TakeTimesOut ==
    /\ call = "wait" /\ done = 0 /\ link = "bad"
    /\ call' = "timeout"
    /\ UNCHANGED <<link, spi, error, errIrq, rxDma, txDma, done, rx>>

\* HAL_SPI_Abort: the error interrupt and the Tx channel.
AbortTx ==
    /\ call = "timeout"
    /\ call' = "abort"
    /\ errIrq' = FALSE /\ txDma' = "ready"
    /\ UNCHANGED <<link, spi, error, rxDma, done, rx>>

\* As AfterAbort, for a HAL that leaves the handle as it is.
AfterAbort_Busy == spi

\* hspi1.State after HAL_SPI_Abort.
AfterAbort == "ready"

\* The rest of HAL_SPI_Abort: the Rx channel and the handle.
AbortRx ==
    /\ call = "abort"
    /\ call' = "drain"
    /\ rxDma' = "ready" /\ spi' = AfterAbort /\ error' = FALSE
    /\ UNCHANGED <<link, errIrq, txDma, done, rx>>

\* As Drained, without the zero-wait take.
Drained_Kept == done

\* s_spi_done after the zero-wait take.
Drained == 0

\* read_regs returns STATUS_TIMEOUT.
Drain ==
    /\ call = "drain"
    /\ done' = Drained
    /\ call' = "failed"
    /\ UNCHANGED <<link, spi, error, errIrq, rxDma, txDma, rx>>

ReadStep == StartRead \/ Woken \/ TakeTimesOut \/ AbortTx \/ AbortRx \/ Drain

-----------------------------------------------------------------------------
(* The interrupts.                                                         *)

\* HAL_DMA_IRQHandler of the Rx channel, SPI_DMATransmitReceiveCplt and one of
\* the two callbacks: the error callback when the end of the transaction is not
\* seen.  The Tx channel's interrupt has the same priority and is over too
\* before imu_task runs.
TransferComplete ==
    /\ rxDma = "busy"
    /\ rxDma' = "ready" /\ txDma' = "ready" /\ spi' = "ready"
    /\ errIrq' = FALSE
    /\ error' \in IF link = "bad" THEN {error, TRUE} ELSE {error}
    /\ rx' = "whole"
    /\ done' = 1
    /\ UNCHANGED <<link, call>>

\* HAL_SPI_IRQHandler for an overrun or a mode fault: both channels are aborted,
\* each calls SPI_DMAAbortOnError, and the semaphore is given (twice; it holds
\* one token).
TransferError ==
    /\ errIrq /\ spi = "busy" /\ link = "bad"
    /\ error' = TRUE /\ errIrq' = FALSE
    /\ rxDma' = "ready" /\ txDma' = "ready" /\ spi' = "ready"
    /\ rx' = "partial"
    /\ done' = 1
    /\ UNCHANGED <<link, call>>

Interrupt == TransferComplete \/ TransferError

\* The wiring fails and recovers.
LinkChanges ==
    /\ link' \in {"good", "bad"} \ {link}
    /\ UNCHANGED <<spi, error, errIrq, rxDma, txDma, done, rx, call>>

-----------------------------------------------------------------------------

\* A read that returns STATUS_OK returns what this transfer brought, all of it;
\* no token of an aborted or failed transfer is left to satisfy a later wait.
ReadIsFresh == call = "ok" => rx = "whole"

=============================================================================

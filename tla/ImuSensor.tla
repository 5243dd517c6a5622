----------------------------- MODULE ImuSensor -----------------------------
(***************************************************************************)
(* imu/imu_task.c with imu/lsm6dso32.c: the bring-up of the inertial       *)
(* sensor and the reads of the loop, over SpiRead.  The processor may be   *)
(* reset at any point; the sensor keeps its registers through it.          *)
(*                                                                         *)
(* While the bank of the sensor hub is selected (SHUB_REG_ACCESS), the     *)
(* addresses of WHO_AM_I and of the samples name other registers: a read   *)
(* succeeds and brings something else.  A write of a register may fail,    *)
(* and it may be lost without a failure: nothing answers on the bus.       *)
(***************************************************************************)
EXTENDS SpiRead, Sequences

CONSTANTS
    MagWrites,      \* the registers mag_write_reg writes: 3
    MaxPolls,       \* MAG_WRITE_POLL_MAX_ITERS
    MaxResets       \* bound: resets

ASSUME ImuAssumption == {MagWrites, MaxPolls, MaxResets} \subseteq Nat

VARIABLES
    stage,      \* where imu_task_main is: a place in BringUp, or past its end
    polls,      \* iters of mag_write_reg
    st,         \* st of mag_write_reg: STATUS_OK
    bank,       \* the sensor: its selected register bank
    odr,        \* the sensor: the accelerometer and the gyroscope run
    fault,      \* SYS_EVT_IMU_FAULT
    used,       \* what the last turn of the loop went on with
    lost,       \* history: what the sensor has not got, and the task does not know
    resets      \* resets so far

taskVars == <<stage, polls, st, bank, odr, fault, used, lost, resets>>
vars == <<spiVars, taskVars>>

-----------------------------------------------------------------------------
(* The bring-up: lsm6dso32_init, then lsm6dso32_mag_init, which is several *)
(* mag_write_reg and the set-up of the continuous read.  The writes in a   *)
(* row within one bank are one step.                                       *)

\* mag_write_reg
MagWrite == <<"open", "close", "poll", "open", "close">>

\* As ContinuousRead, staying in the hub's bank.
ContinuousRead_StaysOpen == <<"start">>

\* The end of lsm6dso32_mag_init.
ContinuousRead == <<"start", "close">>

\* The first n of the writes of lsm6dso32_mag_init.
MagConfig[n \in Nat] == IF n = 0 THEN <<>> ELSE MagConfig[n - 1] \o MagWrite

BringUp == <<"who_am_i", "ctrl">> \o MagConfig[MagWrites] \o ContinuousRead

Loop == Len(BringUp) + 1
At(place) == stage < Loop /\ BringUp[stage] = place

TypeOK ==
    /\ SpiTypeOK
    /\ stage \in 1 .. Loop /\ polls \in 0 .. MaxPolls
    /\ bank \in {"main", "shub"}
    /\ st \in BOOLEAN /\ odr \in BOOLEAN /\ fault \in BOOLEAN
    /\ used \in {"none", "sample", "junk"}
    /\ lost \subseteq {"ctrl", "close"}
    /\ resets \in 0 .. MaxResets

Init ==
    /\ SpiInit
    /\ stage = 1 /\ polls = 0 /\ st = TRUE
    /\ bank = "main" /\ odr = FALSE
    /\ fault = FALSE /\ used = "none" /\ lost = {} /\ resets = 0

Reads == stage = Loop \/ At("who_am_i") \/ At("poll")

\* read_regs has returned.
Returned ==
    /\ call \in {"ok", "failed"}
    /\ call' = "idle"
    /\ UNCHANGED <<link, spi, error, errIrq, rxDma, txDma, done, rx>>

\* The answer to WHO_AM_I is that of the sensor.
Identified == call = "ok" /\ bank = "main"

\* lsm6dso32_init up to WHO_AM_I.  imu_task enters its loop in any case.
WhoAmI ==
    /\ At("who_am_i") /\ Returned
    /\ IF Identified THEN stage' = stage + 1 /\ UNCHANGED fault
                     ELSE stage' = Loop /\ fault' = TRUE
    /\ UNCHANGED <<polls, st, bank, odr, used, lost, resets>>

\* What may become of a write_reg: what it returns, and whether the sensor has got
\* it.  HAL_SPI_Transmit refuses a busy handle and fails when the peripheral does
\* not come to an end, with the write sent or not; a sensor that is not connected
\* it does not notice.
Written ==
    IF spi # "ready" THEN {[ok |-> FALSE, landed |-> FALSE]}
    ELSE IF link = "good" THEN {[ok |-> TRUE, landed |-> TRUE]}
    ELSE [ok : BOOLEAN, landed : BOOLEAN]

\* The three writes of lsm6dso32_init: the sensor runs with all of them.
Ctrl ==
    /\ At("ctrl") /\ call = "idle"
    /\ \E w \in Written :
         /\ odr' = (odr \/ w.landed)
         /\ stage' = IF w.ok THEN stage + 1 ELSE Loop
         /\ fault' = (fault \/ ~w.ok)
         /\ lost' = IF w.ok /\ ~w.landed THEN lost \union {"ctrl"} ELSE lost
    /\ UNCHANGED <<spiVars, polls, st, bank, used, resets>>

\* The hub's bank is selected, then registers in it are written, as long as the
\* writes succeed.  The bank is closed in any case; but when the first write of
\* the continuous read fails, lsm6dso32_mag_init returns at once.
OpenHub ==
    /\ call = "idle"
    /\ \E w \in Written, rest \in Written :
         /\ bank' = IF w.landed THEN "shub" ELSE bank
         /\ st' = (w.ok /\ rest.ok)
         /\ \/ /\ At("open") \/ (At("start") /\ w.ok)
               /\ stage' = stage + 1 /\ UNCHANGED lost
            \/ /\ At("start") /\ ~w.ok
               /\ stage' = Loop
               /\ lost' = IF w.landed THEN lost \union {"close"} ELSE lost
    /\ UNCHANGED <<spiVars, polls, odr, fault, used, resets>>

\* The write that selects the main bank again; what it returns is not looked at.
CloseHub ==
    /\ At("close") /\ call = "idle"
    /\ \E w \in Written :
         IF w.landed THEN bank' = "main" /\ lost' = lost \ {"close"}
                     ELSE UNCHANGED bank /\ lost' = lost \union {"close"}
    /\ stage' = IF st THEN stage + 1 ELSE Loop
    /\ UNCHANGED <<spiVars, polls, st, odr, fault, used, resets>>

\* As MorePolls, one more.
MorePolls_OneMore == polls <= MaxPolls

\* iters has not reached its bound.
MorePolls == polls < MaxPolls

\* mag_write_reg polls STATUS_MASTER: the write is done, or not yet.  To give it
\* up costs the magnetometer only.
Poll ==
    /\ At("poll") /\ Returned
    /\ \/ call = "ok" /\ stage' = stage + 1 /\ polls' = 0
       \/ call = "ok" /\ MorePolls /\ stage' = stage /\ polls' = polls + 1
       \/ (call = "failed" \/ ~MorePolls) /\ stage' = Loop /\ polls' = 0
    /\ UNCHANGED <<st, bank, odr, fault, used, lost, resets>>

\* A turn of the loop: fusion goes on with what was read, or the turn is over.
Turn ==
    /\ stage = Loop /\ Returned
    /\ used' = IF call = "failed" THEN "none"
               ELSE IF bank = "main" /\ odr THEN "sample" ELSE "junk"
    /\ UNCHANGED <<stage, polls, st, bank, odr, fault, lost, resets>>

\* A reset of the processor: the watchdog, the reset pin, a new program.
Reset ==
    /\ resets < MaxResets /\ resets' = resets + 1
    /\ spi' = "ready" /\ error' = FALSE /\ errIrq' = FALSE
    /\ rxDma' = "ready" /\ txDma' = "ready"
    /\ done' = 0 /\ rx' = "stale" /\ call' = "idle"
    /\ stage' = 1 /\ polls' = 0 /\ st' = TRUE /\ fault' = FALSE /\ used' = "none"
    /\ lost' = {}
    /\ UNCHANGED <<link, bank, odr>>

ImuTask ==
    \/ Reads /\ ReadStep /\ UNCHANGED taskVars
    \/ WhoAmI \/ Ctrl \/ OpenHub \/ CloseHub \/ Poll \/ Turn

Next ==
    \/ ImuTask
    \/ Interrupt /\ UNCHANGED taskVars
    \/ LinkChanges /\ UNCHANGED taskVars
    \/ Reset

\* imu_task has the highest priority, and a transfer over good wiring ends; no
\* fairness for what the wiring does and for resets.
Spec ==
    /\ Init /\ [][Next]_vars
    /\ WF_vars(ImuTask) /\ WF_vars(TransferComplete /\ UNCHANGED taskVars)

-----------------------------------------------------------------------------
(* What is checked.                                                        *)

\* Between reads nothing is in flight: whatever the order of the timeout, the
\* abort and the interrupts was, the handle and both channels are ready, no
\* interrupt can come any more, and the semaphore is empty.
QuietBetweenReads ==
    call \in {"idle", "ok", "failed"} =>
        spi = "ready" /\ rxDma = "ready" /\ txDma = "ready" /\ ~errIrq /\ done = 0

\* What is not a sample of the running sensor gets into fusion only while
\* IMU_FAULT is published, as after a reset that left the sensor hub's bank
\* selected or when WHO_AM_I could not be read or a control register not be
\* written; or else without it because a write got lost that the driver does not
\* look after: a control register's that returned STATUS_OK, or the last one that
\* closes the hub's bank, whose status is ignored, or which is not made when the
\* one before it failed.  Failures elsewhere in the bring-up, and earlier losses
\* that a later write made good, let no junk in.
JunkIsFlagged == used = "junk" => fault \/ lost # {}

\* With good wiring from some time on, reads stop failing: no timeout, error or
\* abort leaves the driver or the HAL in a state that refuses every transfer.
ReadsRecover == <>[](link = "good") => <>[](call # "failed")

=============================================================================

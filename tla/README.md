# A TLA+ model of the GPS node firmware

The firmware (`SUFST/`, C, FreeRTOS on an STM32G431) runs in a race car. It
fuses a u-blox receiver with an IMU, times laps and sectors against virtual
gates, keeps the gates and a magnetometer calibration in flash, and broadcasts
everything on CAN. This directory holds its specification in TLA+, the runs
that check it with TLC and the theorems that TLAPS proves about it.

## 1. The system

Five tasks, and the interrupts that wake them:

| Task (priority) | File | State it owns | Work |
|---|---|---|---|
| `imu_task` (6) | `imu/imu_task.c` | `s_stored_gates`, `s_frame_origin_set`, the gates of `gates.c`, `laptimer.c`, `kf6.c`, `ahrs.c`, `mag_cal` | once per IMU sample (104 Hz): read the sensor, fuse, take a fix, apply gate commands, time the lap, publish |
| `gps_task` (5) | `gps/gps_task.c` | UBX parser, `read_idx` of the DMA ring, the two observations of `timebase.c` | parse the stream, pair PPS edges with NAV-PVT, forward fixes and time marks |
| `can_task` (3) | `canbus/canbc_task.c` | rota slot, send counters, round-robin index | every 10 ms: send what is due, lap events, dispatch commands |
| `aux_task` (2) | `nmea/aux_task.c` | enabled NMEA sentences | write NMEA at every fix |
| `sys_task` (1) | `sys/sys_task.c` | button automaton, `next_sector`, `want_compact` | watchdog, button, LEDs, temperature, compaction of the flash store |

They meet in queues (`sys/app.c`; every send has a zero timeout and an ignored
result, so a full queue drops what comes), in one mutex-protected record of
what is broadcast (`canbus/canbc.c`), in the I2C mutex, and, without any lock, in
`timebase.c` (written by `gps_task`, read by `imu_task`) and `flash_store.c`
(appended to by `imu_task`, compacted by `sys_task`).

`imu_task` has the highest priority. It blocks where it waits for a sample, where
it reads the sensor (on the SPI semaphore, 5 ms at most; `SpiRead`), in the delays
of its bring-up, and on the canbc mutex, for at most the copy of a record. It
does not block inside its handlers of gates, fixes and flash but for that mutex, so
to every other task one of these is a single step. Only a reset splits it, and a
handler that writes flash twice is split there in the model.

### Components, their hard behaviours and what makes them correct

* **Flash store** (`persist/flash_store.c`): two pages, a log of 32-byte
  records, newest wins; a compaction rewrites the live keys into the spare page
  and then erases the old one. Hard: resets between and inside flash
  operations, failing operations, an append that preempts a compaction, a
  compaction before the store has booted. Correct when callers cannot tell it
  from a table that takes every save whole and keeps it.
* **Gate table** (`laptimer/gates.c`, `imu_task.c`, `sys_task.c`, `canbc.c`): four
  copies of one table updated by separate calls. Hard: resets between the two
  records of a start/finish line, a full page, commands before the first fix,
  button state that outlives or forgets the table. Correct when the copies agree
  and no copy mixes gates of two layouts.
* **Lap timer** (`laptimer/laptimer.c`): Hard: the end of the GPS week, time that
  is misread, several crossings in a sample. Correct when laps are counted and
  timed right and the events on the bus add up.
* **Timebase** (`fusion/timebase.c`, `gps_task.c`): PPS edges paired with NAV-PVT
  messages into a tick-to-iTOW mapping. Hard: edges paired late, unlocked reads,
  counter rollover. Correct when the mapping is right again after each good edge.
* **CAN broadcast** (`canbus/`): rota, bounded wait for a mailbox, counters that
  tell the receiver of drops, gates sent one per turn. Correct when every entry
  is sent at its rate, a gap in the counter is a drop, and a dash ends up with the
  table.
* **GPS stream** (`gps/gps_task.c`, `gps/ubx.c`, `gps/gps_config.c`): DMA ring,
  notifications that overwrite each other, error recovery, a byte automaton, a
  configuration with retries. Correct when a good frame after noise is found and
  the ring is read in order.
* **IMU driver** (`imu/lsm6dso32.c`): SPI DMA with a completion callback and a
  time-out, and a register bank that outlives a reset and a lost write. Correct
  when a late completion is never taken for the next one, and no other register is
  taken for a sample.
* **Kalman filter** (`fusion/kf6.c`): a history ring and a rewind to the epoch of
  a fix. Correct when the rewind replays each stored step once, from the right one.
* **Magnetometer calibration** (`imu/mag_cal.c`): quality that rises and falls with
  coverage and course checks.
* **Pure arithmetic** (`can_pack.c`, `geodesy.c`, `ahrs.c`, `nmea_out.c`): no
  control state.

`PROJECT.json` lists the components with their status and every hazard at the
line where it bites.

## 2. The modules

| Module | Models | Uses |
|---|---|---|
| `DurableStore` | what `flash_store.h` promises: an atomic, durable table | |
| `FlashStore` | `flash_store.c` with both tasks that call it, flash errors and resets | refines `DurableStore` |
| `GateTable` | the gate table and its copies, the button, the gate commands | the flash table is a `DurableStore` |
| `LapTimer` | `laptimer.c` in one iteration of `imu_task`, lap events, lap status | |
| `Timebase` | `timebase.c` and `handle_nav_pvt`: pairing of edges, the map, torn readings | |
| `SpiRead` | `read_regs` of `lsm6dso32.c` with the SPI and DMA drivers of the HAL under it | |
| `ImuSensor` | bring-up of the inertial sensor and the reads of the loop, resets | extends `SpiRead` |
| `FixHistory` | the history ring of `kf6.c` and its rewind, as `imu_task` drives it | |
| `CanBus` | `canbc_task.c`, the mirror, the transmit FIFO, a listening dash | |
| `UbxParser` | `ubx.c`: parser and frames | |
| `GpsBoot` | `gps_config.c` over I2C, the receiver, its restarts and late answers | |
| `GpsTask` | after `GpsBoot`, the stream: UART, DMA ring, notifications, errors, re-arming | extends `GpsBoot` and `UbxParser` |
| `MC...` | constants of the TLC runs | |
| `...Proofs` | theorems about `FlashStore`, `GateTable`, `LapTimer`, `ImuSensor`, `FixHistory`, `CanBus`, `GpsTask` | extend the module they are named after, and `NatFacts`; `GpsTaskProofs` extends `Timebase` too |
| `NatFacts` | induction and recursion over naturals, remainders | TLAPS |

### FlashStore

State: the two pages (`page`, the only variable a reset spares), `s_active_page`
(`active`), whether `flash_store_init` has run (`ready`), and the progress of
`flash_store_erase_and_compact`: `phase`, `spare`, what its first loop read
(`snap`), the keys still to be written (`todo`) and `write_offset` (`next`).
A record is a key and a value; a cell is erased, torn or a record. What a torn
record, a blank one and an index out of range do is kept, the CRC is not
computed.

Steps: `FlashStoreInit`, `FlashStoreAppend` (all four saves; atomic, since
nothing preempts `imu_task`), and one action per flash operation of the
compaction, between which `imu_task` may run: `BeginCompaction` (the replay loop
and the capacity check; the loop reads a page whose earlier cells no append
changes, and an append behind or ahead of it is the same as one after or before
it), `EraseSpare`, `RewriteRecord`, `EraseActive`, `SwitchActive`. `Reset` may come in
any state, and cuts short any operation that could be under way: a torn record,
an erase that did everything, nothing or a part. Interleaved HAL lock and unlock
calls of the two tasks can at worst make a program fail, which is the
`program_error` behaviour.

What the environment may do besides is a constant, `Admit`, so that each run and
each theorem says which of the awkward behaviours it leaves out: flash errors,
partial erases, resets in the state where the boot rule fails (`StaleTie`), appends
during a compaction, a compaction before the boot. When a compaction is
triggered (CONFIG_SAVE, speed below 0.5 m/s) is left to the environment.

### GateTable

State: the lines of `gates.c`, `s_stored_gates`, the flash table (`saved`), the
mirror in `canbc.c` (`bus`), the origin flag, the command queue, `next_sector`, and
the room left in the flash page. A gate's position and heading are a stamp, the
number of gates set so far, so that two gates can be told apart and ordered.
Commands come from the button (all presses) and from the bus (a chosen set, with
indices out of range). `half` is the point between the two flash records of a
start/finish line; only a reset can come there. A record may be refused, because
the page is full or because its program or the check after it fails, in which case
the slot it was for is torn or still erased. Of the two records of a line, each
may be refused by itself. History variables: `unsaved`, that a record has been
refused since the boot; `kept`, that this was one that should have cleared
start/finish, until one is written; and `line`, the start/finish line that stood
when a gate was set, from which the mixing of two layouts shows whatever the
order of the stamps.

The flash table is `DurableStore`, which `FlashStore` implements where its runs
say so; losing the table to a tie or an overlap is the subject of those runs and
not repeated here.

### LapTimer

State: `s_state` of `laptimer.c`, the previous reading of the timebase, what was
published and sent in this sample. Every sample reads the true time or a wrong
one (`Misread`); between two samples any set of gates is crossed, each at any
moment, in the order the code looks at them. History variables hold the true
time, whether the running lap began at a good reading, and what the sector
events add up to.

### Timebase

State: the time of week, the tick counter, the flag and tick that the PPS
interrupt leaves, the NAV-PVT messages under way, where `gps_task` is in
`handle_nav_pvt`, and the two observations. `gps_task` takes an edge in two steps
(read the tick, clear the flag), so that the interrupt can come between, and
stores the observations in a third. `imu_task` preempts it anywhere among those
stores; since it never stores anything itself, it is not a process but the set
`Views` of what it may find: every mixture of old and new words, because the
observations are plain statics and the compiler may order their stores. A pulse
may be missing and a message may be lost or up to `MaxDelay` late. History
variables hold the age of each observation and the time since the last message.
Its specification is `TimeSpec`, `TimeInit` and `TimeNext`, named apart from those of
`GpsTask` because one module of proofs extends both.

Time goes by in milliseconds. In each the oscillator makes `Rate` ticks, while the
code takes `NominalRate` for granted until it has two observations; the
conversions are those of the code, with its ratio of the spans and its integer
division. The rate is constant: what changes it from second to second, and the
16-bit halves of the tick, are left out.

### SpiRead and ImuSensor

State of `SpiRead`: what the HAL keeps (the handle, both DMA channels, the error
code, whether the error interrupt is on), the semaphore `s_spi_done`, what is in
`s_spi_rx`, where `read_regs` is, and whether the wiring is good. `read_regs` is
cut at every point where an interrupt can matter: after the start, at the
timeout, between the two halves of `HAL_SPI_Abort`, before and after the
zero-wait take. `TransferComplete` and `TransferError` may come in any of these.

`ImuSensor` puts this into `lsm6dso32_init`, `lsm6dso32_mag_init` and the loop.
Of the sensor it keeps the register bank that is selected and whether it runs,
because both outlive a reset of the processor. Register writes go by polling
and are one step for a row of writes in one bank. Over bad wiring each may return
success or not, and reach the sensor or not (`Written`); what follows is that of
the code: the early returns of the control registers (`Ctrl`), the hub's bank
opened and written as long as the writes succeed (`OpenHub`), and closed in any
case with its status ignored (`CloseHub`). The history variable `lost` keeps what
the sensor has not got without the task knowing. A write meant for the hub that
comes to the main bank because the one that opens the hub was lost is not
followed: it changes filter settings, not whether the sensor runs.

### FixHistory

State: the estimate, the ring of `kf6.c`, the origin flag, the time. An
estimate is the sequence of predict steps and corrections that made it, so
that a step dropped or repeated by the replay, or a correction put at the wrong
step, shows. The tick wraps at `TickMod`; fixes have any of the given ages,
older than the ring too; the innovation gate accepts or rejects. One turn of
the loop is one action: nothing preempts `imu_task`.

### CanBus

State: the mirror as a version of each field, the lap event queue, the slot, the
entry of the rota the task is at, its wait, its lag behind `last_wake`, the
counters, `rr`, the transmit FIFO, and what the dash has received. The task's
own work takes no time; a tick passes only while it sleeps or waits. Producers
and the bus change only then, since what they do in between is the same as
before or after. The bus may be stuck for any time. A rota of three entries
stands for that of the firmware; the assumption on constants checks that the
firmware's own (`FirmwareRota`, 324 frames a second, 972 ms of waits in the worst case)
and the model's both fit their round, which is what keeps the lag bounded.

### UbxParser, GpsBoot and GpsTask

`UbxParser` feeds real bytes, with a computed checksum; a byte has two bits in
the run. `GpsBoot` is `gps_config_run_boot_sequence`: where it is, its attempts, the
requests the receiver has not answered and the answers not read. The receiver
answers late or never, refuses, acknowledges without effect, and may restart
during the boot; an earlier boot may have left it configured and with answers
in its output.

`GpsTask` goes on from there. State: the UART and DMA registers and driver
states that the re-arming touches, the ring and the DMA's index, the pending
wrap interrupt, the task's notification and its value, `s_uart_error`,
`read_idx`, `write_idx`, the parser. `HAL_UARTEx_ReceiveToIdle_DMA` is three steps
(`Arm`, `EnableErrors`, `EnableRequests`), between which bytes come and errors are
raised; `read_idx` is reset in a fourth. The enabling of DMA requests and of the
idle interrupt is one of these steps, though a few instructions lie between:
an overrun just there would end the reception and leave an idle interrupt that
nobody clears, until the watchdog resets the processor. The ring marks bytes already read, so
that reading one twice or skipping one shows. A frame is a NAV-PVT without a
payload; the line is idle after each. The task has dealt with an event before
the next frame begins, which its priority gives at 20 fixes a second.

Two behaviours are admitted by the constant `Admit`. `"overrun"`: bytes that come while
nobody reads the UART (before the first arming, or between an error and the
re-arm; a byte lasts 87 microseconds) leave its overrun flag set. This is no rare
case: a reset of the processor alone finds a receiver that is already sending.
`"stale_event"`: an event and an error both come in the few instructions between the
return of the wait and the look at `s_uart_error`. What the passing run shows
therefore holds of streams in which neither happens; `gps_rearm` shows what the
first does, and the second is described under the hazards in `PROJECT.json`.

## 3. What TLC checks

| Run | Bounds | Shows |
|---|---|---|
| `flash_store` | 3 slots, 2 gates and a calibration, one value, everything admitted but an early compaction | the log is well formed, a complete rewrite equals what was read, newest wins, cells are programmed once, boots repeat; the inductive invariant of the proofs |
| `flash_durable` | the same sizes; gate clears and a stray index; flash errors; no overlap, tie or partial erase | `FlashStore` implements `DurableStore` |
| `flash_tie` | as above | finding: a reset during a compaction into page 0 loses the table |
| `gate_table` | 3 gates, queue of 2, 4 slots, 4 gates set, 1 reset, any record refused | the copies agree unless a record was refused; no layouts are mixed unless a clear of the line was |
| `gate_early_clear` | as above | finding: a gate cleared before the first fix comes back |
| `lap_timer` | a week of 5 ms, 3 gates, laps of at least 2 ms, 2 laps, 2 sectors a lap, steps of 1 or 2 ms, 2 gates a sample, misreadings of 0 | laps are counted and timed right; events add up |
| `timebase` | seconds of 4 ms, a week of 6 s, 3 ticks in a ms where the code counts on 2, the tick wraps with the week; messages up to half a second late; at most 2 s without a message, at most two pulses missing in a row; two boot times | edges are paired with their second while messages flow; with right observations the map gives the time to less than a ms and the tick exactly, around both wraps, and with only one the error grows by the drift; a torn read is off by at most twice the age of the replaced edge |
| `imu_sensor` | 3 register writes of the magnetometer, 2 polls each, 2 resets | a read that succeeds is fresh; nothing is in flight between reads; junk is flagged unless a write was lost that nobody looks after; reads recover with the wiring |
| `fix_history` | a ring of 3, ticks modulo 32 that wrap in mid-run or not, gaps of 1 and 2, ages of 0, 1 and 4, 5 steps, 4 corrections | steps stay in order, corrections are at their epoch, and only older epochs take others back |
| `can_bus` | 3 entries over 4 slots of 2 ticks, waits of 1, a FIFO of 2, 2 gates, counters modulo 3, 1 change, 1 lap event | gaps tell drops; the lag is bounded; the dash catches up |
| `gps_task` | bytes of 2 bits, a frame of 8, a ring of 17, 2 attempts, 1 restart, 2 line errors | no false success; bytes in order; bounded resynchronisation; fixes for ever |
| `gps_rearm` | no line error, overruns admitted | finding: an overrun in the middle of the arming ends the stream |

Three slots are the least that hold every key of two gates and a calibration: the
page is full after three appends, so full pages, compactions that reclaim
nothing and torn slots that take the place of a record all occur. Two gates
suffice because records of different gates never interact except through a
clear-all. One value is enough to see a value lost or revived; the theorems are
for any number. Four stamps let a
start/finish line, a sector, a second line and a second sector be set, which is
what it takes to put an old line and a new sector in one copy. In a week of 5 ms
with laps of 2 ms and more, every lap position relative to the end of the week occurs, and a lap after a lap.

Seconds of four tell a message in the first half of a second from one in the
second half, which is all that rounding distinguishes. The week and the tick's
range need only exceed twice the oldest age that the properties look at
(`MaxAge`, 11 ms, two edges and the longest delay; 33 ticks of the 72); the two boot
times put the end of the week and the tick wrap in different places of the run.
With three ticks in a ms two of three readings are cut by the division, on both
sides of an observation, and a swapped ratio or the nominal rate in its place
shows at the first.

The driver of the IMU has no counters but the polls: one poll that is not the
last and the last are all there are, and two resets let a second one meet what
the first left in the sensor. In `can_bus` the worst slots take seven of the
round's eight ticks, so the lag grows, is caught up, and would grow for ever with
a wait one longer; a FIFO of two and counters modulo 3 make full FIFOs and wrapped
counters common. The ring of 17 bytes is the least above two frames of 8, so that
a frame lies across its end and the wrap interrupt meets every byte of it; the
length field of a misread frame reaches its maximum of 15. Two line errors let the
second one come anywhere in the recovery from the first.

Every property has a mutant, a plausible bug in one definition
(`Apply_IgnoresClearAll`, `GatesSet_KeepsSectors`, ...) defined just above the
definition, under which TLC finds the property violated.

### Fairness

The flash, gate, lap, timebase and history modules state none: their properties
are about safety. The others:

* `ImuSensor`: weak fairness of `imu_task`, which has the highest priority, and of
  `TransferComplete`, the end of a transfer that the DMA has begun. None for
  `TransferError`, the wiring and resets. `ReadsRecover` says so itself: it is
  about behaviours in which the wiring stays good.
* `CanBus`: weak fairness of the task, of the tick, and of a bus that is up.
  Nothing makes a stuck bus recover; `DashCatchesUp` assumes that it does.
  The tick cannot run while a bus that is up has a full FIFO, because a frame
  takes a fraction of a tick, as the comment at `canbc_task.c:121-127` has it.
* `GpsTask`: weak fairness of the processor, which takes the task's steps and
  the wrap interrupt, and of the bytes of a receiver that is configured. None for
  errors, for restarts and for what the receiver answers.

## 4. What TLAPS proves

Each `...Proofs` module states its results after the inductive invariant they
rest on. They hold for all constants that satisfy the module's assumptions:
any number of slots, gates, mailboxes, polls, samples, restarts. Where a theorem
needs more, the condition is a named definition and a hypothesis of the theorem;
the run of the same property satisfies it.

### FlashStore

| Theorem | States | Needs |
|---|---|---|
| `TypeCorrect` | `TypeOK` | |
| `RestoreReadsNewest` | `ReplayIsNewestWins` | |
| `LogInvariant`, `LogIsPrefix` | `LogInv`, used slots are a prefix | `NoEarlyCompaction` |
| `FlashProgrammedOnce` | `NeverRewritten` | `NoEarlyCompaction` |
| `AppendsAreNewest` | `NewestWins` | `NoEarlyCompaction` |
| `RewriteIsLossless` | `RewriteMatchesSnapshot` | `NoEarlyCompaction` |
| `CompactionIsTight` | `CompactionReclaims` | `NoEarlyCompaction` |
| `BootRepeats` | `RecoveryIsStable` | `NoEarlyCompaction` |
| `ResetsAreSafe` | `OnlyTieLosesData` | and `NoOverlap` |
| `ImplementsDurableStore` | `FlashStore` implements `DurableStore` | and `WholeErase`, `NoTieReset` |

`LogInv` adds to the types that used slots are a prefix of each page, that a
compaction works on the page that is not active, that the spare is written
exactly up to `next`, and that it holds exactly one record of each key written
so far. None of these is inductive alone: that a rewrite hits an erased slot
needs `SpareWritten`, which needs the prefix, and what the spare replays to needs
that no key was written twice.

`CrashInv` adds what relates the two pages while a compaction and `imu_task` take
turns: until the commit the snapshot is what the active page replays to; after
it the old page is blank or, if its erase failed, complete; and a spare with
records never shadows an active page without one. It gives `OnlyTieLosesData`:
between any two flash operations the pages as they stand recover the saved table,
as long as none was cut in part and outside the tie. A reset inside an operation is
not part of that. With whole erases and no tie the invariant gives the refinement,
resets inside an operation included: a step of the compaction changes nothing in
the abstract table, an append is one operation of it, a reset none.

`RestoreReadsNewest` is an induction over the slots of a page: the loop of
`flash_store_restore` computes for each key its newest valid record. The other
results use the closed form, `Replay`.

The four conditions are the awkward behaviours of the environment, each left out
for a reason the model shows: a compaction before `flash_store_init` works on page 0
whichever page holds the table (`NoEarlyCompaction`); an append into a running
compaction is erased with its page (`NoOverlap`); an erase cut short may leave an
old record alone in its page (`WholeErase`); and a reset in the tie is the finding of
`flash_tie` (`NoTieReset`).

### GateTable

`GateInvariant` is the inductive invariant: types, a stamp for each command that
waits, no line before there is an origin, no sectors between the two records of a
start/finish line, `MirrorIsLive` and `NoMixedLayout`. From it `TypeCorrect`,
`MirrorTracksTable` (`MirrorIsLive`) and `LayoutsNeverMix` (`NoMixedLayout`), with
resets, stray indices, full pages and flash errors at either record of a line.
`NoMixedLayout` says nothing while a record that should have cleared start/finish
stands refused (`kept`): then the code does mix layouts. `FlashTracksTable`
(`SavedIsLive`) needs `NoEarlyClear`, as does `AnchorPlacesSavedGates`: without a clear
before the first fix, the anchoring of the frame places what flash has, so that
the trace of `gate_early_clear` needs one. It does not say that a cleared gate
cannot come back otherwise: one whose clear flash refused is there after a
reset.

### LapTimer

`LapInv` says of the running lap that it has lasted what the history variable says,
that what is published belongs to the last reading, and that the sectors
announced so far make up the lap until the sector that runs. `TypeCorrect`,
`RunningLapIsTrue` (`PublishedTrue`), `LapsAreTimedRight` (`LapTimesTrue`),
`LapsAreAnnounced` (`LapAnnounced`) and `SectorsMakeTheLap` (`SectorsAddUp`) follow, for a
week of any length, any misreading, and any number of gates. The loop over the
gates is a recursive function: what it does to the state is an induction over
the gates.

### ImuSensor

`ReadInv` lists what the handle, the two DMA channels, the semaphore and the buffer
can be at each place of `read_regs`: `ReadsAreFresh` (`ReadIsFresh`) and
`NothingInFlight` (`QuietBetweenReads`). `BringUpInv` says that the hub's bank is
selected only behind a write that opens it, or with a closing write in `lost`, and
that past the control registers the sensor runs, or their loss is in `lost`, unless a
fault is published: `FaultCoversJunk` (`JunkIsFlagged`). `TypeCorrect` combines them.
Any number of register writes, polls and resets.

### FixHistory

The invariant, `Inv`, says that there is an assignment `due` of a step to every
correction such that each entry that the ring holds, at its step modulo the
length of the ring, has the estimate of that step: all predict steps so far in
order, and after each the corrections that are due there and survive. The replay
loop of a rewind is a recursive function over the entries; an induction shows
that it leaves such a ring. `HistoryInvariant` states it, `TypeCorrect` and `RewindsKeepSteps`
(`StepsInOrder`) follow without any condition on ticks. `RewindsToItsEpoch`
(`FixAtItsEpoch`) and `LateFixesDiscardLater` (`OnlyOlderEpochsDiscard`) need
`HistoryInReach`: the ring spans at most half of the range of the tick, and fixes are
less than half of it old, so that signed differences of ticks order them. The
firmware's ring holds 16 samples, a sixth of a second, and half of its tick
is 35 minutes. TLC cannot evaluate `Inv` (its assignment has no bound); the
proof constructs it.

### CanBus

`TypeCorrect`: no FIFO or wait beyond its bound. `CountersTellDrops` (`GapFlagsDrops`) is
inductive with the types: for any depth of the FIFO and any modulus. `DelayIsBounded`
(`LagBounded`) rests on `LagInv`, an account: some slot less than a round ago the
task was on time, and since then each frame that was due and each lap event has
waited no longer than it may. That a round has the time for its own waits
(`RotaFits`, an assumption that TLC evaluates on the firmware's rota) lets the
account forget a whole round.

### GpsTask

`ConfigurationIsVerified` (`NoFaultIsConfigured`): a matching answer that is still to be
read is true, for any number of attempts, restarts and late answers. `DrainInStep`
(`InStep`) needs `OrderlyLine` (`Admit` is empty, as in the run): of nine registers, flags
and indices, `StreamInv` says which can be together, that the bytes not read are
those from `read_idx` to the index of the DMA, and that an event that counts is
no further than the DMA; the idle line, and two frames fitting the ring, bound the
distance.

`ResyncWithin` (`ResyncBounded`) needs `OrderlyLine`, and `FramesWellFormed`: the frames of
the receiver are what `ubx_frame_build` gives, of any class, any payload shorter
than `ByteMod`, in any number. An assumption on the constants, which TLC evaluates,
says that no frame has a pair of sync bytes inside; without it the parser might
start on such a pair for ever. `ResyncInv` adds to `StreamInv` that the bytes not
read are a piece of the line: there is a row of places (frame and byte), one
after the other as the receiver goes on, of which each unread byte is the
next, and the last comes before what the line sends now. The parser and the
first of these places are in one of three relations (`Parsing`): it is in the frame, with
the checksum of what it has read; it looks for the next frame and cannot miss
it; or it takes other bytes for a frame, for no longer than their length field
says. Each comes with what the count may still grow by. TLC cannot
evaluate `ResyncInv` as it stands (the row has no bound); for the run's one
frame, where there is only one row, it was checked in that form first.
`BuiltFrame` shows that the checksum loop of `ubx_frame_build` gives the frames that
the relations speak of, and `FramesAreReturned` that a parser fed such a frame
returns it at its last byte and at no other.

### Timebase

In `GpsTaskProofs`, for a week, a tick and a delay of any size that the assumption
allows. `TimeTypeCorrect` (`TimeTypeOK`) stands alone; the others rest on `PairingInv`:

* `StreamAges`: the messages under way are at most `MaxDelay` old and in order;
* `EdgeOK`: an edge comes when a second begins, and the tick kept of it is that of
  its age;
* `Fresh`, `Taking`: while messages flow, the edge that is pending, and the one
  that `gps_task` has in hand between reading the tick and storing, are no older
  than the time since the last message was handled.

The pairing alone is not inductive: whether a message's `itow` rounds to the second
of the edge depends on how old both are. When messages are handled in time the edge
is less than half a second old and the message at most half a second late, so
that it rounds to the edge's second (`RoundedToTheEdge`), and `EdgesPaired`
(`PairedWhenFlowing`) follows.

`MapKeepsTime` (`MapTracksTime`) needs one more invariant, `Newer`: the edges that are
pending, in hand, in `s_last` and in `s_prev` are each older than the one before it,
as far as their ages are told apart, so that the spans between the two
observations are positive. The signed differences modulo the week and modulo the
tick are then those of the ages, because no age that the property looks at
reaches half of either (`OnTheMap`); an integer quotient is off by less than one
(`QuotientClose`), and the span in ms cancels as a factor of both sides
(`CommonFactor`). From ticks to ms this leaves less than a ms, from ms to ticks
nothing, since the division then comes out even; with one observation the drift of
the rate is multiplied by the time since. Any rate within a factor of two of the
nominal one.

`TornReadsBounded` (`TornReadBounded`) takes every mixture of old and new words: each
word is that of one of three edges, one or two seconds apart. The rate that the
words make is at most twice the true one, and so is the nominal one.

### NatFacts

The theorems of the library on induction take an operator, which the provers
cannot instantiate. `NatFacts` states induction of a set (`SetInduction`,
`BoundedInduction`, `IntervalInduction`) and the recursion theorem of a function that
is given as one (`PrimitiveRecursion`, `BoundedRecursion`, `IntervalRecursion`), from which the loops above, all written as
recursive functions, are proved. It also has the remainders of indices that wrap.

### Only model-checked

* `StreamRecovers`, `ReadsRecover` and `DashCatchesUp`: liveness under fairness is out of the
  prover's reach.
* That the invariants above say something of the code is what the runs and their
  mutants show; `LogInv` is also an invariant of the run `flash_store`.

## 5. Findings

Each is a run that must be violated, quoted in `PROJECT.json`:

* `flash_tie`: a reset during a compaction from page 1 into page 0 makes the boot
  keep the half-written page.
* `gate_early_clear`: a gate cleared before the first fix comes back with it.
* `gps_rearm`: an overrun between two register writes of
  `HAL_UARTEx_ReceiveToIdle_DMA`, whose result `gps_task` ignores, leaves the DMA
  running without events, and no fix comes until the next reset, with no fault
  published.

Six more behaviours that the models contain and no run is spent on:

* An append of `imu_task` during a compaction of `sys_task` goes to the page that is
  about to be erased, and is lost (`flash_store.c:528`; `"overlap"` in `Admit`).
* A compaction before `flash_store_init` works on page 0 and erases page 1 as the
  spare (`flash_store.c:493`; `"early_compact"`).
* `next_sector` of the button starts at 1 after every reset, so the first short
  press moves sector 1 of a restored layout (`sys_task.c:97`).
* The write that selects the main bank again is the last of `mag_write_reg` and of
  `lsm6dso32_mag_init`, its status is ignored (`lsm6dso32.c:302`, `331`, `383`), and it is
  not made at all when the one before the continuous read fails (`356`). When it
  gets lost, the hub's bank stays selected, against the comment at `278-279` ("Leaves
  FUNC_CFG_ACCESS cleared (main bank) on return either way"), and junk gets into
  fusion with no `IMU_FAULT` (`lost` in `JunkIsFlagged`).
* A refused clear-all followed by an accepted gate 0 leaves the sectors of the
  last layout in flash with the new line (`imu_task.c:165-167`; `kept`).
* An edge that waits half a second or more for a NAV-PVT is paired with the second
  after its own (`gps_task.c:44-51`), once or, after a gap, twice.

## 6. Plan

Every safety property of a passing run is a theorem too. What is left is to
model more: the 16-bit halves of the tick (the update interrupt and the retry of
`timebase_get_tick`), the duplicate test of TIM-TM2, and the receive interrupt of
the CAN controller with the queues of the other commands.

## 7. Not modelled

* Floating-point arithmetic: the geometry of gate crossings, projection,
  attitude, the matrices of the Kalman filter, the fit of the magnetometer
  calibration. The control that surrounds it is modelled where there is any
  (which crossing, when the origin is set, which step a correction goes to).
* The magnetometer calibration: its quality rises and falls with the numbers of
  the fit, so without them its control is a free choice.
* Packing of CAN frames and NMEA sentences: pure functions, tested on the host.
* LEDs, board temperature, the load and uptime counters, the watchdog itself.
* Time, except where a module has ticks: that probes of a receiver that refuses
  its address are over in milliseconds (`gps_config.c:116`), and that a rate of
  NMEA sentences can keep `aux_task` busy and starve `sys_task`, are outside.
* A restart of the receiver after the boot: the code does not notice it, and
  the stream stays at the wrong rate until the next boot.
* Vendor code (`Drivers/`, `Middlewares/`) other than the functions that `SpiRead`
  and `GpsTask` name: most of the repository by lines, none of its own logic.

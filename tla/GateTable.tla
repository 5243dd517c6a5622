------------------------------ MODULE GateTable ------------------------------
(***************************************************************************)
(* The gate table and its copies: the lines that gates.c times against,    *)
(* the table in flash, the mirror in canbc.c that can_task broadcasts from *)
(* and, until the first fix, s_stored_gates, the flash table as it was at  *)
(* boot.                                                                   *)
(*                                                                         *)
(* imu_task owns the table and has the highest priority, so a command is   *)
(* handled in one step to every other task.  To a reset it is not: setting *)
(* start/finish writes two flash records and a reset may fall between      *)
(* them.  sys_task (lap button, compaction) and can_task (commands from    *)
(* the bus) run between the commands.                                      *)
(*                                                                         *)
(* A gate's position and heading are a stamp: the number of gates that had *)
(* been set up to then.  No two gates that were set are the same, and of   *)
(* two the one with the greater stamp was set later.  The flash table is a *)
(* DurableStore, which FlashStore implements.                              *)
(***************************************************************************)
EXTENDS Integers, Sequences, FiniteSets

CONSTANTS
    MaxGates,       \* LAP_MAX_GATES: gate 0 is start/finish
    None,           \* an invalid slot
    QueueLen,       \* GATE_CMD_QUEUE_LEN
    MaxRoom,        \* FLASH_STORE_MAX_RECORDS
    CanCommands,    \* the gate commands that come in over CAN
    Button,         \* the presses of the lap button: "short", "long", "clear"
    EarlyClear,     \* whether a CLEAR may be handled before the origin is set
    MaxStamp,       \* bound: gates set in a behaviour
    MaxResets       \* bound: resets in a behaviour

ASSUME GateAssumption == MaxGates \in Nat /\ MaxGates >= 2
ASSUME BoundAssumption ==
    /\ QueueLen \in Nat \ {0}
    /\ MaxRoom \in Nat /\ MaxGates < MaxRoom
    /\ {MaxStamp, MaxResets} \subseteq Nat
ASSUME NoneAssumption == None \notin Nat

Gate == 0 .. MaxGates - 1
Sector == Gate \ {0}
Stamp == 1 .. MaxStamp
Table == [Gate -> Stamp \union {None}]
NoGates == [k \in Gate |-> None]

All == 255                      \* 0xFF, every gate, in a GATE_CLEAR
StrayIndex == MaxGates          \* stands for MaxGates .. 254
Command == [cmd : {"GATE_SET", "GATE_CLEAR"}, arg0 : Gate \union {StrayIndex, All}]

ASSUME CommandAssumption ==
    /\ CanCommands \subseteq Command
    /\ Button \subseteq {"short", "long", "clear"}
    /\ EarlyClear \in BOOLEAN

VARIABLES
    gates,          \* s_gates of gates.c
    stored,         \* s_stored_gates of imu_task.c
    saved,          \* the table in flash, with the calibration left at None
    bus,            \* gates[] of canbc.c
    up,             \* flash_store_init has run
    origin,         \* s_frame_origin_set, and canbc.c's origin_valid
    half,           \* start/finish is being set: clear-all done, gate 0 not
    queue,          \* g_gate_cmd_queue
    nextSector,     \* next_sector of poll_lap_button
    room,           \* erased slots left in the active flash page
    stamp,          \* gates set so far
    resets,         \* resets so far
    (* History, for the properties: nothing in the program depends on it. *)
    unsaved,        \* a record has been refused since the boot
    line,           \* the start/finish line (or 0) that stood as a gate was set
    kept            \* a record that clears start/finish has been refused

history == <<unsaved, line, kept>>
vars == <<gates, stored, saved, bus, up, origin, half, queue, nextSector,
          room, stamp, resets, history>>
imuVars == <<gates, stored, saved, bus, up, origin, half, room, stamp, history>>

\* The flash table; its key MaxGates, the calibration, is not used here.
Store == INSTANCE DurableStore WITH Value <- Stamp, kv <- saved

TypeOK ==
    /\ gates \in Table /\ stored \in Table /\ bus \in Table
    /\ saved \in [Store!Key -> Stamp \union {None}]
    /\ up \in BOOLEAN /\ origin \in BOOLEAN /\ half \in BOOLEAN
    /\ unsaved \in BOOLEAN /\ kept \in BOOLEAN
    /\ line \in [Stamp -> 0 .. MaxStamp]
    /\ queue \in Seq(Command) /\ Len(queue) <= QueueLen
    /\ nextSector \in Sector
    /\ room \in 0 .. MaxRoom
    /\ stamp \in 0 .. MaxStamp
    /\ resets \in 0 .. MaxResets

Init ==
    /\ Store!Init
    /\ gates = NoGates /\ stored = NoGates /\ bus = NoGates
    /\ origin = FALSE /\ half = FALSE
    /\ unsaved = FALSE /\ kept = FALSE /\ line = [s \in Stamp |-> 0]
    /\ queue = <<>>
    /\ nextSector = 1
    /\ room = MaxRoom
    /\ stamp = 0 /\ resets = 0

-----------------------------------------------------------------------------
(* gates.c, canbc.c and flash_store.c as imu_task calls them.              *)

\* As GatesSet, keeping the sectors when gate 0 is set.
GatesSet_KeepsSectors(t, k, v) == IF k \in Gate THEN [t EXCEPT ![k] = v] ELSE t

\* gates_set: a new start/finish line drops the sectors of the old one.
GatesSet(t, k, v) ==
    [i \in Gate |-> IF i = k THEN v ELSE IF k = 0 THEN None ELSE t[i]]

\* As BusOnStartFinish, keeping the sectors in the mirror.
BusOnStartFinish_Kept(b) == b

\* set_and_persist_gate, index 0: the sectors leave the mirror.
BusOnStartFinish(b) == [i \in Gate |-> IF i = 0 THEN b[0] ELSE None]

\* gates_clear and canbc_state_set_gate: an index out of range is ignored.
Put(t, k, v) == IF k \in Gate THEN [t EXCEPT ![k] = v] ELSE t

(***************************************************************************)
(* flash_store_append of one record, whose effect on the table is A: it is *)
(* written, or refused, for want of room or for a flash error that leaves  *)
(* the slot erased or torn.  imu_task ignores the status.                  *)
(***************************************************************************)
Written(A) == room > 0 /\ A /\ room' = room - 1 /\ UNCHANGED unsaved
Refused ==
    /\ room' \in {room, room - 1} \cap Nat
    /\ UNCHANGED <<saved, up>>
    /\ unsaved' = TRUE

Persist(A) == (Written(A) \/ Refused) /\ UNCHANGED kept

\* The same for a record that takes the start/finish line away.
PersistNoLine(A) ==
    \/ Written(A) /\ kept' = (kept /\ ~origin)
    \/ Refused /\ kept' = TRUE

StrayRecord == UNCHANGED <<saved, up>>

\* The line that the sectors of a table are timed with, 0 if it has none.
LineOf(t) == IF t[0] = None THEN 0 ELSE t[0]

-----------------------------------------------------------------------------
(* imu_task                                                                *)

\* flash_store_init and the rest of imu_task_main before its loop.
Boot ==
    /\ ~up
    /\ Store!Restart
    /\ stored' = [k \in Gate |-> saved[k]]
    /\ gates' = NoGates
    /\ UNCHANGED <<bus, origin, half, queue, room, stamp, resets, nextSector>>
    /\ UNCHANGED history

\* As PlaceStored, highest slot first: start/finish then drops the others.
PlaceStored_Descending(g, t) ==
    LET after[n \in 0 .. MaxGates] ==
            IF n = 0 THEN g
            ELSE LET i == MaxGates - n
                 IN IF t[i] = None THEN after[n - 1] ELSE GatesSet(after[n - 1], i, t[i])
    IN after[MaxGates]

\* The loop of handle_gps_fix over s_stored_gates, lowest slot first.
PlaceStored(g, t) ==
    LET after[n \in 0 .. MaxGates] ==
            IF n = 0 THEN g
            ELSE LET i == n - 1
                 IN IF t[i] = None THEN after[n - 1] ELSE GatesSet(after[n - 1], i, t[i])
    IN after[MaxGates]

\* handle_gps_fix, for the first fix good enough to anchor the frame.
SetOrigin ==
    /\ up /\ ~origin
    /\ origin' = TRUE
    /\ gates' = PlaceStored(gates, stored)
    /\ bus' = stored
    /\ UNCHANGED <<stored, saved, up, half, queue, room, stamp, resets, nextSector>>
    /\ UNCHANGED history

\* imu_task takes the command at the head of its queue.
Takes(cmd) ==
    /\ up /\ ~half
    /\ queue # <<>>
    /\ Head(queue).cmd = cmd
    /\ queue' = Tail(queue)
    /\ UNCHANGED <<stored, origin, resets, nextSector>>

(***************************************************************************)
(* apply_gate_commands, GATE_SET: ignored before the frame has an origin.  *)
(* set_and_persist_gate writes one flash record for a sector; for start/   *)
(* finish a clear-all, and then (FinishStartFinish) the gate.              *)
(***************************************************************************)
GateSet ==
    LET k == Head(queue).arg0
    IN /\ Takes("GATE_SET")
       /\ IF ~origin
          THEN UNCHANGED <<gates, bus, saved, up, room, half, stamp, history>>
          ELSE /\ stamp' = stamp + 1
               /\ gates' = GatesSet(gates, k, stamp')
               /\ line' = [line EXCEPT ![stamp'] = LineOf(gates')]
               /\ half' = (k = 0)
               /\ IF k = 0
                  THEN /\ PersistNoLine(Store!ClearAllGates)
                       /\ bus' = BusOnStartFinish(bus)
                  ELSE /\ Persist(IF k \in Gate THEN Store!Save(k, stamp') ELSE StrayRecord)
                       /\ bus' = Put(bus, k, stamp')

FinishStartFinish ==
    /\ half
    /\ half' = FALSE
    /\ Persist(Store!Save(0, gates[0]))
    /\ bus' = [bus EXCEPT ![0] = gates[0]]
    /\ UNCHANGED <<gates, stored, origin, queue, stamp, line, resets, nextSector>>

\* apply_gate_commands, GATE_CLEAR: handled with or without an origin.
GateClear ==
    LET k == Head(queue).arg0
    IN /\ Takes("GATE_CLEAR")
       /\ UNCHANGED <<half, stamp, line>>
       /\ IF k = All
          THEN /\ gates' = NoGates
               /\ PersistNoLine(Store!ClearAllGates)
               /\ bus' = NoGates
          ELSE /\ gates' = Put(gates, k, None)
               /\ IF k = 0
                  THEN PersistNoLine(Store!ClearGate(0))
                  ELSE Persist(IF k \in Gate THEN Store!ClearGate(k) ELSE StrayRecord)
               /\ bus' = Put(bus, k, None)

-----------------------------------------------------------------------------
(* The commands, from can_task (dispatch_rx_command) and from sys_task     *)
(* (poll_lap_button): a full queue drops the one that comes.               *)

Post(c) ==
    /\ c.cmd = "GATE_SET" => stamp + Len(queue) < MaxStamp
    /\ c.cmd = "GATE_CLEAR" => origin \/ EarlyClear
    /\ queue' = IF Len(queue) < QueueLen THEN Append(queue, c) ELSE queue
    /\ UNCHANGED <<imuVars, resets>>

CanCommand(c) == Post(c) /\ ~half /\ UNCHANGED nextSector

SetCommand(k) == [cmd |-> "GATE_SET", arg0 |-> k]
ClearAllCommand == [cmd |-> "GATE_CLEAR", arg0 |-> All]

\* As NextSector, one slot too far.
NextSector_TooFar(n) == IF n < MaxGates THEN n + 1 ELSE n

\* Where the next short press goes; the last slot is used over and over.
NextSector(n) == IF n < MaxGates - 1 THEN n + 1 ELSE n

ShortPress ==
    /\ "short" \in Button /\ ~half
    /\ Post(SetCommand(nextSector))
    /\ nextSector' = NextSector(nextSector)

LongPress ==
    /\ "long" \in Button /\ ~half
    /\ Post(SetCommand(0))
    /\ nextSector' = 1

VeryLongPress ==
    /\ "clear" \in Button /\ ~half
    /\ Post(ClearAllCommand)
    /\ nextSector' = 1

-----------------------------------------------------------------------------
(* The room in the flash page: a calibration that imu_task saves takes a   *)
(* slot of it, and a compaction by sys_task leaves one record of each gate *)
(* that is set, and one of the calibration if there is one.                *)

RoomOnly ==
    /\ up /\ ~half
    /\ UNCHANGED <<gates, stored, saved, bus, up, origin, half, stamp, history>>
    /\ UNCHANGED <<queue, resets, nextSector>>

SaveMagCal ==
    /\ RoomOnly
    /\ room > 0
    /\ room' = room - 1

Compact ==
    /\ RoomOnly
    /\ \E cal \in {0, 1} :
          room' = MaxRoom - Cardinality({k \in Gate : saved[k] # None}) - cal

-----------------------------------------------------------------------------
\* A reset, at any moment: only the flash is spared.
Reset ==
    /\ resets < MaxResets
    /\ resets' = resets + 1
    /\ IF up THEN Store!PowerLoss ELSE UNCHANGED <<saved, up>>
    /\ gates' = NoGates /\ stored' = NoGates /\ bus' = NoGates
    /\ origin' = FALSE /\ half' = FALSE /\ unsaved' = FALSE
    /\ queue' = <<>>
    /\ nextSector' = 1
    /\ UNCHANGED <<room, stamp, line, kept>>

Next ==
    \/ Boot
    \/ SetOrigin
    \/ GateSet
    \/ FinishStartFinish
    \/ GateClear
    \/ \E c \in CanCommands : CanCommand(c)
    \/ ShortPress
    \/ LongPress
    \/ VeryLongPress
    \/ SaveMagCal
    \/ Compact
    \/ Reset

Spec == Init /\ [][Next]_vars

-----------------------------------------------------------------------------
(* What is checked.                                                        *)

\* Between two commands the mirror that is broadcast is the table that is
\* timed against, for every slot: they are written by separate calls.
MirrorIsLive == ~half => bus = gates

\* With an origin, and while no record has been refused, a reboot would bring
\* back the table as it is (a GATE_CLEAR before the origin left aside).
SavedIsLive ==
    origin /\ ~half /\ ~unsaved => \A k \in Gate : saved[k] = gates[k]

\* No copy of the table mixes layouts: every sector in it was set while the
\* start/finish line in it stood.  A reset between the two records of a new
\* line, or a refusal of the second or of any record of a sector, brings no
\* sector of the last layout back.  A refusal of the first, or of any record
\* that clears the line, is left aside, with the resets after it, until one is
\* written: the flash table then keeps what it should have lost, and may mix.
OneLayout(t) == t[0] # None => \A k \in Sector : t[k] # None => line[t[k]] = t[0]
NoMixedLayout ==
    ~kept => OneLayout(gates) /\ OneLayout(saved) /\ (~origin => OneLayout(stored))

\* Anchoring the frame places no gate that the flash table does not have
\* (tests/test_flash_store.c:151-152, "must not resurrect the old gate").
NoneResurrected ==
    [][~origin /\ origin' =>
          \A k \in Gate : gates'[k] # None => saved[k] # None]_vars

=============================================================================

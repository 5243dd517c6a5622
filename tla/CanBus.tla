------------------------------- MODULE CanBus -------------------------------
(***************************************************************************)
(* canbus/canbc_task.c with the mirror of canbus/canbc.c: the broadcast    *)
(* task, the transmit FIFO of the controller, and a dash that listens.     *)
(*                                                                         *)
(* Once a slot the task copies the mirror, sends the frames of the rota    *)
(* that are due, then the lap events that are queued.  For each frame it   *)
(* waits for a mailbox, tick by tick, and gives the frame up when none     *)
(* gets free.  The producers have a higher priority, the bus may get stuck *)
(* for any time, and the task's own work takes no time.                    *)
(*                                                                         *)
(* What a message carries is the version of one field of the mirror.  The  *)
(* received commands are in GateTable, the wheel speed in FixHistory.      *)
(***************************************************************************)
EXTENDS Integers, Sequences, FiniteSetsExt

CONSTANTS
    Rota,           \* the entries of s_rota: [id, period, phase]
    GateFields,     \* the gate slots of the mirror, in order
    Wrap,           \* CANBC_SLOT_WRAP
    SlotMs,         \* CANBC_SLOT_MS
    WaitMax,        \* CANBC_TX_WAIT_MAX_TICKS
    FifoDepth,      \* the mailboxes of the controller
    CounterMod,     \* 256
    EventQueueLen,  \* LAP_EVENT_QUEUE_LEN
    MaxUpdates,     \* bound: changes of the mirror
    MaxEvents       \* bound: lap events

\* The entries of a rota that are due in a slot.
DueOf(rota, s) == {i \in DOMAIN rota : s % rota[i].period = rota[i].phase % rota[i].period}

\* The frames that are due in the first n slots, rounds of so many slots.
FramesBefore(rota, slots, n) ==
    LET sum[k \in Nat] ==
            IF k = 0 THEN 0 ELSE sum[k - 1] + Cardinality(DueOf(rota, (k - 1) % slots))
    IN sum[n]

\* A round of slots has the time for the longest waits of its frames.
RotaFits(rota, slots, ms, wait) == wait * FramesBefore(rota, slots, slots) <= slots * ms

\* s_rota, to be held against RotaFits with the constants of the code.
FirmwareRota ==
    LET Entry(period, phase) == [period |-> period, phase |-> phase]
    IN <<Entry(5, 0), Entry(5, 1), Entry(2, 0), Entry(10, 2), Entry(20, 4),
         Entry(1, 0), Entry(1, 0), Entry(100, 8), Entry(100, 58), Entry(10, 6),
         Entry(100, 9), Entry(20, 3), Entry(100, 71)>>

ASSUME CanAssumption ==
    /\ {Wrap, SlotMs, FifoDepth, CounterMod, EventQueueLen} \subseteq Nat \ {0}
    /\ {WaitMax, MaxUpdates, MaxEvents} \subseteq Nat
    /\ Rota \in Seq([id : {"pose", "origin", "gate"}, period : Nat \ {0}, phase : Nat])
    /\ \A i \in DOMAIN Rota : Wrap % Rota[i].period = 0
    /\ GateFields \in Seq(STRING) /\ GateFields # <<>>
    /\ RotaFits(Rota, Wrap, SlotMs, WaitMax)
    /\ RotaFits(FirmwareRota, 100, 10, 3)

\* The fields of the mirror, and the messages that carry a counter.
Fields == {"pose", "origin"} \union {GateFields[i] : i \in DOMAIN GateFields}
Counted == {"pose", "event"}

VARIABLES
    mirror,     \* s_state: the version of each field; the origin's is 0 until it is valid
    queued,     \* g_lap_event_queue: the entries in it
    posted,     \* lap events so far
    bus,        \* "up" or "stuck"
    fifo,       \* the transmit FIFO
    slot,       \* slot
    snap,       \* snap
    at,         \* the entry of the rota the task is at, past it for the events, 0 asleep
    waited,     \* waited
    blocked,    \* in vTaskDelay(1)
    late,       \* the tick count less last_wake
    counter,    \* s_tx_counter, s_lap_event_counter
    rr,         \* rr
    dash,       \* what the dash has received of each field, -1 for nothing
    heard,      \* history: the last frame the dash received of each counted message
    missed      \* history: frames dropped since the last one of it got a mailbox

vars == <<mirror, queued, posted, bus, fifo, slot, snap, at, waited, blocked, late,
          counter, rr, dash, heard, missed>>

Events == Len(Rota) + 1
Unset == [f \in Fields |-> 0]
Counters == 0 .. CounterMod - 1
Frame == [id : {"pose", "origin", "gate", "event"}, field : Fields \union {"event"},
          ctr : Counters, gap : Counters, val : 0 .. MaxUpdates]

TypeOK ==
    /\ mirror \in [Fields -> 0 .. MaxUpdates] /\ snap \in [Fields -> 0 .. MaxUpdates]
    /\ dash \in [Fields -> -1 .. MaxUpdates]
    /\ queued \in 0 .. EventQueueLen /\ posted \in 0 .. MaxEvents
    /\ bus \in {"up", "stuck"}
    /\ fifo \in Seq(Frame) /\ Len(fifo) <= FifoDepth
    /\ slot \in 0 .. Wrap - 1 /\ at \in 0 .. Events
    /\ waited \in 0 .. WaitMax /\ blocked \in BOOLEAN
    /\ late \in Int
    /\ {counter, heard, missed} \subseteq [Counted -> Counters]
    /\ rr \in DOMAIN GateFields

Init ==
    /\ mirror = Unset /\ snap = Unset
    /\ queued = 0 /\ posted = 0
    /\ bus = "up" /\ fifo = <<>>
    /\ slot = 0 /\ at = 0 /\ waited = 0 /\ blocked = FALSE /\ late = 0
    /\ counter = [id \in Counted |-> 0] /\ rr = 1
    /\ dash = [f \in Fields |-> -1]
    /\ heard = [id \in Counted |-> CounterMod - 1]
    /\ missed = [id \in Counted |-> 0]

-----------------------------------------------------------------------------
(* The task.                                                               *)

\* The next entry from i on that is due.
NextDue(i) == Min({j \in DueOf(Rota, slot) : j >= i} \union {Events})

\* canbc_state_get_snapshot.
Wake ==
    /\ at = 0 /\ late >= 0
    /\ snap' = mirror
    /\ at' = NextDue(1)
    /\ UNCHANGED <<mirror, queued, posted, bus, fifo, slot, waited, blocked, late,
                   counter, rr, dash, heard, missed>>

\* The message to be sent now.
Sending ==
    IF at = Events THEN [id |-> "event", field |-> "event"]
    ELSE [id |-> Rota[at].id,
          field |-> IF Rota[at].id = "gate" THEN GateFields[rr] ELSE Rota[at].id]

\* There is one: an origin that is not valid yet is left out.
HasFrame ==
    /\ ~blocked
    /\ \/ at \in DOMAIN Rota /\ ~(Rota[at].id = "origin" /\ snap["origin"] = 0)
       \/ at = Events /\ queued > 0

Full == Len(fifo) = FifoDepth

\* As Waits, without the bound.
Waits_Forever == Full

\* send_frame goes on waiting.
Waits == Full /\ waited < WaitMax

Wait ==
    /\ HasFrame /\ Waits
    /\ blocked' = TRUE /\ waited' = waited + 1
    /\ UNCHANGED <<mirror, queued, posted, bus, fifo, slot, snap, at, late,
                   counter, rr, dash, heard, missed>>

\* As CounterAfter, only for a frame that is sent.
CounterAfter_OnSuccess(id) == IF Full THEN counter[id] ELSE (counter[id] + 1) % CounterMod

\* The counter after a due frame, sent or dropped.
CounterAfter(id) == (counter[id] + 1) % CounterMod

\* As GateAfter, with two slots a turn.
GateAfter_Skips == IF rr + 2 > Len(GateFields) THEN 1 ELSE rr + 2

\* The gate slot after rr.
GateAfter == (rr % Len(GateFields)) + 1

\* The rest of send_rota_entry or of an event: a mailbox, or STATUS_FULL.
SendFrame ==
    LET f == Sending
        ctr == IF f.id \in Counted THEN counter[f.id] ELSE 0
        gap == IF f.id \in Counted THEN missed[f.id] ELSE 0
    IN /\ HasFrame /\ ~Waits
       /\ fifo' = IF Full THEN fifo
                  ELSE Append(fifo, [id |-> f.id, field |-> f.field, ctr |-> ctr, gap |-> gap,
                                     val |-> IF at = Events THEN 0 ELSE snap[f.field]])
       /\ IF f.id \in Counted
          THEN /\ counter' = [counter EXCEPT ![f.id] = CounterAfter(f.id)]
               /\ missed' = [missed EXCEPT ![f.id] = IF Full THEN (@ + 1) % CounterMod ELSE 0]
          ELSE UNCHANGED <<counter, missed>>
       /\ rr' = IF f.id = "gate" THEN GateAfter ELSE rr
       /\ IF at = Events THEN queued' = queued - 1 /\ UNCHANGED at
                         ELSE at' = NextDue(at + 1) /\ UNCHANGED queued
       /\ waited' = 0
       /\ UNCHANGED <<mirror, posted, bus, slot, snap, blocked, late, dash, heard>>

SkipOrigin ==
    /\ at \in DOMAIN Rota /\ Rota[at].id = "origin" /\ snap["origin"] = 0
    /\ at' = NextDue(at + 1)
    /\ UNCHANGED <<mirror, queued, posted, bus, fifo, slot, snap, waited, blocked, late,
                   counter, rr, dash, heard, missed>>

\* The slot is over, and its snapshot; vTaskDelayUntil does not sleep when its
\* time is past.
EndSlot ==
    /\ at = Events /\ queued = 0
    /\ slot' = (slot + 1) % Wrap
    /\ late' = late - SlotMs
    /\ at' = 0 /\ snap' = Unset
    /\ UNCHANGED <<mirror, queued, posted, bus, fifo, waited, blocked,
                   counter, rr, dash, heard, missed>>

Task == Wake \/ Wait \/ SendFrame \/ SkipOrigin \/ EndSlot

-----------------------------------------------------------------------------
(* The rest.                                                               *)

\* The task has left the processor.
Idle == blocked \/ (at = 0 /\ late < 0)

\* A tick; a bus that is up clears a mailbox in less.
Tick ==
    /\ Idle /\ ~(bus = "up" /\ Full)
    /\ late' = late + 1
    /\ blocked' = FALSE
    /\ UNCHANGED <<mirror, queued, posted, bus, fifo, slot, snap, at, waited,
                   counter, rr, dash, heard, missed>>

\* The oldest frame goes out.
BusSends ==
    /\ bus = "up" /\ fifo # <<>>
    /\ fifo' = Tail(fifo)
    /\ LET f == Head(fifo)
       IN /\ dash' = IF f.field \in Fields THEN [dash EXCEPT ![f.field] = f.val] ELSE dash
          /\ heard' = IF f.id \in Counted THEN [heard EXCEPT ![f.id] = f.ctr] ELSE heard
    /\ UNCHANGED <<mirror, queued, posted, bus, slot, snap, at, waited, blocked, late,
                   counter, rr, missed>>

\* No acknowledgement any more, or again.
BusChanges ==
    /\ Idle
    /\ bus' \in {"up", "stuck"} \ {bus}
    /\ UNCHANGED <<mirror, queued, posted, fifo, slot, snap, at, waited, blocked, late,
                   counter, rr, dash, heard, missed>>

\* The last change: changes are numbered over all the fields.
Newest == Max({mirror[f] : f \in Fields})

\* A producer.  What comes between two waits of the task is the same as at the
\* first of them, or before the slot; so for the bus.
Publish ==
    /\ Idle
    /\ Newest < MaxUpdates
    /\ \E f \in Fields : mirror' = [mirror EXCEPT ![f] = Newest + 1]
    /\ UNCHANGED <<queued, posted, bus, fifo, slot, snap, at, waited, blocked, late,
                   counter, rr, dash, heard, missed>>

\* imu_task or gps_task sends a lap event, which a full queue loses.
PostEvent ==
    /\ Idle /\ posted < MaxEvents
    /\ posted' = posted + 1
    /\ queued' = Min({queued + 1, EventQueueLen})
    /\ UNCHANGED <<mirror, bus, fifo, slot, snap, at, waited, blocked, late,
                   counter, rr, dash, heard, missed>>

Next == Task \/ Tick \/ BusSends \/ BusChanges \/ Publish \/ PostEvent

\* The task gets the processor, time goes on, and a bus that is up sends; nothing
\* makes a stuck bus recover.
Spec == Init /\ [][Next]_vars /\ WF_vars(Task) /\ WF_vars(Tick) /\ WF_vars(BusSends)

-----------------------------------------------------------------------------
(* What is checked.                                                        *)

\* Between two frames of a message that the dash receives, or will receive, the
\* counter tells how many were dropped: one for each that found no mailbox and no
\* more, whatever the bus did.  (Lap events that a full queue lost have no number.)
GapFlagsDrops ==
    \A id \in Counted :
        LET sent == {i \in DOMAIN fifo : fifo[i].id = id}
            Before(i) == LET earlier == {j \in sent : j < i}
                         IN IF earlier = {} THEN heard[id] ELSE fifo[Max(earlier)].ctr
        IN /\ \A i \in sent : fifo[i].ctr = (Before(i) + 1 + fifo[i].gap) % CounterMod
           /\ counter[id] = (Before(Len(fifo) + 1) + 1 + missed[id]) % CounterMod

\* The furthest the task may fall behind: every frame of a run of slots waits as
\* long as it can, and so does each event.
MaxLag ==
    WaitMax * MaxEvents
        + Max({WaitMax * (FramesBefore(Rota, Wrap, s + n) - FramesBefore(Rota, Wrap, s))
                 - SlotMs * (n - 1) : s \in 0 .. Wrap - 1, n \in 1 .. Wrap})

\* A bus that is stuck for good costs the task a bounded delay: it never hangs,
\* and it does not fall behind more and more.
LagBounded == late <= MaxLag

\* When the bus stays up, the dash ends up with every field of the mirror, each
\* gate slot too, whatever was dropped before.
DashCatchesUp ==
    <>[](bus = "up") =>
        <>[](\A f \in Fields : dash[f] = mirror[f] \/ (f = "origin" /\ mirror[f] = 0))

=============================================================================

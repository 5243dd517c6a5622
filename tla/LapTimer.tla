------------------------------ MODULE LapTimer ------------------------------
(***************************************************************************)
(* laptimer/laptimer.c, driven once per IMU sample by imu_task, which also *)
(* turns its changes into lap events and publishes the running lap.        *)
(*                                                                         *)
(* Time is GPS time of week, which starts again at 0 after Week.  A sample *)
(* has the time that the timebase reads (itow) and, as a history variable, *)
(* the time that it is.  The reading is wrong before the first PPS pulse,  *)
(* after a pulse was paired with the wrong second, and when imu_task reads *)
(* the mapping while gps_task is writing it: a wrong reading is any time.  *)
(*                                                                         *)
(* Geometry is left out: between two samples any set of gates is crossed,  *)
(* each at any moment (gates_check_crossing).                              *)
(***************************************************************************)
EXTENDS Integers, Sequences, FiniteSets

CONSTANTS
    Week,           \* ITOW_WEEK_MS
    MinLap,         \* LAP_MIN_LAP_TIME_MS
    MaxGates,       \* LAP_MAX_GATES
    MaxStep,        \* the longest time between two samples
    Misread,        \* the wrong readings of this instance
    MaxCrossed,     \* bound: gates crossed between two samples
    MaxLaps,        \* bound: completed laps
    MaxSector       \* bound: sector gates crossed in a lap

ASSUME WeekAssumption ==
    {Week, MinLap, MaxStep} \subseteq Nat \ {0} /\ MinLap < Week /\ MaxStep < Week
ASSUME GateAssumption == MaxGates \in Nat /\ MaxGates >= 2
ASSUME BoundAssumption == {MaxCrossed, MaxLaps, MaxSector} \subseteq Nat

Gate == 0 .. MaxGates - 1
Itow == 0 .. Week - 1

ASSUME MisreadAssumption == Misread \subseteq Itow

VARIABLES
    lt,         \* s_state of laptimer.c
    itow,       \* prev_itow_ms of imu_task_main: the last sample's reading
    published,  \* what canbc_state_set_lap was last given
    sent,       \* the lap events of the last sample, in order
    time,       \* history: the time at the last sample
    lap         \* history: what really happened since the lap began

vars == <<lt, itow, published, sent, time, lap>>

\* As Elapsed, without the week boundary.
Elapsed_Naive(start, now) == now - start

\* itow_elapsed_ms
Elapsed(start, now) == IF now >= start THEN now - start ELSE (Week - start) + now

\* As Crossing, without the step back at the end of the week.
Crossing_NoWrap(prev, offset) == prev + offset

\* itow_interpolate, with the offset (fraction times interval) given.
Crossing(prev, offset) ==
    IF prev + offset >= Week THEN prev + offset - Week ELSE prev + offset

-----------------------------------------------------------------------------
\* As NewLap, timing the first sector from the last one's beginning.
NewLap_KeepsSector(s, c) == [s EXCEPT !.lapStart = c, !.sector = 0]

\* A lap begins at c, and its first sector.
NewLap(s, c) == [s EXCEPT !.lapStart = c, !.sectorStart = c, !.sector = 0]

(***************************************************************************)
(* laptimer_update, the part for gate 0, crossed at c: it starts the clock *)
(* or, MinLap after the lap began, closes the last sector and the lap.     *)
(***************************************************************************)
StartLine(s, c) ==
    LET elapsed == Elapsed(s.lapStart, c)
    IN IF ~s.running THEN [NewLap(s, c) EXCEPT !.running = TRUE]
       ELSE IF elapsed < MinLap THEN s
       ELSE [NewLap(s, c) EXCEPT !.lastSector = Elapsed(s.sectorStart, c),
                                 !.lastLap = elapsed, !.lapCount = @ + 1]

\* laptimer_update, the part for a sector gate, crossed at c.
SectorLine(s, c) ==
    LET last == Elapsed(s.sectorStart, c)
    IN [s EXCEPT !.lastSector = last, !.sectorStart = c, !.sector = @ + 1]

\* laptimer_update: the gates X are crossed, gate k at c[k].
Update(s, X, c) ==
    LET s0 == IF 0 \in X THEN StartLine(s, c[0]) ELSE s
        after[k \in Gate] ==
            IF k = 0 THEN s0
            ELSE IF k \in X THEN SectorLine(after[k - 1], c[k]) ELSE after[k - 1]
    IN IF s0.running THEN after[MaxGates - 1] ELSE s0

\* As LapEvents, numbering the lap before it is counted.
LapEvents_OldNumber(s, t) ==
    (IF t.lapCount # s.lapCount
     THEN <<[type |-> "LAP", lap |-> s.lapCount, ms |-> t.lastLap]>> ELSE <<>>)
    \o (IF t.sector # s.sector
        THEN <<[type |-> "SECTOR", lap |-> t.lapCount, ms |-> t.lastSector]>> ELSE <<>>)

\* The events imu_task queues when laptimer_update took s to t.
LapEvents(s, t) ==
    (IF t.lapCount # s.lapCount
     THEN <<[type |-> "LAP", lap |-> s.lapCount + 1, ms |-> t.lastLap]>> ELSE <<>>)
    \o (IF t.sector # s.sector
        THEN <<[type |-> "SECTOR", lap |-> t.lapCount, ms |-> t.lastSector]>> ELSE <<>>)

\* As CurrentElapsed, of the sector instead of the lap.
CurrentElapsed_Sector(s, now) == IF s.running THEN Elapsed(s.sectorStart, now) ELSE 0

\* laptimer_get_current_elapsed_ms
CurrentElapsed(s, now) == IF s.running THEN Elapsed(s.lapStart, now) ELSE 0

\* canbc_state_set_lap, as imu_task calls it for the reading now.
Publish(s, now) ==
    [lapNum |-> s.lapCount, ms |-> CurrentElapsed(s, now), sector |-> s.sector,
     running |-> s.running]

TypeOK ==
    /\ lt \in [running : BOOLEAN, lapStart : Itow, sectorStart : Itow,
               lastLap : Itow, lastSector : Itow,
               lapCount : 0 .. MaxLaps, sector : 0 .. MaxSector]
    /\ itow \in Itow /\ time \in Itow
    /\ published \in [lapNum : 0 .. MaxLaps, ms : Itow, sector : 0 .. MaxSector,
                      running : BOOLEAN]
    /\ sent \in Seq([type : {"LAP", "SECTOR"}, lap : 0 .. MaxLaps, ms : Itow])
    /\ Len(sent) <= 2
    /\ lap \in [since : Itow, trusted : BOOLEAN, finish : Itow \union {-1},
                sum : Itow, alone : BOOLEAN]

(***************************************************************************)
(* lap.since is the true time since the lap began and lap.trusted that its *)
(* beginning was read right; lap.finish is the true length of the lap at   *)
(* the last sample's crossing of gate 0, -1 when there was none or either  *)
(* end was misread; neither is known of a lap that lasts a week, which the *)
(* code excludes (laptimer.c:28-30).  lap.sum is what the sector events of *)
(* the lap add up to (modulo Week) and lap.alone that no sample of it      *)
(* crossed two gates.                                                      *)
(***************************************************************************)
Init ==
    /\ lt = [running |-> FALSE, lapStart |-> 0, sectorStart |-> 0, lastLap |-> 0,
             lastSector |-> 0, lapCount |-> 0, sector |-> 0]
    /\ itow = 0
    /\ published = Publish(lt, 0)
    /\ sent = <<>>
    /\ time \in Itow
    /\ lap = [since |-> 0, trusted |-> FALSE, finish |-> -1, sum |-> 0, alone |-> TRUE]

\* The sector time that the events of a sample announce: the last, if any.
SectorMs(evts) ==
    IF evts # <<>> /\ evts[Len(evts)].type = "SECTOR" THEN evts[Len(evts)].ms ELSE 0

\* The history after a sample d long that crossed the gates X, gate 0 (if
\* it did) at o0, read right at both ends or not.
LapAfter(d, X, o0, clean) ==
    LET begins == lt'.lapCount # lt.lapCount \/ lt'.running # lt.running
        known == IF begins THEN clean ELSE lap.trusted /\ lap.since + d < Week
    IN [since   |-> IF ~known THEN 0 ELSE IF begins THEN d - o0 ELSE lap.since + d,
        trusted |-> known,
        finish  |-> IF /\ 0 \in X /\ lt.running
                       /\ lap.trusted /\ clean /\ lap.since + o0 < Week
                    THEN lap.since + o0 ELSE -1,
        sum     |-> IF begins \/ ~lt'.running THEN 0
                    ELSE (lap.sum + SectorMs(sent')) % Week,
        alone   |-> Cardinality(X) <= 1 /\ (begins \/ lap.alone)]

(***************************************************************************)
(* The end of one iteration of imu_task_main: the timebase is read at d    *)
(* after the last sample, laptimer_update is called, events are sent and   *)
(* the lap is published.  Each gate of X is crossed at an offset of the    *)
(* interval that was read.                                                 *)
(***************************************************************************)
Sample ==
    \E d \in 1 .. MaxStep, X \in {Y \in SUBSET Gate : Cardinality(Y) <= MaxCrossed} :
    \E t \in Misread \union {(time + d) % Week} :
    \E o \in [X -> 0 .. (t - itow) % Week] :
        LET clean == itow = time /\ t = (time + d) % Week
        IN /\ lt' = Update(lt, X, [k \in X |-> Crossing(itow, o[k])])
           /\ lt'.lapCount <= MaxLaps /\ lt'.sector <= MaxSector
           /\ itow' = t
           /\ time' = (time + d) % Week
           /\ sent' = LapEvents(lt, lt')
           /\ published' = Publish(lt', t)
           /\ lap' = LapAfter(d, X, IF 0 \in X THEN o[0] ELSE 0, clean)

Next == Sample

Spec == Init /\ [][Next]_vars

-----------------------------------------------------------------------------
(* What is checked.                                                        *)

\* A crossing of start/finish counts a lap exactly when the lap has lasted
\* MinLap, and the time kept is the time it took, the end of the week and
\* misreadings in the middle of the lap included, as long as both ends of the
\* lap were read right.
LapTimesTrue ==
    [][lap'.finish # -1 =>
          IF lap'.finish >= MinLap
          THEN lt'.lapCount = lt.lapCount + 1 /\ lt'.lastLap = lap'.finish
          ELSE lt'.lapCount = lt.lapCount /\ lt'.lastLap = lt.lastLap]_vars

\* What a receiver of the bus adds up: the sector times announced for a lap
\* make the lap time, whatever was read at the crossings, when the lap had a
\* sector gate and no sample crossed two gates.
SectorsAddUp ==
    [][lt'.lapCount # lt.lapCount /\ lt.sector > 0 /\ lap.alone /\ lap'.alone =>
          (lap.sum + SectorMs(sent')) % Week = lt'.lastLap]_vars

\* Every lap is announced: the event has the number and the time of the lap.
LapAnnounced ==
    [][lt'.lapCount # lt.lapCount =>
          /\ sent' # <<>>
          /\ Head(sent') = [type |-> "LAP", lap |-> lt'.lapCount, ms |-> lt'.lastLap]]_vars

\* The running lap that is published is the time since the lap began, as soon
\* as the reading is right again.
PublishedTrue ==
    lt.running /\ lap.trusted /\ itow = time => published.ms = lap.since

=============================================================================

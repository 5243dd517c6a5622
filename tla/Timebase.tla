------------------------------ MODULE Timebase ------------------------------
(***************************************************************************)
(* fusion/timebase.c: the map between the microsecond tick of TIM3 and GPS *)
(* time of week (iTOW), with the code around it.                           *)
(*                                                                         *)
(* The PPS interrupt latches the tick of an edge.  gps_task pairs it with  *)
(* the next NAV-PVT message (handle_nav_pvt): the message's iTOW, rounded  *)
(* to a second, is taken for the time of the edge, and the pair becomes    *)
(* the newer of the two observations that the map is drawn through.        *)
(* imu_task reads the map at every sample.  It has a higher priority than  *)
(* gps_task and there is no lock: it may read between any two of the       *)
(* stores of timebase_on_pps, in the order the compiler gave them.         *)
(*                                                                         *)
(* Time goes by in milliseconds, of which Second make a second, and in     *)
(* each the oscillator makes Rate ticks: not the NominalRate that the code *)
(* counts on until it has two observations to measure the rate by.         *)
(***************************************************************************)
EXTENDS Integers, Sequences

CONSTANTS
    Second,     \* 1000 ms
    Week,       \* TIMEBASE_WEEK_MS
    NominalRate,\* TIMEBASE_TICKS_PER_MS_NOMINAL
    Rate,       \* the ticks that the oscillator makes in a ms
    TickMod,    \* 2^32, the range of the tick
    MaxDelay,   \* the longest a NAV-PVT is under way to gps_task
    MaxGap,     \* bound: the longest without a NAV-PVT; no pulse is missing later
    MaxAge,     \* bound: ages are not told apart from here on
    BootItow    \* bound: the times of week at which this instance boots

ASSUME TimeAssumption ==
    /\ {Second, Week, NominalRate, Rate, TickMod, MaxGap, MaxAge} \subseteq Nat \ {0}
    /\ MaxDelay \in Nat
    /\ Week % Second = 0 /\ Second % 2 = 0
    /\ MaxGap < MaxAge /\ Second <= MaxGap
    /\ 2 * MaxAge <= Week /\ 2 * (MaxAge * Rate) <= TickMod
    /\ Rate <= 2 * NominalRate /\ NominalRate <= 2 * Rate
    /\ 2 * MaxDelay <= Second
    /\ BootItow \subseteq 0 .. Week - 1

Itow == 0 .. Week - 1
Clock == 0 .. TickMod - 1
Age == 0 .. MaxAge

\* What round_to_second gives, Week itself too.
Seconds == {s \in 0 .. Week : s % Second = 0}

\* What handle_nav_pvt reads of a NAV-PVT: iTOW, and whether it is resolved.
Message == [itow : Itow, valid : BOOLEAN]

\* pps_obs_t
Observation == [tick : Clock, itow : Seconds, valid : BOOLEAN]
NoObservation == [tick |-> 0, itow |-> 0, valid |-> FALSE]

VARIABLES
    now,        \* the time of week, in ms
    clock,      \* the tick counter
    edgeDue,    \* a second has begun and its PPS edge has not come yet
    pending,    \* s_pps_pending
    pendTick,   \* s_pending_pps_tick
    stream,     \* the NAV-PVT messages under way to gps_task
    resolved,   \* the receiver has resolved the time of week
    task,       \* where gps_task is in handle_nav_pvt
    new,        \* the observation that timebase_on_pps is storing
    prev,       \* s_prev
    last,       \* s_last
    age,        \* history: the ms since the edge behind pendTick, new, ...
    silent      \* history: the ms since the boot, or since a message was handled

timeVars == <<now, clock, edgeDue, pending, pendTick, stream, resolved, task,
              new, prev, last, age, silent>>

TimeTypeOK ==
    /\ now \in Itow /\ clock \in Clock
    /\ edgeDue \in BOOLEAN /\ pending \in BOOLEAN /\ resolved \in BOOLEAN
    /\ pendTick \in Clock
    /\ stream \in Seq(Message)
    /\ task \in {"idle", "clear", "write"}
    /\ {new, prev, last} \subseteq Observation
    /\ age \in [{"pending", "new", "last", "prev"} -> Age]
    /\ silent \in 0 .. MaxGap

TimeInit ==
    /\ now \in BootItow /\ clock = 0
    /\ edgeDue = FALSE /\ pending = FALSE /\ pendTick = 0
    /\ stream = <<>> /\ resolved = FALSE
    /\ task = "idle"
    /\ new = NoObservation /\ prev = NoObservation /\ last = NoObservation
    /\ age = [o \in {"pending", "new", "last", "prev"} |-> MaxAge]
    /\ silent = 0

-----------------------------------------------------------------------------
(* The map.                                                                *)

\* Integer division as C does it.
Quotient(a, b) ==
    LET q == (IF a < 0 THEN -a ELSE a) \div (IF b < 0 THEN -b ELSE b)
    IN IF (a < 0) = (b < 0) THEN q ELSE -q

\* A difference of ticks, cast to int32_t.
Signed(d) ==
    LET m == d % TickMod IN IF 2 * m >= TickMod THEN m - TickMod ELSE m

\* As ItowDiff, without the week boundary.
ItowDiff_Raw(newer, older) == newer - older

\* itow_diff_ms
ItowDiff(newer, older) ==
    LET raw == newer - older
    IN IF raw < -(Week \div 2) THEN raw + Week
       ELSE IF raw > Week \div 2 THEN raw - Week
       ELSE raw

\* itow_add_ms
ItowAdd(itow, delta) == (itow + delta) % Week

\* The ticks between two observations, and the ms.
Ticks(p, l) == Signed(l.tick - p.tick)
Span(p, l) == ItowDiff(l.itow, p.itow)

\* As TickToItow, with the ratio of the spans upside down.
TickToItow_Swapped(p, l, tick) ==
    LET since == Signed(tick - l.tick)
    IN IF ~l.valid THEN 0
       ELSE ItowAdd(l.itow, IF ~p.valid \/ Ticks(p, l) <= 0 \/ Span(p, l) = 0
                            THEN Quotient(since, NominalRate)
                            ELSE Quotient(since * Ticks(p, l), Span(p, l)))

\* timebase_tick_to_itow_ms, with p and l for s_prev and s_last.
TickToItow(p, l, tick) ==
    LET since == Signed(tick - l.tick)
    IN IF ~l.valid THEN 0
       ELSE ItowAdd(l.itow, IF ~p.valid \/ Ticks(p, l) <= 0
                            THEN Quotient(since, NominalRate)
                            ELSE Quotient(since * Span(p, l), Ticks(p, l)))

\* timebase_itow_ms_to_tick, the inverse.
ItowToTick(p, l, itow) ==
    LET since == ItowDiff(itow, l.itow)
    IN IF ~l.valid THEN 0
       ELSE (l.tick + IF ~p.valid \/ Ticks(p, l) <= 0 \/ Span(p, l) = 0
                      THEN since * NominalRate
                      ELSE Quotient(since * Ticks(p, l), Span(p, l))) % TickMod

\* As RoundToSecond, with the time of the message for that of the edge.
RoundToSecond_Unrounded(itow) == itow

\* As RoundToSecond, cutting the fraction off.
RoundToSecond_Down(itow) == (itow \div Second) * Second

\* round_to_second
RoundToSecond(itow) == ((itow + Second \div 2) \div Second) * Second

\* What timebase_on_pps leaves in s_prev.
PrevAfter == IF last.valid THEN last ELSE prev

\* What imu_task may find: any words of the old and of the new observations
\* while timebase_on_pps is storing them.
Mixed(a, b) ==
    [tick : {a.tick, b.tick}, itow : {a.itow, b.itow}, valid : {a.valid, b.valid}]

Views ==
    IF task = "write" THEN Mixed(prev, PrevAfter) \X Mixed(last, new)
    ELSE {<<prev, last>>}

-----------------------------------------------------------------------------
(* The receiver and the interrupt.                                         *)

Older(a) == IF a = MaxAge THEN MaxAge ELSE a + 1

\* A ms goes by and the receiver sends, or a fault of the link loses, the
\* NAV-PVT message of this moment.  gps_task is never more than MaxDelay late.
Millisecond ==
    /\ task = "idle" /\ ~edgeDue
    /\ stream # <<>> => (now - Head(stream).itow) % Week < MaxDelay
    /\ now' = (now + 1) % Week
    /\ clock' = (clock + Rate) % TickMod
    /\ edgeDue' = (now' % Second = 0)
    /\ resolved' \in {resolved, TRUE}
    /\ \/ stream' = Append(stream, [itow |-> now', valid |-> resolved'])
       \/ stream' = stream /\ silent < MaxGap
    /\ age' = [o \in DOMAIN age |-> Older(age[o])]
    /\ silent' = IF silent = MaxGap THEN MaxGap ELSE silent + 1
    /\ UNCHANGED <<pending, pendTick, task, new, prev, last>>

\* timebase_tim3_irq at the edge of a second, or no pulse in this second.
Edge ==
    /\ edgeDue
    /\ edgeDue' = FALSE
    /\ \/ /\ pending' = TRUE
          /\ pendTick' = clock
          /\ age' = [age EXCEPT !["pending"] = 0]
       \/ age["pending"] <= MaxGap /\ UNCHANGED <<pending, pendTick, age>>
    /\ UNCHANGED <<now, clock, stream, resolved, task, new, prev, last, silent>>

-----------------------------------------------------------------------------
(* gps_task: handle_nav_pvt for the message at the head of the stream.     *)

Handled == stream' = Tail(stream) /\ silent' = 0 /\ task' = "idle"

\* timebase_take_pending_pps, up to the read of the tick.
TakePps ==
    /\ task = "idle" /\ stream # <<>>
    /\ IF pending
       THEN /\ task' = "clear"
            /\ new' = [tick |-> pendTick, itow |-> RoundToSecond(Head(stream).itow),
                       valid |-> TRUE]
            /\ age' = [age EXCEPT !["new"] = age["pending"]]
            /\ UNCHANGED <<stream, silent>>
       ELSE Handled /\ UNCHANGED <<new, age>>
    /\ UNCHANGED <<now, clock, edgeDue, pending, pendTick, resolved, prev, last>>

\* As Taken, leaving the edge to be taken again.
Taken_Again == TRUE

\* s_pps_pending after timebase_take_pending_pps.
Taken == FALSE

\* The rest of it: the edge is used up, whether or not the time is resolved.
ClearPending ==
    /\ task = "clear"
    /\ pending' = Taken
    /\ IF Head(stream).valid THEN task' = "write" /\ UNCHANGED <<stream, silent>>
                             ELSE Handled
    /\ UNCHANGED <<now, clock, edgeDue, pendTick, resolved, new, prev, last, age>>

\* timebase_on_pps
OnPps ==
    /\ task = "write"
    /\ Handled
    /\ prev' = PrevAfter
    /\ last' = new
    /\ age' = [age EXCEPT !["prev"] = IF last.valid THEN age["last"] ELSE @,
                          !["last"] = age["new"]]
    /\ UNCHANGED <<now, clock, edgeDue, pending, pendTick, resolved, new>>

GpsTask == TakePps \/ ClearPending \/ OnPps

TimeNext == Millisecond \/ Edge \/ GpsTask

TimeSpec == TimeInit /\ [][TimeNext]_timeVars

-----------------------------------------------------------------------------
(* What is checked.                                                        *)

\* Observation o, of an edge a ago, has the tick and the time of that edge.
True(o, a) ==
    /\ a < MaxAge
    /\ o.tick = (clock - a * Rate) % TickMod
    /\ o.itow % Week = (now - a) % Week

\* While messages are handled at least every half second, every edge is paired
\* with the second it marks, at the end of the week and when an edge comes
\* between the two halves of timebase_take_pending_pps too.
PairedWhenFlowing ==
    task = "write" /\ 2 * silent < Second => True(new, age["new"])

\* With true observations, and whatever came before them, the map keeps to the
\* time, around the end of the week and the wrap of the tick too: for any tick d
\* before now it gives the time to less than a ms, and for the time d ms before
\* now the tick itself.  With one observation only, the error also grows with
\* the time since, by the drift of the oscillator.
Abs(x) == IF x < 0 THEN -x ELSE x

MapTracksTime ==
    LET a == age["last"]
        drift == IF prev.valid THEN 0 ELSE Abs(Rate - NominalRate)
    IN /\ task # "write"
       /\ last.valid /\ True(last, a)
       /\ prev.valid => True(prev, age["prev"])
       => /\ \A d \in 0 .. MaxDelay * Rate :
               LET e == ItowDiff(TickToItow(prev, last, (clock - d) % TickMod), now)
               IN NominalRate * Abs(e * Rate + d)
                      < drift * Abs(a * Rate - d) + NominalRate * Rate
          /\ \A d \in 0 .. MaxDelay :
               LET e == Signed(ItowToTick(prev, last, (now - d) % Week) - clock)
               IN Abs(e + d * Rate) <= drift * Abs(a - d)

\* While the observations are true and a second apart, a read that falls
\* between the stores of timebase_on_pps, in any order of them, is off by no
\* more than twice the time since the edge of the observation being replaced.
\* (Before there are two, the words of the unset s_prev can make any rate.)
TornReadBounded ==
    /\ task = "write"
    /\ True(new, age["new"])
    /\ last.valid /\ True(last, age["last"]) /\ age["last"] = age["new"] + Second
    /\ prev.valid /\ True(prev, age["prev"]) /\ age["prev"] = age["last"] + Second
    => \A v \in Views :
         LET error == ItowDiff(TickToItow(v[1], v[2], clock), now)
         IN error \in -2 * age["last"] .. 2 * age["last"]

=============================================================================

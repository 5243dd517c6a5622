----------------------------- MODULE FixHistory -----------------------------
(***************************************************************************)
(* fusion/kf6.c: the Kalman filter's delayed-state history.  A correction  *)
(* goes back to the history entry of its epoch, is applied there, and the  *)
(* later predict steps are replayed on top of it.                          *)
(*                                                                         *)
(* The arithmetic of the filter is left out: an estimate is the sequence   *)
(* of the steps and corrections that made it.  The loop of imu_task drives *)
(* it: a predict step for each sample that could be read, then a GPS fix   *)
(* of some age and a wheel speed, if they have come.                       *)
(***************************************************************************)
EXTENDS Integers, Sequences, FiniteSetsExt

CONSTANTS
    HistoryLen,     \* KF6_HISTORY_LEN
    TickMod,        \* 2^32, the range of the tick
    StartTick,      \* the ticks at which the loop may begin
    Gaps,           \* the times between two samples
    Ages,           \* the ages of a fix when it is applied
    MaxSteps,       \* bound: predict steps
    MaxFixes        \* bound: corrections

ASSUME HistoryAssumption ==
    /\ {HistoryLen, TickMod, MaxSteps, MaxFixes} \subseteq Nat \ {0}
    /\ Gaps \subseteq Nat /\ Ages \subseteq Nat
    /\ StartTick \subseteq 0 .. TickMod - 1

VARIABLES
    now,        \* the time since the loop began
    start,      \* the tick at which it began
    origin,     \* s_frame_origin_set
    kf,         \* s_x and s_hist
    steps,      \* history: the times of the predict steps
    fixes       \* history: the corrections, the rejected ones too

vars == <<now, start, origin, kf, steps, fixes>>

Step(n) == <<"step", n>>
Fix(n) == <<"fix", n>>

\* kf6_init
KfInit ==
    [x |-> <<>>, head |-> 0, count |-> 0,
     hist |-> [i \in 0 .. HistoryLen - 1 |-> [tick |-> 0, step |-> Step(0), x |-> <<>>]]]

\* As CountAfter, past the end of the array.
CountAfter_Unbounded(count) == count + 1

\* s_hist_count after an entry more.
CountAfter(count) == Min({count + 1, HistoryLen})

\* kf6_predict
KfPredict(k, tick, step) ==
    LET head == (k.head + 1) % HistoryLen
        x == Append(k.x, step)
    IN [x |-> x, head |-> head, count |-> CountAfter(k.count),
        hist |-> [k.hist EXCEPT ![head] = [tick |-> tick, step |-> step, x |-> x]]]

\* As Index, one entry too old.
Index_OneOlder(k, slot) == (k.head + HistoryLen - k.count + slot) % HistoryLen

\* The index of the history entry in a slot, 0 for the oldest.
Index(k, slot) == (k.head + HistoryLen + 1 - k.count + slot) % HistoryLen

\* As AtOrBefore, with the ticks compared as unsigned numbers.
AtOrBefore_Unsigned(tick, fixTick) == tick <= fixTick

\* (int32_t) (tick - fix_tick) <= 0
AtOrBefore(tick, fixTick) ==
    LET d == (tick - fixTick) % TickMod IN d = 0 \/ 2 * d >= TickMod

\* The newest entry at or before the fix, else the oldest.
TargetSlot(k, fixTick) ==
    LET past == {s \in 0 .. k.count - 1 : AtOrBefore(k.hist[Index(k, s)].tick, fixTick)}
    IN IF past = {} THEN 0 ELSE Max(past)

\* As Replayed, but for the entries the replay passes through.
Replayed_CurrentOnly(k, xs, s) == k.hist[Index(k, s)].x

\* What the replay leaves in the history entry of slot s.
Replayed(k, xs, s) == xs[s]

\* correct_with_rewind: the fix, and the replay from its slot on.  kf_update
\* leaves the estimate alone when its gate rejects the fix.
KfCorrect(k, fixTick, fix, accepted) ==
    LET target == TargetSlot(k, fixTick)
        Entry(s) == k.hist[Index(k, s)]
        xs[s \in target .. k.count - 1] ==
            IF s = target THEN IF accepted THEN Append(Entry(s).x, fix) ELSE Entry(s).x
                          ELSE Append(xs[s - 1], Entry(s).step)
        slotOf == [i \in 0 .. HistoryLen - 1 |->
                      CHOOSE s \in 0 .. HistoryLen - 1 : Index(k, s) = i]
    IN [k EXCEPT
           !.x = xs[k.count - 1],
           !.hist = [i \in 0 .. HistoryLen - 1 |->
               IF slotOf[i] \in DOMAIN xs
               THEN [k.hist[i] EXCEPT !.x = Replayed(k, xs, slotOf[i])]
               ELSE k.hist[i]]]

-----------------------------------------------------------------------------
(* The loop of imu_task.                                                   *)

Init ==
    /\ now = 0 /\ start \in StartTick
    /\ origin = FALSE
    /\ kf = KfInit /\ steps = <<>> /\ fixes = <<>>

TickAt(t) == (start + t) % TickMod

\* One correction: of the filter and of the history.
Correct(s, epoch, accepted) ==
    [kf |-> KfCorrect(s.kf, TickAt(epoch), Fix(Len(s.fixes) + 1), accepted),
     fixes |-> Append(s.fixes, [epoch |-> epoch, accepted |-> accepted,
                                after |-> Len(steps) + 1])]

\* handle_gps_fix: the position, then the velocity; the gate may reject either.
\* The first good fix only sets the origin.
GpsFixes(s) ==
    IF ~origin \/ Len(s.fixes) + 2 > MaxFixes THEN {s}
    ELSE {s} \union {Correct(Correct(s, now' - age, pos), now' - age, vel) :
                        age \in {a \in Ages : a <= now'}, pos \in BOOLEAN, vel \in BOOLEAN}

\* handle_wheelspeed: at the current tick, not gated.
WheelSpeeds(s) ==
    IF Len(s.fixes) = MaxFixes THEN {s} ELSE {s, Correct(s, now', TRUE)}

\* A turn of the loop that has a sample: the predict step, and the corrections
\* that have come.  (A turn whose read failed leaves the filter alone; the time
\* to the next sample is longer.)
Sample ==
    /\ Len(steps) < MaxSteps
    /\ \E gap \in Gaps : now' = now + gap
    /\ steps' = Append(steps, now')
    /\ LET predicted == [kf |-> KfPredict(kf, TickAt(now'), Step(Len(steps) + 1)),
                         fixes |-> fixes]
       IN \E fixed \in GpsFixes(predicted) : \E result \in WheelSpeeds(fixed) :
             kf' = result.kf /\ fixes' = result.fixes
    /\ origin' \in {origin, TRUE}
    /\ UNCHANGED start

Next == Sample

Spec == Init /\ [][Next]_vars

-----------------------------------------------------------------------------
(* What is checked.                                                        *)

Ops == {Step(n) : n \in 0 .. MaxSteps} \union {Fix(n) : n \in 1 .. MaxFixes}

TypeOK ==
    /\ now \in Nat /\ start \in StartTick
    /\ origin \in BOOLEAN
    /\ kf.head \in 0 .. HistoryLen - 1 /\ kf.count \in 0 .. HistoryLen
    /\ kf.x \in Seq(Ops)
    /\ \A i \in 0 .. HistoryLen - 1 :
         kf.hist[i].tick \in 0 .. TickMod - 1 /\ kf.hist[i].x \in Seq(Ops)

StepsAt(x) == {i \in DOMAIN x : x[i][1] = "step"}
FixesIn(x) == {x[i][2] : i \in {j \in DOMAIN x : x[j][1] = "fix"}}

\* The steps of an estimate are the first n, each of them once and in order.
HoldsSteps(x, n) ==
    /\ {x[i] : i \in StepsAt(x)} = {Step(m) : m \in 1 .. n}
    /\ \A i, j \in StepsAt(x) : i < j => x[i][2] < x[j][2]

\* Whatever corrections came and wherever they were applied, the estimate and
\* every history entry hold each predict step up to their own exactly once and
\* in order: a replay neither drops a step nor repeats one.
StepsInOrder ==
    /\ HoldsSteps(kf.x, Len(steps))
    /\ \A s \in 0 .. kf.count - 1 :
         HoldsSteps(kf.hist[Index(kf, s)].x, Len(steps) - kf.count + 1 + s)

\* The step a correction belongs to: the last at or before its epoch of those
\* that the history still held, else the oldest of these.
Due(f) ==
    LET held == Max({1, fixes[f].after - HistoryLen + 1}) .. fixes[f].after
        before == {n \in held : steps[n] <= fixes[f].epoch}
    IN IF before = {} THEN Min(held) ELSE Max(before)

\* A correction in the estimate stands between the step of its epoch and the
\* next one, across the wrap of the tick too.
FixAtItsEpoch ==
    \A i \in DOMAIN kf.x : kf.x[i][1] = "fix" =>
        \E j \in 1 .. i - 1 :
            /\ kf.x[j] = Step(Due(kf.x[i][2]))
            /\ \A k \in j + 1 .. i : kf.x[k][1] = "fix"

\* The estimate holds the accepted corrections, but for those that a later one
\* took back: a correction of an older epoch, or a fix of one that the gate
\* rejects, replays the steps after it without what was corrected there.
OnlyOlderEpochsDiscard ==
    FixesIn(kf.x) = {f \in DOMAIN fixes :
                       /\ fixes[f].accepted
                       /\ \A g \in f + 1 .. Len(fixes) : Due(g) >= Due(f)}

=============================================================================

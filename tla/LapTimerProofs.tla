--------------------------- MODULE LapTimerProofs ---------------------------
(***************************************************************************)
(* Proofs about LapTimer: what itow_elapsed_ms and itow_interpolate give   *)
(* around the end of the week, what laptimer_update does for any set of    *)
(* gates, and from both that laps and sectors are timed right.             *)
(***************************************************************************)
EXTENDS LapTimer, NatFacts, SequenceTheorems, FiniteSetTheorems

-----------------------------------------------------------------------------
(* Times of week.                                                          *)

LEMMA WeekIsNat ==
    Week \in Nat /\ Week > 0 /\ MinLap \in Nat /\ MaxStep \in Nat /\ MaxStep < Week
BY WeekAssumption

\* Both functions are sums and differences modulo the week.
LEMMA WeekArithmetic ==
    /\ \A a, b \in Itow : Elapsed(a, b) \in Itow /\ (b - a) % Week = Elapsed(a, b)
    /\ \A a, d \in Itow : Crossing(a, d) \in Itow /\ (a + d) % Week = Crossing(a, d)
<1>1. ASSUME NEW a \in Itow, NEW b \in Itow
      PROVE  Elapsed(a, b) \in Itow /\ (b - a) % Week = Elapsed(a, b)
  <2>1. b - a \in Int /\ b - a \in -Week .. Week - 1
    BY WeekIsNat DEF Itow
  <2>2. (b - a) % Week = (IF b >= a THEN b - a ELSE b - a + Week)
    BY <2>1, WeekIsNat, ModOnce DEF Itow
  <2> QED
    BY <2>2, WeekIsNat DEF Elapsed, Itow
<1>2. ASSUME NEW a \in Itow, NEW d \in Itow
      PROVE  Crossing(a, d) \in Itow /\ (a + d) % Week = Crossing(a, d)
  <2>1. a + d \in Int /\ a + d \in 0 .. 2 * Week - 1
    BY WeekIsNat DEF Itow
  <2>2. (a + d) % Week = (IF a + d >= Week THEN a + d - Week ELSE a + d)
    BY <2>1, WeekIsNat, ModOnce DEF Itow
  <2> QED
    BY <2>2, WeekIsNat DEF Crossing, Itow
<1> QED
  BY <1>1, <1>2

\* Of two moments after a, the one at d is d - o after the one at o.
LEMMA ElapsedBetween ==
    ASSUME NEW a \in Itow, NEW d \in Itow, NEW o \in Itow, o <= d
    PROVE  Elapsed(Crossing(a, o), Crossing(a, d)) = d - o
BY WeekIsNat DEF Elapsed, Crossing, Itow

\* What has been elapsing for e has, d later, been for e + d.
LEMMA ElapsedLater ==
    ASSUME NEW a \in Itow, NEW b \in Itow, NEW d \in Itow, Elapsed(a, b) + d < Week
    PROVE  Elapsed(a, Crossing(b, d)) = Elapsed(a, b) + d
BY WeekIsNat DEF Elapsed, Crossing, Itow

\* The times of two parts add up, modulo the week.
LEMMA ElapsedAddsUp ==
    ASSUME NEW a \in Itow, NEW b \in Itow, NEW c \in Itow
    PROVE  (Elapsed(a, b) + Elapsed(b, c)) % Week = Elapsed(a, c)
<1>1. Elapsed(a, b) \in Itow /\ Elapsed(b, c) \in Itow
  BY WeekArithmetic
<1>2. (Elapsed(a, b) + Elapsed(b, c)) % Week = Crossing(Elapsed(a, b), Elapsed(b, c))
  BY <1>1, WeekArithmetic
<1>3. Crossing(Elapsed(a, b), Elapsed(b, c)) = Elapsed(a, c)
  BY WeekIsNat DEF Elapsed, Crossing, Itow
<1> QED
  BY <1>2, <1>3

-----------------------------------------------------------------------------
(* laptimer_update.                                                        *)

\* The states of the lap timer; the bounds on its counters are the instance's.
LapState == [running : BOOLEAN, lapStart : Itow, sectorStart : Itow, lastLap : Itow,
             lastSector : Itow, lapCount : Nat, sector : Nat]

\* What laptimer_update may take s to when it crosses no gate but sector gates.
SectorsOnly(s, t) ==
    /\ t \in LapState
    /\ t.running = s.running /\ t.lapStart = s.lapStart /\ t.lastLap = s.lastLap
    /\ t.lapCount = s.lapCount
    /\ t.sector >= s.sector
    /\ t.sector = s.sector => t = s

LEMMA SectorLineOnly ==
    ASSUME NEW s \in LapState, NEW t, SectorsOnly(s, t), NEW c \in Itow
    PROVE  SectorsOnly(s, SectorLine(t, c)) /\ SectorLine(t, c).sector = t.sector + 1
<1>1. Elapsed(t.sectorStart, c) \in Itow /\ t \in LapState
  BY WeekArithmetic DEF LapState, SectorsOnly
<1>2. SectorLine(t, c) \in LapState
  <2> DEFINE e == Elapsed(t.sectorStart, c)
  <2>1. SectorLine(t, c)
          = [t EXCEPT !.lastSector = e, !.sectorStart = c, !.sector = t.sector + 1]
    BY DEF SectorLine
  <2>2. e \in Itow /\ t.sector + 1 \in Nat
    BY <1>1 DEF LapState
  <2> HIDE DEF e
  <2> QED
    BY <1>1, <2>1, <2>2 DEF LapState
<1>3. /\ SectorLine(t, c).running = t.running /\ SectorLine(t, c).lapStart = t.lapStart
      /\ SectorLine(t, c).lastLap = t.lastLap /\ SectorLine(t, c).lapCount = t.lapCount
      /\ SectorLine(t, c).sector = t.sector + 1
  BY <1>1 DEF SectorLine, LapState
<1> QED
  BY <1>1, <1>2, <1>3 DEF SectorsOnly, LapState

LEMMA SectorLineFields ==
    ASSUME NEW s \in LapState, NEW c \in Itow
    PROVE  LET t == SectorLine(s, c)
           IN /\ t.lastSector = Elapsed(s.sectorStart, c) /\ t.sectorStart = c
              /\ t.lapStart = s.lapStart /\ t.sector # s.sector
<1> DEFINE e == Elapsed(s.sectorStart, c)
           n == s.sector + 1
<1>1. SectorLine(s, c) = [s EXCEPT !.lastSector = e, !.sectorStart = c, !.sector = n]
  BY DEF SectorLine
<1>2. n # s.sector
  BY DEF LapState
<1> HIDE DEF e, n
<1>3. LET t == SectorLine(s, c)
      IN /\ t.lastSector = e /\ t.sectorStart = c
         /\ t.lapStart = s.lapStart /\ t.sector # s.sector
  BY <1>1, <1>2 DEF LapState
<1> QED
  BY <1>3 DEF e

\* What the part for gate 0 makes of s.
AfterStartLine(s, X, c) == IF 0 \in X THEN StartLine(s, c[0]) ELSE s

LEMMA StartLineType ==
    ASSUME NEW s \in LapState, NEW c \in Itow
    PROVE  StartLine(s, c) \in LapState
<1>1. Elapsed(s.lapStart, c) \in Itow /\ Elapsed(s.sectorStart, c) \in Itow
  BY WeekArithmetic DEF LapState
<1> DEFINE lapTime == Elapsed(s.lapStart, c)
           sectorTime == Elapsed(s.sectorStart, c)
<1>2. NewLap(s, c) \in LapState
  BY DEF NewLap, LapState
<1>3. StartLine(s, c) \in
        {s, [NewLap(s, c) EXCEPT !.running = TRUE],
         [NewLap(s, c) EXCEPT !.lastSector = sectorTime, !.lastLap = lapTime,
                              !.lapCount = NewLap(s, c).lapCount + 1]}
  BY DEF StartLine
<1>4. lapTime \in Itow /\ sectorTime \in Itow /\ NewLap(s, c).lapCount + 1 \in Nat
  BY <1>1, <1>2 DEF LapState
<1> HIDE DEF lapTime, sectorTime
<1>5. [NewLap(s, c) EXCEPT !.running = TRUE] \in LapState
  BY <1>2 DEF LapState
<1>6. [NewLap(s, c) EXCEPT !.lastSector = sectorTime, !.lastLap = lapTime,
                           !.lapCount = NewLap(s, c).lapCount + 1] \in LapState
  BY <1>2, <1>4 DEF LapState
<1> QED
  BY <1>3, <1>5, <1>6

\* The loop over the sector gates.
IsLoop(h, X, c, s0) ==
    h = [k \in Gate |-> IF k = 0 THEN s0
                        ELSE IF k \in X THEN SectorLine(h[k - 1], c[k]) ELSE h[k - 1]]

LEMMA LoopExists ==
    ASSUME NEW s0 \in LapState, NEW X \in SUBSET Gate, NEW c \in [X -> Itow]
    PROVE  /\ IsLoop((CHOOSE h : IsLoop(h, X, c, s0)), X, c, s0)
           /\ MaxGates - 1 \in Nat /\ Gate = 0 .. MaxGates - 1
<1> DEFINE N == MaxGates - 1
           step == [a \in LapState \X (1 .. N) |->
                       IF a[2] \in X THEN SectorLine(a[1], c[a[2]]) ELSE a[1]]
<1>1. N \in Nat /\ Gate = 0 .. N
  BY GateAssumption DEF Gate
<1>2. step \in [LapState \X (1 .. N) -> LapState]
  <2> SUFFICES ASSUME NEW a \in LapState \X (1 .. N)
               PROVE  (IF a[2] \in X THEN SectorLine(a[1], c[a[2]]) ELSE a[1]) \in LapState
    OBVIOUS
  <2>1. a[1] \in LapState
    OBVIOUS
  <2>2. SectorsOnly(a[1], a[1])
    BY <2>1 DEF SectorsOnly, LapState
  <2>3. ASSUME a[2] \in X PROVE SectorLine(a[1], c[a[2]]) \in LapState
    <3>1. c[a[2]] \in Itow
      BY <2>3
    <3> QED
      BY <2>1, <2>2, <3>1, SectorLineOnly DEF SectorsOnly
  <2> QED
    BY <2>1, <2>3
<1>3. ASSUME NEW x \in LapState, NEW k \in 1 .. N
      PROVE  step[<<x, k>>] = (IF k \in X THEN SectorLine(x, c[k]) ELSE x)
  OBVIOUS
<1> HIDE DEF N, step
<1>4. PICK f \in [0 .. N -> LapState] : IteratesTo(f, N, s0, step)
  BY <1>1, <1>2, BoundedRecursion
<1>5. ASSUME NEW k \in Gate
      PROVE  f[k] = IF k = 0 THEN s0
                    ELSE IF k \in X THEN SectorLine(f[k - 1], c[k]) ELSE f[k - 1]
  <2>1. f[k] = (IF k = 0 THEN s0 ELSE step[<<f[k - 1], k>>])
    <3>1. f = [n \in 0 .. N |-> IF n = 0 THEN s0 ELSE step[<<f[n - 1], n>>]]
      BY <1>4 DEF IteratesTo
    <3> DEFINE G(n) == IF n = 0 THEN s0 ELSE step[<<f[n - 1], n>>]
    <3>2. f = [n \in 0 .. N |-> G(n)] /\ k \in 0 .. N
      BY <1>1, <3>1
    <3> HIDE DEF G
    <3>3. f[k] = G(k)
      BY <3>2
    <3> QED
      BY <3>3 DEF G
  <2>2. CASE k # 0
    <3>1. k \in 1 .. N /\ f[k - 1] \in LapState
      BY <1>1, <2>2
    <3> QED
      BY <1>3, <2>1, <2>2, <3>1
  <2> QED
    BY <2>1, <2>2
<1>6. f = [k \in Gate |-> f[k]]
  BY <1>1
<1>7. IsLoop(f, X, c, s0)
  BY <1>5, <1>6 DEF IsLoop
<1> QED
  BY <1>1, <1>7, Zenon DEF N

\* What laptimer_update does with the gates X: gate 0 by StartLine, and then, if
\* the clock runs, the sector gates, which touch neither lap nor clock.
LEMMA UpdateByParts ==
    ASSUME NEW s \in LapState, NEW X \in SUBSET Gate, NEW c \in [X -> Itow]
    PROVE  LET s0 == AfterStartLine(s, X, c)
               t == Update(s, X, c)
           IN /\ s0 \in LapState
              /\ SectorsOnly(s0, t)
              /\ X \subseteq {0} \/ ~s0.running => t = s0
              /\ \A g \in Gate \ {0} : X = {g} /\ s0.running => t = SectorLine(s0, c[g])
<1> DEFINE s0 == AfterStartLine(s, X, c)
           L == CHOOSE h : IsLoop(h, X, c, s0)
           N == MaxGates - 1
<1>1. s0 \in LapState
  <2>1. 0 \in X => c[0] \in Itow
    OBVIOUS
  <2> QED
    BY <2>1, StartLineType DEF AfterStartLine
<1>2. Update(s, X, c) = IF s0.running THEN L[N] ELSE s0
  BY DEF Update, IsLoop, AfterStartLine
<1> HIDE DEF s0
<1>3. IsLoop(L, X, c, s0) /\ N \in Nat /\ Gate = 0 .. N
  BY <1>1, LoopExists
<1> HIDE DEF L, N
<1>4. /\ L[0] = s0
      /\ \A k \in 0 .. N - 1 : L[k + 1] = IF k + 1 \in X THEN SectorLine(L[k], c[k + 1]) ELSE L[k]
  <2> DEFINE G(k) == IF k = 0 THEN s0
                     ELSE IF k \in X THEN SectorLine(L[k - 1], c[k]) ELSE L[k - 1]
  <2>1. L = [k \in Gate |-> G(k)]
    BY <1>3 DEF IsLoop
  <2> HIDE DEF G
  <2>2. \A k \in 0 .. N : L[k] = G(k)
    BY <1>3, <2>1
  <2>3. L[0] = s0
    BY <1>3, <2>2 DEF G
  <2>4. ASSUME NEW k \in 0 .. N - 1
        PROVE  L[k + 1] = IF k + 1 \in X THEN SectorLine(L[k], c[k + 1]) ELSE L[k]
    <3>1. k + 1 \in 0 .. N /\ k + 1 # 0 /\ (k + 1) - 1 = k
      BY <1>3
    <3>2. L[k + 1] = G(k + 1)
      BY <2>2, <3>1
    <3> QED
      BY <3>1, <3>2 DEF G
  <2> QED
    BY <2>3, <2>4
<1>5. SectorsOnly(s0, L[N])
  <2> DEFINE Good == {k \in 0 .. N : SectorsOnly(s0, L[k])}
  <2>1. 0 \in Good
    BY <1>1, <1>3, <1>4 DEF SectorsOnly, LapState
  <2>2. ASSUME NEW k \in 0 .. N - 1, k \in Good PROVE k + 1 \in Good
    <3>1. SectorsOnly(s0, L[k]) /\ k + 1 \in 0 .. N
      BY <2>2, <1>3
    <3>2. ASSUME k + 1 \in X PROVE SectorsOnly(s0, SectorLine(L[k], c[k + 1]))
      <4>1. c[k + 1] \in Itow
        BY <3>2
      <4> QED
        BY <1>1, <3>1, <4>1, SectorLineOnly
    <3>3. SectorsOnly(s0, L[k + 1])
      BY <1>4, <3>1, <3>2
    <3> QED
      BY <3>1, <3>3
  <2> HIDE DEF Good
  <2>3. 0 .. N \subseteq Good /\ N \in 0 .. N
    BY <1>3, <2>1, <2>2, BoundedInduction
  <2> QED
    BY <2>3 DEF Good
<1>6. ASSUME X \subseteq {0} PROVE L[N] = s0
  <2> DEFINE Good == {k \in 0 .. N : L[k] = s0}
  <2>1. 0 \in Good
    BY <1>3, <1>4
  <2>2. ASSUME NEW k \in 0 .. N - 1, k \in Good PROVE k + 1 \in Good
    BY <1>3, <1>4, <1>6, <2>2
  <2> HIDE DEF Good
  <2>3. 0 .. N \subseteq Good /\ N \in 0 .. N
    BY <1>3, <2>1, <2>2, BoundedInduction
  <2> QED
    BY <2>3 DEF Good
<1>7. ASSUME NEW g \in Gate \ {0}, X = {g} PROVE L[N] = SectorLine(s0, c[g])
  <2> DEFINE t == SectorLine(s0, c[g])
             Good == {k \in 0 .. N : L[k] = IF k < g THEN s0 ELSE t}
  <2>1. 0 \in Good
    BY <1>3, <1>4
  <2>2. ASSUME NEW k \in 0 .. N - 1, k \in Good PROVE k + 1 \in Good
    <3>1. L[k] = (IF k < g THEN s0 ELSE t) /\ k + 1 \in 0 .. N /\ g \in 1 .. N
      BY <1>3, <2>2
    <3>2. L[k + 1] = (IF k + 1 = g THEN SectorLine(L[k], c[g]) ELSE L[k])
      BY <1>4, <1>7
    <3>3. L[k + 1] = (IF k + 1 < g THEN s0 ELSE t)
      BY <3>1, <3>2
    <3> QED
      BY <3>1, <3>3
  <2> HIDE DEF Good, t
  <2>3. 0 .. N \subseteq Good /\ N \in 0 .. N /\ ~(N < g)
    BY <1>3, <2>1, <2>2, BoundedInduction
  <2>4. L[N] = t
    BY <2>3 DEF Good
  <2> QED
    BY <2>4 DEF t
<1>8. SectorsOnly(s0, s0)
  BY <1>1 DEF SectorsOnly, LapState
<1>9. /\ s0 \in LapState /\ SectorsOnly(s0, Update(s, X, c))
      /\ X \subseteq {0} \/ ~s0.running => Update(s, X, c) = s0
      /\ \A g \in Gate \ {0} : X = {g} /\ s0.running => Update(s, X, c) = SectorLine(s0, c[g])
  BY <1>1, <1>2, <1>5, <1>6, <1>7, <1>8
<1> QED
  BY <1>9 DEF s0

\* The three things that can come of gate 0.
LEMMA StartLineCases ==
    ASSUME NEW s \in LapState, NEW X \in SUBSET Gate, NEW c \in [X -> Itow]
    PROVE  LET s0 == AfterStartLine(s, X, c)
           IN \/ /\ s0 = s
                 /\ 0 \in X => s.running /\ Elapsed(s.lapStart, c[0]) < MinLap
              \/ /\ 0 \in X /\ ~s.running
                 /\ s0.running /\ s0.lapStart = c[0] /\ s0.sectorStart = c[0]
                 /\ s0.sector = 0 /\ s0.lapCount = s.lapCount /\ s0.lastLap = s.lastLap
              \/ /\ 0 \in X /\ s.running /\ Elapsed(s.lapStart, c[0]) >= MinLap
                 /\ s0.running /\ s0.lapStart = c[0] /\ s0.sectorStart = c[0]
                 /\ s0.sector = 0 /\ s0.lapCount = s.lapCount + 1
                 /\ s0.lastLap = Elapsed(s.lapStart, c[0])
                 /\ s0.lastSector = Elapsed(s.sectorStart, c[0])
<1>1. CASE 0 \notin X
  BY <1>1 DEF AfterStartLine
<1>2. CASE 0 \in X
  <2> DEFINE e == Elapsed(s.lapStart, c[0])
             n == NewLap(s, c[0])
             closed == [n EXCEPT !.lastSector = Elapsed(s.sectorStart, c[0]), !.lastLap = e,
                                 !.lapCount = n.lapCount + 1]
  <2>1. AfterStartLine(s, X, c) = IF ~s.running THEN [n EXCEPT !.running = TRUE]
                                  ELSE IF e < MinLap THEN s ELSE closed
    BY <1>2 DEF AfterStartLine, StartLine
  <2>2. c[0] \in Itow
    BY <1>2
  <2>3. e \in Itow
    BY <2>2, WeekArithmetic DEF LapState
  <2>4. /\ n \in LapState /\ n.lapStart = c[0] /\ n.sectorStart = c[0] /\ n.sector = 0
        /\ n.running = s.running /\ n.lapCount = s.lapCount /\ n.lastLap = s.lastLap
    BY <2>2 DEF NewLap, LapState
  <2>5. CASE ~s.running
    BY <1>2, <2>1, <2>4, <2>5 DEF LapState
  <2>6. CASE s.running /\ e < MinLap
    BY <2>1, <2>6
  <2>7. CASE s.running /\ ~(e < MinLap)
    <3>1. e >= MinLap
      BY <2>3, <2>7, WeekIsNat DEF Itow
    <3>2. AfterStartLine(s, X, c) = closed
      BY <2>1, <2>7
    <3>3. /\ closed.running = n.running /\ closed.lapStart = n.lapStart
          /\ closed.sectorStart = n.sectorStart /\ closed.sector = n.sector
          /\ closed.lapCount = n.lapCount + 1 /\ closed.lastLap = e
          /\ closed.lastSector = Elapsed(s.sectorStart, c[0])
      <4> HIDE DEF n, e
      <4> QED
        BY <2>4 DEF LapState
    <3> HIDE DEF n, closed
    <3>4. closed.running
      BY <2>4, <2>7, <3>3
    <3> QED
      BY <1>2, <2>4, <2>7, <3>1, <3>2, <3>3, <3>4
  <2> QED
    BY <2>5, <2>6, <2>7
<1> QED
  BY <1>1, <1>2

\* The events of a sample, told apart by what changed.
LEMMA EventsOfSample ==
    ASSUME NEW s, NEW t
    PROVE  LET lapEvent == [type |-> "LAP", lap |-> s.lapCount + 1, ms |-> t.lastLap]
               sectorEvent == [type |-> "SECTOR", lap |-> t.lapCount, ms |-> t.lastSector]
           IN /\ LapEvents(s, t) = IF t.lapCount # s.lapCount
                                   THEN IF t.sector # s.sector THEN <<lapEvent, sectorEvent>>
                                                               ELSE <<lapEvent>>
                                   ELSE IF t.sector # s.sector THEN <<sectorEvent>> ELSE <<>>
              /\ SectorMs(LapEvents(s, t)) = IF t.sector # s.sector THEN t.lastSector ELSE 0
<1> DEFINE lapEvent == [type |-> "LAP", lap |-> s.lapCount + 1, ms |-> t.lastLap]
           sectorEvent == [type |-> "SECTOR", lap |-> t.lapCount, ms |-> t.lastSector]
<1>1. /\ lapEvent.type # "SECTOR" /\ sectorEvent.type = "SECTOR"
      /\ sectorEvent.ms = t.lastSector
  OBVIOUS
<1>2. LapEvents(s, t) = (IF t.lapCount # s.lapCount THEN <<lapEvent>> ELSE <<>>)
                        \o (IF t.sector # s.sector THEN <<sectorEvent>> ELSE <<>>)
  BY DEF LapEvents
<1> HIDE DEF lapEvent, sectorEvent
<1>3. \A a, b : /\ <<a>> \o <<b>> = <<a, b>> /\ <<a>> \o <<>> = <<a>>
                /\ <<>> \o <<b>> = <<b>> /\ <<>> \o <<>> = <<>>
  <2> TAKE a, b
  <2>1. <<a>> \in Seq({a, b}) /\ <<b>> \in Seq({a, b}) /\ <<>> \in Seq({a, b})
    OBVIOUS
  <2>2. <<a>> \o <<>> = <<a>> /\ <<>> \o <<b>> = <<b>> /\ <<>> \o <<>> = <<>>
    BY <2>1, ConcatEmptySeq
  <2>3. <<a>> \o <<b>> = Append(<<a>>, b)
    BY <2>1, AppendIsConcat
  <2>4. Append(<<a>>, b) = <<a, b>>
    <3>1. /\ Append(<<a>>, b) \in Seq({a, b}) /\ Len(Append(<<a>>, b)) = 2
          /\ Append(<<a>>, b)[1] = a /\ Append(<<a>>, b)[2] = b
      BY <2>1
    <3>2. <<a, b>> \in Seq({a, b}) /\ Len(<<a, b>>) = 2 /\ <<a, b>>[1] = a /\ <<a, b>>[2] = b
      OBVIOUS
    <3>3. \A i \in 1 .. 2 : Append(<<a>>, b)[i] = <<a, b>>[i]
      BY <3>1, <3>2
    <3> QED
      BY <3>1, <3>2, <3>3, SeqEqual
  <2> QED
    BY <2>2, <2>3, <2>4
<1>4. LapEvents(s, t) = IF t.lapCount # s.lapCount
                        THEN IF t.sector # s.sector THEN <<lapEvent, sectorEvent>>
                                                    ELSE <<lapEvent>>
                        ELSE IF t.sector # s.sector THEN <<sectorEvent>> ELSE <<>>
  BY <1>2, <1>3
<1>5. /\ SectorMs(<<lapEvent, sectorEvent>>) = t.lastSector
      /\ SectorMs(<<sectorEvent>>) = t.lastSector
      /\ SectorMs(<<lapEvent>>) = 0 /\ SectorMs(<<>>) = 0
  BY <1>1 DEF SectorMs
<1>6. SectorMs(LapEvents(s, t)) = IF t.sector # s.sector THEN t.lastSector ELSE 0
  BY <1>4, <1>5
<1> QED
  BY <1>4, <1>6 DEF lapEvent, sectorEvent

-----------------------------------------------------------------------------
(* A sample.                                                               *)

Crossings(X, o) == [k \in X |-> Crossing(itow, o[k])]

\* The sample of these values; Sample is the disjunction over them.
SampleOf(d, X, t, o) ==
    LET clean == itow = time /\ t = (time + d) % Week
    IN /\ lt' = Update(lt, X, [k \in X |-> Crossing(itow, o[k])])
       /\ lt'.lapCount <= MaxLaps /\ lt'.sector <= MaxSector
       /\ itow' = t
       /\ time' = (time + d) % Week
       /\ sent' = LapEvents(lt, lt')
       /\ published' = Publish(lt', t)
       /\ lap' = LapAfter(d, X, IF 0 \in X THEN o[0] ELSE 0, clean)

\* A lap whose beginning was read right has lasted lap.since, and what is
\* published is the lap at the last reading.
BeganRight == lap.trusted /\ lt.running => Elapsed(lt.lapStart, time) = lap.since
PublishedNow == published = Publish(lt, itow)

\* The sectors of a lap without two gates in a sample are announced up to the
\* beginning of the one that runs.
SumIsSoFar == lap.alone /\ lt.running => Elapsed(lt.lapStart, lt.sectorStart) = lap.sum

LapInv == TypeOK /\ BeganRight /\ PublishedNow /\ SumIsSoFar

\* The gates crossed are at times of week; when the interval was read right at
\* both ends they are offsets of the time it lasted.
LEMMA CrossingsOfSample ==
    ASSUME TypeOK, NEW d \in 1 .. MaxStep, NEW X \in SUBSET Gate, NEW t \in Itow,
           NEW o \in [X -> 0 .. (t - itow) % Week]
    PROVE  /\ Crossings(X, o) \in [X -> Itow]
           /\ \A k \in X : o[k] \in Itow /\ Crossings(X, o)[k] = Crossing(itow, o[k])
           /\ d \in Itow /\ (time + d) % Week = Crossing(time, d)
           /\ Crossing(time, d) \in Itow
           /\ itow = time /\ t = (time + d) % Week => \A k \in X : o[k] <= d
<1>1. itow \in Itow /\ time \in Itow
  BY DEF TypeOK
<1>2. d \in Itow /\ 0 \in Itow
  BY WeekIsNat DEF Itow
<1>3. (t - itow) % Week \in Itow
  BY <1>1, WeekArithmetic
<1>4. \A k \in X : o[k] \in Itow /\ o[k] <= (t - itow) % Week
  BY <1>3, WeekIsNat DEF Itow
<1>5. Crossings(X, o) \in [X -> Itow]
  BY <1>1, <1>4, WeekArithmetic DEF Crossings
<1>6. (time + d) % Week = Crossing(time, d) /\ Crossing(time, d) \in Itow
  BY <1>1, <1>2, WeekArithmetic
<1>7. ASSUME itow = time, t = (time + d) % Week PROVE (t - itow) % Week = d
  <2>1. (t - itow) % Week = Elapsed(time, Crossing(time, d))
    BY <1>1, <1>6, <1>7, WeekArithmetic
  <2>2. Crossing(time, 0) = time
    BY <1>1, WeekIsNat DEF Crossing, Itow
  <2>3. Elapsed(Crossing(time, 0), Crossing(time, d)) = d - 0
    BY <1>1, <1>2, ElapsedBetween DEF Itow
  <2> QED
    BY <1>2, <2>1, <2>2, <2>3 DEF Itow
<1> QED
  BY <1>2, <1>4, <1>5, <1>6, <1>7 DEF Crossings

LEMMA OffsetsOfSample ==
    ASSUME TypeOK, NEW X \in SUBSET Gate, NEW t \in Itow,
           NEW o \in [X -> 0 .. (t - itow) % Week], NEW k \in X
    PROVE  o[k] \in Itow /\ Crossings(X, o)[k] = Crossing(itow, o[k])
<1>1. itow \in Itow
  BY DEF TypeOK
<1>2. (t - itow) % Week \in Itow
  BY <1>1, WeekArithmetic
<1>3. o[k] \in 0 .. (t - itow) % Week
  OBVIOUS
<1>4. o[k] \in Itow
  BY <1>2, <1>3, WeekIsNat DEF Itow
<1> QED
  BY <1>4 DEF Crossings

\* Gate 0 and a new lap go together.
LEMMA BeginsAtGate0 ==
    ASSUME LapInv, NEW d \in 1 .. MaxStep, NEW X \in SUBSET Gate, NEW t \in Itow,
           NEW o \in [X -> 0 .. (t - itow) % Week], SampleOf(d, X, t, o)
    PROVE  LET c == Crossings(X, o)
               s0 == AfterStartLine(lt, X, c)
           IN /\ lt \in LapState /\ lt' \in LapState /\ s0 \in LapState /\ c \in [X -> Itow]
              /\ SectorsOnly(s0, lt')
              /\ X \subseteq {0} \/ ~s0.running => lt' = s0
              /\ \A g \in Gate \ {0} : X = {g} /\ s0.running => lt' = SectorLine(s0, c[g])
              /\ \/ /\ s0 = lt
                    /\ 0 \in X => lt.running /\ Elapsed(lt.lapStart, c[0]) < MinLap
                    /\ lt'.lapCount = lt.lapCount /\ lt'.running = lt.running
                 \/ /\ 0 \in X /\ ~lt.running /\ lt'.running /\ lt'.lapStart = c[0]
                    /\ s0.sectorStart = c[0]
                    /\ lt'.lapCount = lt.lapCount /\ lt'.lastLap = lt.lastLap
                 \/ /\ 0 \in X /\ lt.running /\ Elapsed(lt.lapStart, c[0]) >= MinLap
                    /\ lt'.running /\ lt'.lapStart = c[0] /\ s0.sectorStart = c[0]
                    /\ s0.sector = 0 /\ s0.lastSector = Elapsed(lt.sectorStart, c[0])
                    /\ lt'.lapCount = lt.lapCount + 1
                    /\ lt'.lastLap = Elapsed(lt.lapStart, c[0])
              /\ lt'.lapCount # lt.lapCount \/ lt'.running # lt.running \/ s0 = lt
<1> DEFINE c == Crossings(X, o)
           s0 == AfterStartLine(lt, X, c)
<1>1. lt \in LapState /\ c \in [X -> Itow]
  <2>1. TypeOK /\ lt \in LapState
    BY DEF LapInv, TypeOK, LapState
  <2> QED
    BY <2>1, CrossingsOfSample
<1>2. lt' = Update(lt, X, c)
  BY Zenon DEF SampleOf, Crossings
<1> HIDE DEF c
<1>3. /\ s0 \in LapState /\ SectorsOnly(s0, lt')
      /\ X \subseteq {0} \/ ~s0.running => lt' = s0
      /\ \A g \in Gate \ {0} : X = {g} /\ s0.running => lt' = SectorLine(s0, c[g])
  BY <1>1, <1>2, UpdateByParts, Zenon
<1>4. \/ /\ s0 = lt
         /\ 0 \in X => lt.running /\ Elapsed(lt.lapStart, c[0]) < MinLap
      \/ /\ 0 \in X /\ ~lt.running
         /\ s0.running /\ s0.lapStart = c[0] /\ s0.sectorStart = c[0]
         /\ s0.sector = 0 /\ s0.lapCount = lt.lapCount /\ s0.lastLap = lt.lastLap
      \/ /\ 0 \in X /\ lt.running /\ Elapsed(lt.lapStart, c[0]) >= MinLap
         /\ s0.running /\ s0.lapStart = c[0] /\ s0.sectorStart = c[0]
         /\ s0.sector = 0 /\ s0.lapCount = lt.lapCount + 1
         /\ s0.lastLap = Elapsed(lt.lapStart, c[0])
         /\ s0.lastSector = Elapsed(lt.sectorStart, c[0])
  BY <1>1, StartLineCases, Zenon
<1> HIDE DEF s0
<1>5. /\ lt' \in LapState
      /\ lt'.running = s0.running /\ lt'.lapStart = s0.lapStart /\ lt'.lastLap = s0.lastLap
      /\ lt'.lapCount = s0.lapCount
  BY <1>3, Zenon DEF SectorsOnly
<1>6. \/ /\ s0 = lt
         /\ 0 \in X => lt.running /\ Elapsed(lt.lapStart, c[0]) < MinLap
         /\ lt'.lapCount = lt.lapCount /\ lt'.running = lt.running
      \/ /\ 0 \in X /\ ~lt.running /\ lt'.running /\ lt'.lapStart = c[0]
         /\ s0.sectorStart = c[0]
         /\ lt'.lapCount = lt.lapCount /\ lt'.lastLap = lt.lastLap
      \/ /\ 0 \in X /\ lt.running /\ Elapsed(lt.lapStart, c[0]) >= MinLap
         /\ lt'.running /\ lt'.lapStart = c[0] /\ s0.sectorStart = c[0]
         /\ s0.sector = 0 /\ s0.lastSector = Elapsed(lt.sectorStart, c[0])
         /\ lt'.lapCount = lt.lapCount + 1
         /\ lt'.lastLap = Elapsed(lt.lapStart, c[0])
  BY <1>4, <1>5, Zenon
<1>7. lt'.lapCount # lt.lapCount \/ lt'.running # lt.running \/ s0 = lt
  <2>1. lt.lapCount # lt.lapCount + 1
    BY <1>1 DEF LapState
  <2> QED
    BY <1>6, <2>1, Zenon
<1> QED
  BY <1>1, <1>3, <1>5, <1>6, <1>7, Zenon DEF s0, c

\* The history after a sample, field by field.
LEMMA HistoryOfSample ==
    ASSUME NEW d, NEW X, NEW t, NEW o, SampleOf(d, X, t, o)
    PROVE  LET begins == lt'.lapCount # lt.lapCount \/ lt'.running # lt.running
               clean == itow = time /\ t = (time + d) % Week
               known == IF begins THEN clean ELSE lap.trusted /\ lap.since + d < Week
               o0 == IF 0 \in X THEN o[0] ELSE 0
               since == IF ~known THEN 0 ELSE IF begins THEN d - o0 ELSE lap.since + d
               finish == IF /\ 0 \in X /\ lt.running
                            /\ lap.trusted /\ clean /\ lap.since + o0 < Week
                         THEN lap.since + o0 ELSE -1
               sum == IF begins \/ ~lt'.running THEN 0
                      ELSE (lap.sum + SectorMs(sent')) % Week
               alone == Cardinality(X) <= 1 /\ (begins \/ lap.alone)
           IN lap' = [since |-> since, trusted |-> known, finish |-> finish, sum |-> sum,
                      alone |-> alone]
BY Zenon DEF SampleOf, LapAfter

LEMMA AloneMeansOne ==
    ASSUME NEW d, NEW X, NEW t, NEW o, SampleOf(d, X, t, o)
    PROVE  lap'.alone => Cardinality(X) <= 1
<1> DEFINE begins == lt'.lapCount # lt.lapCount \/ lt'.running # lt.running
<1>1. lap'.alone = (Cardinality(X) <= 1 /\ (begins \/ lap.alone))
  BY HistoryOfSample
<1> QED
  BY <1>1, Zenon

\* A sample crosses no gate or one when it does not cross two.
LEMMA AtMostOne ==
    ASSUME NEW X \in SUBSET Gate, Cardinality(X) <= 1
    PROVE  X = {} \/ \E g \in Gate : X = {g}
<1>1. IsFiniteSet(Gate)
  BY GateAssumption, FS_Interval DEF Gate
<1>2. IsFiniteSet(X)
  BY <1>1, FS_Subset
<1>3. Cardinality(X) \in Nat
  BY <1>2, FS_CardinalityType
<1>4. CASE Cardinality(X) = 0
  BY <1>2, <1>4, FS_EmptySet
<1>5. CASE Cardinality(X) = 1
  <2>1. PICK g : X = {g}
    BY <1>2, <1>5, FS_Singleton
  <2> QED
    BY <2>1
<1> QED
  BY <1>3, <1>4, <1>5

LEMMA BeganRightKept ==
    ASSUME LapInv, NEW d \in 1 .. MaxStep, NEW X \in SUBSET Gate, NEW t \in Itow,
           NEW o \in [X -> 0 .. (t - itow) % Week], SampleOf(d, X, t, o)
    PROVE  BeganRight' /\ lap'.since \in Itow
<1> DEFINE begins == lt'.lapCount # lt.lapCount \/ lt'.running # lt.running
           clean == itow = time /\ t = (time + d) % Week
           known == IF begins THEN clean ELSE lap.trusted /\ lap.since + d < Week
           o0 == IF 0 \in X THEN o[0] ELSE 0
<1>1. /\ lap'.trusted = known
      /\ lap'.since = IF ~known THEN 0 ELSE IF begins THEN d - o0 ELSE lap.since + d
  BY HistoryOfSample
<1>2. /\ \A k \in X : o[k] \in Itow /\ Crossings(X, o)[k] = Crossing(itow, o[k])
      /\ d \in Itow /\ (time + d) % Week = Crossing(time, d)
      /\ clean => \A k \in X : o[k] <= d
  <2>1. TypeOK
    BY DEF LapInv
  <2>2. \A k \in X : o[k] \in Itow /\ Crossings(X, o)[k] = Crossing(itow, o[k])
    BY <2>1, OffsetsOfSample
  <2>4. d \in Itow /\ (time + d) % Week = Crossing(time, d)
    BY <2>1, CrossingsOfSample
  <2>3. itow = time /\ t = (time + d) % Week => \A k \in X : o[k] <= d
    BY <2>1, CrossingsOfSample
  <2> QED
    BY <2>2, <2>3, <2>4, Zenon
<1>3. time \in Itow /\ lap.since \in Itow /\ lt.lapStart \in Itow
  BY DEF LapInv, TypeOK
<1>4. time' = Crossing(time, d)
  BY <1>2, Zenon DEF SampleOf
<1>5. CASE begins /\ clean
  <2>1. 0 \in X /\ lt'.lapStart = Crossings(X, o)[0]
    BY <1>5, BeginsAtGate0, ZenonT(40)
  <2>2. o0 \in Itow /\ o0 <= d /\ lt'.lapStart = Crossing(time, o0)
    BY <1>2, <1>5, <2>1, Zenon
  <2>3. lap'.since = d - o0
    BY <1>1, <1>5, Zenon
  <2>4. Elapsed(lt'.lapStart, time') = d - o0
    BY <1>2, <1>3, <1>4, <2>2, ElapsedBetween
  <2>5. d - o0 \in Itow
    BY <1>2, <2>2, WeekIsNat DEF Itow
  <2> QED
    BY <2>3, <2>4, <2>5, Zenon DEF BeganRight
<1>6. CASE ~begins /\ known
  <2>1. lap.trusted /\ lap.since + d < Week /\ lap'.since = lap.since + d
    BY <1>1, <1>6, Zenon
  <2>2. lt'.running = lt.running /\ lt'.lapStart = lt.lapStart
    <3>1. /\ lt'.lapCount = lt.lapCount /\ lt'.running = lt.running
          /\ lt'.lapStart = AfterStartLine(lt, X, Crossings(X, o)).lapStart
      BY <1>6, BeginsAtGate0, Zenon DEF SectorsOnly
    <3>2. AfterStartLine(lt, X, Crossings(X, o)) = lt
      <4>1. \/ lt'.lapCount # lt.lapCount \/ lt'.running # lt.running
            \/ AfterStartLine(lt, X, Crossings(X, o)) = lt
        BY BeginsAtGate0
      <4> QED
        BY <1>6, <4>1, Zenon
    <3> QED
      BY <3>1, <3>2, Zenon
  <2>3. lt.running => Elapsed(lt.lapStart, time) = lap.since
    BY <2>1, Zenon DEF LapInv, BeganRight
  <2>4. ASSUME lt.running PROVE Elapsed(lt.lapStart, Crossing(time, d)) = lap.since + d
    <3>1. Elapsed(lt.lapStart, time) = lap.since
      BY <2>3, <2>4
    <3>2. Elapsed(lt.lapStart, time) + d < Week
      BY <2>1, <3>1, Zenon
    <3>3. Elapsed(lt.lapStart, Crossing(time, d)) = Elapsed(lt.lapStart, time) + d
      BY <1>2, <1>3, <3>2, ElapsedLater, Zenon
    <3> QED
      BY <3>1, <3>3, Zenon
  <2>5. lap.since + d \in Itow
    BY <1>2, <1>3, <2>1, WeekIsNat DEF Itow
  <2> QED
    BY <1>4, <2>1, <2>2, <2>4, <2>5, Zenon DEF BeganRight
<1>7. CASE ~known
  <2>1. lap'.trusted = FALSE /\ lap'.since = 0
    BY <1>1, <1>7, Zenon
  <2> QED
    BY <2>1, WeekIsNat DEF BeganRight, Itow
<1> QED
  BY <1>5, <1>6, <1>7, Zenon

\* What the events of the sample add to the sum of the lap.
LEMMA SumIsSoFarKept ==
    ASSUME LapInv, NEW d \in 1 .. MaxStep, NEW X \in SUBSET Gate, NEW t \in Itow,
           NEW o \in [X -> 0 .. (t - itow) % Week], SampleOf(d, X, t, o)
    PROVE  SumIsSoFar'
<1> DEFINE begins == lt'.lapCount # lt.lapCount \/ lt'.running # lt.running
           c == Crossings(X, o)
           s0 == AfterStartLine(lt, X, c)
<1>1. /\ lap'.alone = (Cardinality(X) <= 1 /\ (begins \/ lap.alone))
      /\ lap'.sum = IF begins \/ ~lt'.running THEN 0
                    ELSE (lap.sum + SectorMs(sent')) % Week
  BY HistoryOfSample
<1>2. sent' = LapEvents(lt, lt')
  BY Zenon DEF SampleOf
<1>3. /\ lt \in LapState /\ lt' \in LapState /\ s0 \in LapState /\ c \in [X -> Itow]
      /\ X \subseteq {0} \/ ~s0.running => lt' = s0
      /\ \A g \in Gate \ {0} : X = {g} /\ s0.running => lt' = SectorLine(s0, c[g])
  BY BeginsAtGate0
<1>7. \/ lt'.lapCount # lt.lapCount \/ lt'.running # lt.running
      \/ AfterStartLine(lt, X, Crossings(X, o)) = lt
  BY BeginsAtGate0
<1> SUFFICES ASSUME lap'.alone, lt'.running
             PROVE  Elapsed(lt'.lapStart, lt'.sectorStart) = lap'.sum
  BY Zenon DEF SumIsSoFar
<1>4. (X = {} \/ \E g \in Gate : X = {g}) /\ (begins \/ lap.alone)
  BY <1>1, AtMostOne, Zenon
<1>5. CASE begins
  <2>1. 0 \in X /\ lt'.lapStart = c[0] /\ s0.sectorStart = c[0]
    BY <1>5, BeginsAtGate0, Zenon
  <2>2. X = {0}
    BY <1>4, <2>1
  <2>3. lt' = s0 /\ c[0] \in Itow
    BY <1>3, <2>2
  <2>4. Elapsed(c[0], c[0]) = 0
    BY <2>3, WeekIsNat DEF Elapsed, Itow
  <2> QED
    BY <1>1, <1>5, <2>1, <2>3, <2>4, Zenon
<1>6. CASE ~begins
  <2>1. s0 = lt
    BY <1>6, <1>7, Zenon
  <2>0. lt.running
    BY <1>6, Zenon
  <2>2. Elapsed(lt.lapStart, lt.sectorStart) = lap.sum /\ lap.sum \in Itow
    BY <1>4, <1>6, <2>0, Zenon DEF LapInv, SumIsSoFar, TypeOK
  <2>3. lap'.sum = (lap.sum + SectorMs(sent')) % Week
    BY <1>1, <1>6, Zenon
  <2>4. CASE X \subseteq {0}
    <3>1. lt' = lt
      BY <1>3, <2>0, <2>1, <2>4, Zenon
    <3>2. SectorMs(sent') = 0
      BY <1>2, <3>1, EventsOfSample
    <3>3. (lap.sum + 0) % Week = lap.sum
      BY <2>2, WeekIsNat, ModOnce DEF Itow
    <3> QED
      BY <2>2, <2>3, <3>1, <3>2, <3>3, Zenon
  <2>5. CASE ~(X \subseteq {0})
    <3>1. PICK g \in Gate \ {0} : X = {g}
      BY <1>4, <2>5
    <3>2. lt' = SectorLine(lt, c[g]) /\ c[g] \in Itow
      BY <1>3, <2>0, <2>1, <3>1
    <3>3. /\ lt'.lastSector = Elapsed(lt.sectorStart, c[g]) /\ lt'.sectorStart = c[g]
          /\ lt'.lapStart = lt.lapStart /\ lt'.sector # lt.sector
      BY <1>3, <3>2, SectorLineFields
    <3>4. SectorMs(sent') = Elapsed(lt.sectorStart, c[g])
      BY <1>2, <3>3, EventsOfSample
    <3>5. (Elapsed(lt.lapStart, lt.sectorStart) + Elapsed(lt.sectorStart, c[g])) % Week
             = Elapsed(lt.lapStart, c[g])
      BY <1>3, <3>2, ElapsedAddsUp DEF LapState
    <3> QED
      BY <2>2, <2>3, <3>3, <3>4, <3>5, Zenon
  <2> QED
    BY <2>4, <2>5
<1> QED
  BY <1>5, <1>6

LEMMA TypeKept ==
    ASSUME LapInv, NEW d \in 1 .. MaxStep, NEW X \in SUBSET Gate, NEW t \in Itow,
           NEW o \in [X -> 0 .. (t - itow) % Week], SampleOf(d, X, t, o)
    PROVE  TypeOK'
<1> DEFINE begins == lt'.lapCount # lt.lapCount \/ lt'.running # lt.running
           clean == itow = time /\ t = (time + d) % Week
           known == IF begins THEN clean ELSE lap.trusted /\ lap.since + d < Week
           o0 == IF 0 \in X THEN o[0] ELSE 0
<1>1. /\ lt' = lt' /\ lt'.lapCount <= MaxLaps /\ lt'.sector <= MaxSector
      /\ itow' = t /\ time' = (time + d) % Week /\ sent' = LapEvents(lt, lt')
      /\ published' = Publish(lt', t)
  BY Zenon DEF SampleOf
<1>2. TypeOK
  BY Zenon DEF LapInv
<1>3. d \in Itow /\ (time + d) % Week = Crossing(time, d) /\ Crossing(time, d) \in Itow
  BY <1>2, CrossingsOfSample, Zenon
<1>4. \A k \in X : o[k] \in Itow /\ Crossings(X, o)[k] = Crossing(itow, o[k])
  BY <1>2, OffsetsOfSample
<1>5. lt \in LapState /\ lt' \in LapState
  BY BeginsAtGate0
<1>6. lt' \in [running : BOOLEAN, lapStart : Itow, sectorStart : Itow, lastLap : Itow,
               lastSector : Itow, lapCount : 0 .. MaxLaps, sector : 0 .. MaxSector]
  <2>1. lt'.lapCount \in 0 .. MaxLaps /\ lt'.sector \in 0 .. MaxSector
    BY <1>1, <1>5, BoundAssumption DEF LapState
  <2> QED
    BY <1>5, <2>1 DEF LapState
<1>7. itow' \in Itow /\ time' \in Itow
  BY <1>1, <1>3
<1>8. published' \in [lapNum : 0 .. MaxLaps, ms : Itow, sector : 0 .. MaxSector,
                      running : BOOLEAN]
  <2>1. CurrentElapsed(lt', t) \in Itow
    <3>1. lt'.lapStart \in Itow /\ 0 \in Itow
      BY <1>5, WeekIsNat DEF LapState, Itow
    <3>2. Elapsed(lt'.lapStart, t) \in Itow
      BY <3>1, WeekArithmetic
    <3> QED
      BY <3>1, <3>2 DEF CurrentElapsed
  <2>2. published' = [lapNum |-> lt'.lapCount, ms |-> CurrentElapsed(lt', t),
                      sector |-> lt'.sector, running |-> lt'.running]
    BY <1>1 DEF Publish
  <2> QED
    BY <1>6, <2>1, <2>2
<1>9. sent' \in Seq([type : {"LAP", "SECTOR"}, lap : 0 .. MaxLaps, ms : Itow]) /\ Len(sent') <= 2
  <2> DEFINE Event == [type : {"LAP", "SECTOR"}, lap : 0 .. MaxLaps, ms : Itow]
             lapEvent == [type |-> "LAP", lap |-> lt.lapCount + 1, ms |-> lt'.lastLap]
             sectorEvent == [type |-> "SECTOR", lap |-> lt'.lapCount, ms |-> lt'.lastSector]
  <2>1. lt'.lapCount = lt.lapCount \/ lt'.lapCount = lt.lapCount + 1
    BY BeginsAtGate0
  <2>2. sectorEvent \in Event
    BY <1>6
  <2>3. lt'.lapCount # lt.lapCount => lapEvent \in Event
    BY <1>6, <2>1
  <2>4. sent' = IF lt'.lapCount # lt.lapCount
                THEN IF lt'.sector # lt.sector THEN <<lapEvent, sectorEvent>> ELSE <<lapEvent>>
                ELSE IF lt'.sector # lt.sector THEN <<sectorEvent>> ELSE <<>>
    BY <1>1, EventsOfSample
  <2> HIDE DEF Event, lapEvent, sectorEvent
  <2>5. sent' \in Seq(Event) /\ Len(sent') <= 2
    BY <2>2, <2>3, <2>4
  <2> QED
    BY <2>5 DEF Event
<1>10. lap' \in [since : Itow, trusted : BOOLEAN, finish : Itow \union {-1},
                 sum : Itow, alone : BOOLEAN]
  <2> DEFINE finish == IF /\ 0 \in X /\ lt.running
                          /\ lap.trusted /\ clean /\ lap.since + o0 < Week
                       THEN lap.since + o0 ELSE -1
             sum == IF begins \/ ~lt'.running THEN 0 ELSE (lap.sum + SectorMs(sent')) % Week
             alone == Cardinality(X) <= 1 /\ (begins \/ lap.alone)
             since == IF ~known THEN 0 ELSE IF begins THEN d - o0 ELSE lap.since + d
  <2>1. lap' = [since |-> since, trusted |-> known, finish |-> finish, sum |-> sum,
                alone |-> alone]
    BY HistoryOfSample
  <2>2. since \in Itow
    <3>1. lap'.since \in Itow
      BY BeganRightKept
    <3>2. lap'.since = since
      BY <2>1
    <3> QED
      BY <3>1, <3>2
  <2>3. known \in BOOLEAN
    BY <1>2, Zenon DEF TypeOK
  <2>4. alone \in BOOLEAN
    BY <1>2, Zenon DEF TypeOK
  <2>5. finish \in Itow \union {-1}
    <3>1. lap.since \in Itow /\ o0 \in Nat
      BY <1>2, <1>4, WeekIsNat DEF TypeOK, Itow
    <3>2. lap.since + o0 < Week => lap.since + o0 \in Itow
      BY <3>1, WeekIsNat DEF Itow
    <3> HIDE DEF o0, clean
    <3> QED
      BY <3>2, Zenon
  <2>6. sum \in Itow
    <3>1. lap.sum \in Itow /\ 0 \in Itow
      BY <1>2, WeekIsNat DEF TypeOK, Itow
    <3>2. SectorMs(sent') \in Itow
      <4>1. SectorMs(sent') = IF lt'.sector # lt.sector THEN lt'.lastSector ELSE 0
        BY <1>1, EventsOfSample
      <4> QED
        BY <1>6, <3>1, <4>1
    <3>3. (lap.sum + SectorMs(sent')) % Week \in Itow
      BY <3>1, <3>2, WeekArithmetic
    <3> QED
      BY <3>1, <3>3, Zenon
  <2> HIDE DEF since, known, finish, sum, alone
  <2> QED
    BY <2>1, <2>2, <2>3, <2>4, <2>5, <2>6
<1> QED
  BY <1>6, <1>7, <1>8, <1>9, <1>10 DEF TypeOK

\* Every sample has its values.
LEMMA SampleHasValues ==
    ASSUME LapInv, Sample
    PROVE  \E d \in 1 .. MaxStep, X \in SUBSET Gate, t \in Itow :
             \E o \in [X -> 0 .. (t - itow) % Week] : SampleOf(d, X, t, o)
<1>1. PICK d \in 1 .. MaxStep, X \in {Y \in SUBSET Gate : Cardinality(Y) <= MaxCrossed} :
        \E t \in Misread \union {(time + d) % Week} :
        \E o \in [X -> 0 .. (t - itow) % Week] : SampleOf(d, X, t, o)
  BY Zenon DEF Sample, SampleOf
<1>2. PICK t \in Misread \union {(time + d) % Week} :
        \E o \in [X -> 0 .. (t - itow) % Week] : SampleOf(d, X, t, o)
  BY <1>1
<1>3. t \in Itow
  <2>1. (time + d) % Week \in Itow
    <3>1. time \in Itow /\ d \in Itow
      BY WeekIsNat DEF LapInv, TypeOK, Itow
    <3> QED
      BY <3>1, WeekArithmetic
  <2> QED
    BY <2>1, MisreadAssumption
<1> QED
  BY <1>1, <1>2, <1>3

LEMMA LapInvInit ==
    Init => LapInv
<1> SUFFICES ASSUME Init PROVE LapInv
  OBVIOUS
<1>1. 0 \in Itow /\ 0 \in 0 .. MaxLaps /\ 0 \in 0 .. MaxSector
  BY WeekIsNat, BoundAssumption DEF Itow
<1>2. published = [lapNum |-> 0, ms |-> 0, sector |-> 0, running |-> FALSE]
  BY DEF Init, Publish, CurrentElapsed
<1>3. TypeOK
  <2>1. lt \in [running : BOOLEAN, lapStart : Itow, sectorStart : Itow, lastLap : Itow,
                lastSector : Itow, lapCount : 0 .. MaxLaps, sector : 0 .. MaxSector]
    BY <1>1 DEF Init
  <2>2. published \in [lapNum : 0 .. MaxLaps, ms : Itow, sector : 0 .. MaxSector,
                       running : BOOLEAN]
    BY <1>1, <1>2
  <2>3. itow \in Itow /\ time \in Itow
    BY <1>1 DEF Init
  <2>4. sent \in Seq([type : {"LAP", "SECTOR"}, lap : 0 .. MaxLaps, ms : Itow])
        /\ Len(sent) <= 2
    BY DEF Init
  <2>5. lap \in [since : Itow, trusted : BOOLEAN, finish : Itow \union {-1},
                 sum : Itow, alone : BOOLEAN]
    <3>1. lap = [since |-> 0, trusted |-> FALSE, finish |-> -1, sum |-> 0, alone |-> TRUE]
      BY DEF Init
    <3> QED
      BY <1>1, <3>1
  <2> QED
    BY <2>1, <2>2, <2>3, <2>4, <2>5 DEF TypeOK
<1>4. PublishedNow
  BY DEF Init, PublishedNow
<1>5. lt.running = FALSE
  BY DEF Init
<1> QED
  BY <1>3, <1>4, <1>5, Zenon DEF LapInv, BeganRight, SumIsSoFar

LEMMA LapInvStep ==
    LapInv /\ [Next]_vars => LapInv'
<1> SUFFICES ASSUME LapInv, [Next]_vars PROVE LapInv'
  OBVIOUS
<1>1. CASE Sample
  <2>1. PICK d \in 1 .. MaxStep, X \in SUBSET Gate, t \in Itow :
          \E o \in [X -> 0 .. (t - itow) % Week] : SampleOf(d, X, t, o)
    BY <1>1, SampleHasValues
  <2>2. PICK o \in [X -> 0 .. (t - itow) % Week] : SampleOf(d, X, t, o)
    BY <2>1
  <2>3. TypeOK' /\ BeganRight' /\ SumIsSoFar'
    BY <2>2, TypeKept, BeganRightKept, SumIsSoFarKept
  <2>4. PublishedNow'
    BY <2>2, Zenon DEF SampleOf, PublishedNow
  <2> QED
    BY <2>3, <2>4 DEF LapInv
<1>2. CASE UNCHANGED vars
  BY <1>2 DEF vars, LapInv, TypeOK, BeganRight, PublishedNow, SumIsSoFar
<1> QED
  BY <1>1, <1>2 DEF Next

-----------------------------------------------------------------------------
(* The theorems.                                                           *)

\* The state of the lap timer and what it sends keep their types, for a week, a
\* number of gates and misreadings of any kind.
THEOREM TypeCorrect ==
    Spec => []TypeOK
<1>1. LapInv => TypeOK
  BY DEF LapInv
<1> QED
  BY LapInvInit, LapInvStep, <1>1, PTL DEF Spec

\* The running lap that is published is the time since it began, whatever was
\* misread in the middle of it and across the end of the week.
THEOREM RunningLapIsTrue ==
    Spec => []PublishedTrue
<1>1. LapInv => PublishedTrue
  <2> SUFFICES ASSUME LapInv, lt.running, lap.trusted, itow = time
               PROVE  published.ms = lap.since
    BY Zenon DEF PublishedTrue
  <2>1. Elapsed(lt.lapStart, time) = lap.since
    BY Zenon DEF LapInv, BeganRight
  <2>2. published.ms = CurrentElapsed(lt, itow)
    BY DEF LapInv, PublishedNow, Publish
  <2>3. CurrentElapsed(lt, itow) = Elapsed(lt.lapStart, itow)
    BY Zenon DEF CurrentElapsed
  <2> QED
    BY <2>1, <2>2, <2>3, Zenon
<1> QED
  BY LapInvInit, LapInvStep, <1>1, PTL DEF Spec

\* A crossing of start/finish counts a lap exactly when it has lasted MinLap, and
\* with the time it took, as soon as both its ends were read right: for a week of
\* any length, any misreadings in between, and any gates crossed with it.
THEOREM LapsAreTimedRight ==
    Spec => LapTimesTrue
<1> DEFINE Timed == lap'.finish # -1 =>
                      IF lap'.finish >= MinLap
                      THEN lt'.lapCount = lt.lapCount + 1 /\ lt'.lastLap = lap'.finish
                      ELSE lt'.lapCount = lt.lapCount /\ lt'.lastLap = lt.lastLap
<1>1. LapInv /\ [Next]_vars => [Timed]_vars
  <2> SUFFICES ASSUME LapInv, Sample, lap'.finish # -1
               PROVE  IF lap'.finish >= MinLap
                      THEN lt'.lapCount = lt.lapCount + 1 /\ lt'.lastLap = lap'.finish
                      ELSE lt'.lapCount = lt.lapCount /\ lt'.lastLap = lt.lastLap
    BY DEF Next
  <2>1. PICK d \in 1 .. MaxStep, X \in SUBSET Gate, t \in Itow :
          \E o \in [X -> 0 .. (t - itow) % Week] : SampleOf(d, X, t, o)
    BY SampleHasValues
  <2>2. PICK o \in [X -> 0 .. (t - itow) % Week] : SampleOf(d, X, t, o)
    BY <2>1
  <2> DEFINE o0 == IF 0 \in X THEN o[0] ELSE 0
             c == Crossings(X, o)
  <2>3. lap'.finish = IF /\ 0 \in X /\ lt.running
                         /\ lap.trusted /\ (itow = time /\ t = (time + d) % Week)
                         /\ lap.since + o0 < Week
                      THEN lap.since + o0 ELSE -1
    BY <2>2, HistoryOfSample
  <2>4. /\ 0 \in X /\ lt.running /\ lap.trusted /\ itow = time /\ lap.since + o[0] < Week
        /\ lap'.finish = lap.since + o[0]
    BY <2>3, Zenon
  <2>5. TypeOK
    BY DEF LapInv
  <2>6. o[0] \in Itow /\ c[0] = Crossing(itow, o[0])
    BY <2>4, <2>5, OffsetsOfSample
  <2>7. Elapsed(lt.lapStart, time) = lap.since
    BY <2>4, Zenon DEF LapInv, BeganRight
  <2>8. Elapsed(lt.lapStart, c[0]) = lap'.finish
    <3>1. lt.lapStart \in Itow /\ time \in Itow
      BY <2>5 DEF TypeOK
    <3>2. Elapsed(lt.lapStart, time) + o[0] < Week
      BY <2>4, <2>7, Zenon
    <3>3. Elapsed(lt.lapStart, Crossing(time, o[0])) = Elapsed(lt.lapStart, time) + o[0]
      BY <2>6, <3>1, <3>2, ElapsedLater, Zenon
    <3> QED
      BY <2>4, <2>6, <2>7, <3>3, Zenon
  <2>9. /\ lt \in LapState /\ SectorsOnly(AfterStartLine(lt, X, c), lt')
        /\ \/ /\ AfterStartLine(lt, X, c) = lt
              /\ 0 \in X => lt.running /\ Elapsed(lt.lapStart, c[0]) < MinLap
              /\ lt'.lapCount = lt.lapCount /\ lt'.running = lt.running
           \/ ~lt.running
           \/ /\ Elapsed(lt.lapStart, c[0]) >= MinLap
              /\ lt'.lapCount = lt.lapCount + 1
              /\ lt'.lastLap = Elapsed(lt.lapStart, c[0])
    BY <2>2, BeginsAtGate0, ZenonT(40)
  <2>10. lap'.finish \in Int
    <3>1. lap.since \in Nat
      BY <2>5 DEF TypeOK, Itow
    <3>2. o[0] \in Nat
      BY <2>6 DEF Itow
    <3>3. lap.since + o[0] \in Int
      BY <3>1, <3>2
    <3> QED
      BY <2>4, <3>3, Zenon
  <2>11. CASE Elapsed(lt.lapStart, c[0]) < MinLap /\ AfterStartLine(lt, X, c) = lt
    <3>1. lt'.lapCount = lt.lapCount /\ lt'.lastLap = lt.lastLap
      BY <2>9, <2>11, Zenon DEF SectorsOnly
    <3>2. ~(lap'.finish >= MinLap)
      BY <2>8, <2>10, <2>11, WeekIsNat
    <3> QED
      BY <3>1, <3>2
  <2>12. CASE /\ Elapsed(lt.lapStart, c[0]) >= MinLap
              /\ lt'.lapCount = lt.lapCount + 1 /\ lt'.lastLap = Elapsed(lt.lapStart, c[0])
    BY <2>8, <2>12, Zenon
  <2> QED
    BY <2>4, <2>9, <2>11, <2>12, Zenon
<1> HIDE DEF Timed
<1>2. Spec => [][Timed]_vars
  BY LapInvInit, LapInvStep, <1>1, PTL DEF Spec
<1> QED
  BY <1>2 DEF LapTimesTrue, Timed

\* Every completed lap is announced with its number and its time, before the
\* sector that it closed.
THEOREM LapsAreAnnounced ==
    Spec => LapAnnounced
<1> DEFINE Announced == lt'.lapCount # lt.lapCount =>
              /\ sent' # <<>>
              /\ Head(sent') = [type |-> "LAP", lap |-> lt'.lapCount, ms |-> lt'.lastLap]
<1>1. LapInv /\ [Next]_vars => [Announced]_vars
  <2> SUFFICES ASSUME LapInv, Sample, lt'.lapCount # lt.lapCount
               PROVE  /\ sent' # <<>>
                      /\ Head(sent') = [type |-> "LAP", lap |-> lt'.lapCount, ms |-> lt'.lastLap]
    BY DEF Next
  <2>1. PICK d \in 1 .. MaxStep, X \in SUBSET Gate, t \in Itow :
          \E o \in [X -> 0 .. (t - itow) % Week] : SampleOf(d, X, t, o)
    BY SampleHasValues
  <2>2. PICK o \in [X -> 0 .. (t - itow) % Week] : SampleOf(d, X, t, o)
    BY <2>1
  <2>3. sent' = LapEvents(lt, lt')
    BY <2>2, Zenon DEF SampleOf
  <2>4. lt'.lapCount = lt.lapCount + 1
    BY <2>2, BeginsAtGate0, Zenon
  <2> DEFINE lapEvent == [type |-> "LAP", lap |-> lt.lapCount + 1, ms |-> lt'.lastLap]
             sectorEvent == [type |-> "SECTOR", lap |-> lt'.lapCount, ms |-> lt'.lastSector]
  <2>5. sent' \in {<<lapEvent>>, <<lapEvent, sectorEvent>>}
    BY <2>3, EventsOfSample
  <2>6. lapEvent = [type |-> "LAP", lap |-> lt'.lapCount, ms |-> lt'.lastLap]
    BY <2>4
  <2> HIDE DEF lapEvent, sectorEvent
  <2>7. sent' # <<>> /\ Head(sent') = lapEvent
    BY <2>5
  <2> QED
    BY <2>6, <2>7
<1> HIDE DEF Announced
<1>2. Spec => [][Announced]_vars
  BY LapInvInit, LapInvStep, <1>1, PTL DEF Spec
<1> QED
  BY <1>2 DEF LapAnnounced, Announced

\* The sector times that are announced for a lap add up to its time, whatever was
\* read at the crossings, for any number of sector gates.
THEOREM SectorsMakeTheLap ==
    Spec => SectorsAddUp
<1> DEFINE AddUp == lt'.lapCount # lt.lapCount /\ lt.sector > 0 /\ lap.alone /\ lap'.alone =>
                        (lap.sum + SectorMs(sent')) % Week = lt'.lastLap
<1>1. LapInv /\ [Next]_vars => [AddUp]_vars
  <2> SUFFICES ASSUME LapInv, Sample, lt'.lapCount # lt.lapCount, lt.sector > 0,
                      lap.alone, lap'.alone
               PROVE  (lap.sum + SectorMs(sent')) % Week = lt'.lastLap
    BY DEF Next
  <2>1. PICK d \in 1 .. MaxStep, X \in SUBSET Gate, t \in Itow :
          \E o \in [X -> 0 .. (t - itow) % Week] : SampleOf(d, X, t, o)
    BY SampleHasValues
  <2>2. PICK o \in [X -> 0 .. (t - itow) % Week] : SampleOf(d, X, t, o)
    BY <2>1
  <2> DEFINE c == Crossings(X, o)
             s0 == AfterStartLine(lt, X, c)
  <2>3. /\ 0 \in X /\ lt.running /\ s0.sector = 0
        /\ s0.lastSector = Elapsed(lt.sectorStart, c[0])
        /\ lt'.lastLap = Elapsed(lt.lapStart, c[0])
    BY <2>2, BeginsAtGate0, ZenonT(40)
  <2>4. Cardinality(X) <= 1
    BY <2>2, AloneMeansOne, Zenon
  <2>5. X = {0}
    BY <2>3, <2>4, AtMostOne
  <2>6. lt' = s0 /\ lt \in LapState /\ c \in [X -> Itow]
    BY <2>2, <2>5, BeginsAtGate0
  <2>7. sent' = LapEvents(lt, lt')
    BY <2>2, Zenon DEF SampleOf
  <2>8. lt'.sector # lt.sector
    BY <2>3, <2>6 DEF LapState
  <2>9. SectorMs(sent') = Elapsed(lt.sectorStart, c[0])
    <3>1. SectorMs(sent') = lt'.lastSector
      BY <2>7, <2>8, EventsOfSample
    <3> QED
      BY <2>3, <2>6, <3>1, Zenon
  <2>10. Elapsed(lt.lapStart, lt.sectorStart) = lap.sum
    BY <2>3, Zenon DEF LapInv, SumIsSoFar
  <2>11. (Elapsed(lt.lapStart, lt.sectorStart) + Elapsed(lt.sectorStart, c[0])) % Week
            = Elapsed(lt.lapStart, c[0])
    <3>1. c[0] \in Itow /\ lt.lapStart \in Itow /\ lt.sectorStart \in Itow
      BY <2>5, <2>6 DEF LapState
    <3> QED
      BY <3>1, ElapsedAddsUp
  <2> QED
    BY <2>3, <2>9, <2>10, <2>11, Zenon
<1> HIDE DEF AddUp
<1>2. Spec => [][AddUp]_vars
  BY LapInvInit, LapInvStep, <1>1, PTL DEF Spec
<1> QED
  BY <1>2 DEF SectorsAddUp, AddUp
=============================================================================

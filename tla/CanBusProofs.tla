---------------------------- MODULE CanBusProofs ----------------------------
(***************************************************************************)
(* Proofs about CanBus: its types, the counters that tell the dash what    *)
(* was dropped, and the bound on how far the task falls behind.            *)
(***************************************************************************)
EXTENDS CanBus, NatFacts, FiniteSetTheorems

\* What the numbers among the constants are.
LEMMA Sizes ==
    /\ Wrap \in Nat /\ Wrap > 0
    /\ SlotMs \in Nat /\ SlotMs > 0
    /\ CounterMod \in Nat /\ CounterMod > 0
    /\ EventQueueLen \in Nat /\ EventQueueLen > 0
    /\ FifoDepth \in Nat /\ FifoDepth > 0
    /\ WaitMax \in Nat /\ MaxUpdates \in Nat /\ MaxEvents \in Nat
BY CanAssumption

LEMMA RotaFacts ==
    /\ Len(Rota) \in Nat /\ DOMAIN Rota = 1 .. Len(Rota)
    /\ Events = Len(Rota) + 1 /\ Events \in Nat /\ Events > 0
    /\ \A i \in 1 .. Len(Rota) : Rota[i].id \in {"pose", "origin", "gate"}
    /\ \A s : DueOf(Rota, s) \subseteq 1 .. Len(Rota)
<1>1. Rota \in Seq([id : {"pose", "origin", "gate"}, period : Nat \ {0}, phase : Nat])
  BY CanAssumption
<1>2. Len(Rota) \in Nat /\ DOMAIN Rota = 1 .. Len(Rota)
  BY <1>1
<1>3. ASSUME NEW i \in 1 .. Len(Rota) PROVE Rota[i].id \in {"pose", "origin", "gate"}
  <2> DEFINE Entry == [id : {"pose", "origin", "gate"}, period : Nat \ {0}, phase : Nat]
  <2>1. Rota \in Seq(Entry)
    BY <1>1
  <2> HIDE DEF Entry
  <2>2. Rota[i] \in Entry
    BY <1>2, <2>1
  <2> QED
    BY <2>2 DEF Entry
<1>4. \A s : DueOf(Rota, s) \subseteq 1 .. Len(Rota)
  BY <1>2 DEF DueOf
<1> QED
  BY <1>2, <1>3, <1>4 DEF Events

LEMMA FieldFacts ==
    /\ Len(GateFields) \in Nat /\ Len(GateFields) > 0
    /\ DOMAIN GateFields = 1 .. Len(GateFields)
    /\ "pose" \in Fields /\ "origin" \in Fields
    /\ \A i \in 1 .. Len(GateFields) : GateFields[i] \in Fields
<1>1. GateFields \in Seq(STRING) /\ GateFields # <<>>
  BY CanAssumption
<1> QED
  BY <1>1 DEF Fields

\* The entry that comes next is due, or the events do; none between is passed over.
LEMMA NextDueIs ==
    ASSUME NEW i \in 1 .. Events
    PROVE  /\ NextDue(i) \in i .. Events
           /\ NextDue(i) \in 1 .. Len(Rota) => NextDue(i) \in DueOf(Rota, slot)
           /\ \A j \in DueOf(Rota, slot) : j >= i => j >= NextDue(i)
<1> DEFINE T == {j \in DueOf(Rota, slot) : j >= i} \union {Events}
<1>1. T \in SUBSET Nat /\ T # {}
  BY RotaFacts
<1>2. PICK x \in T : \A y \in T : x <= y
  BY <1>1, LeastElement
<1>3. NextDue(i) \in T /\ \A y \in T : NextDue(i) <= y
  BY <1>2 DEF NextDue, Min
<1>4. NextDue(i) \in i .. Events
  BY <1>3, RotaFacts
<1>5. NextDue(i) \in 1 .. Len(Rota) => NextDue(i) \in DueOf(Rota, slot)
  BY <1>3, RotaFacts
<1>6. \A j \in DueOf(Rota, slot) : j >= i => j >= NextDue(i)
  BY <1>3, <1>4, RotaFacts
<1> QED
  BY <1>4, <1>5, <1>6

LEMMA FewerIs ==
    ASSUME NEW m \in Nat, NEW n \in Nat
    PROVE  Min({m, n}) \in {m, n} /\ Min({m, n}) <= m /\ Min({m, n}) <= n
<1>1. PICK x \in {m, n} : \A y \in {m, n} : x <= y
  BY LeastElement
<1>2. Min({m, n}) \in {m, n} /\ \A y \in {m, n} : Min({m, n}) <= y
  BY <1>1 DEF Min
<1> QED
  BY <1>2

\* The number of the last change is one of the fields' versions.
LEMMA NewestIs ==
    ASSUME mirror \in [Fields -> 0 .. MaxUpdates]
    PROVE  Newest \in 0 .. MaxUpdates
<1> DEFINE T == {mirror[f] : f \in Fields}
<1>2. T \in SUBSET Int /\ T # {} /\ \A x \in T : x <= MaxUpdates
  BY Sizes, FieldFacts
<1>1. MaxUpdates \in Int
  BY Sizes
<1> HIDE DEF T
<1>3. \E x \in T : \A y \in T : y <= x
  BY <1>1, <1>2, GreatestElement, Zenon
<1> USE DEF T
<1>4. Newest \in T
  BY <1>3 DEF Newest, Max
<1> QED
  BY <1>4

LEMMA CounterIs ==
    ASSUME NEW c \in Counters
    PROVE  (c + 1) % CounterMod \in Counters
BY Sizes DEF Counters

-----------------------------------------------------------------------------
(* The types.                                                              *)

LEMMA TypeInit ==
    ASSUME Init
    PROVE  TypeOK
<1>1. mirror \in [Fields -> 0 .. MaxUpdates] /\ snap \in [Fields -> 0 .. MaxUpdates]
      /\ dash \in [Fields -> -1 .. MaxUpdates]
  BY Sizes DEF Init, Unset
<1>2. {counter, heard, missed} \subseteq [Counted -> Counters]
  BY Sizes DEF Init, Counters
<1>3. fifo \in Seq(Frame) /\ Len(fifo) <= FifoDepth
  BY Sizes DEF Init
<1>4. queued \in 0 .. EventQueueLen /\ posted \in 0 .. MaxEvents /\ waited \in 0 .. WaitMax
      /\ slot \in 0 .. Wrap - 1 /\ at \in 0 .. Events /\ late \in Int
  BY Sizes, RotaFacts DEF Init
<1>5. bus \in {"up", "stuck"} /\ blocked \in BOOLEAN
  BY DEF Init
<1>6. rr \in DOMAIN GateFields
  BY FieldFacts DEF Init
<1> QED
  BY <1>1, <1>2, <1>3, <1>4, <1>5, <1>6, Zenon DEF TypeOK

\* The frame that is to be sent, when there is one.
LEMMA SendingIs ==
    ASSUME TypeOK, HasFrame
    PROVE  /\ at \in 1 .. Len(Rota) \/ (at = Events /\ queued > 0)
           /\ Sending.id \in {"pose", "origin", "gate", "event"}
           /\ at # Events => Sending.field \in Fields
           /\ at = Events => Sending.field = "event" /\ Sending.id = "event"
           /\ at # Events => Sending.id # "event"
<1>1. at \in 1 .. Len(Rota) \/ (at = Events /\ queued > 0)
  BY RotaFacts, Zenon DEF HasFrame
<1>2. CASE at = Events
  BY <1>1, <1>2 DEF Sending
<1>3. CASE at # Events
  <2>1. at \in 1 .. Len(Rota)
    BY <1>1, <1>3
  <2>2. Rota[at].id \in {"pose", "origin", "gate"}
    BY <2>1, RotaFacts
  <2>3. GateFields[rr] \in Fields
    BY FieldFacts, Zenon DEF TypeOK
  <2> QED
    BY <1>3, <2>1, <2>2, <2>3, FieldFacts DEF Sending
<1> QED
  BY <1>2, <1>3

\* What SendFrame puts into the FIFO.
NewFrame ==
    [id |-> Sending.id, field |-> Sending.field,
     ctr |-> IF Sending.id \in Counted THEN counter[Sending.id] ELSE 0,
     gap |-> IF Sending.id \in Counted THEN missed[Sending.id] ELSE 0,
     val |-> IF at = Events THEN 0 ELSE snap[Sending.field]]

LEMMA NewFrameIs ==
    ASSUME TypeOK, HasFrame
    PROVE  NewFrame \in Frame
<1>1. Sending.id \in {"pose", "origin", "gate", "event"}
  BY SendingIs, Zenon
<1>2. Sending.field \in Fields \union {"event"}
  BY SendingIs, Zenon
<1>3. 0 \in Counters /\ 0 \in 0 .. MaxUpdates
  BY Sizes DEF Counters
<1>4. ASSUME Sending.id \in Counted
      PROVE  counter[Sending.id] \in Counters /\ missed[Sending.id] \in Counters
  BY <1>4, Zenon DEF TypeOK
<1>5. (IF Sending.id \in Counted THEN counter[Sending.id] ELSE 0) \in Counters
  BY <1>3, <1>4, Zenon
<1>6. (IF Sending.id \in Counted THEN missed[Sending.id] ELSE 0) \in Counters
  BY <1>3, <1>4, Zenon
<1>7. (IF at = Events THEN 0 ELSE snap[Sending.field]) \in 0 .. MaxUpdates
  <2>1. CASE at = Events
    BY <2>1, <1>3
  <2>2. CASE at # Events
    BY <2>2, SendingIs, Zenon DEF TypeOK
  <2> QED
    BY <2>1, <2>2
<1> HIDE DEF Counters
<1> QED
  BY <1>1, <1>2, <1>5, <1>6, <1>7 DEF NewFrame, Frame

LEMMA SendFrameTypes ==
    ASSUME TypeOK, SendFrame
    PROVE  TypeOK'
<1>1. HasFrame /\ ~Waits
      /\ UNCHANGED <<mirror, posted, bus, slot, snap, blocked, late, dash, heard>>
      /\ waited' = 0
  BY Zenon DEF SendFrame
<1>2. fifo' = IF Full THEN fifo ELSE Append(fifo, NewFrame)
  BY Zenon DEF SendFrame, NewFrame
<1>3. fifo' \in Seq(Frame) /\ Len(fifo') <= FifoDepth
  <2>1. fifo \in Seq(Frame) /\ Len(fifo) \in Nat /\ Len(fifo) <= FifoDepth
    BY DEF TypeOK
  <2>2. CASE Full
    BY <1>2, <2>1, <2>2, Zenon
  <2>3. CASE ~Full
    <3>1. NewFrame \in Frame
      BY <1>1, NewFrameIs, Zenon
    <3>2. fifo' = Append(fifo, NewFrame)
      BY <1>2, <2>3, Zenon
    <3> HIDE DEF NewFrame, Frame
    <3>3. fifo' \in Seq(Frame) /\ Len(fifo') = Len(fifo) + 1
      BY <2>1, <3>1, <3>2
    <3> QED
      BY <2>1, <2>3, <3>3, Sizes DEF Full
  <2> QED
    BY <2>2, <2>3
<1>4. counter' \in [Counted -> Counters] /\ missed' \in [Counted -> Counters]
  <2>1. counter \in [Counted -> Counters] /\ missed \in [Counted -> Counters]
    BY Zenon DEF TypeOK
  <2>2. CASE Sending.id \in Counted
    <3>1. counter' = [counter EXCEPT ![Sending.id] = CounterAfter(Sending.id)]
          /\ missed' = [missed EXCEPT ![Sending.id] =
                          IF Full THEN (@ + 1) % CounterMod ELSE 0]
      BY <2>2, Zenon DEF SendFrame
    <3>2. counter[Sending.id] \in Counters /\ missed[Sending.id] \in Counters
      BY <2>1, <2>2, Zenon
    <3>3. CounterAfter(Sending.id) \in Counters
          /\ (missed[Sending.id] + 1) % CounterMod \in Counters
      BY <3>2, CounterIs DEF CounterAfter
    <3>4. 0 \in Counters
      BY Sizes DEF Counters
    <3>5. (IF Full THEN (missed[Sending.id] + 1) % CounterMod ELSE 0) \in Counters
      BY <3>3, <3>4, Zenon
    <3> QED
      BY <2>1, <3>1, <3>3, <3>5, Zenon
  <2>3. CASE Sending.id \notin Counted
    BY <2>1, <2>3, Zenon DEF SendFrame
  <2> QED
    BY <2>2, <2>3
<1>5. heard' \in [Counted -> Counters]
  BY <1>1, Zenon DEF TypeOK
<1>6. rr' \in DOMAIN GateFields
  <2>1. rr \in 1 .. Len(GateFields)
    BY FieldFacts, Zenon DEF TypeOK
  <2>2. GateAfter \in 1 .. Len(GateFields)
    BY <2>1, FieldFacts DEF GateAfter
  <2>3. rr' = rr \/ rr' = GateAfter
    BY Zenon DEF SendFrame
  <2> QED
    BY <2>1, <2>2, <2>3, FieldFacts
<1>7. queued' \in 0 .. EventQueueLen /\ at' \in 0 .. Events
  <2>1. queued \in 0 .. EventQueueLen /\ at \in 0 .. Events
    BY Zenon DEF TypeOK
  <2>2. CASE at = Events
    <3>1. queued > 0
      BY <1>1, <2>2, SendingIs, RotaFacts
    <3>2. queued' = queued - 1 /\ at' = at
      BY <2>2, Zenon DEF SendFrame
    <3> QED
      BY <2>1, <3>1, <3>2, Sizes
  <2>3. CASE at # Events
    <3>1. at \in 1 .. Len(Rota)
      BY <1>1, <2>3, SendingIs
    <3>2. queued' = queued /\ at' = NextDue(at + 1)
      BY <2>3, Zenon DEF SendFrame
    <3>3. at + 1 \in 1 .. Events
      BY <3>1, RotaFacts
    <3>4. NextDue(at + 1) \in (at + 1) .. Events
      BY <3>3, NextDueIs
    <3> QED
      BY <2>1, <3>1, <3>2, <3>4, RotaFacts
  <2> QED
    BY <2>2, <2>3
<1>8. waited' \in 0 .. WaitMax
  BY <1>1, Sizes
<1> QED
  BY <1>1, <1>3, <1>4, <1>5, <1>6, <1>7, <1>8 DEF TypeOK

LEMMA BusSendsTypes ==
    ASSUME TypeOK, BusSends
    PROVE  TypeOK'
<1>1. fifo \in Seq(Frame) /\ fifo # <<>> /\ fifo' = Tail(fifo) /\ Len(fifo) <= FifoDepth
  BY Zenon DEF TypeOK, BusSends
<1> DEFINE f == Head(fifo)
<1>2. f \in Frame /\ fifo' \in Seq(Frame) /\ Len(fifo') <= FifoDepth
  <2> HIDE DEF Frame
  <2>1. Head(fifo) \in Frame /\ Tail(fifo) \in Seq(Frame) /\ Len(Tail(fifo)) = Len(fifo) - 1
        /\ Len(fifo) \in Nat
    BY <1>1
  <2> QED
    BY <1>1, <2>1, Sizes
<1>3. f.val \in 0 .. MaxUpdates /\ f.ctr \in Counters
  BY <1>2 DEF Frame
<1> HIDE DEF f
<1>4. dash' \in [Fields -> -1 .. MaxUpdates]
  <2>1. dash' = IF f.field \in Fields THEN [dash EXCEPT ![f.field] = f.val] ELSE dash
    BY Zenon DEF BusSends, f
  <2>2. f.val \in -1 .. MaxUpdates /\ dash \in [Fields -> -1 .. MaxUpdates]
    BY <1>3, Sizes DEF TypeOK
  <2> QED
    BY <2>1, <2>2, Zenon
<1>5. heard' \in [Counted -> Counters]
  <2>1. heard' = IF f.id \in Counted THEN [heard EXCEPT ![f.id] = f.ctr] ELSE heard
    BY Zenon DEF BusSends, f
  <2>2. heard \in [Counted -> Counters]
    BY Zenon DEF TypeOK
  <2> QED
    BY <1>3, <2>1, <2>2, Zenon
<1>6. UNCHANGED <<mirror, queued, posted, bus, slot, snap, at, waited, blocked, late,
                  counter, rr, missed>>
  BY Zenon DEF BusSends
<1> QED
  BY <1>2, <1>4, <1>5, <1>6 DEF TypeOK

LEMMA TypeStep ==
    ASSUME TypeOK, Next
    PROVE  TypeOK'
<1>1. CASE Wake
  <2>1. NextDue(1) \in 1 .. Events
    BY NextDueIs, RotaFacts
  <2>2. at' \in 0 .. Events
    BY <1>1, <2>1, RotaFacts DEF Wake
  <2>3. snap' \in [Fields -> 0 .. MaxUpdates]
    BY <1>1, Zenon DEF Wake, TypeOK
  <2> QED
    BY <1>1, <2>2, <2>3 DEF Wake, TypeOK
<1>2. CASE Wait
  <2>1. waited' \in 0 .. WaitMax /\ blocked' \in BOOLEAN
    BY <1>2, Sizes DEF Wait, Waits, TypeOK
  <2> QED
    BY <1>2, <2>1 DEF Wait, TypeOK
<1>3. CASE SendFrame
  BY <1>3, SendFrameTypes
<1>4. CASE SkipOrigin
  <2>1. at + 1 \in 1 .. Events
    BY <1>4, RotaFacts DEF SkipOrigin
  <2>2. NextDue(at + 1) \in 0 .. Events
    BY <2>1, NextDueIs, RotaFacts
  <2> QED
    BY <1>4, <2>2 DEF SkipOrigin, TypeOK
<1>5. CASE EndSlot
  <2>1. slot' \in 0 .. Wrap - 1 /\ late' \in Int /\ at' \in 0 .. Events
    BY <1>5, Sizes, RotaFacts DEF EndSlot, TypeOK
  <2>2. snap' \in [Fields -> 0 .. MaxUpdates]
    BY <1>5, Sizes DEF EndSlot, Unset
  <2> QED
    BY <1>5, <2>1, <2>2 DEF EndSlot, TypeOK
<1>6. CASE Tick
  <2>1. late' \in Int
    BY <1>6 DEF Tick, TypeOK
  <2>2. blocked' \in BOOLEAN
    BY <1>6, Zenon DEF Tick
  <2> QED
    BY <1>6, <2>1, <2>2, Zenon DEF Tick, TypeOK
<1>7. CASE BusSends
  BY <1>7, BusSendsTypes
<1>8. CASE BusChanges
  BY <1>8 DEF BusChanges, TypeOK
<1>9. CASE Publish
  <2>1. Newest \in 0 .. MaxUpdates /\ Newest < MaxUpdates
    BY <1>9, NewestIs, Zenon DEF Publish, TypeOK
  <2>2. Newest + 1 \in 0 .. MaxUpdates
    BY <2>1, Sizes
  <2>3. mirror' \in [Fields -> 0 .. MaxUpdates]
    BY <1>9, <2>2, Zenon DEF Publish, TypeOK
  <2> QED
    BY <1>9, <2>3 DEF Publish, TypeOK
<1>10. CASE PostEvent
  <2>1. queued + 1 \in Nat /\ queued + 1 >= 0
    BY <1>10, Sizes DEF TypeOK
  <2>2. Min({queued + 1, EventQueueLen}) \in {queued + 1, EventQueueLen}
        /\ Min({queued + 1, EventQueueLen}) <= EventQueueLen
    BY <2>1, FewerIs, Sizes
  <2>3. queued' \in 0 .. EventQueueLen /\ posted' \in 0 .. MaxEvents
    BY <1>10, <2>1, <2>2, Sizes DEF PostEvent, TypeOK
  <2> QED
    BY <1>10, <2>3 DEF PostEvent, TypeOK
<1> QED
  BY <1>1, <1>2, <1>3, <1>4, <1>5, <1>6, <1>7, <1>8, <1>9, <1>10, Zenon DEF Next, Task

LEMMA TypeStutters ==
    ASSUME TypeOK, UNCHANGED vars
    PROVE  TypeOK'
BY DEF TypeOK, vars

\* Every variable keeps its type: the FIFO never holds more frames than the
\* controller has mailboxes, the rota and the gate slots are not left, and no wait
\* gets longer than send_frame's bound.
THEOREM TypeCorrect ==
    Spec => []TypeOK
<1>1. Init => TypeOK
  BY TypeInit
<1>2. TypeOK /\ [Next]_vars => TypeOK'
  BY TypeStep, TypeStutters
<1> QED
  BY <1>1, <1>2, PTL DEF Spec

-----------------------------------------------------------------------------
(* The counters.                                                           *)

LEMMA MaxIs ==
    ASSUME NEW n \in Nat, NEW T \in SUBSET (1 .. n), NEW x \in T, \A y \in T : y <= x
    PROVE  Max(T) = x
<1>1. Max(T) \in T /\ \A y \in T : y <= Max(T)
  BY DEF Max
<1>2. x <= Max(T) /\ Max(T) <= x
  BY <1>1
<1>3. Max(T) \in Int /\ x \in Int
  <2>1. \A y \in T : y \in Int
    OBVIOUS
  <2> QED
    BY <1>1, <2>1, Zenon
<1> QED
  BY <1>2, <1>3

LEMMA MaxExists ==
    ASSUME NEW n \in Nat, NEW T \in SUBSET (1 .. n), T # {}
    PROVE  Max(T) \in T /\ \A y \in T : y <= Max(T)
<1>1. T \in SUBSET Int /\ n \in Int /\ \A x \in T : x <= n
  OBVIOUS
<1>2. \E x \in T : \A y \in T : y <= x
  BY <1>1, GreatestElement
<1> QED
  BY <1>2 DEF Max

\* The frames of message id in a FIFO q, and those before place i; the counter of
\* the last of these, or h when there is none.
Of(q, id) == {i \in DOMAIN q : q[i].id = id}
Earlier(q, id, i) == {j \in Of(q, id) : j < i}
Preceding(q, h, id, i) ==
    IF Earlier(q, id, i) = {} THEN h ELSE q[Max(Earlier(q, id, i))].ctr

\* The frames of message id count on from h, and counter c from the last of them.
CountsOn(q, h, c, m, id) ==
    /\ \A i \in Of(q, id) : q[i].ctr = (Preceding(q, h, id, i) + 1 + q[i].gap) % CounterMod
    /\ c = (Preceding(q, h, id, Len(q) + 1) + 1 + m) % CounterMod

LEMMA GapsAre ==
    GapFlagsDrops <=> \A id \in Counted : CountsOn(fifo, heard[id], counter[id], missed[id], id)
BY Zenon DEF GapFlagsDrops, CountsOn, Preceding, Earlier, Of

LEMMA PrecedingIs ==
    ASSUME NEW q \in Seq(Frame), NEW h \in Counters, NEW id, NEW i
    PROVE  Preceding(q, h, id, i) \in Counters
<1> DEFINE T == Earlier(q, id, i)
<1>1. T \in SUBSET (1 .. Len(q)) /\ Len(q) \in Nat
  BY DEF Earlier, Of
<1>2. CASE T = {}
  BY <1>2 DEF Preceding
<1>3. CASE T # {}
  <2>1. Max(T) \in T
    BY <1>1, <1>3, MaxExists, Zenon
  <2>2. q[Max(T)] \in Frame
    <3> HIDE DEF T, Frame
    <3>1. Max(T) \in 1 .. Len(q)
      BY <1>1, <2>1, Zenon
    <3>2. \A j \in 1 .. Len(q) : q[j] \in Frame
      OBVIOUS
    <3> QED
      BY <3>1, <3>2, Zenon
  <2>3. q[Max(T)].ctr \in Counters
    BY <2>2 DEF Frame
  <2> QED
    BY <1>3, <2>3 DEF Preceding
<1> QED
  BY <1>2, <1>3

\* A frame at the end changes nothing before it.
LEMMA AppendKeeps ==
    ASSUME NEW q \in Seq(Frame), NEW f \in Frame, NEW h, NEW id, NEW i \in 1 .. Len(q) + 1
    PROVE  Preceding(Append(q, f), h, id, i) = Preceding(q, h, id, i)
<1> DEFINE r == Append(q, f)
<1> HIDE DEF Frame
<1>1. Len(q) \in Nat /\ DOMAIN q = 1 .. Len(q) /\ DOMAIN r = 1 .. Len(q) + 1
      /\ \A j \in 1 .. Len(q) : r[j] = q[j]
  OBVIOUS
<1> HIDE DEF r
<1>2. Earlier(r, id, i) = Earlier(q, id, i)
  BY <1>1 DEF Earlier, Of
<1>3. ASSUME Earlier(q, id, i) # {}
      PROVE  r[Max(Earlier(q, id, i))] = q[Max(Earlier(q, id, i))]
  <2>1. Earlier(q, id, i) \in SUBSET (1 .. Len(q))
    BY <1>1 DEF Earlier, Of
  <2>2. Max(Earlier(q, id, i)) \in 1 .. Len(q)
    BY <1>1, <1>3, <2>1, MaxExists
  <2> QED
    BY <1>1, <2>2
<1> QED
  BY <1>2, <1>3, Zenon DEF Preceding, r

\* It comes last.
LEMMA AppendIsLast ==
    ASSUME NEW q \in Seq(Frame), NEW f \in Frame, NEW h, NEW id
    PROVE  Preceding(Append(q, f), h, id, Len(q) + 2)
             = IF f.id = id THEN f.ctr ELSE Preceding(q, h, id, Len(q) + 1)
<1> DEFINE r == Append(q, f)
<1> HIDE DEF Frame
<1>1. Len(q) \in Nat /\ DOMAIN q = 1 .. Len(q) /\ DOMAIN r = 1 .. Len(q) + 1
      /\ (\A j \in 1 .. Len(q) : r[j] = q[j]) /\ r[Len(q) + 1] = f
  OBVIOUS
<1> HIDE DEF r
<1>2. CASE f.id = id
  <2> DEFINE T == Earlier(r, id, Len(q) + 2)
  <2>1. T \in SUBSET (1 .. Len(q) + 1) /\ Len(q) + 1 \in T /\ Len(q) + 1 \in Nat
        /\ \A y \in T : y <= Len(q) + 1
    BY <1>1, <1>2 DEF Earlier, Of
  <2> HIDE DEF T
  <2>2. Max(T) = Len(q) + 1
    BY <2>1, MaxIs
  <2> QED
    BY <1>1, <1>2, <2>1, <2>2 DEF Preceding, T, r
<1>3. CASE f.id # id
  <2>1. Earlier(r, id, Len(q) + 2) = Earlier(r, id, Len(q) + 1)
    BY <1>1, <1>3 DEF Earlier, Of
  <2>2. Preceding(r, h, id, Len(q) + 2) = Preceding(r, h, id, Len(q) + 1)
    BY <2>1, Zenon DEF Preceding
  <2>3. Len(q) + 1 \in 1 .. Len(q) + 1
    BY <1>1
  <2>4. Preceding(r, h, id, Len(q) + 1) = Preceding(q, h, id, Len(q) + 1)
    BY <2>3, AppendKeeps, Zenon DEF r
  <2> QED
    BY <1>3, <2>2, <2>4, Zenon DEF r
<1> QED
  BY <1>2, <1>3

\* When the first frame is gone the others follow what it leaves behind.
LEMMA TailKeeps ==
    ASSUME NEW q \in Seq(Frame), q # <<>>, NEW h, NEW id, NEW i \in 1 .. Len(q)
    PROVE  Preceding(Tail(q), IF q[1].id = id THEN q[1].ctr ELSE h, id, i)
             = Preceding(q, h, id, i + 1)
<1> DEFINE r == Tail(q)
           S == Earlier(r, id, i)
           T == Earlier(q, id, i + 1)
<1>1. Len(q) \in Nat /\ Len(q) > 0 /\ DOMAIN q = 1 .. Len(q) /\ DOMAIN r = 1 .. Len(q) - 1
      /\ \A j \in 1 .. Len(q) - 1 : r[j] = q[j + 1]
  <2> HIDE DEF Frame
  <2> QED
    OBVIOUS
<1> HIDE DEF r
<1>2. S \in SUBSET (1 .. Len(q)) /\ T \in SUBSET (1 .. Len(q))
  BY <1>1 DEF Earlier, Of
<1>3. \A j \in S : j + 1 \in T
  BY <1>1 DEF Earlier, Of
<1>4. \A j \in T : j = 1 \/ j - 1 \in S
  BY <1>1 DEF Earlier, Of
<1>5. 1 \in T <=> q[1].id = id
  BY <1>1 DEF Earlier, Of
<1>6. S \in SUBSET (1 .. Len(q) - 1)
  BY <1>1 DEF Earlier, Of
<1> HIDE DEF S, T
<1>7. CASE S # {}
  <2>1. Max(S) \in S /\ \A y \in S : y <= Max(S)
    BY <1>1, <1>2, <1>7, MaxExists
  <2>2. Max(S) + 1 \in T /\ \A y \in T : y <= Max(S) + 1
    <3>1. Max(S) + 1 \in T
      BY <1>3, <2>1, Zenon
    <3>2. Max(S) \in 1 .. Len(q) /\ \A j \in T : j \in 1 .. Len(q)
      BY <1>2, <2>1, Zenon
    <3>3. ASSUME NEW y \in T PROVE y <= Max(S) + 1
      <4>1. CASE y = 1
        BY <1>1, <3>2, <4>1
      <4>2. CASE y - 1 \in S
        <5>1. y - 1 <= Max(S)
          BY <2>1, <4>2, Zenon
        <5> QED
          BY <3>2, <5>1, <1>1
      <4> QED
        BY <1>4, <4>1, <4>2
    <3> QED
      BY <3>1, <3>3
  <2>3. Max(T) = Max(S) + 1
    BY <1>1, <1>2, <2>2, MaxIs
  <2>4. r[Max(S)] = q[Max(S) + 1]
    BY <1>1, <1>6, <2>1
  <2> QED
    BY <1>7, <2>2, <2>3, <2>4 DEF Preceding, S, T, r
<1>8. CASE S = {} /\ q[1].id = id
  <2>1. 1 \in T /\ \A y \in T : y <= 1
    BY <1>2, <1>4, <1>5, <1>8
  <2>2. Max(T) = 1
    BY <1>1, <1>2, <2>1, MaxIs
  <2> QED
    BY <1>8, <2>1, <2>2 DEF Preceding, S, T, r
<1>9. CASE S = {} /\ q[1].id # id
  <2>1. T = {}
    BY <1>4, <1>5, <1>9
  <2> QED
    BY <1>9, <2>1 DEF Preceding, S, T, r
<1> QED
  BY <1>7, <1>8, <1>9

LEMMA CountsAppended ==
    ASSUME NEW q \in Seq(Frame), NEW f \in Frame, NEW h \in Counters, NEW c \in Counters,
           NEW m \in Counters, NEW id, CountsOn(q, h, c, m, id),
           f.id = id => f.ctr = c /\ f.gap = m
    PROVE  CountsOn(Append(q, f), h, IF f.id = id THEN (c + 1) % CounterMod ELSE c,
                    IF f.id = id THEN 0 ELSE m, id)
<1> DEFINE r == Append(q, f)
<1>1. Len(q) \in Nat /\ DOMAIN q = 1 .. Len(q) /\ DOMAIN r = 1 .. Len(q) + 1
      /\ (\A j \in 1 .. Len(q) : r[j] = q[j]) /\ r[Len(q) + 1] = f /\ Len(r) = Len(q) + 1
  <2> HIDE DEF Frame
  <2> QED
    OBVIOUS
<1>2. Preceding(r, h, id, Len(q) + 2)
        = IF f.id = id THEN f.ctr ELSE Preceding(q, h, id, Len(q) + 1)
  BY AppendIsLast
<1>3. ASSUME NEW i \in 1 .. Len(q) + 1
      PROVE  Preceding(r, h, id, i) = Preceding(q, h, id, i)
  BY <1>3, AppendKeeps
<1> HIDE DEF r
<1>4. ASSUME NEW i \in Of(r, id)
      PROVE  r[i].ctr = (Preceding(r, h, id, i) + 1 + r[i].gap) % CounterMod
  <2>1. i \in 1 .. Len(q) + 1 /\ r[i].id = id
    BY <1>1, <1>4 DEF Of
  <2>2. CASE i = Len(q) + 1
    <3>1. f.id = id /\ r[i] = f
      BY <1>1, <2>1, <2>2
    <3>2. Preceding(r, h, id, i) = Preceding(q, h, id, Len(q) + 1)
      BY <1>3, <2>1, <2>2
    <3>3. c = (Preceding(q, h, id, Len(q) + 1) + 1 + m) % CounterMod
      BY Zenon DEF CountsOn
    <3> QED
      BY <3>1, <3>2, <3>3, Zenon
  <2>3. CASE i # Len(q) + 1
    <3>1. i \in 1 .. Len(q)
      BY <1>1, <2>1, <2>3
    <3>2. r[i] = q[i]
      BY <1>1, <3>1, Zenon
    <3>3. i \in Of(q, id)
      BY <1>1, <2>1, <3>1, <3>2, Zenon DEF Of
    <3>4. q[i].ctr = (Preceding(q, h, id, i) + 1 + q[i].gap) % CounterMod
      BY <3>3, Zenon DEF CountsOn
    <3> QED
      BY <1>3, <2>1, <3>2, <3>4, Zenon
  <2> QED
    BY <2>2, <2>3
<1>5. Len(r) + 1 = Len(q) + 2
  BY <1>1
<1>6. CASE f.id = id
  <2>1. (c + 1) % CounterMod = (Preceding(r, h, id, Len(r) + 1) + 1 + 0) % CounterMod
    <3>1. Preceding(r, h, id, Len(r) + 1) = c
      BY <1>2, <1>5, <1>6, Zenon
    <3>2. c + 1 = c + 1 + 0
      BY Sizes DEF Counters
    <3> QED
      BY <3>1, <3>2, Zenon
  <2> QED
    BY <1>4, <1>6, <2>1, Zenon DEF CountsOn, r
<1>7. CASE f.id # id
  <2>1. c = (Preceding(r, h, id, Len(r) + 1) + 1 + m) % CounterMod
    BY <1>2, <1>5, <1>7, Zenon DEF CountsOn
  <2> QED
    BY <1>4, <1>7, <2>1, Zenon DEF CountsOn, r
<1> QED
  BY <1>6, <1>7

\* A number one round too high loses the round.
LEMMA OneRound ==
    ASSUME NEW x \in CounterMod .. 2 * CounterMod - 1
    PROVE  x % CounterMod = x - CounterMod
<1>1. CounterMod \in Nat /\ CounterMod > 0 /\ x \in Int
  BY Sizes
<1> QED
  BY <1>1, ModOnce

LEMMA DropArithmetic ==
    ASSUME NEW b \in Counters, NEW m \in Counters
    PROVE  (((b + 1 + m) % CounterMod) + 1) % CounterMod
             = (b + 1 + ((m + 1) % CounterMod)) % CounterMod
<1> DEFINE M == CounterMod
           c == (b + 1 + m) % M
<1>1. M \in Nat /\ M > 0
  BY Sizes
<1>2. b \in Nat /\ m \in Nat /\ b < M /\ m < M
  BY <1>1 DEF Counters
<1>3. CASE b + 1 + m < M
  <2>1. c = b + 1 + m
    BY <1>1, <1>2, <1>3, ModOnce
  <2>2. m + 1 \in 0 .. M - 1
    BY <1>1, <1>2, <1>3
  <2>3. (m + 1) % M = m + 1
    BY <1>1, <2>2, ModOnce
  <2>4. c + 1 = b + 1 + (m + 1)
    BY <1>2, <2>1
  <2> QED
    BY <2>3, <2>4, Zenon
<1>4. CASE b + 1 + m >= M
  <2>1. b + 1 + m \in M .. 2 * M - 1
    BY <1>1, <1>2, <1>4
  <2>2. c = b + 1 + m - M
    BY <1>1, <1>2, <2>1, OneRound
  <2>3. CASE m + 1 = M
    <3>1. M \in M .. 2 * M - 1
      BY <1>1
    <3>2. M % M = M - M
      BY <3>1, OneRound, Sizes
    <3>3. (m + 1) % M = 0
      BY <1>1, <2>3, <3>2
    <3>4. c + 1 = b + 1 + 0
      BY <1>1, <1>2, <2>2, <2>3
    <3> QED
      BY <3>3, <3>4, Zenon
  <2>4. CASE m + 1 # M
    <3>1. m + 1 \in 0 .. M - 1 /\ c + 1 \in 0 .. M - 1
      BY <1>1, <1>2, <1>4, <2>2, <2>4
    <3>2. (m + 1) % M = m + 1 /\ (c + 1) % M = c + 1
      BY <1>1, <3>1, ModOnce
    <3>3. b + 1 + (m + 1) \in M .. 2 * M - 1
      BY <1>1, <1>2, <1>4, <2>4
    <3>4. (b + 1 + (m + 1)) % M = b + 1 + (m + 1) - M
      BY <1>1, <1>2, <3>3, OneRound
    <3>5. b + 1 + (m + 1) - M = c + 1
      BY <1>1, <1>2, <2>2
    <3> QED
      BY <3>2, <3>4, <3>5, Zenon
  <2> QED
    BY <2>3, <2>4
<1>5. b + 1 + m < M \/ b + 1 + m >= M
  BY <1>1, <1>2
<1> QED
  BY <1>3, <1>4, <1>5

\* A dropped frame is in the counter and among the missed ones.
LEMMA CountsDropped ==
    ASSUME NEW q \in Seq(Frame), NEW h \in Counters, NEW c \in Counters,
           NEW m \in Counters, NEW id, CountsOn(q, h, c, m, id)
    PROVE  CountsOn(q, h, (c + 1) % CounterMod, (m + 1) % CounterMod, id)
<1>1. Preceding(q, h, id, Len(q) + 1) \in Counters
  BY PrecedingIs
<1>2. PICK b \in Counters : b = Preceding(q, h, id, Len(q) + 1)
  BY <1>1
<1>3. c = (b + 1 + m) % CounterMod
  BY <1>2, Zenon DEF CountsOn
<1>4. (c + 1) % CounterMod = (b + 1 + ((m + 1) % CounterMod)) % CounterMod
  BY <1>3, DropArithmetic
<1> QED
  BY <1>2, <1>4, Zenon DEF CountsOn

\* The first frame is received.
LEMMA CountsReceived ==
    ASSUME NEW q \in Seq(Frame), q # <<>>, NEW h, NEW c, NEW m, NEW id,
           CountsOn(q, h, c, m, id)
    PROVE  CountsOn(Tail(q), IF q[1].id = id THEN q[1].ctr ELSE h, c, m, id)
<1> DEFINE r == Tail(q)
           k == IF q[1].id = id THEN q[1].ctr ELSE h
<1>1. Len(q) \in Nat /\ Len(q) > 0 /\ DOMAIN q = 1 .. Len(q) /\ DOMAIN r = 1 .. Len(q) - 1
      /\ Len(r) = Len(q) - 1 /\ \A j \in 1 .. Len(q) - 1 : r[j] = q[j + 1]
  <2> HIDE DEF Frame
  <2> QED
    OBVIOUS
<1>2. ASSUME NEW i \in 1 .. Len(q)
      PROVE  Preceding(r, k, id, i) = Preceding(q, h, id, i + 1)
  BY TailKeeps
<1> HIDE DEF r, k
<1>3. ASSUME NEW i \in Of(r, id)
      PROVE  r[i].ctr = (Preceding(r, k, id, i) + 1 + r[i].gap) % CounterMod
  <2>1. i \in 1 .. Len(q) - 1 /\ r[i].id = id
    BY <1>1, <1>3 DEF Of
  <2>2. r[i] = q[i + 1] /\ i \in 1 .. Len(q) /\ i + 1 \in 1 .. Len(q)
    BY <1>1, <2>1
  <2>3. i + 1 \in Of(q, id)
    BY <1>1, <2>1, <2>2, Zenon DEF Of
  <2>4. q[i + 1].ctr = (Preceding(q, h, id, i + 1) + 1 + q[i + 1].gap) % CounterMod
    BY <2>3, Zenon DEF CountsOn
  <2> QED
    BY <1>2, <2>2, <2>4, Zenon
<1>4. c = (Preceding(r, k, id, Len(r) + 1) + 1 + m) % CounterMod
  <2>1. Len(r) + 1 = Len(q) /\ Len(q) \in 1 .. Len(q)
    BY <1>1
  <2>2. Preceding(r, k, id, Len(q)) = Preceding(q, h, id, Len(q) + 1)
    BY <1>2, <2>1, Zenon
  <2> QED
    BY <2>1, <2>2, Zenon DEF CountsOn
<1> QED
  BY <1>3, <1>4, Zenon DEF CountsOn, r, k

LEMMA GapInit ==
    ASSUME Init
    PROVE  GapFlagsDrops
<1> SUFFICES ASSUME NEW id \in Counted
             PROVE  CountsOn(fifo, heard[id], counter[id], missed[id], id)
  BY GapsAre, Zenon
<1>1. fifo = <<>> /\ heard[id] = CounterMod - 1 /\ counter[id] = 0 /\ missed[id] = 0
  BY DEF Init
<1>2. Of(fifo, id) = {}
  BY <1>1 DEF Of
<1>3. Preceding(fifo, heard[id], id, Len(fifo) + 1) = CounterMod - 1
  BY <1>1, <1>2 DEF Preceding, Earlier
<1>4. CounterMod % CounterMod = 0
  <2>1. CounterMod \in CounterMod .. 2 * CounterMod - 1
    BY Sizes
  <2> QED
    BY <2>1, OneRound, Sizes
<1>5. CounterMod - 1 + 1 + 0 = CounterMod
  BY Sizes
<1> QED
  BY <1>1, <1>2, <1>3, <1>4, <1>5, Zenon DEF CountsOn

LEMMA GapSendFrame ==
    ASSUME TypeOK, GapFlagsDrops, SendFrame
    PROVE  GapFlagsDrops'
<1> SUFFICES ASSUME NEW id \in Counted
             PROVE  CountsOn(fifo', heard'[id], counter'[id], missed'[id], id)
  BY Zenon DEF GapFlagsDrops, CountsOn, Preceding, Earlier, Of
<1>1. CountsOn(fifo, heard[id], counter[id], missed[id], id)
  BY GapsAre, Zenon
<1>2. fifo \in Seq(Frame) /\ heard[id] \in Counters /\ counter[id] \in Counters
      /\ missed[id] \in Counters
  BY Zenon DEF TypeOK
<1>3. heard' = heard /\ HasFrame
  BY Zenon DEF SendFrame
<1>4. NewFrame \in Frame
  BY <1>3, NewFrameIs, Zenon
<1>5. NewFrame.id = Sending.id
      /\ (Sending.id \in Counted =>
            NewFrame.ctr = counter[Sending.id] /\ NewFrame.gap = missed[Sending.id])
  BY DEF NewFrame
<1> HIDE DEF NewFrame, Counters, Frame
<1>6. fifo' = IF Full THEN fifo ELSE Append(fifo, NewFrame)
  BY Zenon DEF SendFrame, NewFrame
<1>7. CASE Sending.id = id
  <2>1. counter'[id] = (counter[id] + 1) % CounterMod
        /\ missed'[id] = IF Full THEN (missed[id] + 1) % CounterMod ELSE 0
    BY <1>7, Zenon DEF SendFrame, TypeOK, CounterAfter
  <2>2. CASE Full
    <3>1. CountsOn(fifo, heard[id], (counter[id] + 1) % CounterMod,
                   (missed[id] + 1) % CounterMod, id)
      BY <1>1, <1>2, CountsDropped
    <3> QED
      BY <1>3, <1>6, <2>1, <2>2, <3>1, Zenon
  <2>3. CASE ~Full
    <3>1. CountsOn(Append(fifo, NewFrame), heard[id],
                   IF NewFrame.id = id THEN (counter[id] + 1) % CounterMod ELSE counter[id],
                   IF NewFrame.id = id THEN 0 ELSE missed[id], id)
      BY <1>1, <1>2, <1>4, <1>5, <1>7, CountsAppended
    <3>2. NewFrame.id = id
      BY <1>5, <1>7, Zenon
    <3> QED
      BY <1>3, <1>6, <2>1, <2>3, <3>1, <3>2, Zenon
  <2> QED
    BY <2>2, <2>3
<1>8. CASE Sending.id # id
  <2>1. counter'[id] = counter[id] /\ missed'[id] = missed[id]
    BY <1>8, Zenon DEF SendFrame, TypeOK
  <2>2. CASE Full
    BY <1>1, <1>3, <1>6, <2>1, <2>2, Zenon
  <2>3. CASE ~Full
    <3>1. CountsOn(Append(fifo, NewFrame), heard[id],
                   IF NewFrame.id = id THEN (counter[id] + 1) % CounterMod ELSE counter[id],
                   IF NewFrame.id = id THEN 0 ELSE missed[id], id)
      BY <1>1, <1>2, <1>4, <1>5, <1>8, CountsAppended
    <3>2. NewFrame.id # id
      BY <1>5, <1>8, Zenon
    <3> QED
      BY <1>3, <1>6, <2>1, <2>3, <3>1, <3>2, Zenon
  <2> QED
    BY <2>2, <2>3
<1> QED
  BY <1>7, <1>8

LEMMA GapBusSends ==
    ASSUME TypeOK, GapFlagsDrops, BusSends
    PROVE  GapFlagsDrops'
<1> SUFFICES ASSUME NEW id \in Counted
             PROVE  CountsOn(fifo', heard'[id], counter'[id], missed'[id], id)
  BY Zenon DEF GapFlagsDrops, CountsOn, Preceding, Earlier, Of
<1>1. CountsOn(fifo, heard[id], counter[id], missed[id], id)
  BY GapsAre, Zenon
<1>2. fifo \in Seq(Frame) /\ fifo # <<>> /\ heard \in [Counted -> Counters]
  BY Zenon DEF TypeOK, BusSends
<1>3. fifo' = Tail(fifo) /\ counter' = counter /\ missed' = missed
      /\ heard' = IF Head(fifo).id \in Counted
                  THEN [heard EXCEPT ![Head(fifo).id] = Head(fifo).ctr] ELSE heard
  BY Zenon DEF BusSends
<1>4. Head(fifo) = fifo[1]
  <2> HIDE DEF Frame
  <2> QED
    BY <1>2
<1>5. heard'[id] = IF fifo[1].id = id THEN fifo[1].ctr ELSE heard[id]
  BY <1>2, <1>3, <1>4, Zenon
<1>6. CountsOn(Tail(fifo), IF fifo[1].id = id THEN fifo[1].ctr ELSE heard[id],
               counter[id], missed[id], id)
  BY <1>1, <1>2, CountsReceived
<1> QED
  BY <1>3, <1>5, <1>6, Zenon

\* What is left of the steps neither counts nor sends.
LEMMA GapOthers ==
    ASSUME GapFlagsDrops, UNCHANGED <<fifo, counter, heard, missed>>
    PROVE  GapFlagsDrops'
<1>1. fifo' = fifo /\ counter' = counter /\ heard' = heard /\ missed' = missed
  OBVIOUS
<1> SUFFICES ASSUME NEW id \in Counted
             PROVE  CountsOn(fifo', heard'[id], counter'[id], missed'[id], id)
  BY Zenon DEF GapFlagsDrops, CountsOn, Preceding, Earlier, Of
<1>2. CountsOn(fifo, heard[id], counter[id], missed[id], id)
  BY GapsAre, Zenon
<1> QED
  BY <1>1, <1>2, Zenon

\* The counters tell the dash exactly the frames that were dropped: for any depth
\* of the FIFO, any rota, any length of time the bus is stuck, and any modulus.
THEOREM CountersTellDrops ==
    Spec => []GapFlagsDrops
<1>1. Init => TypeOK /\ GapFlagsDrops
  BY TypeInit, GapInit
<1>2. TypeOK /\ GapFlagsDrops /\ [Next]_vars => (TypeOK /\ GapFlagsDrops)'
  <2> SUFFICES ASSUME TypeOK, GapFlagsDrops, [Next]_vars
               PROVE  (TypeOK /\ GapFlagsDrops)'
    OBVIOUS
  <2>1. TypeOK'
    BY TypeStep, TypeStutters
  <2>2. GapFlagsDrops'
    <3>1. CASE SendFrame
      BY <3>1, GapSendFrame
    <3>2. CASE BusSends
      BY <3>2, GapBusSends
    <3>3. CASE Wake \/ Wait \/ SkipOrigin \/ EndSlot \/ Tick \/ BusChanges \/ Publish
               \/ PostEvent \/ UNCHANGED vars
      <4>1. UNCHANGED <<fifo, counter, heard, missed>>
        BY <3>3, Zenon DEF Wake, Wait, SkipOrigin, EndSlot, Tick, BusChanges, Publish,
                           PostEvent, vars
      <4> QED
        BY <4>1, GapOthers
    <3> QED
      BY <3>1, <3>2, <3>3, Zenon DEF Next, Task
  <2> QED
    BY <2>1, <2>2
<1> QED
  BY <1>1, <1>2, PTL DEF Spec

-----------------------------------------------------------------------------
(* The frames of some slots.                                               *)

FB(n) == FramesBefore(Rota, Wrap, n)
DueCount(s) == Cardinality(DueOf(Rota, s))

\* The entries of the slot that the task has passed when it is at entry a.
DoneTo(a) == {j \in DueOf(Rota, slot) : j < a}
DoneCount(a) == Cardinality(DoneTo(a))

LEMMA DueFinite ==
    ASSUME NEW s
    PROVE  IsFiniteSet(DueOf(Rota, s)) /\ DueCount(s) \in Nat
<1>1. IsFiniteSet(1 .. Len(Rota))
  BY FS_Interval, RotaFacts
<1>2. DueOf(Rota, s) \in SUBSET (1 .. Len(Rota))
  BY RotaFacts
<1>3. IsFiniteSet(DueOf(Rota, s))
  BY <1>1, <1>2, FS_Subset
<1> QED
  BY <1>3, FS_CardinalityType DEF DueCount

LEMMA DoneFinite ==
    ASSUME NEW a
    PROVE  /\ IsFiniteSet(DoneTo(a)) /\ DoneCount(a) \in Nat
           /\ DoneCount(a) <= DueCount(slot)
<1>1. DoneTo(a) \in SUBSET DueOf(Rota, slot)
  BY DEF DoneTo
<1>2. IsFiniteSet(DoneTo(a)) /\ Cardinality(DoneTo(a)) <= Cardinality(DueOf(Rota, slot))
  BY <1>1, DueFinite, FS_Subset
<1> QED
  BY <1>2, FS_CardinalityType DEF DoneCount, DueCount

\* Nothing is done before the first entry that is due, all of it at the events.
LEMMA DoneEnds ==
    /\ DoneCount(0) = 0
    /\ DoneCount(NextDue(1)) = 0
    /\ DoneCount(Events) = DueCount(slot)
<1>1. \A j \in DueOf(Rota, slot) : j \in 1 .. Len(Rota)
  BY RotaFacts
<1>2. DoneTo(0) = {}
  BY <1>1, RotaFacts DEF DoneTo
<1>3. DoneTo(NextDue(1)) = {}
  <2>1. 1 \in 1 .. Events
    BY RotaFacts
  <2>2. NextDue(1) \in Nat /\ \A j \in DueOf(Rota, slot) : j >= 1 => j >= NextDue(1)
    BY <2>1, NextDueIs, RotaFacts
  <2> QED
    BY <1>1, <2>2, RotaFacts DEF DoneTo
<1>4. DoneTo(Events) = DueOf(Rota, slot)
  BY <1>1, RotaFacts DEF DoneTo
<1> QED
  BY <1>2, <1>3, <1>4, FS_EmptySet DEF DoneCount, DueCount

\* One entry more is done at the next one.
LEMMA DoneNext ==
    ASSUME NEW a \in DueOf(Rota, slot)
    PROVE  /\ DoneCount(NextDue(a + 1)) = DoneCount(a) + 1
           /\ DoneCount(a) + 1 <= DueCount(slot)
<1>1. a \in 1 .. Len(Rota) /\ a + 1 \in 1 .. Events /\ a \in Nat
  BY RotaFacts
<1>2. NextDue(a + 1) \in a + 1 .. Events
      /\ \A j \in DueOf(Rota, slot) : j >= a + 1 => j >= NextDue(a + 1)
  BY <1>1, NextDueIs
<1>3. \A j \in DueOf(Rota, slot) : j \in Nat
  BY RotaFacts
<1>4. NextDue(a + 1) \in Nat
  BY <1>1, <1>2, RotaFacts
<1>5. DoneTo(NextDue(a + 1)) = DoneTo(a) \cup {a}
  <2>1. ASSUME NEW j \in DueOf(Rota, slot)
        PROVE  j < NextDue(a + 1) <=> j < a \/ j = a
    BY <1>1, <1>2, <1>3, <1>4
  <2> QED
    BY <2>1 DEF DoneTo
<1>6. a \notin DoneTo(a)
  BY <1>1 DEF DoneTo
<1>7. DoneCount(NextDue(a + 1)) = DoneCount(a) + 1
  BY <1>5, <1>6, DoneFinite, FS_AddElement DEF DoneCount
<1> QED
  BY <1>7, DoneFinite

LEMMA FBIs ==
    /\ FB(0) = 0
    /\ \A n \in Nat : FB(n) \in Nat /\ FB(n + 1) = FB(n) + DueCount(n % Wrap)
<1> DEFINE step == [a \in Nat \X Nat |-> a[1] + DueCount((a[2] - 1) % Wrap)]
           IsSum(f) == f = [k \in Nat |-> IF k = 0 THEN 0
                              ELSE f[k - 1] + Cardinality(DueOf(Rota, (k - 1) % Wrap))]
           sum == CHOOSE f : IsSum(f)
<1>1. step \in [Nat \X Nat -> Nat]
  <2>1. \A a \in Nat \X Nat : a[1] + DueCount((a[2] - 1) % Wrap) \in Nat
    BY DueFinite
  <2> QED
    BY <2>1
<1>2. PICK f : Iterates(f, Nat, 0, step)
  BY <1>1, PrimitiveRecursion
<1>3. f \in [Nat -> Nat] /\ f[0] = 0
      /\ \A n \in Nat : f[n + 1] = f[n] + DueCount(n % Wrap)
  <2>1. f \in [Nat -> Nat] /\ f[0] = 0 /\ \A n \in Nat : f[n + 1] = step[<<f[n], n + 1>>]
    BY <1>2 DEF Iterates
  <2>2. ASSUME NEW n \in Nat PROVE f[n + 1] = f[n] + DueCount(n % Wrap)
    <3>1. <<f[n], n + 1>> \in Nat \X Nat /\ (n + 1) - 1 = n
      BY <2>1
    <3>2. step[<<f[n], n + 1>>] = f[n] + DueCount(((n + 1) - 1) % Wrap)
      BY <3>1
    <3> QED
      BY <2>1, <3>1, <3>2
  <2> QED
    BY <2>1, <2>2
<1>4. IsSum(f)
  <2>1. ASSUME NEW k \in Nat
        PROVE  f[k] = IF k = 0 THEN 0
                      ELSE f[k - 1] + Cardinality(DueOf(Rota, (k - 1) % Wrap))
    <3>1. CASE k = 0
      BY <1>3, <3>1
    <3>2. CASE k # 0
      <4>1. k - 1 \in Nat /\ (k - 1) + 1 = k
        BY <3>2
      <4>2. f[k] = f[k - 1] + DueCount((k - 1) % Wrap)
        BY <1>3, <4>1
      <4> QED
        BY <3>2, <4>2 DEF DueCount
    <3> QED
      BY <3>1, <3>2
  <2> QED
    BY <1>3, <2>1
<1>5. IsSum(sum)
  BY <1>4
<1>6. \A n \in Nat : FB(n) = sum[n]
  BY DEF FB, FramesBefore
<1>7. sum[0] = 0 /\ \A k \in Nat : k # 0 => sum[k] = sum[k - 1] + DueCount((k - 1) % Wrap)
  BY <1>5 DEF DueCount
<1> HIDE DEF sum
<1>8. ASSUME NEW n \in Nat PROVE sum[n + 1] = sum[n] + DueCount(n % Wrap)
  <2>1. n + 1 \in Nat /\ n + 1 # 0 /\ (n + 1) - 1 = n
    OBVIOUS
  <2> QED
    BY <1>7, <2>1
<1>9. \A n \in Nat : sum[n] \in Nat
  <2> DEFINE S == {n \in Nat : sum[n] \in Nat}
  <2>1. 0 \in S
    BY <1>7
  <2>2. ASSUME NEW n \in Nat, n \in S PROVE n + 1 \in S
    BY <1>8, <2>2, DueFinite
  <2> HIDE DEF S
  <2>3. Nat \subseteq S
    BY <2>1, <2>2, SetInduction
  <2> QED
    BY <2>3 DEF S
<1> QED
  BY <1>6, <1>7, <1>8, <1>9

LEMMA FBGrows ==
    ASSUME NEW m \in Nat, NEW n \in Nat, m <= n
    PROVE  FB(m) <= FB(n)
<1> DEFINE S == {k \in Nat : FB(m) <= FB(m + k)}
<1>1. 0 \in S
  BY FBIs
<1>2. ASSUME NEW k \in Nat, k \in S PROVE k + 1 \in S
  <2>1. m + k \in Nat /\ (m + k) + 1 = m + (k + 1)
    OBVIOUS
  <2>2. FB(m + (k + 1)) = FB(m + k) + DueCount((m + k) % Wrap)
    BY <2>1, FBIs
  <2>3. FB(m) \in Nat /\ FB(m + k) \in Nat /\ DueCount((m + k) % Wrap) \in Nat
        /\ FB(m) <= FB(m + k)
    BY <1>2, <2>1, FBIs, DueFinite
  <2>4. FB(m) <= FB(m + (k + 1))
    BY <2>2, <2>3
  <2> QED
    BY <2>4
<1> HIDE DEF S
<1>3. n - m \in S
  BY <1>1, <1>2, SetInduction
<1>4. m + (n - m) = n
  OBVIOUS
<1> QED
  BY <1>3, <1>4 DEF S

\* A round later as many frames more have been due as in the first round.
LEMMA FBRound ==
    ASSUME NEW s \in 0 .. Wrap
    PROVE  FB(s + Wrap) = FB(s) + FB(Wrap)
<1> DEFINE S == {k \in Nat : k <= Wrap => FB(k + Wrap) = FB(k) + FB(Wrap)}
<1>1. Wrap \in Nat /\ Wrap > 0
  BY Sizes
<1>2. 0 \in S
  <2>1. 0 + Wrap = Wrap /\ FB(Wrap) \in Nat /\ FB(0) = 0
    BY <1>1, FBIs
  <2> QED
    BY <2>1
<1>3. ASSUME NEW k \in Nat, k \in S PROVE k + 1 \in S
  <2> SUFFICES ASSUME k + 1 <= Wrap PROVE FB((k + 1) + Wrap) = FB(k + 1) + FB(Wrap)
    OBVIOUS
  <2>1. k \in 0 .. Wrap - 1 /\ FB(k + Wrap) = FB(k) + FB(Wrap)
    BY <1>1, <1>3
  <2>2. k % Wrap = k
    BY <1>1, <2>1, ModOnce
  <2>3. k + Wrap \in Wrap .. 2 * Wrap - 1 /\ k + Wrap \in Nat
    BY <1>1, <2>1
  <2>4. (k + Wrap) % Wrap = k
    BY <1>1, <2>3, ModOnce
  <2>5. FB((k + Wrap) + 1) = FB(k + Wrap) + DueCount(k)
    BY <2>3, <2>4, FBIs
  <2>6. FB(k + 1) = FB(k) + DueCount(k)
    BY <2>2, FBIs
  <2>7. FB(k) \in Nat /\ FB(Wrap) \in Nat /\ DueCount(k) \in Nat
        /\ (k + Wrap) + 1 = (k + 1) + Wrap
    BY <1>1, FBIs, DueFinite
  <2>8. FB((k + 1) + Wrap) = FB(k + Wrap) + DueCount(k)
    BY <2>5, <2>7
  <2> QED
    BY <2>1, <2>6, <2>7, <2>8
<1> HIDE DEF S
<1>4. s \in Nat /\ s <= Wrap
  BY <1>1
<1>5. s \in S
  BY <1>2, <1>3, <1>4, SetInduction
<1> QED
  BY <1>4, <1>5 DEF S

-----------------------------------------------------------------------------
(* How far the task falls behind.                                          *)

LEMMA Products ==
    ASSUME NEW w \in Nat, NEW x \in Int, NEW y \in Int
    PROVE  /\ w * x \in Int
           /\ w * (x + y) = w * x + w * y
           /\ x <= y => w * x <= w * y
           /\ w * (x + 1) = w * x + w
           /\ w * 0 = 0
<1>1. w * x \in Int /\ w * (x + 1) = w * x + w /\ w * 0 = 0
  BY SMTT(30)
<1>2. w * (x + y) = w * x + w * y
  BY SMTT(30)
<1>3. ASSUME x <= y PROVE w * x <= w * y
  <2>1. PICK d \in Nat : y = x + d
    BY <1>3
  <2>2. w * (x + d) = w * x + w * d /\ w * x \in Int
    BY SMTT(30)
  <2>3. w * d \in Nat
    BY SMTT(30)
  <2> QED
    BY <2>1, <2>2, <2>3
<1> QED
  BY <1>1, <1>2, <1>3

\* The delay that is certain: the tick the task is blocked for is already lost.
Owed == IF blocked THEN late + 1 ELSE late

\* n slots ago, in slot first, the task was on time.  Since then each frame that was
\* due in the slots that are over, each one done in this slot and each of e lap
\* events has waited no longer than it may.
Account(first, n, e) ==
    /\ (first + n) % Wrap = slot
    /\ e + queued <= posted
    /\ Owed <= WaitMax * (e + (FB(first + n) - FB(first)) + DoneCount(at))
                 + waited - SlotMs * n

\* The task is at a frame that it has to send.
Holding ==
    \/ at \in DOMAIN Rota /\ ~(Rota[at].id = "origin" /\ snap["origin"] = 0)
    \/ at = Events /\ queued > 0

\* It waits only with such a frame, and it was on time less than a round ago.
LagInv ==
    /\ waited > 0 => Holding
    /\ blocked => waited > 0
    /\ at \in DOMAIN Rota => at \in DueOf(Rota, slot)
    /\ \E first \in 0 .. Wrap - 1, n \in 0 .. Wrap - 1, e \in 0 .. MaxEvents :
         Account(first, n, e)

LEMMA AccountTypes ==
    ASSUME TypeOK, NEW first \in 0 .. Wrap - 1, NEW n \in 0 .. Wrap - 1,
           NEW e \in 0 .. MaxEvents
    PROVE  /\ first \in Nat /\ n \in Nat /\ e \in Nat /\ first + n \in Nat
           /\ first < Wrap /\ n < Wrap /\ e <= MaxEvents
           /\ FB(first + n) \in Nat /\ FB(first) \in Nat /\ FB(first) <= FB(first + n)
           /\ DoneCount(at) \in Nat
           /\ e + (FB(first + n) - FB(first)) + DoneCount(at) \in Int
           /\ late \in Int /\ waited \in Nat /\ waited <= WaitMax
           /\ queued \in Nat /\ posted \in Nat /\ posted <= MaxEvents
           /\ SlotMs * n \in Int
<1>1. first \in Nat /\ n \in Nat /\ e \in Nat /\ first + n \in Nat
      /\ first < Wrap /\ n < Wrap /\ e <= MaxEvents /\ first <= first + n
  BY Sizes
<1>2. FB(first + n) \in Nat /\ FB(first) \in Nat /\ FB(first) <= FB(first + n)
  BY <1>1, FBIs, FBGrows
<1>3. DoneCount(at) \in Nat
  BY DoneFinite
<1>4. late \in Int /\ waited \in Nat /\ waited <= WaitMax
      /\ queued \in Nat /\ posted \in Nat /\ posted <= MaxEvents
  BY Sizes DEF TypeOK
<1>5. SlotMs * n \in Int
  BY <1>1, Sizes, Products
<1> QED
  BY <1>1, <1>2, <1>3, <1>4, <1>5

LEMMA LagInit ==
    ASSUME Init
    PROVE  LagInv
<1>1. slot = 0 /\ at = 0 /\ waited = 0 /\ blocked = FALSE /\ late = 0 /\ queued = 0
      /\ posted = 0
  BY Zenon DEF Init
<1>2. at \notin DOMAIN Rota /\ ~(waited > 0)
  BY <1>1, RotaFacts
<1>3. Account(0, 0, 0)
  <2>1. (0 + 0) % Wrap = 0
    BY Sizes, ModOnce
  <2>2. 0 + (FB(0 + 0) - FB(0)) + DoneCount(at) = 0
    BY <1>1, FBIs, DoneEnds
  <2>3. WaitMax * 0 = 0 /\ SlotMs * 0 = 0
    BY Sizes, Products
  <2>4. Owed <= WaitMax * 0 + waited - SlotMs * 0
    BY <1>1, <2>3 DEF Owed
  <2> QED
    BY <1>1, <2>1, <2>2, <2>4 DEF Account
<1>4. 0 \in 0 .. Wrap - 1 /\ 0 \in 0 .. MaxEvents
  BY Sizes
<1> QED
  BY <1>1, <1>2, <1>3, <1>4, Zenon DEF LagInv

\* What does not touch the task keeps the account.
LEMMA LagOthers ==
    ASSUME LagInv, queued' = queued, posted' = posted, slot' = slot, snap' = snap, at' = at,
           waited' = waited, blocked' = blocked, late' = late
    PROVE  LagInv'
<1>1. Holding' <=> Holding
  BY Zenon DEF Holding
<1>2. Owed' = Owed
  BY Zenon DEF Owed
<1>3. DoneCount(at)' = DoneCount(at)
  BY Zenon DEF DoneCount, DoneTo
<1>4. ASSUME NEW first, NEW n, NEW e, Account(first, n, e)
      PROVE  Account(first, n, e)'
  BY <1>2, <1>3, <1>4, Zenon DEF Account
<1>5. (waited' > 0 => Holding') /\ (blocked' => waited' > 0)
  BY <1>1, Zenon DEF LagInv
<1>6. at' \in DOMAIN Rota => at' \in DueOf(Rota, slot')
  BY Zenon DEF LagInv
<1> QED
  BY <1>4, <1>5, <1>6, Zenon DEF LagInv

\* Not holding a frame, the task neither waits nor is blocked.
LEMMA NotHolding ==
    ASSUME TypeOK, LagInv, ~Holding
    PROVE  waited = 0 /\ ~blocked /\ Owed = late
<1>1. ~(waited > 0) /\ ~blocked
  BY Zenon DEF LagInv
<1>2. waited \in Nat
  BY Sizes DEF TypeOK
<1>3. waited = 0
  BY <1>1, <1>2
<1> QED
  BY <1>1, <1>3 DEF Owed

LEMMA LagWake ==
    ASSUME TypeOK, LagInv, Wake
    PROVE  LagInv'
<1>1. at = 0 /\ at' = NextDue(1) /\ queued' = queued /\ posted' = posted /\ slot' = slot
      /\ waited' = waited /\ blocked' = blocked /\ late' = late
  BY Zenon DEF Wake
<1>2. waited = 0 /\ ~blocked /\ Owed = late
  BY <1>1, NotHolding, RotaFacts DEF Holding
<1>3. ~(waited' > 0) /\ ~blocked'
  BY <1>1, <1>2
<1>4. at' \in DOMAIN Rota => at' \in DueOf(Rota, slot')
  BY <1>1, NextDueIs, RotaFacts
<1>5. DoneCount(at') = DoneCount(at) /\ \A a : DoneCount(a)' = Cardinality(DoneTo(a'))
  BY <1>1, DoneEnds, Zenon DEF DoneCount, DoneTo
<1>6. Owed' = Owed
  BY <1>1, Zenon DEF Owed
<1>7. DoneCount(at)' = DoneCount(at)
  BY <1>1, <1>5, Zenon DEF DoneCount, DoneTo
<1>8. ASSUME NEW first, NEW n, NEW e, Account(first, n, e)
      PROVE  Account(first, n, e)'
  BY <1>1, <1>6, <1>7, <1>8, Zenon DEF Account
<1> QED
  BY <1>3, <1>4, <1>8, Zenon DEF LagInv

LEMMA LagWait ==
    ASSUME TypeOK, LagInv, Wait
    PROVE  LagInv'
<1>1. waited' = waited + 1 /\ blocked' = TRUE /\ ~blocked /\ HasFrame
      /\ at' = at /\ queued' = queued /\ posted' = posted /\ slot' = slot /\ snap' = snap
      /\ late' = late
  BY Zenon DEF Wait, HasFrame
<1>2. Holding'
  BY <1>1, Zenon DEF Holding, HasFrame
<1>3. waited' > 0
  BY <1>1, Sizes DEF TypeOK
<1>4. Owed = late /\ Owed' = late + 1
  BY <1>1 DEF Owed
<1>5. DoneCount(at)' = DoneCount(at)
  BY <1>1, Zenon DEF DoneCount, DoneTo
<1>6. ASSUME NEW first \in 0 .. Wrap - 1, NEW n \in 0 .. Wrap - 1, NEW e \in 0 .. MaxEvents,
             Account(first, n, e)
      PROVE  Account(first, n, e)'
  <2> DEFINE x == e + (FB(first + n) - FB(first)) + DoneCount(at)
  <2>1. x \in Int /\ waited \in Nat /\ SlotMs * n \in Int /\ late \in Int
    BY AccountTypes
  <2>2. Owed <= WaitMax * x + waited - SlotMs * n
    BY <1>6, Zenon DEF Account
  <2> HIDE DEF x
  <2>3. WaitMax * x \in Int
    BY <2>1, Sizes, Products
  <2>4. Owed' <= WaitMax * x + (waited + 1) - SlotMs * n
    BY <1>4, <2>1, <2>2, <2>3
  <2>5. (first + n) % Wrap = slot /\ e + queued <= posted
    BY <1>6, Zenon DEF Account
  <2> QED
    BY <1>1, <1>5, <2>4, <2>5, Zenon DEF Account, x
<1> QED
  BY <1>1, <1>2, <1>3, <1>6, Zenon DEF LagInv

\* A frame is done, or an event is sent; it waited no longer than it may.
LEMMA LagSendFrame ==
    ASSUME TypeOK, LagInv, SendFrame
    PROVE  LagInv'
<1>1. HasFrame /\ ~blocked /\ waited' = 0 /\ blocked' = blocked /\ posted' = posted
      /\ slot' = slot /\ late' = late
  BY Zenon DEF SendFrame, HasFrame
<1>2. ~(waited' > 0) /\ ~blocked'
  BY <1>1
<1>3. Owed = late /\ Owed' = late
  BY <1>1 DEF Owed
<1>4. CASE at # Events
  <2>1. at \in DOMAIN Rota /\ at' = NextDue(at + 1) /\ queued' = queued
    BY <1>1, <1>4, Zenon DEF SendFrame, HasFrame
  <2>2. at \in DueOf(Rota, slot) /\ at + 1 \in 1 .. Events
    BY <2>1, RotaFacts DEF LagInv
  <2>3. at' \in DOMAIN Rota => at' \in DueOf(Rota, slot')
    BY <1>1, <2>1, <2>2, NextDueIs, RotaFacts
  <2>4. DoneCount(at)' = DoneCount(at) + 1
    <3>1. DoneCount(at)' = DoneCount(NextDue(at + 1))
      BY <1>1, <2>1, Zenon DEF DoneCount, DoneTo
    <3> QED
      BY <2>2, <3>1, DoneNext
  <2>5. ASSUME NEW first \in 0 .. Wrap - 1, NEW n \in 0 .. Wrap - 1,
               NEW e \in 0 .. MaxEvents, Account(first, n, e)
        PROVE  Account(first, n, e)'
    <3> DEFINE k == e + (FB(first + n) - FB(first))
               x == k + DoneCount(at)
    <3>1. x \in Int /\ waited \in Nat /\ waited <= WaitMax /\ SlotMs * n \in Int
          /\ late \in Int /\ k \in Int /\ DoneCount(at) \in Nat
      BY AccountTypes
    <3>2. Owed <= WaitMax * x + waited - SlotMs * n
      BY <2>5, Zenon DEF Account
    <3>3. k + (DoneCount(at) + 1) = x + 1
      BY <3>1
    <3> HIDE DEF x
    <3>4. WaitMax * x \in Int /\ WaitMax * (x + 1) = WaitMax * x + WaitMax
      BY <3>1, Sizes, Products
    <3>5. Owed' <= WaitMax * (x + 1) + 0 - SlotMs * n
      BY <1>3, <3>1, <3>2, <3>4, Sizes
    <3>6. Owed' <= WaitMax * (k + DoneCount(at)') + waited' - SlotMs * n
      BY <1>1, <2>4, <3>3, <3>5, Zenon
    <3>7. (first + n) % Wrap = slot /\ e + queued <= posted
      BY <2>5, Zenon DEF Account
    <3> QED
      BY <1>1, <2>1, <3>6, <3>7, Zenon DEF Account
  <2> QED
    BY <1>2, <2>3, <2>5, Zenon DEF LagInv
<1>5. CASE at = Events
  <2>1. at' = at /\ queued' = queued - 1
    BY <1>5, Zenon DEF SendFrame
  <2>2. queued > 0
    BY <1>1, <1>5, RotaFacts DEF HasFrame
  <2>3. at' \notin DOMAIN Rota
    BY <1>5, <2>1, RotaFacts
  <2>4. DoneCount(at)' = DoneCount(at)
    BY <1>1, <2>1, Zenon DEF DoneCount, DoneTo
  <2>5. ASSUME NEW first \in 0 .. Wrap - 1, NEW n \in 0 .. Wrap - 1,
               NEW e \in 0 .. MaxEvents, Account(first, n, e)
        PROVE  e + 1 \in 0 .. MaxEvents /\ Account(first, n, e + 1)'
    <3> DEFINE k == FB(first + n) - FB(first)
               x == e + k + DoneCount(at)
    <3>1. x \in Int /\ waited \in Nat /\ waited <= WaitMax /\ SlotMs * n \in Int
          /\ late \in Int /\ e \in Nat /\ DoneCount(at) \in Nat
          /\ queued \in Nat /\ posted \in Nat /\ posted <= MaxEvents
          /\ FB(first + n) \in Nat /\ FB(first) \in Nat
      BY AccountTypes
    <3>2. Owed <= WaitMax * x + waited - SlotMs * n /\ (first + n) % Wrap = slot
          /\ e + queued <= posted
      BY <2>5, Zenon DEF Account
    <3>3. (e + 1) + k + DoneCount(at) = x + 1
      BY <3>1
    <3>4. e + 1 \in 0 .. MaxEvents /\ (e + 1) + (queued - 1) <= posted
      BY <2>2, <3>1, <3>2, Sizes
    <3> HIDE DEF x
    <3>5. WaitMax * x \in Int /\ WaitMax * (x + 1) = WaitMax * x + WaitMax
      BY <3>1, Sizes, Products
    <3>6. Owed' <= WaitMax * (x + 1) + 0 - SlotMs * n
      BY <1>3, <3>1, <3>2, <3>5, Sizes
    <3>7. Owed' <= WaitMax * ((e + 1) + k + DoneCount(at)') + waited' - SlotMs * n
      BY <1>1, <2>4, <3>3, <3>6, Zenon
    <3> QED
      BY <1>1, <2>1, <3>2, <3>4, <3>7, Zenon DEF Account
  <2> QED
    BY <1>2, <2>3, <2>5, Zenon DEF LagInv
<1> QED
  BY <1>4, <1>5

LEMMA LagSkipOrigin ==
    ASSUME TypeOK, LagInv, SkipOrigin
    PROVE  LagInv'
<1>1. at \in DOMAIN Rota /\ Rota[at].id = "origin" /\ snap["origin"] = 0
      /\ at' = NextDue(at + 1) /\ queued' = queued /\ posted' = posted /\ slot' = slot
      /\ waited' = waited /\ blocked' = blocked /\ late' = late
  BY Zenon DEF SkipOrigin
<1>2. at # Events
  BY <1>1, RotaFacts
<1>3. waited = 0 /\ ~blocked /\ Owed = late
  BY <1>1, <1>2, NotHolding, Zenon DEF Holding
<1>4. ~(waited' > 0) /\ ~blocked'
  BY <1>1, <1>3
<1>5. at \in DueOf(Rota, slot) /\ at + 1 \in 1 .. Events
  BY <1>1, RotaFacts DEF LagInv
<1>6. at' \in DOMAIN Rota => at' \in DueOf(Rota, slot')
  BY <1>1, <1>5, NextDueIs, RotaFacts
<1>7. DoneCount(at)' = DoneCount(at) + 1
  <2>1. DoneCount(at)' = DoneCount(NextDue(at + 1))
    BY <1>1, Zenon DEF DoneCount, DoneTo
  <2> QED
    BY <1>5, <2>1, DoneNext
<1>8. Owed' = Owed
  BY <1>1, Zenon DEF Owed
<1>9. ASSUME NEW first \in 0 .. Wrap - 1, NEW n \in 0 .. Wrap - 1, NEW e \in 0 .. MaxEvents,
             Account(first, n, e)
      PROVE  Account(first, n, e)'
  <2> DEFINE k == e + (FB(first + n) - FB(first))
             x == k + DoneCount(at)
  <2>1. x \in Int /\ waited \in Nat /\ SlotMs * n \in Int /\ late \in Int /\ k \in Int
        /\ DoneCount(at) \in Nat
    BY AccountTypes
  <2>2. Owed <= WaitMax * x + waited - SlotMs * n /\ (first + n) % Wrap = slot
        /\ e + queued <= posted
    BY <1>9, Zenon DEF Account
  <2>3. k + (DoneCount(at) + 1) = x + 1
    BY <2>1
  <2> HIDE DEF x
  <2>4. WaitMax * x \in Int /\ WaitMax * (x + 1) = WaitMax * x + WaitMax
    BY <2>1, Sizes, Products
  <2>5. Owed <= WaitMax * (x + 1) + waited - SlotMs * n
    BY <1>3, <2>1, <2>2, <2>4, Sizes
  <2>6. Owed' <= WaitMax * (k + DoneCount(at)') + waited' - SlotMs * n
    BY <1>1, <1>7, <1>8, <2>3, <2>5, Zenon
  <2> QED
    BY <1>1, <2>2, <2>6, Zenon DEF Account
<1> QED
  BY <1>4, <1>6, <1>9, Zenon DEF LagInv

\* The slot after slot first + n.
LEMMA NextSlot ==
    ASSUME NEW first \in 0 .. Wrap - 1, NEW n \in 0 .. Wrap - 1
    PROVE  /\ n + 1 < Wrap => (((first + n) % Wrap) + 1) % Wrap = (first + (n + 1)) % Wrap
           /\ n + 1 = Wrap => (((first + n) % Wrap) + 1) % Wrap = first
<1> DEFINE W == Wrap
           s == (first + n) % W
<1>1. W \in Nat /\ W > 0 /\ first \in Nat /\ n \in Nat /\ first < W /\ n < W
  BY Sizes
<1>2. CASE first + n < W - 1
  <2>1. first + n \in 0 .. W - 1 /\ first + (n + 1) \in 0 .. W - 1
    BY <1>1, <1>2
  <2>2. s = first + n /\ (first + (n + 1)) % W = first + (n + 1)
    BY <1>1, <2>1, ModOnce
  <2>3. s + 1 = first + (n + 1)
    BY <1>1, <2>2
  <2>4. n + 1 = W => first + n >= W - 1
    BY <1>1
  <2> QED
    BY <1>1, <1>2, <2>2, <2>3, <2>4
<1>3. CASE first + n = W - 1
  <2>1. first + n \in 0 .. W - 1 /\ W \in W .. 2 * W - 1
    BY <1>1, <1>3
  <2>2. s = first + n /\ W % W = W - W
    BY <1>1, <2>1, ModOnce
  <2>3. s + 1 = W /\ first + (n + 1) = W /\ W - W = 0
    BY <1>1, <1>3, <2>2
  <2>4. n + 1 = W => first = 0
    BY <1>1, <1>3
  <2> QED
    BY <2>2, <2>3, <2>4, Zenon
<1>4. CASE first + n >= W
  <2>1. first + n \in W .. 2 * W - 1 /\ first + (n + 1) \in W .. 2 * W - 1
    BY <1>1, <1>4
  <2>2. s = first + n - W /\ (first + (n + 1)) % W = first + (n + 1) - W
    BY <1>1, <2>1, ModOnce
  <2>3. s + 1 = first + (n + 1) - W /\ s + 1 \in 0 .. W - 1 /\ s + 1 \in Int
    BY <1>1, <1>4, <2>2
  <2>4. (s + 1) % W = s + 1
    BY <1>1, <2>3, ModOnce
  <2>5. n + 1 = W => s + 1 = first
    BY <1>1, <2>3
  <2> QED
    BY <2>2, <2>3, <2>4, <2>5, Zenon
<1> QED
  BY <1>1, <1>2, <1>3, <1>4

\* A slot more is over; when it was the last of a round the round had the time for
\* its frames, so that the account may begin anew.
LEMMA LagEndSlot ==
    ASSUME TypeOK, LagInv, EndSlot
    PROVE  LagInv'
<1>1. at = Events /\ queued = 0 /\ slot' = (slot + 1) % Wrap /\ late' = late - SlotMs
      /\ at' = 0 /\ waited' = waited /\ blocked' = blocked /\ posted' = posted
      /\ queued' = queued
  BY Zenon DEF EndSlot
<1>2. ~Holding
  BY <1>1, RotaFacts DEF Holding
<1>3. waited = 0 /\ ~blocked /\ Owed = late
  BY <1>2, NotHolding, Zenon
<1>4. ~(waited' > 0) /\ ~blocked' /\ at' \notin DOMAIN Rota
  BY <1>1, <1>3, RotaFacts
<1>5. Owed' = late - SlotMs
  BY <1>1, <1>3 DEF Owed
<1>6. DoneCount(at)' = 0
  <2>1. DoneTo(at)' = {}
    BY <1>1, RotaFacts DEF DoneTo
  <2> QED
    BY <2>1, FS_EmptySet DEF DoneCount
<1>7. DoneCount(at) = DueCount(slot)
  BY <1>1, DoneEnds
<1>8. ASSUME NEW first \in 0 .. Wrap - 1, NEW n \in 0 .. Wrap - 1, NEW e \in 0 .. MaxEvents,
             Account(first, n, e)
      PROVE  \E f \in 0 .. Wrap - 1, m \in 0 .. Wrap - 1 : Account(f, m, e)'
  <2> DEFINE x == FB(first + (n + 1)) - FB(first)
  <2>1. first \in Nat /\ n \in Nat /\ e \in Nat /\ n < Wrap /\ first < Wrap
        /\ FB(first + n) \in Nat /\ FB(first) \in Nat /\ late \in Int /\ SlotMs * n \in Int
        /\ first + n \in Nat
    BY AccountTypes
  <2>2. (first + n) % Wrap = slot /\ e + queued <= posted
        /\ Owed <= WaitMax * (e + (FB(first + n) - FB(first)) + DoneCount(at))
                     + waited - SlotMs * n
    BY <1>8, Zenon DEF Account
  <2>3. FB(first + (n + 1)) = FB(first + n) + DueCount(slot)
    <3>1. (first + n) + 1 = first + (n + 1)
      BY <2>1
    <3>2. FB((first + n) + 1) = FB(first + n) + DueCount((first + n) % Wrap)
      BY <2>1, FBIs
    <3> QED
      BY <2>2, <3>1, <3>2, Zenon
  <2>4. DueCount(slot) \in Nat
    BY DueFinite
  <2>5. x \in Int /\ e + (FB(first + n) - FB(first)) + DoneCount(at) = e + x
    BY <1>7, <2>1, <2>3, <2>4
  <2>6. late <= WaitMax * (e + x) + waited - SlotMs * n
    BY <1>3, <2>2, <2>5, Zenon
  <2>7. WaitMax * (e + x) \in Int /\ WaitMax * (e + x) = WaitMax * e + WaitMax * x
        /\ WaitMax * e \in Int /\ WaitMax * x \in Int
        /\ SlotMs * (n + 1) = SlotMs * n + SlotMs /\ SlotMs * (n + 1) \in Int
    <3>1. e + x \in Int /\ e \in Int /\ n \in Int /\ n + 1 \in Int /\ x \in Int
      BY <2>1, <2>5
    <3> HIDE DEF x
    <3> QED
      BY <3>1, Sizes, Products
  <2> HIDE DEF x
  <2>8. Owed' <= WaitMax * (e + x) + waited - SlotMs * (n + 1)
    BY <1>3, <1>5, <2>1, <2>6, <2>7, Sizes
  <2>9. CASE n + 1 < Wrap
    <3>1. n + 1 \in 0 .. Wrap - 1
      BY <2>1, <2>9, Sizes
    <3>2. (first + (n + 1)) % Wrap = slot'
      BY <1>1, <2>2, <2>9, NextSlot, Zenon
    <3>3. e + x = e + x + DoneCount(at)'
      BY <1>6, <2>1, <2>5
    <3>4. Owed' <= WaitMax * (e + x + DoneCount(at)') + waited' - SlotMs * (n + 1)
      BY <1>1, <2>8, <3>3, Zenon
    <3>5. Account(first, n + 1, e)'
      BY <1>1, <2>2, <3>2, <3>4, Zenon DEF Account, x
    <3> QED
      BY <3>1, <3>5, Zenon
  <2>10. CASE n + 1 = Wrap
    <3>1. slot' = first
      BY <1>1, <2>2, <2>10, NextSlot, Zenon
    <3>2. (first + 0) % Wrap = slot'
      <4>1. first + 0 = first /\ first % Wrap = first
        BY <2>1, Sizes, ModOnce
      <4> QED
        BY <3>1, <4>1, Zenon
    <3>3. x = FB(Wrap)
      <4>1. first \in 0 .. Wrap /\ Wrap \in Nat
        BY <2>1, Sizes
      <4>2. FB(first + Wrap) = FB(first) + FB(Wrap) /\ FB(Wrap) \in Nat
        BY <4>1, FBRound, FBIs
      <4> QED
        BY <2>1, <2>10, <4>2 DEF x
    <3>4. WaitMax * FB(Wrap) <= Wrap * SlotMs
      BY CanAssumption DEF RotaFits, FB
    <3>5. Wrap * SlotMs = SlotMs * Wrap
      BY Sizes, SMTT(30)
    <3>6. WaitMax * x <= SlotMs * (n + 1)
      BY <2>10, <3>3, <3>4, <3>5, Zenon
    <3>7. Owed' <= WaitMax * e + waited - 0
      <4>1. Owed' \in Int
        BY <1>5, <2>1, Sizes
      <4> QED
        BY <1>3, <2>7, <2>8, <3>6, <4>1
    <3>8. e + (FB(first + 0) - FB(first)) + DoneCount(at)' = e /\ SlotMs * 0 = 0
      <4>1. first + 0 = first
        BY <2>1
      <4>2. e + (FB(first) - FB(first)) + DoneCount(at)' = e /\ SlotMs * 0 = 0
        BY <1>6, <2>1, Sizes
      <4> QED
        BY <4>1, <4>2, Zenon
    <3>9. Account(first, 0, e)'
      BY <1>1, <2>2, <3>2, <3>7, <3>8, Zenon DEF Account
    <3>10. 0 \in 0 .. Wrap - 1
      BY Sizes
    <3> QED
      BY <3>9, <3>10, Zenon
  <2>11. n + 1 < Wrap \/ n + 1 = Wrap
    BY <2>1, Sizes
  <2> QED
    BY <2>9, <2>10, <2>11
<1> QED
  BY <1>4, <1>8, Zenon DEF LagInv

\* The tick that the task is blocked for was counted already; asleep, it gets on
\* time at most.
LEMMA LagTick ==
    ASSUME TypeOK, LagInv, Tick
    PROVE  LagInv'
<1>1. late' = late + 1 /\ blocked' = FALSE /\ queued' = queued /\ posted' = posted
      /\ slot' = slot /\ snap' = snap /\ at' = at /\ waited' = waited
      /\ (blocked \/ (at = 0 /\ late < 0))
  BY Zenon DEF Tick, Idle
<1>2. (waited' > 0 => Holding') /\ (blocked' => waited' > 0)
  <2>1. Holding' <=> Holding
    BY <1>1, Zenon DEF Holding
  <2> QED
    BY <1>1, <2>1, Zenon DEF LagInv
<1>3. at' \in DOMAIN Rota => at' \in DueOf(Rota, slot')
  BY <1>1, Zenon DEF LagInv
<1>4. DoneCount(at)' = DoneCount(at)
  BY <1>1, Zenon DEF DoneCount, DoneTo
<1>5. CASE blocked
  <2>1. Owed' = Owed
    BY <1>1, <1>5 DEF Owed
  <2>2. ASSUME NEW first, NEW n, NEW e, Account(first, n, e)
        PROVE  Account(first, n, e)'
    BY <1>1, <1>4, <2>1, <2>2, Zenon DEF Account
  <2> QED
    BY <1>2, <1>3, <2>2, Zenon DEF LagInv
<1>6. CASE ~blocked
  <2>1. at = 0 /\ late < 0
    BY <1>1, <1>6, Zenon
  <2>2. Owed' <= 0
    BY <1>1, <2>1 DEF Owed, TypeOK
  <2> PICK first \in 0 .. Wrap - 1 : first = slot
    BY Zenon DEF TypeOK
  <2>3. 0 \in 0 .. Wrap - 1 /\ 0 \in 0 .. MaxEvents /\ first \in Nat
    BY Sizes
  <2>4. (first + 0) % Wrap = slot'
    <3>1. first + 0 = first /\ first % Wrap = first
      BY <2>3, Sizes, ModOnce
    <3> QED
      BY <1>1, <3>1, Zenon
  <2>5. 0 + queued <= posted
    <3>1. PICK f \in 0 .. Wrap - 1, n \in 0 .. Wrap - 1, e \in 0 .. MaxEvents :
            Account(f, n, e)
      BY Zenon DEF LagInv
    <3>2. e + queued <= posted
      BY <3>1, Zenon DEF Account
    <3> QED
      BY <3>2, Sizes DEF TypeOK
  <2>6. 0 + (FB(first + 0) - FB(first)) + DoneCount(at)' = 0 /\ SlotMs * 0 = 0
        /\ WaitMax * 0 = 0
    <3>1. first + 0 = first /\ FB(first) \in Nat
      BY <2>3, FBIs
    <3>2. DoneCount(at)' = 0
      BY <1>4, <2>1, DoneEnds
    <3> QED
      BY <3>1, <3>2, Sizes
  <2>7. Owed' <= 0 + waited' - 0
    BY <1>1, <2>1, <2>2, Sizes DEF TypeOK, Owed
  <2>8. Account(first, 0, 0)'
    BY <1>1, <2>4, <2>5, <2>6, <2>7, Zenon DEF Account
  <2> QED
    BY <1>2, <1>3, <2>3, <2>8, Zenon DEF LagInv
<1> QED
  BY <1>5, <1>6

LEMMA LagPostEvent ==
    ASSUME TypeOK, LagInv, PostEvent
    PROVE  LagInv'
<1>1. posted' = posted + 1 /\ queued' = Min({queued + 1, EventQueueLen}) /\ slot' = slot
      /\ snap' = snap /\ at' = at /\ waited' = waited /\ blocked' = blocked /\ late' = late
  BY Zenon DEF PostEvent
<1>2. queued \in Nat /\ queued + 1 \in Nat /\ posted \in Nat
  BY Sizes DEF TypeOK
<1>3. queued' \in {queued + 1, EventQueueLen} /\ queued' <= queued + 1
  BY <1>1, <1>2, FewerIs, Sizes
<1>4. queued' > 0 /\ queued' \in Nat
  BY <1>2, <1>3, Sizes
<1>5. (waited' > 0 => Holding') /\ (blocked' => waited' > 0)
  <2>1. Holding => Holding'
    BY <1>1, <1>4, Zenon DEF Holding
  <2> QED
    BY <1>1, <2>1, Zenon DEF LagInv
<1>6. at' \in DOMAIN Rota => at' \in DueOf(Rota, slot')
  BY <1>1, Zenon DEF LagInv
<1>7. Owed' = Owed /\ DoneCount(at)' = DoneCount(at)
  BY <1>1, Zenon DEF Owed, DoneCount, DoneTo
<1>8. ASSUME NEW first \in 0 .. Wrap - 1, NEW n \in 0 .. Wrap - 1, NEW e \in 0 .. MaxEvents,
             Account(first, n, e)
      PROVE  Account(first, n, e)'
  <2>1. e + queued <= posted
    BY <1>8, Zenon DEF Account
  <2>2. e + queued' <= posted'
    BY <1>1, <1>2, <1>3, <1>4, <2>1, Sizes
  <2> QED
    BY <1>1, <1>7, <1>8, <2>2, Zenon DEF Account
<1> QED
  BY <1>5, <1>6, <1>8, Zenon DEF LagInv

LEMMA LagStep ==
    ASSUME TypeOK, LagInv, [Next]_vars
    PROVE  LagInv'
<1>1. CASE BusSends \/ BusChanges \/ Publish \/ UNCHANGED vars
  <2>1. queued' = queued /\ posted' = posted /\ slot' = slot /\ snap' = snap /\ at' = at
        /\ waited' = waited /\ blocked' = blocked /\ late' = late
    BY <1>1, Zenon DEF BusSends, BusChanges, Publish, vars
  <2> QED
    BY <2>1, LagOthers
<1> QED
  BY <1>1, LagWake, LagWait, LagSendFrame, LagSkipOrigin, LagEndSlot, LagTick, LagPostEvent,
     Zenon DEF Next, Task

LEMMA LagIsBounded ==
    ASSUME TypeOK, LagInv
    PROVE  LagBounded
<1>1. PICK first \in 0 .. Wrap - 1, n \in 0 .. Wrap - 1, e \in 0 .. MaxEvents :
        Account(first, n, e)
  BY Zenon DEF LagInv
<1> DEFINE Cost(s, m) == WaitMax * (FB(s + m) - FB(s)) - SlotMs * (m - 1)
           Costs == {Cost(s, m) : s \in 0 .. Wrap - 1, m \in 1 .. Wrap}
           x == FB(first + n) - FB(first)
           y == FB(first + (n + 1)) - FB(first)
<1>2. first \in Nat /\ n \in Nat /\ e \in Nat /\ n < Wrap /\ first + n \in Nat
      /\ e <= MaxEvents /\ FB(first + n) \in Nat /\ FB(first) \in Nat /\ DoneCount(at) \in Nat
      /\ late \in Int /\ waited \in Nat /\ waited <= WaitMax
      /\ queued \in Nat /\ posted \in Nat /\ posted <= MaxEvents /\ SlotMs * n \in Int
  BY AccountTypes
<1>3. (first + n) % Wrap = slot /\ e + queued <= posted
      /\ Owed <= WaitMax * (e + x + DoneCount(at)) + waited - SlotMs * n
  BY <1>1, Zenon DEF Account
<1>4. late <= Owed
  BY <1>2 DEF Owed
<1>5. y = x + DueCount(slot) /\ DueCount(slot) \in Nat /\ DoneCount(at) <= DueCount(slot)
  <2>1. (first + n) + 1 = first + (n + 1)
    BY <1>2
  <2>2. FB((first + n) + 1) = FB(first + n) + DueCount((first + n) % Wrap)
    BY <1>2, FBIs
  <2>3. FB(first + (n + 1)) = FB(first + n) + DueCount(slot)
    BY <1>3, <2>1, <2>2, Zenon
  <2>4. DueCount(slot) \in Nat /\ DoneCount(at) <= DueCount(slot)
    BY DueFinite, DoneFinite
  <2> QED
    BY <1>2, <2>3, <2>4
<1>6. x \in Int /\ y \in Int
  BY <1>2, <1>5
<1> HIDE DEF x, y
<1>7. late <= WaitMax * MaxEvents + (WaitMax * y - SlotMs * n)
  <2>1. ASSUME NEW z \in Int, z <= MaxEvents + y,
               Owed <= WaitMax * z - SlotMs * n
        PROVE  late <= WaitMax * MaxEvents + (WaitMax * y - SlotMs * n)
    <3>1. MaxEvents + y \in Int /\ MaxEvents \in Int
      BY <1>6, Sizes
    <3>2. WaitMax * z <= WaitMax * (MaxEvents + y) /\ WaitMax * z \in Int
          /\ WaitMax * (MaxEvents + y) = WaitMax * MaxEvents + WaitMax * y
          /\ WaitMax * MaxEvents \in Int /\ WaitMax * y \in Int
      BY <1>6, <2>1, <3>1, Products, Sizes
    <3>3. Owed \in Int
      BY <1>2 DEF Owed
    <3> QED
      BY <1>2, <1>4, <2>1, <3>2, <3>3
  <2> DEFINE z == e + x + DoneCount(at)
  <2>2. z \in Int
    BY <1>2, <1>6
  <2>3. CASE waited = 0
    <3>1. z <= MaxEvents + y
      BY <1>2, <1>5, <1>6, Sizes
    <3>2. Owed <= WaitMax * z + 0 - SlotMs * n
      BY <1>3, <2>3, Zenon
    <3> HIDE DEF z
    <3>3. Owed <= WaitMax * z - SlotMs * n
      <4>1. WaitMax * z \in Int
        BY <2>2, Products, Sizes
      <4> QED
        BY <1>2, <3>2, <4>1
    <3> QED
      BY <2>1, <2>2, <3>1, <3>3
  <2>4. CASE waited > 0
    <3>1. Holding
      BY <2>4, Zenon DEF LagInv
    <3>2. z + 1 <= MaxEvents + y
      <4>1. CASE at \in DOMAIN Rota
        <5>1. at \in DueOf(Rota, slot)
          BY <4>1, Zenon DEF LagInv
        <5>2. DoneCount(at) + 1 <= DueCount(slot)
          BY <5>1, DoneNext
        <5> QED
          BY <1>2, <1>5, <1>6, <5>2, Sizes
      <4>2. CASE at \notin DOMAIN Rota
        <5>1. queued > 0
          BY <3>1, <4>2, Zenon DEF Holding
        <5>2. e + 1 <= MaxEvents
          BY <1>2, <1>3, <5>1, Sizes
        <5> QED
          BY <1>2, <1>5, <1>6, <5>2, Sizes
      <4> QED
        BY <4>1, <4>2
    <3>3. Owed <= WaitMax * z + waited - SlotMs * n
      BY <1>3, Zenon
    <3> HIDE DEF z
    <3>4. z + 1 \in Int /\ Owed <= WaitMax * (z + 1) - SlotMs * n
      <4>1. WaitMax * z \in Int /\ WaitMax * (z + 1) = WaitMax * z + WaitMax
        BY <2>2, Products, Sizes
      <4>2. Owed \in Int
        BY <1>2 DEF Owed
      <4> QED
        BY <1>2, <2>2, <3>3, <4>1, <4>2, Sizes
    <3> QED
      BY <2>1, <3>2, <3>4
  <2> QED
    BY <1>2, <2>3, <2>4
<1>8. WaitMax * y - SlotMs * n \in Costs
  <2>1. n + 1 \in 1 .. Wrap /\ (n + 1) - 1 = n
    BY <1>2, Sizes
  <2>2. Cost(first, n + 1) = WaitMax * y - SlotMs * n
    BY <2>1, Zenon DEF y
  <2> HIDE DEF Cost
  <2> QED
    BY <2>1, <2>2
<1>9. \A c \in Costs : c \in Int /\ c <= WaitMax * FB(2 * Wrap)
  <2> SUFFICES \A s \in 0 .. Wrap - 1, m \in 1 .. Wrap :
                 Cost(s, m) \in Int /\ Cost(s, m) <= WaitMax * FB(2 * Wrap)
    <3> HIDE DEF Cost
    <3> QED
      OBVIOUS
  <2> TAKE s \in 0 .. Wrap - 1, m \in 1 .. Wrap
  <2>1. s \in Nat /\ m - 1 \in Nat /\ s + m \in Nat /\ s + m <= 2 * Wrap /\ 2 * Wrap \in Nat
    BY Sizes
  <2>2. FB(s) \in Nat /\ FB(s + m) \in Nat /\ FB(2 * Wrap) \in Nat
        /\ FB(s + m) <= FB(2 * Wrap)
    BY <2>1, FBIs, FBGrows
  <2>3. FB(s + m) - FB(s) \in Int /\ FB(s + m) - FB(s) <= FB(2 * Wrap)
    BY <2>2
  <2>4. WaitMax * (FB(s + m) - FB(s)) <= WaitMax * FB(2 * Wrap)
        /\ WaitMax * (FB(s + m) - FB(s)) \in Int /\ WaitMax * FB(2 * Wrap) \in Int
    BY <2>2, <2>3, Products, Sizes
  <2>5. SlotMs * (m - 1) \in Nat
    BY <2>1, Sizes, SMTT(30)
  <2> QED
    BY <2>4, <2>5
<1>10. WaitMax * FB(2 * Wrap) \in Int
  <2>1. FB(2 * Wrap) \in Int
    BY FBIs, Sizes
  <2> QED
    BY <2>1, Products, Sizes
<1>11. MaxLag = WaitMax * MaxEvents + Max(Costs)
  BY DEF MaxLag, FB
<1> HIDE DEF Costs
<1>12. Max(Costs) \in Costs /\ \A c \in Costs : c <= Max(Costs)
  <2>1. Costs \in SUBSET Int /\ Costs # {} /\ \A c \in Costs : c <= WaitMax * FB(2 * Wrap)
    BY <1>8, <1>9, Zenon
  <2>2. \E c \in Costs : \A d \in Costs : d <= c
    BY <1>10, <2>1, GreatestElement
  <2> QED
    BY <2>2 DEF Max
<1>13. WaitMax * y - SlotMs * n <= Max(Costs) /\ Max(Costs) \in Int
       /\ WaitMax * y - SlotMs * n \in Int
  BY <1>8, <1>9, <1>12, Zenon
<1>14. WaitMax * MaxEvents \in Int
  BY Products, Sizes
<1> QED
  BY <1>2, <1>7, <1>11, <1>13, <1>14 DEF LagBounded

\* The broadcast task falls behind by no more than a bound that its constants give,
\* for how long the bus may be stuck, as long as a round of slots has the time for
\* the longest waits of its frames.
THEOREM DelayIsBounded ==
    Spec => []LagBounded
<1>1. Init => TypeOK /\ LagInv
  BY TypeInit, LagInit
<1>2. TypeOK /\ LagInv /\ [Next]_vars => (TypeOK /\ LagInv)'
  BY TypeStep, TypeStutters, LagStep
<1>3. TypeOK /\ LagInv => LagBounded
  BY LagIsBounded
<1> QED
  BY <1>1, <1>2, <1>3, PTL DEF Spec
=============================================================================

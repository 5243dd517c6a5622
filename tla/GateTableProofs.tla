--------------------------- MODULE GateTableProofs ---------------------------
(***************************************************************************)
(* What holds of GateTable for any number of gates, length of the queue,   *)
(* room in the flash page and number of resets:                            *)
(*   GateInv   the mirror and the layouts, whatever the commands;          *)
(*   SavedInv  what is in flash, with no GATE_CLEAR before the frame has   *)
(*             an origin (NoEarlyClear): one that comes earlier is undone  *)
(*             by the boot copy, which the run MCGateEarlyClear shows.     *)
(***************************************************************************)
EXTENDS GateTable, NatFacts, FiniteSetTheorems

NoEarlyClear == EarlyClear = FALSE

-----------------------------------------------------------------------------
(* Tables.                                                                 *)

LEMMA GateFacts ==
    /\ MaxGates \in Nat /\ MaxGates >= 2
    /\ 0 \in Gate /\ 1 \in Sector
    /\ Sector \subseteq Gate
    /\ \A k \in Gate : k = 0 \/ k \in Sector
    /\ 0 \notin Sector
    /\ StrayIndex \notin Gate
    /\ Gate \subseteq Store!Key
    /\ Store!Gate = Gate
    /\ Store!MagKey \in Store!Key /\ Store!MagKey \notin Gate
    /\ None \notin Stamp
BY GateAssumption, BoundAssumption, NoneAssumption
DEF Gate, Sector, StrayIndex, Store!Key, Store!Gate, Store!MagKey, Stamp

LEMMA TableUpdates ==
    ASSUME NEW t \in Table, NEW k, NEW v \in Stamp \union {None}
    PROVE  /\ GatesSet(t, k, v) \in Table
           /\ Put(t, k, v) \in Table
           /\ NoGates \in Table
BY DEF GatesSet, Put, NoGates, Table

\* Setting a sector is a plain write to its slot.
LEMMA SetSectorIsPut ==
    ASSUME NEW t \in Table, NEW k, k # 0, NEW v
    PROVE  GatesSet(t, k, v) = Put(t, k, v)
<1>1. CASE k \in Gate
  <2>1. \A i \in Gate : GatesSet(t, k, v)[i] = IF i = k THEN v ELSE t[i]
    BY DEF GatesSet
  <2>2. \A i \in Gate : Put(t, k, v)[i] = IF i = k THEN v ELSE t[i]
    BY <1>1 DEF Put, Table
  <2>3. Put(t, k, v) = [i \in Gate |-> Put(t, k, v)[i]]
    BY <1>1 DEF Put, Table
  <2>4. GatesSet(t, k, v) = [i \in Gate |-> GatesSet(t, k, v)[i]]
    BY DEF GatesSet
  <2> QED
    BY <2>1, <2>2, <2>3, <2>4
<1>2. CASE k \notin Gate
  <2>1. GatesSet(t, k, v) = [i \in Gate |-> t[i]]
    BY <1>2 DEF GatesSet
  <2> QED
    BY <1>2, <2>1 DEF Put, Table
<1> QED
  BY <1>1, <1>2

(***************************************************************************)
(* The loop of handle_gps_fix puts back the stored table as it was, start/ *)
(* finish and the sectors timed against it: after n turns the first n      *)
(* slots are in place.                                                     *)
(***************************************************************************)
LEMMA PlaceStoredIsStored ==
    ASSUME NEW t \in Table
    PROVE  PlaceStored(NoGates, t) = t
<1> DEFINE turn(h, n) == IF t[n - 1] = None THEN h[n - 1]
                         ELSE GatesSet(h[n - 1], n - 1, t[n - 1])
           IsLoop(h) == h = [n \in 0 .. MaxGates |-> IF n = 0 THEN NoGates ELSE turn(h, n)]
           placed(n) == [i \in Gate |-> IF i < n THEN t[i] ELSE None]
           H == [n \in 0 .. MaxGates |-> placed(n)]
           L == CHOOSE h : IsLoop(h)
<1>0. MaxGates \in Nat /\ 0 \in 0 .. MaxGates /\ MaxGates \in 0 .. MaxGates
  BY GateAssumption
<1>1. placed(0) = NoGates
  BY DEF NoGates, Gate
<1>2. ASSUME NEW h, NEW n \in 0 .. MaxGates, n # 0, h[n - 1] = placed(n - 1)
      PROVE  turn(h, n) = placed(n)
  <2>0. n - 1 \in Gate /\ n - 1 \in Nat
    BY <1>0, <1>2 DEF Gate
  <2>1. \A i \in Gate : i < n <=> i < n - 1 \/ i = n - 1
    BY <1>0, <1>2 DEF Gate
  <2>2. CASE t[n - 1] = None
    BY <1>2, <2>1, <2>2
  <2>3. CASE t[n - 1] # None
    <3>1. turn(h, n) = [i \in Gate |-> IF i = n - 1 THEN t[n - 1]
                                       ELSE IF n - 1 = 0 THEN None
                                       ELSE placed(n - 1)[i]]
      BY <1>2, <2>3 DEF GatesSet
    <3>2. n - 1 = 0 => \A i \in Gate : ~(i < n - 1)
      BY DEF Gate
    <3> QED
      BY <2>0, <2>1, <3>1, <3>2
  <2> QED
    BY <2>2, <2>3
<1>3. IsLoop(H)
  <2>1. \A n \in 0 .. MaxGates : n # 0 => n - 1 \in 0 .. MaxGates
    BY <1>0
  <2>2. \A n \in 0 .. MaxGates : n # 0 => H[n - 1] = placed(n - 1)
    BY <2>1
  <2> HIDE DEF H, placed, turn
  <2>3. \A n \in 0 .. MaxGates : n # 0 => turn(H, n) = placed(n)
    BY <1>2, <2>2
  <2> QED
    BY <1>1, <2>3 DEF H
<1>4. PlaceStored(NoGates, t) = L[MaxGates]
  BY DEF PlaceStored
<1> HIDE DEF IsLoop, H
<1>5. IsLoop(L)
  BY <1>3
<1> HIDE DEF L, placed, turn
<1>6. L[MaxGates] = placed(MaxGates)
  <2> DEFINE T == {n \in 0 .. MaxGates : L[n] = placed(n)}
  <2>1. 0 \in T
    BY <1>0, <1>1, <1>5 DEF IsLoop
  <2>2. ASSUME NEW n \in 0 .. MaxGates - 1, n \in T PROVE n + 1 \in T
    <3>1. n + 1 \in 0 .. MaxGates /\ n + 1 # 0 /\ (n + 1) - 1 = n
      BY <1>0
    <3>2. L[n + 1] = turn(L, n + 1)
      BY <1>5, <3>1 DEF IsLoop
    <3>3. L[(n + 1) - 1] = placed((n + 1) - 1)
      BY <2>2, <3>1
    <3>4. turn(L, n + 1) = placed(n + 1)
      BY <1>2, <3>1, <3>3
    <3> QED
      BY <3>1, <3>2, <3>4
  <2> HIDE DEF T
  <2>3. 0 .. MaxGates \subseteq T
    BY <1>0, <2>1, <2>2, BoundedInduction
  <2> QED
    BY <1>0, <2>3 DEF T
<1>7. placed(MaxGates) = t
  BY <1>0 DEF placed, Gate, Table
<1> QED
  BY <1>4, <1>6, <1>7

-----------------------------------------------------------------------------
(* The inductive invariants.                                               *)

\* Every GATE_SET that waits will find a stamp left for it.
QueueFits ==
    \A i \in 1 .. Len(queue) : queue[i].cmd = "GATE_SET" => stamp + i <= MaxStamp

\* Before the frame has an origin no line is timed or broadcast.
Unanchored == ~up => ~origin
AnchorPlace == ~origin => gates = NoGates /\ ~half

\* Between the two records of a start/finish line no copy has a sector, and
\* the flash table is empty, unless the first record was refused.
HalfPlace ==
    half => /\ up
            /\ \A k \in Sector : gates[k] = None /\ bus[k] = None
            /\ kept \/ \A k \in Gate : saved[k] = None

\* A start/finish line in flash is the one that the sectors to come are timed
\* with, before the origin the one that will be placed.
LineInFlash ==
    ~kept /\ saved[0] # None =>
        /\ origin /\ ~half => saved[0] = gates[0]
        /\ up /\ ~origin => saved[0] = stored[0]

\* Every stamp in use was handed out.
StampsPast ==
    \A k \in Gate : /\ gates[k] # None => gates[k] <= stamp
                    /\ saved[k] # None => saved[k] <= stamp
                    /\ stored[k] # None => stored[k] <= stamp

GateInv ==
    /\ TypeOK
    /\ QueueFits
    /\ Unanchored
    /\ AnchorPlace
    /\ HalfPlace
    /\ LineInFlash
    /\ StampsPast
    /\ MirrorIsLive
    /\ NoMixedLayout

\* What the flash table is worth, when no GATE_CLEAR comes before the origin.
NoClearWaits ==
    ~origin => \A i \in 1 .. Len(queue) : queue[i].cmd # "GATE_CLEAR"

StoredIsSaved == up /\ ~origin => \A k \in Gate : stored[k] = saved[k]

HalfSaved == half /\ ~unsaved => \A k \in Gate : saved[k] = None

SavedInv ==
    /\ GateInv
    /\ NoClearWaits
    /\ StoredIsSaved
    /\ HalfSaved
    /\ SavedIsLive

-----------------------------------------------------------------------------
(* The queue and the flash page, as the actions change them.               *)

LEMMA TakesHead ==
    ASSUME TypeOK, NEW c, Takes(c)
    PROVE  /\ Head(queue) \in Command /\ Head(queue) = queue[1] /\ Head(queue).cmd = c
           /\ 1 \in 1 .. Len(queue)
           /\ queue' \in Seq(Command) /\ Len(queue') <= QueueLen
           /\ \A i \in 1 .. Len(queue') : queue'[i] = queue[i + 1] /\ i + 1 \in 1 .. Len(queue)
<1>1. queue \in Seq(Command) /\ queue # <<>> /\ queue' = Tail(queue) /\ Head(queue).cmd = c
  BY DEF TypeOK, Takes
<1>2. Len(queue) \in Nat /\ Len(queue) # 0 /\ Len(queue) <= QueueLen
  BY <1>1 DEF TypeOK
<1>3. queue' \in Seq(Command) /\ Len(queue') = Len(queue) - 1
  BY <1>1
<1>4. \A i \in 1 .. Len(queue') : queue'[i] = queue[i + 1]
  BY <1>1
<1>5. Head(queue) = queue[1] /\ Head(queue) \in Command
  BY <1>1, <1>2
<1> QED
  BY <1>1, <1>2, <1>3, <1>4, <1>5, BoundAssumption

LEMMA PostAppends ==
    ASSUME TypeOK, NEW c \in Command, Post(c)
    PROVE  /\ queue' \in Seq(Command) /\ Len(queue') <= QueueLen
           /\ \A i \in 1 .. Len(queue') :
                 \/ i \in 1 .. Len(queue) /\ queue'[i] = queue[i]
                 \/ i = Len(queue) + 1 /\ queue'[i] = c
<1>1. queue \in Seq(Command) /\ Len(queue) \in Nat /\ Len(queue) <= QueueLen
  BY DEF TypeOK
<1>2. CASE Len(queue) < QueueLen
  BY <1>1, <1>2, BoundAssumption DEF Post
<1>3. CASE ~(Len(queue) < QueueLen)
  BY <1>1, <1>3 DEF Post
<1> QED
  BY <1>2, <1>3

\* The slots left after a record that landed.
LEMMA RoomType ==
    ASSUME TypeOK
    PROVE  /\ room \in 0 .. MaxRoom /\ unsaved \in BOOLEAN
           /\ room > 0 => room - 1 \in 0 .. MaxRoom
           /\ {room, room - 1} \cap Nat \subseteq 0 .. MaxRoom
BY BoundAssumption DEF TypeOK

SavedType == saved \in [Store!Key -> Stamp \union {None}]

LEMMA StoreOperations ==
    ASSUME SavedType
    PROVE  /\ Store!ClearAllGates =>
                 SavedType' /\ up' = up /\ \A k \in Gate : saved'[k] = None
           /\ \A j \in Gate : \A v \in Stamp \union {None} :
                 Store!Save(j, v) => /\ SavedType' /\ up' = up
                                     /\ \A k \in Gate : saved'[k] = Put(saved, j, v)[k]
           /\ \A j \in Gate :
                 Store!ClearGate(j) => /\ SavedType' /\ up' = up
                                       /\ \A k \in Gate : saved'[k] = Put(saved, j, None)[k]
<1>1. ASSUME Store!ClearAllGates
      PROVE  SavedType' /\ up' = up /\ \A k \in Gate : saved'[k] = None
  BY <1>1, GateFacts DEF Store!ClearAllGates, SavedType
<1>2. ASSUME NEW j \in Gate, NEW v \in Stamp \union {None},
             saved' = [saved EXCEPT ![j] = v]
      PROVE  SavedType' /\ \A k \in Gate : saved'[k] = Put(saved, j, v)[k]
  BY <1>2, GateFacts DEF SavedType, Put
<1>3. ASSUME NEW j \in Gate, NEW v \in Stamp \union {None}, Store!Save(j, v)
      PROVE  SavedType' /\ up' = up /\ \A k \in Gate : saved'[k] = Put(saved, j, v)[k]
  BY <1>2, <1>3 DEF Store!Save
<1>4. ASSUME NEW j \in Gate, Store!ClearGate(j)
      PROVE  SavedType' /\ up' = up /\ \A k \in Gate : saved'[k] = Put(saved, j, None)[k]
  BY <1>2, <1>4 DEF Store!ClearGate
<1> QED
  BY <1>1, <1>3, <1>4

\* A record that is refused.
LEMMA RefusedIs ==
    ASSUME TypeOK, Refused
    PROVE  /\ room' \in 0 .. MaxRoom
           /\ unsaved' = TRUE /\ saved' = saved /\ up' = up
BY RoomType DEF Refused

\* The records of a single gate, or of an index that has no gate.
LEMMA PersistGate ==
    ASSUME TypeOK, NEW k, NEW v \in Stamp \union {None},
           \/ Persist(IF k \in Gate THEN Store!Save(k, v) ELSE StrayRecord)
           \/ v = None /\ Persist(IF k \in Gate THEN Store!ClearGate(k) ELSE StrayRecord)
    PROVE  /\ SavedType' /\ up' = up /\ room' \in 0 .. MaxRoom /\ unsaved' \in BOOLEAN
           /\ kept' = kept
           /\ \/ /\ unsaved' = unsaved
                 /\ \A j \in Gate : saved'[j] = IF j = k THEN v ELSE saved[j]
              \/ unsaved' = TRUE /\ saved' = saved
<1>1. SavedType
  BY DEF TypeOK, SavedType
<1>2. k \in Gate => \A j \in Gate : Put(saved, k, v)[j] = IF j = k THEN v ELSE saved[j]
  BY <1>1, GateFacts DEF Put, SavedType
<1>3. /\ kept' = kept
      /\ \/ Refused
         \/ /\ room > 0 /\ room' = room - 1 /\ unsaved' = unsaved
            /\ \/ k \in Gate /\ Store!Save(k, v)
               \/ k \in Gate /\ v = None /\ Store!ClearGate(k)
               \/ k \notin Gate /\ StrayRecord
  BY DEF Persist, Written
<1>4. CASE Refused
  BY <1>1, <1>3, <1>4, RefusedIs DEF SavedType
<1>5. CASE ~Refused
  <2>1. room' \in 0 .. MaxRoom /\ unsaved' = unsaved /\ unsaved' \in BOOLEAN
    BY <1>3, <1>5, RoomType
  <2>2. CASE k \in Gate
    <3>1. Store!Save(k, v) \/ (v = None /\ Store!ClearGate(k))
      BY <1>3, <1>5, <2>2
    <3> QED
      BY <1>1, <1>2, <1>3, <2>1, <2>2, <3>1, StoreOperations
  <2>3. CASE k \notin Gate
    BY <1>1, <1>3, <1>5, <2>1, <2>3 DEF SavedType, StrayRecord
  <2> QED
    BY <2>2, <2>3
<1> QED
  BY <1>4, <1>5

\* The two records that take the start/finish line away.
LEMMA PersistClearAll ==
    ASSUME TypeOK, PersistNoLine(Store!ClearAllGates)
    PROVE  /\ SavedType' /\ up' = up /\ room' \in 0 .. MaxRoom /\ unsaved' \in BOOLEAN
           /\ kept' \in BOOLEAN
           /\ \/ /\ unsaved' = unsaved /\ kept' = (kept /\ ~origin)
                 /\ \A j \in Gate : saved'[j] = None
              \/ unsaved' = TRUE /\ kept' = TRUE /\ saved' = saved
<1>1. SavedType
  BY DEF TypeOK, SavedType
<1>2. CASE Written(Store!ClearAllGates) /\ kept' = (kept /\ ~origin)
  <2>1. Store!ClearAllGates /\ room' \in 0 .. MaxRoom /\ unsaved' = unsaved
    BY <1>2, RoomType DEF Written
  <2> QED
    BY <1>1, <1>2, <2>1, StoreOperations DEF TypeOK
<1>3. CASE Refused /\ kept' = TRUE
  BY <1>1, <1>3, RefusedIs DEF SavedType
<1> QED
  BY <1>2, <1>3 DEF PersistNoLine

LEMMA PersistClearLine ==
    ASSUME TypeOK, PersistNoLine(Store!ClearGate(0))
    PROVE  /\ SavedType' /\ up' = up /\ room' \in 0 .. MaxRoom /\ unsaved' \in BOOLEAN
           /\ kept' \in BOOLEAN
           /\ \/ /\ unsaved' = unsaved /\ kept' = (kept /\ ~origin)
                 /\ \A j \in Gate : saved'[j] = IF j = 0 THEN None ELSE saved[j]
              \/ unsaved' = TRUE /\ kept' = TRUE /\ saved' = saved
<1>1. SavedType /\ 0 \in Gate
  BY GateFacts DEF TypeOK, SavedType
<1>2. \A j \in Gate : Put(saved, 0, None)[j] = IF j = 0 THEN None ELSE saved[j]
  BY <1>1, GateFacts DEF Put, SavedType
<1>3. CASE Written(Store!ClearGate(0)) /\ kept' = (kept /\ ~origin)
  <2>1. Store!ClearGate(0) /\ room' \in 0 .. MaxRoom /\ unsaved' = unsaved
    BY <1>3, RoomType DEF Written
  <2> QED
    BY <1>1, <1>2, <1>3, <2>1, StoreOperations DEF TypeOK
<1>4. CASE Refused /\ kept' = TRUE
  BY <1>1, <1>4, RefusedIs DEF SavedType
<1> QED
  BY <1>3, <1>4 DEF PersistNoLine

-----------------------------------------------------------------------------
(* The layouts, as the actions change them.                                *)

LEMMA EmptyLayout == OneLayout(NoGates)
BY GateFacts DEF OneLayout, NoGates

\* A new stamp leaves the lines of the gates that were set before it.
LEMMA LineStays ==
    ASSUME TypeOK, NEW x, line' = [line EXCEPT ![stamp + 1] = x],
           NEW t, \A k \in Gate : t[k] \in Stamp \union {None},
           \A k \in Gate : t[k] # None => t[k] <= stamp
    PROVE  \A k \in Gate : t[k] # None => line'[t[k]] = line[t[k]]
<1> SUFFICES ASSUME NEW k \in Gate, t[k] # None PROVE line'[t[k]] = line[t[k]]
  OBVIOUS
<1>1. t[k] \in Stamp /\ t[k] # stamp + 1
  BY DEF Stamp, TypeOK
<1> QED
  BY <1>1 DEF TypeOK

-----------------------------------------------------------------------------
(* GateInv, action by action.                                              *)

\* A command that is posted touches the queue and nothing that a gate is in.
LEMMA PostKeeps ==
    ASSUME GateInv, NEW c \in Command, Post(c), nextSector' \in Sector
    PROVE  GateInv'
<1>1. TypeOK
  BY DEF GateInv
<1>2. /\ queue' \in Seq(Command) /\ Len(queue') <= QueueLen
      /\ \A i \in 1 .. Len(queue') :
            \/ i \in 1 .. Len(queue) /\ queue'[i] = queue[i]
            \/ i = Len(queue) + 1 /\ queue'[i] = c
  BY <1>1, PostAppends
<1>3. UNCHANGED <<imuVars, resets>>
  BY DEF Post
<1>4. TypeOK'
  BY <1>1, <1>2, <1>3 DEF TypeOK, imuVars, history
<1>5. QueueFits'
  <2> SUFFICES ASSUME NEW i \in 1 .. Len(queue'), queue'[i].cmd = "GATE_SET"
               PROVE  stamp' + i <= MaxStamp
    BY DEF QueueFits
  <2>1. stamp' = stamp /\ stamp \in Nat /\ Len(queue) \in Nat /\ MaxStamp \in Nat
    BY <1>1, <1>3, BoundAssumption DEF imuVars, history, TypeOK
  <2>2. CASE i \in 1 .. Len(queue) /\ queue'[i] = queue[i]
    BY <2>1, <2>2 DEF GateInv, QueueFits
  <2>3. CASE i = Len(queue) + 1 /\ queue'[i] = c
    BY <2>1, <2>3 DEF Post
  <2> QED
    BY <1>2, <2>2, <2>3
<1>6. /\ Unanchored' /\ AnchorPlace' /\ HalfPlace' /\ LineInFlash' /\ StampsPast'
      /\ MirrorIsLive' /\ NoMixedLayout'
  BY <1>3 DEF GateInv, imuVars, history, Unanchored, AnchorPlace, HalfPlace, LineInFlash,
              StampsPast, MirrorIsLive, NoMixedLayout, OneLayout
<1> QED
  BY <1>4, <1>5, <1>6 DEF GateInv

LEMMA CommandTypes ==
    /\ \A k \in Gate : SetCommand(k) \in Command
    /\ ClearAllCommand \in Command
    /\ \A n \in Sector : NextSector(n) \in Sector
    /\ 1 \in Sector
BY GateFacts, GateAssumption
DEF SetCommand, ClearAllCommand, Command, NextSector, Sector, Gate

LEMMA QueueTakenFits ==
    ASSUME GateInv, NEW c, Takes(c),
           stamp' = stamp \/ stamp' = stamp + 1
    PROVE  QueueFits'
<1>1. TypeOK
  BY DEF GateInv
<1> SUFFICES ASSUME NEW i \in 1 .. Len(queue'), queue'[i].cmd = "GATE_SET"
             PROVE  stamp' + i <= MaxStamp
  BY DEF QueueFits
<1>2. queue'[i] = queue[i + 1] /\ i + 1 \in 1 .. Len(queue)
  BY <1>1, TakesHead
<1>3. stamp + (i + 1) <= MaxStamp
  BY <1>2 DEF GateInv, QueueFits
<1>4. stamp \in Nat /\ MaxStamp \in Nat /\ i \in Nat
  BY <1>1, BoundAssumption DEF TypeOK
<1> QED
  BY <1>3, <1>4

LEMMA GateSetKeeps == ASSUME GateInv, GateSet PROVE GateInv'
<1> DEFINE k == Head(queue).arg0
<1>1. /\ TypeOK /\ StampsPast /\ NoMixedLayout /\ MirrorIsLive /\ HalfPlace
      /\ LineInFlash /\ Unanchored /\ AnchorPlace
  BY DEF GateInv
<1>2. Takes("GATE_SET") /\ up /\ ~half /\ UNCHANGED <<stored, origin, resets, nextSector>>
  BY DEF GateSet, Takes
<1>3. queue' \in Seq(Command) /\ Len(queue') <= QueueLen
  BY <1>1, <1>2, TakesHead
<1>4. CASE ~origin
  <2>1. UNCHANGED <<gates, bus, saved, up, room, half, stamp, unsaved, line, kept>>
    BY <1>4 DEF GateSet, history
  <2>2. TypeOK'
    BY <1>1, <1>2, <1>3, <2>1 DEF TypeOK
  <2>3. QueueFits'
    BY <1>2, <2>1, QueueTakenFits
  <2> QED
    BY <1>1, <1>2, <2>1, <2>2, <2>3
    DEF GateInv, Unanchored, AnchorPlace, HalfPlace, LineInFlash, StampsPast, MirrorIsLive,
        NoMixedLayout, OneLayout
<1>5. CASE origin
  <2>1. /\ stamp' = stamp + 1
        /\ gates' = GatesSet(gates, k, stamp')
        /\ half' = (k = 0)
        /\ line' = [line EXCEPT ![stamp + 1] = LineOf(gates')]
    BY <1>5 DEF GateSet
  <2>2. stamp \in Nat /\ stamp + 1 \in Stamp /\ stamp' \in 0 .. MaxStamp /\ MaxStamp \in Nat
    <3>1. 1 \in 1 .. Len(queue) /\ queue[1].cmd = "GATE_SET"
      BY <1>1, <1>2, TakesHead
    <3>2. stamp + 1 <= MaxStamp
      BY <3>1 DEF GateInv, QueueFits
    <3> QED
      BY <1>1, <2>1, <3>2, BoundAssumption DEF TypeOK, Stamp
  <2>3. QueueFits'
    BY <1>2, <2>1, QueueTakenFits
  <2>4. gates \in Table /\ bus \in Table /\ stored \in Table /\ bus = gates
    BY <1>1, <1>2 DEF TypeOK, MirrorIsLive
  <2>5. gates' \in Table /\ \A j \in Gate :
           gates'[j] = IF j = k THEN stamp + 1 ELSE IF k = 0 THEN None ELSE gates[j]
    BY <2>1, <2>2, <2>4, TableUpdates DEF GatesSet
  <2>l. LineOf(gates') \in 0 .. MaxStamp /\ line' \in [Stamp -> 0 .. MaxStamp]
    BY <1>1, <2>1, <2>2, <2>5, GateFacts DEF LineOf, Table, Stamp, TypeOK
  <2>g. /\ \A j \in Gate : gates[j] # None => gates[j] <= stamp /\ gates[j] \in Nat
        /\ \A j \in Gate : saved[j] # None => saved[j] <= stamp /\ saved[j] \in Nat
        /\ \A j \in Gate : stored[j] # None => stored[j] <= stamp /\ stored[j] \in Nat
    BY <1>1, GateFacts DEF StampsPast, TypeOK, Table, Stamp
  <2>o. /\ \A j \in Gate : gates[j] # None => line'[gates[j]] = line[gates[j]]
        /\ \A j \in Gate : saved[j] # None => line'[saved[j]] = line[saved[j]]
    <3>1. \A j \in Gate : saved[j] \in Stamp \union {None} /\ gates[j] \in Stamp \union {None}
      BY <1>1, <2>4, GateFacts DEF TypeOK, Table
    <3> QED
      BY <1>1, <2>1, <2>g, <3>1, LineStays
  <2>6. StampsPast' /\ NoMixedLayout' /\ LineInFlash' /\ TypeOK' /\ HalfPlace'
        /\ MirrorIsLive' /\ up'
    <3>1. CASE k = 0
      <4>1. PersistNoLine(Store!ClearAllGates) /\ bus' = BusOnStartFinish(bus) /\ half'
        BY <1>5, <2>1, <3>1 DEF GateSet
      <4>2. bus' \in Table /\ \A j \in Sector : bus'[j] = None
        BY <2>4, <4>1, GateFacts DEF BusOnStartFinish, Table
      <4>3. /\ SavedType' /\ up' = up /\ room' \in 0 .. MaxRoom /\ unsaved' \in BOOLEAN
            /\ kept' \in BOOLEAN
            /\ (\A j \in Gate : saved'[j] = None) \/ (saved' = saved /\ kept' = TRUE)
        BY <1>1, <4>1, PersistClearAll
      <4>4. StampsPast'
        BY <1>2, <2>1, <2>2, <2>5, <3>1, <4>3, <2>g DEF StampsPast
      <4>5. \A j \in Sector : gates'[j] = None
        BY <2>5, <3>1, GateFacts
      <4>6. NoMixedLayout'
        BY <1>2, <1>5, <4>3, <4>5, GateFacts DEF OneLayout, NoMixedLayout
      <4>7. LineInFlash'
        BY <1>2, <1>5, <4>1, <4>3, GateFacts DEF LineInFlash
      <4>8. HalfPlace'
        BY <1>2, <4>2, <4>3, <4>5 DEF HalfPlace
      <4>9. TypeOK'
        BY <1>1, <1>2, <1>3, <2>2, <2>5, <2>l, <4>1, <4>2, <4>3 DEF TypeOK, SavedType
      <4> QED
        BY <1>2, <4>1, <4>3, <4>4, <4>6, <4>7, <4>8, <4>9 DEF MirrorIsLive
    <3>2. CASE k # 0
      <4>1. /\ Persist(IF k \in Gate THEN Store!Save(k, stamp + 1) ELSE StrayRecord)
            /\ bus' = Put(bus, k, stamp + 1) /\ ~half' /\ half' \in BOOLEAN
        BY <1>5, <2>1, <3>2 DEF GateSet
      <4>2. bus' \in Table /\ gates' = Put(gates, k, stamp + 1)
        BY <2>1, <2>2, <2>4, <3>2, <4>1, TableUpdates, SetSectorIsPut
      <4>3. /\ SavedType' /\ up' = up /\ room' \in 0 .. MaxRoom /\ unsaved' \in BOOLEAN
            /\ kept' = kept
            /\ \/ \A j \in Gate : saved'[j] = IF j = k THEN stamp + 1 ELSE saved[j]
               \/ saved' = saved
        BY <1>1, <2>2, <4>1, PersistGate
      <4>4. StampsPast'
        BY <1>2, <2>1, <2>2, <2>5, <3>2, <4>3, <2>g DEF StampsPast
      <4>5. /\ gates'[0] = gates[0] /\ saved'[0] = saved[0]
            /\ gates[0] # None => line'[stamp + 1] = gates[0]
        BY <1>1, <2>1, <2>2, <2>5, <3>2, <4>3, GateFacts DEF LineOf, TypeOK
      <4>6. NoMixedLayout'
        <5> SUFFICES ASSUME ~kept PROVE OneLayout(gates)' /\ OneLayout(saved)'
          BY <1>2, <1>5, <4>3 DEF NoMixedLayout
        <5>1. OneLayout(gates) /\ OneLayout(saved)
          BY <1>1 DEF NoMixedLayout
        <5>2. OneLayout(gates)'
          BY <2>5, <2>o, <3>2, <4>5, <5>1, GateFacts DEF OneLayout
        <5>3. saved[0] # None => saved[0] = gates[0]
          BY <1>1, <1>2, <1>5 DEF LineInFlash
        <5>4. OneLayout(saved)'
          BY <2>o, <3>2, <4>3, <4>5, <5>1, <5>3, GateFacts DEF OneLayout
        <5> QED
          BY <5>2, <5>4
      <4>7. LineInFlash'
        BY <1>1, <1>2, <1>5, <4>1, <4>3, <4>5 DEF LineInFlash
      <4>8. HalfPlace'
        BY <4>1 DEF HalfPlace
      <4>9. TypeOK'
        BY <1>1, <1>2, <1>3, <2>2, <2>5, <2>l, <4>1, <4>2, <4>3 DEF TypeOK, SavedType
      <4> QED
        BY <1>2, <2>4, <4>1, <4>2, <4>3, <4>4, <4>6, <4>7, <4>8, <4>9 DEF MirrorIsLive
    <3> QED
      BY <3>1, <3>2
  <2> QED
    BY <1>1, <1>2, <1>5, <2>3, <2>6
    DEF GateInv, Unanchored, AnchorPlace
<1> QED
  BY <1>4, <1>5

LEMMA FinishKeeps == ASSUME GateInv, FinishStartFinish PROVE GateInv'
<1>1. /\ TypeOK /\ StampsPast /\ NoMixedLayout /\ HalfPlace
      /\ LineInFlash /\ Unanchored /\ AnchorPlace
  BY DEF GateInv
<1>2. /\ half /\ half' = FALSE /\ Persist(Store!Save(0, gates[0]))
      /\ bus' = [bus EXCEPT ![0] = gates[0]]
      /\ UNCHANGED <<gates, stored, origin, queue, stamp, line, resets, nextSector>>
  BY DEF FinishStartFinish
<1>3. gates \in Table /\ bus \in Table /\ gates[0] \in Stamp \union {None} /\ 0 \in Gate
  BY <1>1, GateFacts DEF TypeOK, Table
<1>4. Persist(IF 0 \in Gate THEN Store!Save(0, gates[0]) ELSE StrayRecord)
  BY <1>2, <1>3
<1>5. /\ SavedType' /\ up' = up /\ room' \in 0 .. MaxRoom /\ unsaved' \in BOOLEAN
      /\ kept' = kept
      /\ \/ \A j \in Gate : saved'[j] = IF j = 0 THEN gates[0] ELSE saved[j]
         \/ saved' = saved
  BY <1>1, <1>3, <1>4, PersistGate
<1>6. bus' \in Table /\ \A j \in Gate : bus'[j] = IF j = 0 THEN gates[0] ELSE bus[j]
  BY <1>2, <1>3 DEF Table
<1>7. \A k \in Sector : gates[k] = None /\ bus[k] = None
  BY <1>1, <1>2 DEF HalfPlace
<1>8. MirrorIsLive'
  <2>1. \A j \in Gate : bus'[j] = gates[j]
    BY <1>6, <1>7, GateFacts
  <2>2. bus' = gates
    BY <1>3, <1>6, <2>1 DEF Table
  <2> QED
    BY <1>2, <2>2 DEF MirrorIsLive
<1>9. TypeOK'
  BY <1>1, <1>2, <1>5, <1>6 DEF TypeOK, SavedType
<1>10. StampsPast'
  BY <1>1, <1>2, <1>3, <1>5 DEF StampsPast
<1>11. NoMixedLayout' /\ LineInFlash'
  <2> SUFFICES ASSUME ~kept
               PROVE  /\ OneLayout(gates)' /\ OneLayout(saved)'
                      /\ saved'[0] # None => saved'[0] = gates[0]
    BY <1>1, <1>2, <1>5 DEF NoMixedLayout, LineInFlash, AnchorPlace
  <2>1. \A k \in Gate : saved[k] = None
    BY <1>1, <1>2 DEF HalfPlace
  <2>2. \A k \in Sector : saved'[k] = None
    BY <1>5, <2>1, GateFacts
  <2> QED
    BY <1>2, <1>3, <1>5, <1>7, <2>1, <2>2 DEF OneLayout
<1>12. QueueFits'
  BY <1>2 DEF GateInv, QueueFits
<1> QED
  BY <1>1, <1>2, <1>5, <1>8, <1>9, <1>10, <1>11, <1>12
  DEF GateInv, Unanchored, AnchorPlace, HalfPlace

LEMMA GateClearKeeps == ASSUME GateInv, GateClear PROVE GateInv'
<1> DEFINE k == Head(queue).arg0
<1>1. /\ TypeOK /\ StampsPast /\ NoMixedLayout /\ HalfPlace
      /\ LineInFlash /\ Unanchored /\ AnchorPlace /\ MirrorIsLive
  BY DEF GateInv
<1>2. /\ Takes("GATE_CLEAR") /\ up /\ ~half
      /\ UNCHANGED <<half, stamp, line, stored, origin, resets, nextSector>>
  BY DEF GateClear, Takes
<1>3. queue' \in Seq(Command) /\ Len(queue') <= QueueLen
  BY <1>1, <1>2, TakesHead
<1>4. gates \in Table /\ bus \in Table /\ bus = gates /\ NoGates \in Table
  BY <1>1, <1>2, TableUpdates DEF TypeOK, MirrorIsLive
<1>5. /\ gates' \in Table /\ bus' = gates'
      /\ \A j \in Gate : gates'[j] = gates[j] \/ gates'[j] = None
      /\ gates = NoGates => gates' = NoGates
      /\ k \in {0, All} => gates'[0] = None
      /\ k \notin {0, All} => gates'[0] = gates[0]
  <2>1. CASE k = All
    BY <1>4, <2>1, GateFacts DEF GateClear, NoGates
  <2>2. CASE k # All
    <3>1. gates' = Put(gates, k, None) /\ bus' = Put(bus, k, None)
      BY <2>2 DEF GateClear
    <3>2. gates' \in Table
      BY <1>4, <3>1, TableUpdates
    <3>3. \A j \in Gate : gates'[j] = gates[j] \/ gates'[j] = None
      BY <1>4, <3>1 DEF Put, Table
    <3>4. gates = NoGates => gates' = NoGates
      BY <3>1 DEF Put, NoGates
    <3>5. gates'[0] = IF k = 0 THEN None ELSE gates[0]
      BY <1>4, <3>1, GateFacts DEF Put, Table
    <3> QED
      BY <1>4, <2>2, <3>1, <3>2, <3>3, <3>4, <3>5
  <2> QED
    BY <2>1, <2>2
<1>6. /\ SavedType' /\ up' = up /\ room' \in 0 .. MaxRoom /\ unsaved' \in BOOLEAN
      /\ kept' \in BOOLEAN
      /\ \A j \in Gate : saved'[j] = saved[j] \/ saved'[j] = None
      /\ k \in {0, All} => kept' = TRUE \/ (saved'[0] = None /\ kept' = (kept /\ ~origin))
      /\ k \notin {0, All} => kept' = kept /\ saved'[0] = saved[0]
  <2>1. CASE k = All
    <3>1. PersistNoLine(Store!ClearAllGates)
      BY <2>1 DEF GateClear
    <3> QED
      BY <1>1, <2>1, <3>1, PersistClearAll, GateFacts
  <2>2. CASE k = 0 /\ k # All
    <3>1. PersistNoLine(Store!ClearGate(0))
      BY <2>2 DEF GateClear
    <3> QED
      BY <1>1, <2>2, <3>1, PersistClearLine, GateFacts
  <2>3. CASE k # 0 /\ k # All
    <3>1. Persist(IF k \in Gate THEN Store!ClearGate(k) ELSE StrayRecord)
      BY <2>3 DEF GateClear
    <3> QED
      BY <1>1, <2>3, <3>1, PersistGate, GateFacts DEF TypeOK
  <2> QED
    BY <2>1, <2>2, <2>3
<1>7. TypeOK'
  BY <1>1, <1>2, <1>3, <1>5, <1>6 DEF TypeOK, SavedType
<1>8. StampsPast'
  BY <1>1, <1>2, <1>5, <1>6 DEF StampsPast
<1>9. NoMixedLayout'
  <2> SUFFICES ASSUME ~kept'
               PROVE  /\ OneLayout(gates)' /\ OneLayout(saved)'
                      /\ ~origin => OneLayout(stored)'
    BY <1>2 DEF NoMixedLayout
  <2>1. CASE ~kept
    <3>1. OneLayout(gates) /\ OneLayout(saved) /\ (~origin => OneLayout(stored))
      BY <1>1, <2>1 DEF NoMixedLayout
    <3> QED
      BY <1>2, <1>5, <1>6, <3>1, GateFacts DEF OneLayout
  <2>2. CASE kept
    <3>1. origin /\ gates'[0] = None /\ saved'[0] = None
      BY <1>5, <1>6, <2>2
    <3> QED
      BY <3>1 DEF OneLayout
  <2> QED
    BY <2>1, <2>2
<1>11. LineInFlash'
  BY <1>1, <1>2, <1>5, <1>6 DEF LineInFlash
<1>10. QueueFits'
  BY <1>2, QueueTakenFits
<1> QED
  BY <1>1, <1>2, <1>5, <1>6, <1>7, <1>8, <1>9, <1>10, <1>11
  DEF GateInv, Unanchored, AnchorPlace, HalfPlace, MirrorIsLive

LEMMA BootKeeps == ASSUME GateInv, Boot PROVE GateInv'
<1>1. /\ TypeOK /\ StampsPast /\ NoMixedLayout /\ HalfPlace
      /\ Unanchored /\ AnchorPlace /\ MirrorIsLive
  BY DEF GateInv
<1>2. /\ ~up /\ up' = TRUE /\ UNCHANGED saved
      /\ stored' = [k \in Gate |-> saved[k]] /\ gates' = NoGates
      /\ UNCHANGED <<bus, origin, half, queue, room, stamp, resets, nextSector>>
      /\ UNCHANGED <<unsaved, line, kept>>
  BY DEF Boot, Store!Restart, history
<1>3. ~origin /\ ~half /\ bus = NoGates
  BY <1>1, <1>2 DEF Unanchored, AnchorPlace, MirrorIsLive
<1>4. stored' \in Table /\ \A k \in Gate : stored'[k] = saved[k]
  BY <1>1, <1>2, GateFacts DEF TypeOK, Table
<1>5. TypeOK'
  BY <1>1, <1>2, <1>4, TableUpdates DEF TypeOK
<1>6. StampsPast'
  BY <1>1, <1>2, <1>4 DEF StampsPast, NoGates
<1>7. NoMixedLayout' /\ LineInFlash'
  <2>1. OneLayout(saved) => OneLayout(stored)' /\ OneLayout(saved)'
    BY <1>2, <1>4, GateFacts DEF OneLayout
  <2>2. OneLayout(gates)'
    BY <1>2, GateFacts DEF OneLayout, NoGates
  <2>3. LineInFlash'
    BY <1>2, <1>3, <1>4, GateFacts DEF LineInFlash
  <2> QED
    BY <1>1, <1>2, <2>1, <2>2, <2>3 DEF NoMixedLayout
<1>8. QueueFits'
  BY <1>2 DEF GateInv, QueueFits
<1> QED
  BY <1>2, <1>3, <1>5, <1>6, <1>7, <1>8
  DEF GateInv, Unanchored, AnchorPlace, HalfPlace, MirrorIsLive

LEMMA SetOriginKeeps ==
    ASSUME GateInv, SetOrigin
    PROVE  GateInv' /\ gates' = stored
<1>1. /\ TypeOK /\ StampsPast /\ NoMixedLayout /\ AnchorPlace /\ LineInFlash
  BY DEF GateInv
<1>2. /\ up /\ ~origin /\ origin' = TRUE
      /\ gates' = PlaceStored(gates, stored) /\ bus' = stored
      /\ UNCHANGED <<stored, saved, up, half, queue, room, stamp, resets, nextSector>>
      /\ UNCHANGED <<unsaved, line, kept>>
  BY DEF SetOrigin, history
<1>3. gates = NoGates /\ ~half /\ stored \in Table
  BY <1>1, <1>2 DEF AnchorPlace, TypeOK
<1>4. gates' = stored
  BY <1>2, <1>3, PlaceStoredIsStored
<1>5. TypeOK'
  BY <1>1, <1>2, <1>4 DEF TypeOK
<1>6. StampsPast'
  BY <1>1, <1>2, <1>4 DEF StampsPast
<1>7. NoMixedLayout' /\ LineInFlash'
  BY <1>1, <1>2, <1>4 DEF NoMixedLayout, OneLayout, LineInFlash
<1>8. QueueFits'
  BY <1>2 DEF GateInv, QueueFits
<1> QED
  BY <1>2, <1>3, <1>4, <1>5, <1>6, <1>7, <1>8
  DEF GateInv, Unanchored, AnchorPlace, HalfPlace, MirrorIsLive

\* A compaction leaves at most one record of each gate, and the calibration's.
LEMMA CompactFits ==
    ASSUME NEW cal \in {0, 1}
    PROVE  MaxRoom - Cardinality({k \in Gate : saved[k] # None}) - cal \in 0 .. MaxRoom
<1> DEFINE D == {k \in Gate : saved[k] # None}
<1>1. IsFiniteSet(Gate) /\ Cardinality(Gate) = MaxGates
  BY GateAssumption, FS_Interval DEF Gate
<1>2. IsFiniteSet(D) /\ Cardinality(D) <= MaxGates
  BY <1>1, FS_Subset
<1>3. Cardinality(D) \in Nat
  BY <1>2, FS_CardinalityType
<1> HIDE DEF D
<1>4. MaxRoom - Cardinality(D) - cal \in 0 .. MaxRoom
  BY <1>2, <1>3, GateAssumption, BoundAssumption
<1> QED
  BY <1>4 DEF D

LEMMA RoomKeeps == ASSUME GateInv, SaveMagCal \/ Compact PROVE GateInv'
<1>1. TypeOK
  BY DEF GateInv
<1>2. /\ up /\ ~half
      /\ UNCHANGED <<gates, stored, saved, bus, up, origin, half, stamp>>
      /\ UNCHANGED <<unsaved, line, kept>>
      /\ UNCHANGED <<queue, resets, nextSector>>
  BY DEF SaveMagCal, Compact, RoomOnly, history
<1>3. room' \in 0 .. MaxRoom
  BY <1>1, RoomType, CompactFits DEF SaveMagCal, Compact
<1>4. TypeOK'
  BY <1>1, <1>2, <1>3 DEF TypeOK
<1> QED
  BY <1>2, <1>4 DEF GateInv, QueueFits, Unanchored, AnchorPlace, HalfPlace, LineInFlash,
                    StampsPast, MirrorIsLive, NoMixedLayout, OneLayout

LEMMA ResetKeepsGates == ASSUME GateInv, Reset PROVE GateInv'
<1>1. TypeOK /\ StampsPast /\ NoMixedLayout
  BY DEF GateInv
<1>2. /\ resets < MaxResets /\ resets' = resets + 1
      /\ saved' = saved /\ up' = FALSE
      /\ gates' = NoGates /\ stored' = NoGates /\ bus' = NoGates
      /\ origin' = FALSE /\ half' = FALSE /\ unsaved' = FALSE
      /\ queue' = <<>> /\ nextSector' = 1
      /\ UNCHANGED <<room, stamp, line, kept>>
  <2>1. saved' = saved /\ up' = FALSE
    BY <1>1 DEF Reset, Store!PowerLoss, TypeOK
  <2> QED
    BY <2>1 DEF Reset
<1>3. resets' \in 0 .. MaxResets
  BY <1>1, <1>2, BoundAssumption DEF TypeOK
<1>4. queue' \in Seq(Command) /\ Len(queue') = 0 /\ 0 <= QueueLen
  BY <1>2, BoundAssumption
<1>5. TypeOK'
  BY <1>1, <1>2, <1>3, <1>4, TableUpdates, GateFacts DEF TypeOK
<1>6. StampsPast'
  BY <1>1, <1>2 DEF StampsPast, NoGates
<1>7. NoMixedLayout' /\ LineInFlash'
  <2>1. OneLayout(NoGates)'
    BY GateFacts DEF OneLayout, NoGates
  <2>2. OneLayout(saved) => OneLayout(saved)'
    BY <1>2 DEF OneLayout
  <2> QED
    BY <1>1, <1>2, <2>1, <2>2 DEF NoMixedLayout, LineInFlash
<1>8. QueueFits'
  BY <1>4 DEF QueueFits
<1> QED
  BY <1>2, <1>5, <1>6, <1>7, <1>8
  DEF GateInv, Unanchored, AnchorPlace, HalfPlace, MirrorIsLive

LEMMA GateInvInit == Init => GateInv
<1> SUFFICES ASSUME Init PROVE GateInv
  OBVIOUS
<1>1. /\ saved = [k \in Store!Key |-> None] /\ up = FALSE
      /\ gates = NoGates /\ stored = NoGates /\ bus = NoGates
      /\ origin = FALSE /\ half = FALSE
      /\ unsaved = FALSE /\ kept = FALSE /\ line = [s \in Stamp |-> 0]
      /\ queue = <<>> /\ nextSector = 1
      /\ room = MaxRoom /\ stamp = 0 /\ resets = 0
  BY DEF Init, Store!Init
<1>2. queue \in Seq(Command) /\ Len(queue) = 0 /\ 0 <= QueueLen
  BY <1>1, BoundAssumption
<1>3. TypeOK
  BY <1>1, <1>2, TableUpdates, GateFacts, BoundAssumption DEF TypeOK
<1>4. \A k \in Gate : gates[k] = None /\ saved[k] = None /\ stored[k] = None
  BY <1>1, GateFacts DEF NoGates
<1>5. OneLayout(saved)
  BY <1>4, GateFacts DEF OneLayout
<1> QED
  BY <1>1, <1>2, <1>3, <1>4, <1>5, EmptyLayout
  DEF GateInv, QueueFits, Unanchored, AnchorPlace, HalfPlace, LineInFlash, StampsPast,
      MirrorIsLive, NoMixedLayout

LEMMA CommandPosted ==
    ASSUME GateInv,
           (\E c \in CanCommands : CanCommand(c)) \/ ShortPress \/ LongPress \/ VeryLongPress
    PROVE  /\ ~half /\ nextSector' \in Sector
           /\ \E c \in Command : Post(c)
<1>1. nextSector \in Sector /\ Sector \subseteq Gate /\ 0 \in Gate
  BY GateFacts DEF GateInv, TypeOK
<1>2. CASE \E c \in CanCommands : CanCommand(c)
  BY <1>1, <1>2, CommandAssumption DEF CanCommand
<1>3. CASE ShortPress
  BY <1>1, <1>3, CommandTypes DEF ShortPress
<1>4. CASE LongPress
  BY <1>1, <1>4, CommandTypes DEF LongPress
<1>5. CASE VeryLongPress
  BY <1>5, CommandTypes DEF VeryLongPress
<1> QED
  BY <1>2, <1>3, <1>4, <1>5

LEMMA GateInvNext == GateInv /\ [Next]_vars => GateInv'
<1> SUFFICES ASSUME GateInv, [Next]_vars PROVE GateInv'
  OBVIOUS
<1>1. CASE (\E c \in CanCommands : CanCommand(c)) \/ ShortPress \/ LongPress \/ VeryLongPress
  BY <1>1, CommandPosted, PostKeeps
<1>2. CASE UNCHANGED vars
  BY <1>2 DEF vars, history, GateInv, TypeOK, QueueFits, Unanchored, AnchorPlace, HalfPlace,
              LineInFlash, StampsPast, MirrorIsLive, NoMixedLayout, OneLayout
<1> QED
  BY <1>1, <1>2, GateSetKeeps, FinishKeeps, GateClearKeeps, BootKeeps, SetOriginKeeps,
     RoomKeeps, ResetKeepsGates DEF Next

THEOREM GateInvariant == Spec => []GateInv
BY GateInvInit, GateInvNext, PTL DEF Spec

-----------------------------------------------------------------------------
(* SavedInv, action by action.                                             *)

\* The conjuncts that SavedInv adds to GateInv.
FlashParts == NoClearWaits /\ StoredIsSaved /\ HalfSaved /\ SavedIsLive

LEMMA GateSetSaves ==
    ASSUME SavedInv, GateInv', GateSet
    PROVE  FlashParts'
<1> DEFINE k == Head(queue).arg0
<1>1. TypeOK /\ GateInv /\ NoClearWaits /\ StoredIsSaved /\ SavedIsLive /\ MirrorIsLive
  BY DEF SavedInv, GateInv
<1>2. Takes("GATE_SET") /\ up /\ ~half /\ UNCHANGED <<stored, origin, resets, nextSector>>
  BY DEF GateSet, Takes
<1>3. NoClearWaits'
  BY <1>1, <1>2, TakesHead DEF NoClearWaits
<1>4. CASE ~origin
  <2>1. UNCHANGED <<gates, bus, saved, up, room, half, stamp, unsaved>>
    BY <1>4 DEF GateSet, history
  <2> QED
    BY <1>1, <1>2, <1>3, <1>4, <2>1 DEF FlashParts, StoredIsSaved, HalfSaved, SavedIsLive
<1>5. CASE origin
  <2>1. stamp' = stamp + 1 /\ gates' = GatesSet(gates, k, stamp') /\ half' = (k = 0)
    BY <1>5 DEF GateSet
  <2>2. CASE k = 0
    <3>1. PersistNoLine(Store!ClearAllGates) /\ half'
      BY <1>5, <2>1, <2>2 DEF GateSet
    <3>2. unsaved' = TRUE \/ \A j \in Gate : saved'[j] = None
      BY <1>1, <3>1, PersistClearAll
    <3> QED
      BY <1>2, <1>3, <1>5, <3>1, <3>2 DEF FlashParts, StoredIsSaved, HalfSaved, SavedIsLive
  <2>3. CASE k # 0
    <3>1. Persist(IF k \in Gate THEN Store!Save(k, stamp + 1) ELSE StrayRecord) /\ ~half'
      BY <1>5, <2>1, <2>3 DEF GateSet
    <3>2. stamp + 1 \in Stamp
      <4>1. 1 \in 1 .. Len(queue) /\ queue[1].cmd = "GATE_SET"
        BY <1>1, <1>2, TakesHead
      <4>2. stamp + 1 <= MaxStamp
        BY <1>1, <4>1 DEF GateInv, QueueFits
      <4> QED
        BY <1>1, <4>2, BoundAssumption DEF TypeOK, Stamp
    <3>3. \/ unsaved' = unsaved
             /\ \A j \in Gate : saved'[j] = IF j = k THEN stamp + 1 ELSE saved[j]
          \/ unsaved' = TRUE
      BY <1>1, <3>1, <3>2, PersistGate
    <3>4. \A j \in Gate : gates'[j] = IF j = k THEN stamp + 1 ELSE gates[j]
      BY <2>1, <2>3 DEF GatesSet
    <3>5. SavedIsLive'
      BY <1>1, <1>2, <1>5, <3>3, <3>4 DEF SavedIsLive
    <3> QED
      BY <1>2, <1>3, <1>5, <3>1, <3>5 DEF FlashParts, StoredIsSaved, HalfSaved
  <2> QED
    BY <2>2, <2>3
<1> QED
  BY <1>4, <1>5

LEMMA FinishSaves ==
    ASSUME SavedInv, GateInv', FinishStartFinish
    PROVE  FlashParts'
<1>1. TypeOK /\ HalfPlace /\ HalfSaved /\ AnchorPlace
  BY DEF SavedInv, GateInv
<1>2. /\ half /\ half' = FALSE /\ Persist(Store!Save(0, gates[0]))
      /\ UNCHANGED <<gates, stored, origin, queue, stamp, resets, nextSector>>
  BY DEF FinishStartFinish
<1>3. gates[0] \in Stamp \union {None} /\ 0 \in Gate
  BY <1>1, GateFacts DEF TypeOK, Table
<1>4. Persist(IF 0 \in Gate THEN Store!Save(0, gates[0]) ELSE StrayRecord)
  BY <1>2, <1>3
<1>5. \/ unsaved' = unsaved /\ \A j \in Gate : saved'[j] = IF j = 0 THEN gates[0] ELSE saved[j]
      \/ unsaved' = TRUE
  BY <1>1, <1>3, <1>4, PersistGate
<1>6. \A j \in Gate : j # 0 => gates[j] = None
  BY <1>1, <1>2, GateFacts DEF HalfPlace
<1>7. SavedIsLive'
  BY <1>1, <1>2, <1>5, <1>6 DEF SavedIsLive, HalfSaved
<1>8. origin
  BY <1>1, <1>2 DEF AnchorPlace
<1> QED
  BY <1>2, <1>7, <1>8 DEF FlashParts, NoClearWaits, StoredIsSaved, HalfSaved

LEMMA GateClearSaves ==
    ASSUME SavedInv, GateInv', GateClear
    PROVE  FlashParts'
<1> DEFINE k == Head(queue).arg0
<1>1. TypeOK /\ NoClearWaits /\ SavedIsLive
  BY DEF SavedInv, GateInv
<1>2. Takes("GATE_CLEAR") /\ ~half /\ UNCHANGED <<half, origin>>
  BY DEF GateClear, Takes
<1>3. origin
  BY <1>1, <1>2, TakesHead DEF NoClearWaits
<1>4. SavedIsLive'
  <2>1. CASE k = All
    <3>1. PersistNoLine(Store!ClearAllGates) /\ gates' = NoGates
      BY <2>1 DEF GateClear
    <3>2. unsaved' = TRUE \/ \A j \in Gate : saved'[j] = None
      BY <1>1, <3>1, PersistClearAll
    <3> QED
      BY <3>1, <3>2 DEF SavedIsLive, NoGates
  <2>2. CASE k # All
    <3>1. /\ IF k = 0
             THEN PersistNoLine(Store!ClearGate(0))
             ELSE Persist(IF k \in Gate THEN Store!ClearGate(k) ELSE StrayRecord)
          /\ gates' = Put(gates, k, None)
      BY <2>2 DEF GateClear
    <3>2. \/ unsaved' = unsaved /\ \A j \in Gate : saved'[j] = IF j = k THEN None ELSE saved[j]
          \/ unsaved' = TRUE
      BY <1>1, <3>1, PersistGate, PersistClearLine
    <3>3. \A j \in Gate : gates'[j] = IF j = k THEN None ELSE gates[j]
      BY <1>1, <3>1 DEF Put, TypeOK, Table
    <3> QED
      BY <1>1, <1>2, <1>3, <3>2, <3>3 DEF SavedIsLive
  <2> QED
    BY <2>1, <2>2
<1> QED
  BY <1>2, <1>3, <1>4 DEF FlashParts, NoClearWaits, StoredIsSaved, HalfSaved

LEMMA PostSaves ==
    ASSUME NoEarlyClear, SavedInv, NEW c \in Command, Post(c)
    PROVE  FlashParts'
<1>1. TypeOK /\ NoClearWaits /\ UNCHANGED <<imuVars, resets>>
  BY DEF SavedInv, GateInv, Post
<1>2. c.cmd = "GATE_CLEAR" => origin
  BY DEF Post, NoEarlyClear
<1>3. NoClearWaits'
  BY <1>1, <1>2, PostAppends DEF NoClearWaits, imuVars
<1> QED
  BY <1>1, <1>3 DEF SavedInv, FlashParts, imuVars, history, StoredIsSaved, HalfSaved, SavedIsLive

LEMMA SavedInvNext ==
    ASSUME NoEarlyClear, SavedInv, [Next]_vars
    PROVE  SavedInv'
<1>1. GateInv /\ GateInv' /\ TypeOK
  BY GateInvNext DEF SavedInv, GateInv
<1>2. FlashParts'
  <2>1. CASE (\E c \in CanCommands : CanCommand(c)) \/ ShortPress \/ LongPress
               \/ VeryLongPress
    BY <1>1, <2>1, CommandPosted, PostSaves
  <2>2. CASE Boot
    <3>1. ~origin' /\ ~half' /\ queue' = queue /\ saved' = saved /\ ~origin
          /\ \A k \in Gate : stored'[k] = saved[k]
      BY <1>1, <2>2 DEF Boot, Store!Restart, GateInv, Unanchored, AnchorPlace
    <3> QED
      BY <3>1 DEF SavedInv, FlashParts, NoClearWaits, StoredIsSaved, HalfSaved, SavedIsLive
  <2>3. CASE SetOrigin
    <3>1. gates' = stored /\ saved' = saved /\ up /\ ~origin /\ origin' = TRUE /\ ~half'
      BY <1>1, <2>3, SetOriginKeeps DEF SetOrigin, GateInv, AnchorPlace
    <3> QED
      BY <3>1 DEF SavedInv, FlashParts, NoClearWaits, StoredIsSaved, HalfSaved, SavedIsLive
  <2>4. CASE SaveMagCal \/ Compact
    BY <2>4 DEF SaveMagCal, Compact, RoomOnly, history, SavedInv, FlashParts, NoClearWaits,
                StoredIsSaved, HalfSaved, SavedIsLive
  <2>5. CASE Reset
    <3>1. ~origin' /\ ~half' /\ queue' = <<>> /\ up' = FALSE
      BY <1>1, <2>5 DEF Reset, Store!PowerLoss, TypeOK
    <3> QED
      BY <3>1 DEF FlashParts, NoClearWaits, StoredIsSaved, HalfSaved, SavedIsLive
  <2>6. CASE UNCHANGED vars
    BY <2>6 DEF vars, history, SavedInv, FlashParts, NoClearWaits, StoredIsSaved, HalfSaved,
                SavedIsLive
  <2> QED
    BY <1>1, <2>1, <2>2, <2>3, <2>4, <2>5, <2>6, GateSetSaves, FinishSaves, GateClearSaves
    DEF Next
<1> QED
  BY <1>1, <1>2 DEF SavedInv, FlashParts

LEMMA SavedInvariant == ASSUME NoEarlyClear PROVE Spec => []SavedInv
<1>1. Init => SavedInv
  <2> SUFFICES ASSUME Init PROVE SavedInv
    OBVIOUS
  <2>1. GateInv
    BY GateInvInit
  <2>2. ~origin /\ ~half /\ ~up /\ queue = <<>>
    BY DEF Init, Store!Init
  <2> QED
    BY <2>1, <2>2 DEF SavedInv, NoClearWaits, StoredIsSaved, HalfSaved, SavedIsLive
<1>2. SavedInv /\ [Next]_vars => SavedInv'
  BY SavedInvNext
<1> QED
  BY <1>1, <1>2, PTL DEF Spec

-----------------------------------------------------------------------------
(* The results.                                                            *)

\* Every table, queue and counter stays in range: no command writes outside
\* the table, the lap button never leaves the sectors, and the room in the
\* page never goes below nought.
THEOREM TypeCorrect == Spec => []TypeOK
<1>1. GateInv => TypeOK
  BY DEF GateInv
<1> QED
  BY <1>1, GateInvariant, PTL

\* What can_task broadcasts is what the lap timer uses, after every command
\* and for any number of gates, also one that came before the origin.
THEOREM MirrorTracksTable == Spec => []MirrorIsLive
<1>1. GateInv => MirrorIsLive
  BY DEF GateInv
<1> QED
  BY <1>1, GateInvariant, PTL

\* However resets, full pages and flash errors fall, no table holds a start/
\* finish line with a sector that was set without it, as long as the records
\* that clear a line are written: those of sectors, and the second one of a new
\* line, may be refused.
THEOREM LayoutsNeverMix == Spec => []NoMixedLayout
<1>1. GateInv => NoMixedLayout
  BY DEF GateInv
<1> QED
  BY <1>1, GateInvariant, PTL

\* The flash table is the live one between commands, as long as no record has
\* been refused.
THEOREM FlashTracksTable == ASSUME NoEarlyClear PROVE Spec => []SavedIsLive
<1>1. SavedInv => SavedIsLive
  BY DEF SavedInv
<1> QED
  BY <1>1, SavedInvariant, PTL

\* Without a GATE_CLEAR before the origin, anchoring the frame places only
\* gates that the flash table has at that moment.  It says nothing of a clear
\* that flash refused: that gate is in the flash table still.
THEOREM AnchorPlacesSavedGates == ASSUME NoEarlyClear PROVE Spec => NoneResurrected
<1>1. SavedInv /\ [Next]_vars =>
        [~origin /\ origin' => \A k \in Gate : gates'[k] # None => saved[k] # None]_vars
  <2> SUFFICES ASSUME SavedInv, [Next]_vars, ~origin, origin', NEW k \in Gate,
                      gates'[k] # None
               PROVE  saved[k] # None
    BY DEF vars
  <2>1. GateInv /\ ~half
    BY DEF SavedInv, GateInv, AnchorPlace
  <2>2. SetOrigin
    BY <2>1 DEF Next, vars, Boot, GateSet, Takes, FinishStartFinish, GateClear, CanCommand,
                Post, ShortPress, LongPress, VeryLongPress, SaveMagCal, Compact, RoomOnly,
                Reset, imuVars
  <2>3. gates' = stored /\ up
    BY <2>1, <2>2, SetOriginKeeps DEF SetOrigin
  <2> QED
    BY <2>3 DEF SavedInv, StoredIsSaved
<1> QED
  BY <1>1, SavedInvariant, PTL DEF Spec, NoneResurrected
=============================================================================

-------------------------- MODULE FlashStoreProofs --------------------------
(***************************************************************************)
(* What holds of FlashStore for pages, gate tables and payload sets of any *)
(* size.  Each invariant is proved from an inductive one:                  *)
(*   TypeInv  the types, and that a compaction has only values to write;   *)
(*   LogInv   where a compaction may be, and how much of its spare page is *)
(*            written; it needs flash_store_init to come before any        *)
(*            compaction, which NoEarlyCompaction says.                    *)
(***************************************************************************)
EXTENDS FlashStore, NatFacts, FunctionTheorems, FiniteSetTheorems

NoEarlyCompaction == "early_compact" \notin Admit

-----------------------------------------------------------------------------
(* Pages and records.                                                      *)

\* The kinds of record there are, and the values they carry.
LEMMA RecordShape ==
    ASSUME NEW c \in Record
    PROVE  /\ c.val \in Value \union {None}
           /\ c \in Cell
           /\ c # Blank
           /\ c # Torn
<1>1. c.val \in Value \union {None}
  BY DEF Record, Rec
<1>2. c # Blank /\ c # Torn
  BY RecordAssumption
<1> QED
  BY <1>1, <1>2 DEF Cell

\* A value that a compaction rewrites makes a record.
LEMMA RewrittenIsRecord ==
    ASSUME NEW k \in Key, NEW v \in Value
    PROVE  Rec(k, v) \in Record
BY DEF Record

\* Any cell may stand in any slot of a page.
LEMMA ProgrammedPage ==
    ASSUME NEW p \in Page, NEW s \in Slot, NEW c \in Cell
    PROVE  Programmed(p, s, c) \in Page
BY DEF Programmed, Page

LEMMA RefusedPage ==
    ASSUME NEW p \in Page, NEW s \in Slot
    PROVE  ProgramRefused(p, s) \subseteq Page
BY ProgrammedPage, Torn \in Cell DEF ProgramRefused, Cell

\* The pages that an erase, complete or not, can leave.
LEMMA ErasedPage ==
    ASSUME NEW p \in Page
    PROVE  /\ BlankPage \in Page
           /\ CutErase(p) \subseteq Page
           /\ BlankPage \in CutErase(p)
<1>1. BlankPage \in Page
  BY DEF BlankPage, Page, Cell
<1>2. \A T : [s \in Slot |-> IF s \in T THEN Torn ELSE p[s]] \in Page
  BY DEF Page, Cell
<1>3. CutErase(p) \subseteq Page
  BY <1>1, <1>2 DEF CutErase
<1> QED
  BY <1>1, <1>3 DEF CutErase

\* A replay gives every key a value or None.
LEMMA ReplayType ==
    ASSUME NEW p \in Page
    PROVE  Replay(p) \in [Key -> Value \union {None}]
<1>1. ASSUME NEW k \in Key, \E s \in Slot : Decides(p, k, s)
      PROVE  p[CHOOSE s \in Slot : Decides(p, k, s)].val \in Value \union {None}
  <2> DEFINE d == CHOOSE s \in Slot : Decides(p, k, s)
  <2>1. d \in Slot /\ Decides(p, k, d)
    BY <1>1
  <2>2. p[d] \in Record
    BY <2>1 DEF Decides, Sets, Valid
  <2> QED
    BY <2>2, RecordShape
<1> QED
  BY <1>1 DEF Replay

-----------------------------------------------------------------------------
(* Type correctness.                                                       *)

LEMMA TypeInvInit == Init => TypeInv
<1> SUFFICES ASSUME Init PROVE TypeInv
  OBVIOUS
<1>1. BlankPage \in Page
  BY DEF BlankPage, Page, Cell
<1>2. 0 \in 0 .. NumSlots
  BY SizeAssumption
<1> QED
  BY <1>1, <1>2 DEF Init, TypeInv, TypeOK, TodoHasValues, NoValues, PageId, Phases

\* Replacing one of the two pages by a page.
LEMMA OnePageChanged ==
    ASSUME page \in [PageId -> Page], NEW i \in PageId, NEW p \in Page
    PROVE  [page EXCEPT ![i] = p] \in [PageId -> Page]
OBVIOUS

\* The variables of an idle compaction.
LEMMA CompactIdleType ==
    ASSUME CompactIdle
    PROVE  /\ phase' \in Phases
           /\ spare' \in PageId
           /\ snap' \in [Key -> Value \union {None}]
           /\ todo' = {}
           /\ next' \in 0 .. NumSlots
<1>1. 0 \in 0 .. NumSlots
  BY SizeAssumption
<1> QED
  BY <1>1 DEF CompactIdle, Phases, PageId, NoValues

LEMMA ResetType == TypeInv /\ Reset => TypeInv'
<1> SUFFICES ASSUME TypeInv, Reset PROVE TypeInv'
  OBVIOUS
<1> USE DEF TypeInv, TypeOK
<1>1. /\ active \in PageId /\ spare \in PageId /\ 1 \in PageId
      /\ \A i \in PageId : page[i] \in Page
      /\ Torn \in Cell
  BY DEF PageId, Cell
<1>2. page' \in [PageId -> Page]
  <2>1. CASE UNCHANGED page
    BY <2>1
  <2>2. CASE \E i \in PageId, s \in Slot :
               page' = [page EXCEPT ![i] = Programmed(@, s, Torn)]
    BY <2>2, <1>1, ProgrammedPage, OnePageChanged
  <2>3. CASE \E i \in PageId : \E p \in CutErase(page[i]) : page' = [page EXCEPT ![i] = p]
    BY <2>3, <1>1, ErasedPage, OnePageChanged
  <2> QED
    BY <2>1, <2>2, <2>3, <1>1 DEF Reset, CutShort
<1>3. active' \in PageId /\ ready' \in BOOLEAN
  BY DEF Reset, PageId
<1> QED
  BY <1>2, <1>3, CompactIdleType DEF Reset, TodoHasValues

LEMMA TypeInvNext == TypeInv /\ [Next]_vars => TypeInv'
<1> SUFFICES ASSUME TypeInv, [Next]_vars PROVE TypeInv'
  OBVIOUS
<1> USE DEF TypeInv, TypeOK
<1>0. /\ active \in PageId /\ spare \in PageId /\ 1 \in PageId
      /\ \A i \in PageId : page[i] \in Page
  BY DEF PageId
<1>1. CASE FlashStoreInit
  <2>1. page' \in [PageId -> Page]
    BY <1>0, <1>1, ErasedPage, OnePageChanged DEF FlashStoreInit
  <2>2. active' \in PageId /\ ready' \in BOOLEAN
    BY <1>1 DEF FlashStoreInit, BootPage, PageId
  <2> QED
    BY <1>1, <2>1, <2>2 DEF FlashStoreInit, compaction, TodoHasValues
<1>2. ASSUME NEW r \in Saves, FlashStoreAppend(r)
      PROVE  TypeInv'
  <2>1. r \in Cell
    BY RecordAssumption, RecordShape
  <2>2. page' \in [PageId -> Page]
    BY <1>0, <1>2, <2>1, ProgrammedPage, RefusedPage, OnePageChanged
    DEF FlashStoreAppend
  <2> QED
    BY <1>2, <2>2 DEF FlashStoreAppend, compaction, TodoHasValues
<1>3. CASE BeginCompaction
  <2>1. Replay(page[active]) \in [Key -> Value \union {None}]
    BY <1>0, ReplayType
  <2>2. todo' \subseteq Key /\ TodoHasValues'
    BY <1>3 DEF BeginCompaction, SurvivingKeys, TodoHasValues
  <2>3. spare' \in PageId /\ phase' \in Phases /\ next' \in 0 .. NumSlots
    BY <1>3, SizeAssumption DEF BeginCompaction, SparePage, PageId, Phases
  <2> QED
    BY <1>3, <2>1, <2>2, <2>3 DEF BeginCompaction
<1>4. CASE EraseSpare
  <2>1. page' \in [PageId -> Page]
    BY <1>0, <1>4, ErasedPage, OnePageChanged DEF EraseSpare
  <2> QED
    BY <1>4, <2>1, CompactIdleType DEF EraseSpare, Phases, TodoHasValues
<1>5. CASE RewriteRecord
  <2>1. PICK k \in todo :
          \/ /\ next \in Slot
             /\ page' = [page EXCEPT ![spare] = Programmed(@, next, Rec(k, snap[k]))]
             /\ todo' = todo \ {k}
             /\ next' = next + 1
             /\ UNCHANGED <<phase, spare, snap>>
          \/ /\ \E p \in IF next \in Slot
                         THEN ProgramRefused(page[spare], next)
                         ELSE {page[spare]} :
                  page' = [page EXCEPT ![spare] = p]
             /\ CompactIdle
    BY <1>5 DEF RewriteRecord, WriteSlot
  <2>2. Rec(k, snap[k]) \in Cell
    BY RewrittenIsRecord DEF TodoHasValues, Cell
  <2>3. page' \in [PageId -> Page]
    BY <1>0, <2>1, <2>2, ProgrammedPage, RefusedPage, OnePageChanged
  <2>4. next \in Slot => next + 1 \in 0 .. NumSlots
    BY SizeAssumption DEF Slot
  <2>5. UNCHANGED <<active, ready>>
    BY <1>5 DEF RewriteRecord
  <2> QED
    BY <2>1, <2>3, <2>4, <2>5, CompactIdleType DEF TodoHasValues
<1>6. CASE EraseActive
  <2>1. page' \in [PageId -> Page]
    BY <1>0, <1>6, ErasedPage, OnePageChanged DEF EraseActive
  <2> QED
    BY <1>6, <2>1 DEF EraseActive, Phases, TodoHasValues
<1>7. CASE SwitchActive
  BY <1>7, CompactIdleType DEF SwitchActive, TodoHasValues
<1>8. CASE Reset
  BY <1>8, ResetType DEF TypeInv
<1>9. CASE UNCHANGED vars
  BY <1>9 DEF vars, TodoHasValues
<1> QED
  BY <1>1, <1>2, <1>3, <1>4, <1>5, <1>6, <1>7, <1>8, <1>9
  DEF Next, ImuTask, SysTask

\* Every page holds cells, every index is in range, and a compaction has only
\* values to write, whatever the environment does.
THEOREM TypeCorrect == Spec => []TypeOK
<1>1. Spec => []TypeInv
  BY TypeInvInit, TypeInvNext, PTL DEF Spec
<1>2. TypeInv => TypeOK
  BY DEF TypeInv
<1> QED
  BY <1>1, <1>2, PTL

-----------------------------------------------------------------------------
(* The log: where pages are written, and what a finished rewrite holds.    *)

PagePrefix(p) == \A s, t \in Slot : t < s /\ p[s] # Blank => p[t] # Blank

\* Programming the first erased slot of a page keeps its used slots a prefix.
LEMMA AppendKeepsPrefix ==
    ASSUME NEW p \in Page, PagePrefix(p), NEW s \in Slot, IsNextSlot(p, s),
           NEW c, c # Blank
    PROVE  PagePrefix(Programmed(p, s, c))
<1>1. \A t \in Slot : Programmed(p, s, c)[t] = IF t = s THEN c ELSE p[t]
  BY DEF Programmed, Page
<1> SUFFICES ASSUME NEW x \in Slot, NEW y \in Slot, y < x,
                    Programmed(p, s, c)[x] # Blank
             PROVE  Programmed(p, s, c)[y] # Blank
  BY DEF PagePrefix
<1>2. CASE x = s
  BY <1>1, <1>2 DEF IsNextSlot, Slot
<1>3. CASE x # s
  BY <1>1, <1>3 DEF PagePrefix
<1> QED
  BY <1>2, <1>3

\* An erase, complete or cut short, keeps the used slots a prefix.
LEMMA EraseKeepsPrefix ==
    ASSUME NEW p \in Page, PagePrefix(p), NEW q \in CutErase(p)
    PROVE  PagePrefix(q)
<1>1. CASE q = BlankPage
  BY <1>1 DEF PagePrefix, BlankPage
<1>2. CASE \E T \in SUBSET Used(p) : q = [s \in Slot |-> IF s \in T THEN Torn ELSE p[s]]
  <2>1. \A s \in Slot : q[s] # Blank <=> p[s] # Blank
    BY <1>2, CellAssumption DEF Used
  <2> QED
    BY <2>1 DEF PagePrefix
<1> QED
  BY <1>1, <1>2 DEF CutErase

\* Programming an erased slot of a page rewrites no used slot of it.
ProgramsBlank(p, q) == \A s \in Slot : p[s] # Blank => q[s] = p[s]

LEMMA ProgramsOnlyBlank ==
    ASSUME NEW p \in Page, NEW s \in Slot, p[s] = Blank, NEW c
    PROVE  ProgramsBlank(p, Programmed(p, s, c))
BY DEF ProgramsBlank, Programmed, Page

(***************************************************************************)
(* How any step treats the pages: each page is left alone, erased, or      *)
(* programmed at its first erased slot.                                    *)
(***************************************************************************)
PageStep(p, q) ==
    \/ q = p
    \/ q \in CutErase(p)
    \/ \E s \in Slot, c \in Cell \ {Blank} :
         IsNextSlot(p, s) /\ q = Programmed(p, s, c)

LEMMA ProgramIsPageStep ==
    ASSUME NEW p \in Page, NEW s \in Slot, IsNextSlot(p, s), NEW r \in Record,
           NEW q \in {Programmed(p, s, r)} \union ProgramRefused(p, s)
                       \union {Programmed(p, s, Torn)}
    PROVE  PageStep(p, q)
<1>1. r \in Cell \ {Blank} /\ Torn \in Cell \ {Blank}
  BY RecordShape, CellAssumption DEF Cell
<1> QED
  BY <1>1 DEF PageStep, ProgramRefused

\* The slot a rewrite programs is the first erased one of the spare.
LEMMA RewriteSlot ==
    ASSUME LogInv, phase = "rewrite", next \in Slot
    PROVE  IsNextSlot(page[spare], next)
<1>1. \A s \in Slot : page[spare][s] # Blank <=> s < next
  BY DEF LogInv, SpareWritten
<1>2. ~(next < next)
  BY DEF Slot
<1> QED
  BY <1>1, <1>2 DEF IsNextSlot

\* Only the page that a step works on changes.
LEMMA OnePageStep ==
    ASSUME page \in [PageId -> Page], NEW i \in PageId, NEW q, PageStep(page[i], q),
           page' = [page EXCEPT ![i] = q]
    PROVE  \A j \in PageId : PageStep(page[j], page'[j])
BY DEF PageStep

LEMMA SamePageStep ==
    ASSUME UNCHANGED page
    PROVE  \A j \in PageId : PageStep(page[j], page'[j])
BY DEF PageStep

LEMMA StepsOfPages ==
    ASSUME LogInv, [Next]_vars
    PROVE  \A j \in PageId : PageStep(page[j], page'[j])
<1> USE DEF LogInv, TypeInv, TypeOK
<1>0. /\ active \in PageId /\ spare \in PageId /\ 1 \in PageId
      /\ \A i \in PageId : page[i] \in Page
  BY DEF PageId
<1>e. \A i \in PageId : \A q \in CutErase(page[i]) : PageStep(page[i], q)
  BY DEF PageStep
<1>b. \A i \in PageId : PageStep(page[i], BlankPage)
  BY <1>0, <1>e, ErasedPage
<1>t. ASSUME NEW i \in PageId, NEW s \in Slot, IsNextSlot(page[i], s)
      PROVE  PageStep(page[i], Programmed(page[i], s, Torn))
  BY <1>t, CellAssumption DEF PageStep, Cell
<1>1. CASE FlashStoreInit
  BY <1>0, <1>1, <1>b, OnePageStep, SamePageStep DEF FlashStoreInit
<1>2. ASSUME NEW r \in Saves, FlashStoreAppend(r)
      PROVE  \A j \in PageId : PageStep(page[j], page'[j])
  <2>1. PICK s \in Slot :
          /\ IsNextSlot(page[active], s)
          /\ \E q \in {Programmed(page[active], s, r)}
                        \union ProgramRefused(page[active], s) :
               page' = [page EXCEPT ![active] = q]
    BY <1>2 DEF FlashStoreAppend
  <2>2. r \in Record
    BY RecordAssumption
  <2>3. \A q \in {Programmed(page[active], s, r)} \union ProgramRefused(page[active], s) :
          PageStep(page[active], q)
    BY <1>0, <2>1, <2>2, ProgramIsPageStep
  <2> QED
    BY <1>0, <2>1, <2>3, OnePageStep
<1>3. CASE BeginCompaction
  BY <1>3, SamePageStep DEF BeginCompaction
<1>4. CASE EraseSpare
  BY <1>0, <1>4, <1>b, OnePageStep, SamePageStep DEF EraseSpare
<1>5. CASE RewriteRecord
  <2>1. PICK k \in todo :
          \/ /\ next \in Slot
             /\ page' = [page EXCEPT ![spare] = Programmed(@, next, Rec(k, snap[k]))]
          \/ \E q \in IF next \in Slot
                      THEN ProgramRefused(page[spare], next)
                      ELSE {page[spare]} :
               page' = [page EXCEPT ![spare] = q]
    BY <1>5 DEF RewriteRecord, WriteSlot
  <2>2. Rec(k, snap[k]) \in Record
    BY RewrittenIsRecord DEF TodoHasValues
  <2>3. next \in Slot => IsNextSlot(page[spare], next)
    BY <1>5, RewriteSlot DEF RewriteRecord
  <2>4. next \in Slot =>
          \A q \in {Programmed(page[spare], next, Rec(k, snap[k]))}
                     \union ProgramRefused(page[spare], next) :
            PageStep(page[spare], q)
    BY <1>0, <2>2, <2>3, ProgramIsPageStep
  <2>5. PageStep(page[spare], page[spare])
    BY DEF PageStep
  <2> QED
    BY <1>0, <2>1, <2>4, <2>5, OnePageStep
<1>6. CASE EraseActive
  BY <1>0, <1>6, <1>b, OnePageStep, SamePageStep DEF EraseActive
<1>7. CASE SwitchActive
  BY <1>7, SamePageStep DEF SwitchActive
<1>8. CASE Reset
  <2>1. CASE UNCHANGED page
    BY <2>1, SamePageStep
  <2>2. CASE \E s \in Slot :
               /\ IsNextSlot(page[active], s)
               /\ page' = [page EXCEPT ![active] = Programmed(@, s, Torn)]
    BY <1>0, <1>t, <2>2, OnePageStep
  <2>3. CASE /\ phase = "rewrite"
             /\ next \in Slot
             /\ page' = [page EXCEPT ![spare] = Programmed(@, next, Torn)]
    BY <1>0, <1>t, <2>3, RewriteSlot, OnePageStep
  <2>4. CASE \E i \in PageId : \E q \in CutErase(page[i]) : page' = [page EXCEPT ![i] = q]
    BY <1>e, <2>4, OnePageStep
  <2> QED
    BY <1>0, <1>8, <2>1, <2>2, <2>3, <2>4 DEF Reset, CutShort
<1>9. CASE UNCHANGED vars
  BY <1>9, SamePageStep DEF vars
<1> QED
  BY <1>1, <1>2, <1>3, <1>4, <1>5, <1>6, <1>7, <1>8, <1>9
  DEF Next, ImuTask, SysTask

LEMMA PrefixNext == LogInv /\ [Next]_vars => UsedIsPrefix'
<1> SUFFICES ASSUME LogInv, [Next]_vars, NEW i \in PageId
             PROVE  PagePrefix(page'[i])
  BY DEF UsedIsPrefix, PagePrefix
<1>1. page[i] \in Page /\ PagePrefix(page[i])
  BY DEF LogInv, TypeInv, TypeOK, UsedIsPrefix, PagePrefix
<1>2. PageStep(page[i], page'[i])
  BY StepsOfPages
<1> QED
  BY <1>1, <1>2, AppendKeepsPrefix, EraseKeepsPrefix DEF PageStep

LEMMA OtherPage == \A a \in PageId : SparePage(a) \in PageId /\ SparePage(a) # a
BY DEF SparePage, PageId

LEMMA PlaceNext == NoEarlyCompaction /\ LogInv /\ [Next]_vars => CompactionPlace'
<1> SUFFICES ASSUME NoEarlyCompaction, LogInv, [Next]_vars PROVE CompactionPlace'
  OBVIOUS
<1> USE DEF LogInv, CompactionPlace
<1>1. CASE ImuTask
  BY <1>1 DEF ImuTask, FlashStoreInit, FlashStoreAppend, compaction
<1>2. CASE BeginCompaction
  BY <1>2 DEF BeginCompaction, NoEarlyCompaction
<1>3. CASE EraseSpare
  BY <1>3 DEF EraseSpare, CompactIdle
<1>4. CASE RewriteRecord
  BY <1>4 DEF RewriteRecord, CompactIdle
<1>5. CASE EraseActive
  BY <1>5 DEF EraseActive, RewriteDone
<1>6. CASE SwitchActive
  BY <1>6 DEF SwitchActive, CompactIdle
<1>7. CASE Reset
  BY <1>7 DEF Reset, CompactIdle
<1>8. CASE UNCHANGED vars
  BY <1>8 DEF vars
<1> QED
  BY <1>1, <1>2, <1>3, <1>4, <1>5, <1>6, <1>7, <1>8 DEF Next, SysTask

\* An append leaves the spare of a compaction alone.
LEMMA AppendLeavesSpare ==
    ASSUME LogInv, NEW r, FlashStoreAppend(r), phase # "idle"
    PROVE  page'[spare] = page[spare]
<1>1. spare # active
  BY OtherPage DEF LogInv, TypeInv, TypeOK, CompactionPlace
<1> QED
  BY <1>1 DEF FlashStoreAppend, LogInv, TypeInv, TypeOK

LEMMA WrittenNext == LogInv /\ [Next]_vars => SpareWritten'
<1> SUFFICES ASSUME LogInv, [Next]_vars, phase' = "rewrite",
                    NEW s \in Slot
             PROVE  page'[spare'][s] # Blank <=> s < next'
  BY DEF SpareWritten
<1> USE DEF LogInv, TypeInv, TypeOK
<1>1. CASE FlashStoreInit
  BY <1>1 DEF FlashStoreInit, compaction, CompactionPlace
<1>2. ASSUME NEW r \in Saves, FlashStoreAppend(r)
      PROVE  page'[spare'][s] # Blank <=> s < next'
  <2>1. UNCHANGED compaction
    BY <1>2 DEF FlashStoreAppend
  <2>2. page'[spare] = page[spare]
    BY <1>2, <2>1, AppendLeavesSpare DEF compaction
  <2> QED
    BY <2>1, <2>2 DEF compaction, SpareWritten
<1>3. CASE BeginCompaction
  BY <1>3 DEF BeginCompaction
<1>4. CASE EraseSpare
  <2>1. page' = [page EXCEPT ![spare] = BlankPage] /\ spare' = spare /\ next' = 0
    BY <1>4 DEF EraseSpare, CompactIdle, CompactionPlace
  <2> QED
    BY <2>1 DEF BlankPage, Slot
<1>5. CASE RewriteRecord
  <2>1. PICK k \in todo :
          /\ next \in Slot
          /\ page' = [page EXCEPT ![spare] = Programmed(@, next, Rec(k, snap[k]))]
          /\ next' = next + 1
          /\ spare' = spare
    BY <1>5 DEF RewriteRecord, WriteSlot, CompactIdle
  <2>2. Rec(k, snap[k]) # Blank
    BY RewrittenIsRecord, RecordShape DEF TodoHasValues
  <2>3. page'[spare'][s] = IF s = next THEN Rec(k, snap[k]) ELSE page[spare][s]
    BY <2>1 DEF Programmed, Page
  <2>4. page[spare][s] # Blank <=> s < next
    BY <1>5 DEF RewriteRecord, SpareWritten
  <2> QED
    BY <2>1, <2>2, <2>3, <2>4 DEF Slot
<1>6. CASE EraseActive
  BY <1>6 DEF EraseActive
<1>7. CASE SwitchActive
  BY <1>7 DEF SwitchActive, CompactIdle
<1>8. CASE Reset
  BY <1>8 DEF Reset, CompactIdle
<1>9. CASE UNCHANGED vars
  BY <1>9 DEF vars, SpareWritten
<1> QED
  BY <1>1, <1>2, <1>3, <1>4, <1>5, <1>6, <1>7, <1>8, <1>9
  DEF Next, ImuTask, SysTask

(***************************************************************************)
(* Page p holds, of table kv, exactly the keys of D, each in one record.   *)
(***************************************************************************)
HoldsExactly(p, kv, D) ==
    /\ \A s \in Slot : p[s] # Blank => \E k \in D : p[s] = Rec(k, kv[k])
    /\ \A k \in D : \E s \in Slot : p[s] = Rec(k, kv[k])
    /\ \A s, t \in Slot : p[s] # Blank /\ p[s] = p[t] => s = t

LEMMA ContentsAs ==
    SpareContents <=>
        (phase \in {"rewrite", "switch"} =>
            HoldsExactly(page[spare], snap, SurvivingKeys(snap) \ todo))
BY DEF SpareContents, HoldsExactly

LEMMA HoldsNothing ==
    ASSUME NEW kv
    PROVE  HoldsExactly(BlankPage, kv, {})
BY DEF HoldsExactly, BlankPage

\* Programming the record of one more key.
LEMMA HoldsOneMore ==
    ASSUME NEW p \in Page, NEW kv, NEW D \in SUBSET Key, HoldsExactly(p, kv, D),
           NEW k \in Key \ D, NEW s \in Slot, p[s] = Blank,
           \A j \in D \union {k} : Rec(j, kv[j]) # Blank
    PROVE  HoldsExactly(Programmed(p, s, Rec(k, kv[k])), kv, D \union {k})
<1> DEFINE q == Programmed(p, s, Rec(k, kv[k]))
<1>1. \A t \in Slot : q[t] = IF t = s THEN Rec(k, kv[k]) ELSE p[t]
  BY DEF Programmed, Page
<1>2. \A j \in D : Rec(j, kv[j]) # Rec(k, kv[k])
  BY DEF Rec
<1>3. \A t \in Slot : p[t] # Rec(k, kv[k])
  BY <1>2 DEF HoldsExactly
<1> HIDE DEF q
<1>4. \A t \in Slot : q[t] # Blank => \E j \in D \union {k} : q[t] = Rec(j, kv[j])
  BY <1>1 DEF HoldsExactly
<1>5. \A j \in D \union {k} : \E t \in Slot : q[t] = Rec(j, kv[j])
  <2> SUFFICES ASSUME NEW j \in D \union {k} PROVE \E t \in Slot : q[t] = Rec(j, kv[j])
    OBVIOUS
  <2>1. CASE j = k
    BY <1>1, <2>1
  <2>2. CASE j \in D
    <3>1. PICK t \in Slot : p[t] = Rec(j, kv[j])
      BY <2>2 DEF HoldsExactly
    <3>2. t # s
      BY <2>2, <3>1
    <3> QED
      BY <1>1, <3>1, <3>2
  <2> QED
    BY <2>1, <2>2
<1>6. \A t, u \in Slot : q[t] # Blank /\ q[t] = q[u] => t = u
  BY <1>1, <1>3 DEF HoldsExactly
<1> QED
  BY <1>4, <1>5, <1>6 DEF HoldsExactly, q

LEMMA SurvivingKeysAre == \A kv : SurvivingKeys(kv) \subseteq Key
BY DEF SurvivingKeys

LEMMA ContentsNext == LogInv /\ [Next]_vars => SpareContents'
<1> DEFINE Done == SurvivingKeys(snap) \ todo
<1> SUFFICES ASSUME LogInv, [Next]_vars, phase' \in {"rewrite", "switch"}
             PROVE  HoldsExactly(page'[spare'], snap', SurvivingKeys(snap') \ todo')
  BY DEF SpareContents, HoldsExactly
<1>0. /\ active \in PageId /\ spare \in PageId
      /\ page \in [PageId -> Page] /\ page[spare] \in Page
  BY DEF LogInv, TypeInv, TypeOK
<1>c. phase \in {"rewrite", "switch"} => HoldsExactly(page[spare], snap, Done)
  BY ContentsAs DEF LogInv
<1> HIDE DEF Done
<1>1. CASE FlashStoreInit
  BY <1>1 DEF FlashStoreInit, compaction, LogInv, CompactionPlace
<1>2. ASSUME NEW r \in Saves, FlashStoreAppend(r)
      PROVE  HoldsExactly(page'[spare'], snap', SurvivingKeys(snap') \ todo')
  <2>1. UNCHANGED <<phase, spare, snap, todo>>
    BY <1>2 DEF FlashStoreAppend, compaction
  <2>2. page'[spare] = page[spare]
    BY <1>2, <2>1, AppendLeavesSpare
  <2> QED
    BY <1>c, <2>1, <2>2 DEF Done
<1>3. CASE BeginCompaction
  BY <1>3 DEF BeginCompaction
<1>4. CASE EraseSpare
  <2>1. /\ page' = [page EXCEPT ![spare] = BlankPage]
        /\ UNCHANGED <<spare, snap, todo>>
        /\ todo = SurvivingKeys(snap)
    BY <1>4 DEF EraseSpare, CompactIdle, LogInv, CompactionPlace
  <2>2. page'[spare] = BlankPage
    BY <1>0, <2>1
  <2>3. SurvivingKeys(snap') \ todo' = {}
    BY <2>1
  <2> QED
    BY <2>1, <2>2, <2>3, HoldsNothing
<1>5. CASE RewriteRecord
  <2>1. PICK k \in todo :
          /\ next \in Slot
          /\ page' = [page EXCEPT ![spare] = Programmed(@, next, Rec(k, snap[k]))]
          /\ todo' = todo \ {k}
          /\ UNCHANGED <<spare, snap>>
    BY <1>5 DEF RewriteRecord, WriteSlot, CompactIdle
  <2>2. page'[spare] = Programmed(page[spare], next, Rec(k, snap[k]))
    BY <1>0, <2>1
  <2>3. page[spare][next] = Blank
    BY <1>5, <2>1, RewriteSlot DEF RewriteRecord, IsNextSlot
  <2>4. HoldsExactly(page[spare], snap, Done)
    BY <1>5, <1>c DEF RewriteRecord
  <2>5. k \in Key \ Done /\ k \in SurvivingKeys(snap)
    BY DEF LogInv, TypeInv, TypeOK, TodoHasValues, SurvivingKeys, Done
  <2>6. \A j \in SurvivingKeys(snap) : Rec(j, snap[j]) # Blank
    BY RewrittenIsRecord, RecordShape DEF SurvivingKeys, LogInv, TypeInv, TypeOK
  <2>7. Done \in SUBSET Key /\ \A j \in Done \union {k} : Rec(j, snap[j]) # Blank
    BY <2>5, <2>6, SurvivingKeysAre DEF Done
  <2>8. HoldsExactly(page'[spare], snap, Done \union {k})
    BY <1>0, <2>1, <2>2, <2>3, <2>4, <2>5, <2>7, HoldsOneMore
  <2>9. SurvivingKeys(snap') \ todo' = Done \union {k}
    BY <2>1, <2>5 DEF Done
  <2> QED
    BY <2>1, <2>8, <2>9
<1>6. CASE EraseActive
  <2>1. spare # active
    BY <1>0, <1>6, OtherPage DEF EraseActive, RewriteDone, LogInv, CompactionPlace
  <2>2. page'[spare] = page[spare] /\ UNCHANGED <<spare, snap, todo>>
    BY <1>0, <1>6, <2>1 DEF EraseActive
  <2> QED
    BY <1>6, <1>c, <2>2 DEF EraseActive, RewriteDone, Done
<1>7. CASE SwitchActive
  BY <1>7 DEF SwitchActive, CompactIdle
<1>8. CASE Reset
  BY <1>8 DEF Reset, CompactIdle
<1>9. CASE UNCHANGED vars
  BY <1>9, <1>c DEF vars, Done
<1> QED
  BY <1>1, <1>2, <1>3, <1>4, <1>5, <1>6, <1>7, <1>8, <1>9
  DEF Next, ImuTask, SysTask

LEMMA LogInvInit == Init => LogInv
<1> SUFFICES ASSUME Init PROVE LogInv
  OBVIOUS
<1>1. UsedIsPrefix
  BY DEF Init, UsedIsPrefix, BlankPage
<1>2. CompactionPlace /\ SpareWritten /\ SpareContents
  BY DEF Init, CompactionPlace, SpareWritten, SpareContents
<1> QED
  BY <1>1, <1>2, TypeInvInit DEF LogInv

\* The log invariant holds whenever the store is initialised before it is
\* first compacted.
THEOREM LogInvariant == ASSUME NoEarlyCompaction PROVE Spec => []LogInv
<1>1. LogInv /\ [Next]_vars => LogInv'
  BY TypeInvNext, PrefixNext, PlaceNext, WrittenNext, ContentsNext DEF LogInv
<1> QED
  BY <1>1, LogInvInit, PTL DEF Spec

(***************************************************************************)
(* The results.                                                            *)
(***************************************************************************)

\* find_next_slot's first erased slot is the end of the log: whatever failed
\* or was cut short, no page has a used slot above an erased one.
THEOREM LogIsPrefix == ASSUME NoEarlyCompaction PROVE Spec => []UsedIsPrefix
<1>1. LogInv => UsedIsPrefix
  BY DEF LogInv
<1> QED
  BY <1>1, LogInvariant, PTL

\* No used slot is ever programmed a second time, by an append, a rewrite or
\* a reset inside either: only an erase of its page changes it.
THEOREM FlashProgrammedOnce == ASSUME NoEarlyCompaction PROVE Spec => NeverRewritten
<1> DEFINE Kept == \A i \in PageId : \A s \in Slot :
                      page[i][s] # Blank /\ page'[i][s] # page[i][s]
                        => page'[i] \in CutErase(page[i])
<1>1. LogInv /\ [Next]_vars => Kept
  <2> SUFFICES ASSUME LogInv, [Next]_vars, NEW i \in PageId, NEW s \in Slot,
                      page[i][s] # Blank, page'[i][s] # page[i][s]
               PROVE  page'[i] \in CutErase(page[i])
    BY DEF Kept
  <2>1. page[i] \in Page
    BY DEF LogInv, TypeInv, TypeOK
  <2>2. PageStep(page[i], page'[i])
    BY StepsOfPages
  <2>3. ASSUME NEW t \in Slot, NEW c, IsNextSlot(page[i], t),
               page'[i] = Programmed(page[i], t, c)
        PROVE  FALSE
    BY <2>1, <2>3 DEF IsNextSlot, Programmed, Page
  <2> QED
    BY <2>2, <2>3 DEF PageStep
<1>2. LogInv /\ [Next]_vars => [Kept]_vars
  BY <1>1
<1> HIDE DEF Kept
<1>3. Spec => [][Kept]_vars
  BY <1>2, LogInvariant, PTL DEF Spec
<1> QED
  BY <1>3 DEF NeverRewritten, Kept

\* A page with one record of each key of a table, and none of the others,
\* replays to that table.
LEMMA ReplayOfTable ==
    ASSUME NEW p \in Page, NEW kv \in [Key -> Value \union {None}],
           HoldsExactly(p, kv, SurvivingKeys(kv))
    PROVE  Replay(p) = kv
<1>1. \A s \in Slot : Valid(p[s]) =>
        \E k \in SurvivingKeys(kv) : p[s] = Rec(k, kv[k])
  BY RecordShape DEF HoldsExactly, Valid
<1>2. \A s \in Slot : \A k \in Key :
        Sets(p[s], k) <=> k \in SurvivingKeys(kv) /\ p[s] = Rec(k, kv[k])
  <2> SUFFICES ASSUME NEW s \in Slot, NEW k \in Key
               PROVE  Sets(p[s], k) <=> k \in SurvivingKeys(kv) /\ p[s] = Rec(k, kv[k])
    OBVIOUS
  <2>1. ASSUME Sets(p[s], k)
        PROVE  k \in SurvivingKeys(kv) /\ p[s] = Rec(k, kv[k])
    <3>1. PICK j \in SurvivingKeys(kv) : p[s] = Rec(j, kv[j])
      BY <1>1, <2>1 DEF Sets
    <3>2. j # AllGates /\ p[s].key = j
      BY <3>1, SizeAssumption DEF SurvivingKeys, Key, AllGates, Rec
    <3> QED
      BY <2>1, <3>1, <3>2 DEF Sets
  <2>2. ASSUME k \in SurvivingKeys(kv), p[s] = Rec(k, kv[k])
        PROVE  Sets(p[s], k)
    <3>1. p[s] \in Record
      BY <2>2, RewrittenIsRecord DEF SurvivingKeys
    <3> QED
      BY <2>2, <3>1 DEF Sets, Valid, Rec
  <2> QED
    BY <2>1, <2>2
<1>3. ASSUME NEW k \in Key PROVE Replay(p)[k] = kv[k]
  <2>1. CASE k \notin SurvivingKeys(kv)
    <3>1. \A s \in Slot : ~Decides(p, k, s)
      BY <1>2, <2>1 DEF Decides
    <3> QED
      BY <2>1, <3>1 DEF Replay, SurvivingKeys
  <2>2. CASE k \in SurvivingKeys(kv)
    <3>1. PICK s \in Slot : p[s] = Rec(k, kv[k])
      BY <2>2 DEF HoldsExactly
    <3>2. Sets(p[s], k) /\ p[s] # Blank
      BY <1>2, <2>2, <3>1, RecordShape DEF Sets, Valid
    <3>3. \A t \in Slot : Sets(p[t], k) => t = s
      BY <1>2, <3>1, <3>2 DEF HoldsExactly
    <3>4. \A t \in Slot : Decides(p, k, t) <=> t = s
      BY <3>2, <3>3 DEF Decides, Slot
    <3>5. (CHOOSE t \in Slot : Decides(p, k, t)) = s
      BY <3>4
    <3> QED
      BY <3>1, <3>4, <3>5 DEF Replay, Rec
  <2> QED
    BY <2>1, <2>2
<1> QED
  BY <1>3 DEF Replay

\* Once the last record of a rewrite has landed the spare holds the table the
\* compaction read, and may replace the active page.
THEOREM RewriteIsLossless ==
    ASSUME NoEarlyCompaction PROVE Spec => []RewriteMatchesSnapshot
<1>1. LogInv => RewriteMatchesSnapshot
  <2> SUFFICES ASSUME LogInv, phase \in {"rewrite", "switch"}, todo = {}
               PROVE  Replay(page[spare]) = snap
    BY DEF RewriteMatchesSnapshot
  <2>1. HoldsExactly(page[spare], snap, SurvivingKeys(snap))
    BY ContentsAs DEF LogInv
  <2>2. page[spare] \in Page /\ snap \in [Key -> Value \union {None}]
    BY DEF LogInv, TypeInv, TypeOK
  <2> QED
    BY <2>1, <2>2, ReplayOfTable
<1> QED
  BY <1>1, LogInvariant, PTL

\* What is recovered, while it is being recovered.
LEMMA RecoveryStep ==
    ASSUME NoEarlyCompaction, LogInv, [Next]_vars, ~ready
    PROVE  Live' = Live
<1>0. page \in [PageId -> Page] /\ 0 \in PageId /\ 1 \in PageId
  BY DEF LogInv, TypeInv, TypeOK, PageId
<1>1. phase = "idle" /\ Live = Replay(page[BootPage(page)])
  BY DEF LogInv, CompactionPlace, Live
<1>2. CASE FlashStoreInit
  <2>1. Live' = Replay(page'[active'])
    BY <1>1, <1>2 DEF FlashStoreInit, compaction, Live
  <2>2. active' = BootPage(page)
    BY <1>2 DEF FlashStoreInit
  <2>3. page'[BootPage(page)] = page[BootPage(page)]
    BY <1>0, <1>2 DEF FlashStoreInit, BootPage
  <2> QED
    BY <1>1, <2>1, <2>2, <2>3
<1>3. CASE Reset
  <2>1. \/ UNCHANGED page
        \/ InUse(page[0]) /\ InUse(page[1]) /\ page'[0] = page[0]
    BY <1>0, <1>1, <1>3 DEF Reset, CutShort, MayAppend, RewriteDone
  <2>2. page'[BootPage(page')] = page[BootPage(page)]
    BY <2>1 DEF BootPage
  <2>3. Live' = Replay(page'[BootPage(page')])
    BY <1>3 DEF Reset, Live
  <2> QED
    BY <1>1, <2>2, <2>3
<1>4. CASE UNCHANGED vars
  BY <1>4 DEF vars, Live
<1>5. ~(\E r \in Saves : FlashStoreAppend(r)) /\ ~SysTask
  BY <1>1 DEF FlashStoreAppend, MayAppend, SysTask, BeginCompaction, EraseSpare,
              RewriteRecord, EraseActive, RewriteDone, SwitchActive,
              NoEarlyCompaction
<1> QED
  BY <1>2, <1>3, <1>4, <1>5 DEF Next, ImuTask

\* A boot that is cut short, or whose erase fails, does not change what the
\* next one recovers.
THEOREM BootRepeats == ASSUME NoEarlyCompaction PROVE Spec => RecoveryIsStable
<1>1. LogInv /\ [Next]_vars => [~ready => Live' = Live]_vars
  BY RecoveryStep
<1> QED
  BY <1>1, LogInvariant, PTL DEF Spec, RecoveryIsStable

-----------------------------------------------------------------------------
(* The replay loop.                                                        *)

\* The replay of one more record, as a function for BoundedRecursion.
ReplayStep(p) ==
    [a \in [Key -> Value \union {None}] \X (1 .. NumSlots) |-> Apply(a[1], p[a[2] - 1])]

LEMMA ApplyType ==
    ASSUME NEW kv \in [Key -> Value \union {None}], NEW c
    PROVE  Apply(kv, c) \in [Key -> Value \union {None}]
<1>1. Valid(c) => c.val \in Value \union {None}
  BY RecordShape DEF Valid
<1> QED
  BY <1>1 DEF Apply, Sets

\* The turns of the replay loop: f[n] is the table after the first n slots.
ReplayTurns(p, f) ==
    /\ f \in [0 .. NumSlots -> [Key -> Value \union {None}]]
    /\ f[0] = [k \in Key |-> None]
    /\ \A n \in 0 .. NumSlots - 1 : f[n + 1] = Apply(f[n], p[n])
    /\ ReplayLoop(p) = f[NumSlots]

LEMMA ReplayLoopTurns ==
    ASSUME NEW p \in Page
    PROVE  \E f : ReplayTurns(p, f)
<1> DEFINE S == [Key -> Value \union {None}]
           f0 == [k \in Key |-> None]
           step == ReplayStep(p)
           IsLoop(g) == g = [n \in 0 .. NumSlots |->
                               IF n = 0 THEN f0 ELSE Apply(g[n - 1], p[n - 1])]
<1>0. NumSlots \in Nat
  BY SizeAssumption
<1>1. f0 \in S
  OBVIOUS
<1>2. step \in [S \X (1 .. NumSlots) -> S]
  BY ApplyType DEF ReplayStep
<1>3. \A x \in S : \A n \in 1 .. NumSlots : step[<<x, n>>] = Apply(x, p[n - 1])
  BY DEF ReplayStep
<1>4. ReplayLoop(p) = (CHOOSE g : IsLoop(g))[NumSlots]
  BY DEF ReplayLoop
<1>9. \A n \in 0 .. NumSlots - 1 : n \in 0 .. NumSlots /\ n + 1 \in 1 .. NumSlots
                                  /\ n + 1 \in 0 .. NumSlots /\ (n + 1) - 1 = n
                                  /\ n + 1 # 0
  BY <1>0
<1>z. 0 \in 0 .. NumSlots
  BY <1>0
<1> HIDE DEF S, step
<1>5. PICK f \in [0 .. NumSlots -> S] : IteratesTo(f, NumSlots, f0, step)
  BY <1>0, <1>1, <1>2, BoundedRecursion
<1>6. IsLoop(f)
  <2>1. \A n \in 0 .. NumSlots : n # 0 => n - 1 \in 0 .. NumSlots /\ n \in 1 .. NumSlots
    BY <1>0
  <2>2. \A n \in 0 .. NumSlots : n # 0 => step[<<f[n - 1], n>>] = Apply(f[n - 1], p[n - 1])
    BY <1>3, <1>5, <2>1
  <2> QED
    BY <1>5, <2>2 DEF IteratesTo
<1> DEFINE L == CHOOSE g : IsLoop(g)
<1>7. IsLoop(L)
  BY <1>6
<1>8. \A g : IsLoop(g) => g = f
  <2> SUFFICES ASSUME NEW g, IsLoop(g) PROVE g = f
    OBVIOUS
  <2> DEFINE Same == {n \in 0 .. NumSlots : g[n] = f[n]}
  <2>1. 0 \in Same
    BY <1>6, <1>z
  <2>2. ASSUME NEW n \in 0 .. NumSlots - 1, n \in Same PROVE n + 1 \in Same
    BY <1>6, <1>9, <2>2
  <2> HIDE DEF Same
  <2>3. 0 .. NumSlots \subseteq Same
    BY <1>0, <2>1, <2>2, BoundedInduction
  <2>4. \A n \in 0 .. NumSlots : g[n] = f[n]
    BY <2>3 DEF Same
  <2> QED
    BY <1>6, <2>4
<1>10. f[0] = f0 /\ \A n \in 0 .. NumSlots - 1 : f[n + 1] = Apply(f[n], p[n])
  BY <1>6, <1>9, <1>z
<1>11. ReplayLoop(p) = f[NumSlots]
  BY <1>4, <1>7, <1>8
<1> QED
  BY <1>5, <1>10, <1>11 DEF ReplayTurns, S

\* s is the newest of the first n slots that sets key k.
NewestBelow(p, k, n, s) ==
    /\ s < n
    /\ Sets(p[s], k)
    /\ \A t \in Slot : s < t /\ t < n => ~Sets(p[t], k)

\* After n turns the loop holds, for every key, the newest of the first n slots.
LEMMA TurnsAreNewest ==
    ASSUME NEW p \in Page, NEW f, ReplayTurns(p, f), NEW k \in Key
    PROVE  \A n \in 0 .. NumSlots :
              \/ /\ \A t \in Slot : t < n => ~Sets(p[t], k)
                 /\ f[n][k] = None
              \/ \E s \in Slot : NewestBelow(p, k, n, s) /\ f[n][k] = p[s].val
<1> DEFINE Good(n) ==
              \/ /\ \A t \in Slot : t < n => ~Sets(p[t], k)
                 /\ f[n][k] = None
              \/ \E s \in Slot : NewestBelow(p, k, n, s) /\ f[n][k] = p[s].val
           T == {n \in 0 .. NumSlots : Good(n)}
<1>0. NumSlots \in Nat
  BY SizeAssumption
<1>1. 0 \in T
  <2>1. \A t \in Slot : ~(t < 0)
    BY DEF Slot
  <2>2. f[0][k] = None
    BY DEF ReplayTurns
  <2> QED
    BY <1>0, <2>1, <2>2
<1>2. ASSUME NEW n \in 0 .. NumSlots - 1, n \in T PROVE n + 1 \in T
  <2>1. n \in Slot /\ n + 1 \in 0 .. NumSlots
    BY <1>0 DEF Slot
  <2>2. f[n + 1][k] = IF Sets(p[n], k) THEN p[n].val ELSE f[n][k]
    BY ZenonT(40) DEF ReplayTurns, Apply
  <2>3. \A t \in Slot : t < n + 1 <=> t < n \/ t = n
    BY DEF Slot
  <2>4. CASE Sets(p[n], k)
    <3>1. \A t \in Slot : ~(n < t /\ t < n + 1)
      BY DEF Slot
    <3>2. NewestBelow(p, k, n + 1, n)
      BY <2>3, <2>1, <2>4, <3>1 DEF NewestBelow
    <3> QED
      BY <2>1, <2>2, <2>4, <3>2
  <2>5. CASE ~Sets(p[n], k)
    <3>1. \A s \in Slot : NewestBelow(p, k, n, s) => NewestBelow(p, k, n + 1, s)
      BY <2>3, <2>5 DEF NewestBelow
    <3>2. f[n + 1][k] = f[n][k]
      BY <2>2, <2>5
    <3>3. Good(n)
      BY <1>2
    <3>4. Good(n + 1)
      BY <2>3, <2>5, <3>1, <3>2, <3>3
    <3> QED
      BY <2>1, <3>4
  <2> QED
    BY <2>4, <2>5
<1> HIDE DEF T
<1>3. 0 .. NumSlots \subseteq T
  BY <1>0, <1>1, <1>2, BoundedInduction
<1> QED
  BY <1>3 DEF T

LEMMA ReplayLoopIsReplay ==
    ASSUME NEW p \in Page
    PROVE  ReplayLoop(p) = Replay(p)
<1>0. NumSlots \in Nat /\ NumSlots \in 0 .. NumSlots
  BY SizeAssumption
<1>1. PICK f : ReplayTurns(p, f)
  BY ReplayLoopTurns
<1>2. \A t \in Slot : t < NumSlots
  BY <1>0 DEF Slot
<1>3. ASSUME NEW k \in Key PROVE f[NumSlots][k] = Replay(p)[k]
  <2>1. CASE /\ \A t \in Slot : t < NumSlots => ~Sets(p[t], k)
             /\ f[NumSlots][k] = None
    <3>1. ~\E s \in Slot : Decides(p, k, s)
      BY <1>2, <2>1 DEF Decides
    <3> QED
      BY <2>1, <3>1 DEF Replay
  <2>2. CASE \E s \in Slot : /\ NewestBelow(p, k, NumSlots, s)
                             /\ f[NumSlots][k] = p[s].val
    <3>1. PICK s \in Slot : NewestBelow(p, k, NumSlots, s) /\ f[NumSlots][k] = p[s].val
      BY <2>2
    <3>2. Decides(p, k, s)
      BY <1>2, <3>1 DEF NewestBelow, Decides
    <3>3. \A t \in Slot : Decides(p, k, t) => t = s
      BY <3>2 DEF Decides, Slot
    <3>4. (CHOOSE t \in Slot : Decides(p, k, t)) = s
      BY <3>2, <3>3
    <3> QED
      BY <3>1, <3>2, <3>4 DEF Replay
  <2> QED
    BY <1>0, <1>1, <2>1, <2>2, TurnsAreNewest
<1>4. f[NumSlots] \in [Key -> Value \union {None}]
  BY <1>0, <1>1 DEF ReplayTurns
<1>5. Replay(p) \in [Key -> Value \union {None}]
  BY ReplayType
<1> QED
  BY <1>1, <1>3, <1>4, <1>5 DEF ReplayTurns

\* flash_store_restore's loop, which keeps the latest valid record it passes,
\* computes the newest record of every key of every page, of any length.
THEOREM RestoreReadsNewest == Spec => []ReplayIsNewestWins
<1>1. TypeOK => ReplayIsNewestWins
  BY ReplayLoopIsReplay DEF TypeOK, ReplayIsNewestWins
<1> QED
  BY <1>1, TypeCorrect, PTL

\* Programming the first erased slot replays as one more record.
LEMMA AppendReplay ==
    ASSUME NEW p \in Page, PagePrefix(p), NEW s \in Slot, IsNextSlot(p, s),
           NEW c \in Cell
    PROVE  Replay(Programmed(p, s, c)) = Apply(Replay(p), c)
<1> DEFINE q == Programmed(p, s, c)
<1>1. \A t \in Slot : q[t] = IF t = s THEN c ELSE p[t]
  BY DEF Programmed, Page
<1>2. \A t \in Slot : t > s \/ t = s => p[t] = Blank
  BY DEF PagePrefix, IsNextSlot, Slot
<1>3. \A k : ~Sets(Blank, k)
  BY RecordAssumption DEF Sets, Valid
<1>4. \A t \in Slot : t > s => q[t] = Blank
  BY <1>1, <1>2 DEF Slot
<1>q. \A t \in Slot : t # s => q[t] = p[t]
  BY <1>1
<1>s. q[s] = c
  BY <1>1
<1> HIDE DEF q
<1>5. ASSUME NEW k \in Key
      PROVE  Replay(q)[k] = IF Sets(c, k) THEN c.val ELSE Replay(p)[k]
  <2>1. CASE Sets(c, k)
    <3>1. Decides(q, k, s)
      BY <1>3, <1>4, <1>s, <2>1 DEF Decides
    <3>2. \A t \in Slot : Decides(q, k, t) => t = s
      BY <1>3, <1>4, <3>1 DEF Decides, Slot
    <3>3. (CHOOSE t \in Slot : Decides(q, k, t)) = s
      BY <3>1, <3>2
    <3> QED
      BY <1>s, <2>1, <3>1, <3>3 DEF Replay
  <2>2. CASE ~Sets(c, k)
    <3>1. \A t \in Slot : Sets(q[t], k) <=> Sets(p[t], k)
      BY <1>2, <1>3, <1>q, <1>s, <2>2
    <3>2. \A t \in Slot : Decides(q, k, t) <=> Decides(p, k, t)
      BY <3>1 DEF Decides
    <3>3. (CHOOSE t \in Slot : Decides(q, k, t)) = (CHOOSE t \in Slot : Decides(p, k, t))
      BY <3>2
    <3>4. \A t \in Slot : Decides(p, k, t) => q[t] = p[t]
      BY <1>2, <1>3, <1>q DEF Decides
    <3> QED
      BY <2>2, <3>2, <3>3, <3>4 DEF Replay
  <2> QED
    BY <2>1, <2>2
<1>6. Replay(q) = [k \in Key |-> Replay(q)[k]]
  BY DEF Replay
<1> QED
  BY <1>5, <1>6 DEF Apply, q

\* An append that lands adds its own record to the table, and one that is torn
\* adds nothing; nothing else programs the active page.
THEOREM AppendsAreNewest == ASSUME NoEarlyCompaction PROVE Spec => NewestWins
<1> DEFINE Newest ==
       UNCHANGED <<active, ready, compaction>> =>
         \A s \in Slot :
            page'[active][s] # page[active][s] =>
               Replay(page'[active]) = Apply(Replay(page[active]), page'[active][s])
<1>1. LogInv /\ [Next]_vars => Newest
  <2> SUFFICES ASSUME LogInv, [Next]_vars, UNCHANGED <<active, ready, compaction>>,
                      NEW s \in Slot, page'[active][s] # page[active][s]
               PROVE  Replay(page'[active]) = Apply(Replay(page[active]), page'[active][s])
    BY DEF Newest
  <2> USE DEF LogInv, TypeInv, TypeOK
  <2>0. /\ page \in [PageId -> Page] /\ active \in PageId
        /\ page[active] \in Page /\ PagePrefix(page[active])
    BY DEF UsedIsPrefix, PagePrefix
  <2>1. CASE \E r \in Saves : FlashStoreAppend(r)
    <3>0. PICK r \in Saves, t \in Slot :
            /\ IsNextSlot(page[active], t)
            /\ \E p \in {Programmed(page[active], t, r)}
                          \union ProgramRefused(page[active], t) :
                 page' = [page EXCEPT ![active] = p]
      BY <2>1 DEF FlashStoreAppend
    <3>1. PICK p \in {Programmed(page[active], t, r)}
                     \union ProgramRefused(page[active], t) :
            page' = [page EXCEPT ![active] = p]
      BY <3>0
    <3>2. page'[active] = p
      BY <2>0, <3>1
    <3>3. p # page[active]
      BY <3>2
    <3>4. PICK c \in Cell : p = Programmed(page[active], t, c)
      BY <3>1, <3>3, RecordAssumption, RecordShape, Torn \in Cell DEF ProgramRefused, Cell
    <3>5. \A u \in Slot : p[u] = IF u = t THEN c ELSE page[active][u]
      BY <2>0, <3>4 DEF Programmed, Page
    <3>6. s = t /\ page'[active][s] = c
      BY <3>2, <3>5
    <3> QED
      BY <2>0, <3>0, <3>2, <3>4, <3>6, AppendReplay
  <2>2. CASE FlashStoreInit
    BY <2>2 DEF FlashStoreInit
  <2>3. CASE SysTask
    <3>1. phase' = phase /\ todo' = todo
      BY DEF compaction
    <3>2. \A k \in todo : todo # todo \ {k}
      OBVIOUS
    <3>3. ~RewriteRecord
      BY <3>1, <3>2 DEF RewriteRecord, CompactIdle
    <3> QED
      BY <2>3, <3>1, <3>3 DEF SysTask, BeginCompaction, EraseSpare, EraseActive,
                              RewriteDone, SwitchActive, CompactIdle
  <2>4. CASE Reset
    <3>1. phase = "idle" /\ ~ready /\ active = 0
      BY <2>4 DEF Reset, CompactIdle, compaction, CompactionPlace
    <3>2. page'[0] = page[0]
      BY <2>0, <2>4, <3>1 DEF Reset, CutShort, MayAppend, RewriteDone
    <3> QED
      BY <3>1, <3>2
  <2>5. CASE UNCHANGED vars
    BY <2>5 DEF vars
  <2> QED
    BY <2>1, <2>2, <2>3, <2>4, <2>5 DEF Next, ImuTask
<1>2. LogInv /\ [Next]_vars => [Newest]_vars
  BY <1>1
<1> HIDE DEF Newest
<1>3. Spec => [][Newest]_vars
  BY <1>2, LogInvariant, PTL DEF Spec
<1> QED
  BY <1>3 DEF NewestWins, Newest

\* A page with one record of each key of D has as many used slots as D has keys.
LEMMA HoldsExactlyCardinality ==
    ASSUME NEW p \in Page, NEW kv, NEW D \in SUBSET Key, HoldsExactly(p, kv, D),
           \A k \in D : Rec(k, kv[k]) # Blank
    PROVE  Cardinality(Used(p)) = Cardinality(D)
<1> DEFINE f == [s \in Used(p) |-> p[s].key]
<1>1. \A s \in Used(p) : s \in Slot /\ p[s] # Blank
  BY DEF Used
<1>k. \A k : Rec(k, kv[k]).key = k
  BY DEF Rec
<1>2. \A s \in Used(p) : p[s].key \in D /\ p[s] = Rec(p[s].key, kv[p[s].key])
  <2> SUFFICES ASSUME NEW s \in Used(p)
               PROVE  p[s].key \in D /\ p[s] = Rec(p[s].key, kv[p[s].key])
    OBVIOUS
  <2>1. PICK k \in D : p[s] = Rec(k, kv[k])
    BY <1>1 DEF HoldsExactly
  <2>2. p[s].key = k
    BY <1>k, <2>1
  <2> QED
    BY <2>1, <2>2
<1>3. f \in [Used(p) -> D]
  BY <1>2
<1>4. \A s, t \in Used(p) : f[s] = f[t] => s = t
  BY <1>1, <1>2 DEF HoldsExactly
<1>5. \A k \in D : \E s \in Used(p) : f[s] = k
  <2> SUFFICES ASSUME NEW k \in D PROVE \E s \in Used(p) : f[s] = k
    OBVIOUS
  <2>1. PICK s \in Slot : p[s] = Rec(k, kv[k])
    BY DEF HoldsExactly
  <2>2. s \in Used(p)
    BY <2>1 DEF Used
  <2> QED
    BY <1>k, <2>1, <2>2
<1>6. IsFiniteSet(D)
  <2>1. IsFiniteSet(Key)
    BY SizeAssumption, FS_Interval DEF Key
  <2> QED
    BY <2>1, FS_Subset
<1> HIDE DEF f
<1>7. f \in Bijection(Used(p), D)
  BY <1>3, <1>4, <1>5, Fun_IsBij
<1>8. ExistsBijection(Used(p), D)
  BY <1>7 DEF ExistsBijection
<1>9. ExistsBijection(D, Used(p))
  BY <1>8, Fun_ExistsBijSymmetric
<1> QED
  BY <1>6, <1>9, FS_Bijection

\* A compaction frees every slot that it can: the spare has as many used slots
\* as there are keys with a value, whatever the length of the log it replaces.
THEOREM CompactionIsTight ==
    ASSUME NoEarlyCompaction PROVE Spec => []CompactionReclaims
<1>1. LogInv => CompactionReclaims
  <2> SUFFICES ASSUME LogInv, phase \in {"rewrite", "switch"}, todo = {}
               PROVE  Cardinality(Used(page[spare]))
                        = Cardinality({k \in Key : snap[k] # None})
    BY DEF CompactionReclaims
  <2>1. HoldsExactly(page[spare], snap, SurvivingKeys(snap))
    BY ContentsAs DEF LogInv
  <2>2. page[spare] \in Page /\ snap \in [Key -> Value \union {None}]
    BY DEF LogInv, TypeInv, TypeOK
  <2>3. \A k \in SurvivingKeys(snap) : Rec(k, snap[k]) # Blank
    BY <2>2, RewrittenIsRecord, RecordShape DEF SurvivingKeys
  <2> QED
    BY <2>1, <2>2, <2>3, SurvivingKeysAre, HoldsExactlyCardinality DEF SurvivingKeys
<1> QED
  BY <1>1, LogInvariant, PTL

-----------------------------------------------------------------------------
(***************************************************************************)
(* Crash safety: what a reset at a moment of its own choosing recovers.    *)
(* CrashInv relates the two pages while imu_task and a compaction take     *)
(* turns, which NoOverlap says: with an append into a running compaction   *)
(* the record is lost (see FlashStore's Admit).                            *)
(***************************************************************************)
NoOverlap == "overlap" \notin Admit

\* Until the commit the snapshot is what the active page holds.
SnapIsActive == phase \in {"erase_spare", "rewrite"} => snap = Replay(page[active])

\* After the commit's erase the old page is blank or, if it failed, complete.
OldPageHarmless ==
    phase = "switch" => page[active] = BlankPage \/ Replay(page[active]) = snap

\* The spare shadows an active page without a record only if it has none to give.
SpareHarmless ==
    ready /\ phase \in {"idle", "erase_spare"} /\ ~InUse(page[active]) =>
        Replay(page[SparePage(active)]) = NoValues

CrashInv ==
    /\ LogInv
    /\ SnapIsActive
    /\ OldPageHarmless
    /\ SpareHarmless

LEMMA UnusedReplaysNothing ==
    ASSUME NEW p, ~InUse(p)
    PROVE  Replay(p) = NoValues
<1>1. \A k \in Key : ~\E s \in Slot : Decides(p, k, s)
  BY DEF InUse, Decides, Sets
<1> QED
  BY <1>1 DEF Replay, NoValues

LEMMA BlankPageUnused == ~InUse(BlankPage) /\ Replay(BlankPage) = NoValues
<1>1. ~InUse(BlankPage)
  BY RecordAssumption DEF InUse, BlankPage, Valid
<1> QED
  BY <1>1, UnusedReplaysNothing

\* A slot torn by a refused or interrupted program is passed over by a reader.
LEMMA TornIsPassedOver ==
    ASSUME NEW p \in Page, NEW s \in Slot, IsNextSlot(p, s)
    PROVE  /\ Replay(Programmed(p, s, Torn)) = Replay(p)
           /\ InUse(Programmed(p, s, Torn)) <=> InUse(p)
<1> DEFINE q == Programmed(p, s, Torn)
<1>1. \A t \in Slot : q[t] = IF t = s THEN Torn ELSE p[t]
  BY DEF Programmed, Page
<1>2. p[s] = Blank /\ ~Valid(Blank) /\ ~Valid(Torn)
  BY RecordAssumption DEF IsNextSlot, Valid
<1> HIDE DEF q
<1>3. \A t \in Slot : Valid(q[t]) <=> Valid(p[t])
  BY <1>1, <1>2
<1>4. \A t \in Slot : Valid(p[t]) => q[t] = p[t]
  BY <1>1, <1>2
<1>5. \A t \in Slot : \A k : Sets(q[t], k) <=> Sets(p[t], k)
  BY <1>3, <1>4 DEF Sets
<1>6. \A k \in Key : \A t \in Slot : Decides(q, k, t) <=> Decides(p, k, t)
  BY <1>5 DEF Decides
<1>7. ASSUME NEW k \in Key
      PROVE  Replay(q)[k] = Replay(p)[k]
  <2>1. (CHOOSE t \in Slot : Decides(q, k, t)) = (CHOOSE t \in Slot : Decides(p, k, t))
    BY <1>6
  <2>2. \A t \in Slot : Decides(p, k, t) => q[t] = p[t]
    BY <1>4 DEF Decides, Sets
  <2> QED
    BY <1>6, <2>1, <2>2 DEF Replay
<1>8. Replay(q) = [k \in Key |-> Replay(q)[k]] /\ Replay(p) = [k \in Key |-> Replay(p)[k]]
  BY DEF Replay
<1>9. Replay(q) = Replay(p)
  BY <1>7, <1>8
<1>10. InUse(q) <=> InUse(p)
  BY <1>3 DEF InUse
<1> QED
  BY <1>9, <1>10 DEF q

\* What the append of a record makes of the active page.
LEMMA AppendOutcome ==
    ASSUME NEW p \in Page, PagePrefix(p), NEW s \in Slot, IsNextSlot(p, s),
           NEW r \in Record, NEW q \in {Programmed(p, s, r)} \union ProgramRefused(p, s)
    PROVE  /\ Replay(q) = Apply(Replay(p), r) \/ Replay(q) = Replay(p)
           /\ InUse(q) \/ (Replay(q) = Replay(p) /\ ~InUse(p))
<1>1. CASE q = Programmed(p, s, r)
  <2>1. q[s] = r
    BY <1>1 DEF Programmed, Page
  <2>2. InUse(q)
    BY <2>1 DEF InUse, Valid
  <2> QED
    BY <1>1, <2>2, AppendReplay, RecordShape
<1>2. CASE q = Programmed(p, s, Torn)
  BY <1>2, TornIsPassedOver
<1>3. CASE q = p
  BY <1>3
<1> QED
  BY <1>1, <1>2, <1>3 DEF ProgramRefused

\* A record without a key to set leaves the table alone, so an empty table has
\* nothing to rewrite.
LEMMA NothingToRewrite == SurvivingKeys(NoValues) = {}
BY DEF SurvivingKeys, NoValues

LEMMA CrashInvInit == Init => CrashInv
<1> SUFFICES ASSUME Init PROVE CrashInv
  OBVIOUS
<1>1. SnapIsActive /\ OldPageHarmless /\ SpareHarmless
  BY DEF Init, SnapIsActive, OldPageHarmless, SpareHarmless
<1> QED
  BY <1>1, LogInvInit DEF CrashInv

\* The pages in the states that the steps of a compaction see.
LEMMA PageTypes ==
    ASSUME TypeOK
    PROVE  /\ page \in [PageId -> Page] /\ DOMAIN page = PageId
           /\ 0 \in PageId /\ 1 \in PageId
           /\ active \in PageId /\ spare \in PageId /\ SparePage(active) \in PageId
           /\ page[active] \in Page /\ page[spare] \in Page
           /\ page[0] \in Page /\ page[1] \in Page
           /\ SparePage(active) # active
BY DEF TypeOK, PageId, SparePage

LEMMA CrashInvNext ==
    ASSUME NoEarlyCompaction, NoOverlap, CrashInv, LogInv', [Next]_vars
    PROVE  SnapIsActive' /\ OldPageHarmless' /\ SpareHarmless'
<1>0. TypeOK /\ LogInv /\ CompactionPlace /\ UsedIsPrefix
  BY DEF CrashInv, LogInv, TypeInv
<1>1. CASE FlashStoreInit
  <2>1. phase = "idle" /\ phase' = "idle"
    BY <1>0, <1>1 DEF FlashStoreInit, compaction, CompactionPlace
  <2>2. ASSUME ~InUse(page'[active'])
        PROVE  Replay(page'[SparePage(active')]) = NoValues
    <3>1. CASE InUse(page[0]) /\ InUse(page[1])
      <4>1. active' = 0 /\ page'[0] = page[0]
        BY <1>0, <1>1, <3>1, PageTypes DEF FlashStoreInit, BootPage
      <4> QED
        BY <2>2, <3>1, <4>1
    <3>2. CASE ~(InUse(page[0]) /\ InUse(page[1]))
      <4>1. page' = page /\ active' = BootPage(page)
        BY <1>1, <3>2 DEF FlashStoreInit
      <4>2. active' = 0 /\ ~InUse(page[1])
        BY <2>2, <3>2, <4>1 DEF BootPage
      <4>3. SparePage(active') = 1
        BY <4>2 DEF SparePage
      <4> QED
        BY <4>1, <4>2, <4>3, UnusedReplaysNothing
    <3> QED
      BY <3>1, <3>2
  <2> QED
    BY <2>1, <2>2 DEF SnapIsActive, OldPageHarmless, SpareHarmless
<1>2. ASSUME NEW r \in Saves, FlashStoreAppend(r)
      PROVE  SnapIsActive' /\ OldPageHarmless' /\ SpareHarmless'
  <2>1. phase = "idle" /\ ready /\ UNCHANGED <<active, ready, compaction>>
    BY <1>2 DEF FlashStoreAppend, MayAppend, NoOverlap
  <2>2. PICK s \in Slot :
          /\ IsNextSlot(page[active], s)
          /\ \E p \in {Programmed(page[active], s, r)}
                        \union ProgramRefused(page[active], s) :
               page' = [page EXCEPT ![active] = p]
    BY <1>2 DEF FlashStoreAppend
  <2>3. PICK p \in {Programmed(page[active], s, r)}
                     \union ProgramRefused(page[active], s) :
          page' = [page EXCEPT ![active] = p]
    BY <2>2
  <2>4. /\ page'[active] = p
        /\ page'[SparePage(active)] = page[SparePage(active)]
    BY <1>0, <2>3, PageTypes
  <2>5. PagePrefix(page[active]) /\ r \in Record
    BY <1>0, PageTypes, RecordAssumption DEF UsedIsPrefix, PagePrefix
  <2>6. InUse(p) \/ ~InUse(page[active])
    BY <1>0, <2>2, <2>3, <2>5, PageTypes, AppendOutcome
  <2>7. SpareHarmless'
    BY <2>1, <2>4, <2>6 DEF SpareHarmless, CrashInv
  <2> QED
    BY <2>1, <2>7 DEF SnapIsActive, OldPageHarmless, compaction
<1>3. CASE BeginCompaction
  <2>1. /\ phase = "idle" /\ phase' = "erase_spare" /\ snap' = Replay(page[active])
        /\ UNCHANGED <<page, active, ready>>
    BY <1>3 DEF BeginCompaction
  <2> QED
    BY <2>1 DEF SnapIsActive, OldPageHarmless, SpareHarmless, CrashInv
<1>4. CASE EraseSpare
  <2>1. CASE page' = [page EXCEPT ![spare] = BlankPage] /\ phase' = "rewrite"
               /\ UNCHANGED <<spare, snap, todo, next>>
    <3>1. spare # active
      BY <1>0, <1>4, OtherPage DEF EraseSpare, CompactionPlace, TypeOK
    <3>2. page'[active] = page[active] /\ active' = active /\ snap' = snap
      BY <1>0, <1>4, <2>1, <3>1, PageTypes DEF EraseSpare
    <3> QED
      BY <1>4, <2>1, <3>2
      DEF SnapIsActive, OldPageHarmless, SpareHarmless, CrashInv, EraseSpare
  <2>2. CASE UNCHANGED page /\ CompactIdle
    BY <1>4, <2>2 DEF SnapIsActive, OldPageHarmless, SpareHarmless, CrashInv, EraseSpare,
                      CompactIdle
  <2> QED
    BY <1>4, <2>1, <2>2 DEF EraseSpare
<1>5. CASE RewriteRecord
  <2>1. PICK p : page' = [page EXCEPT ![spare] = p]
    BY <1>5 DEF RewriteRecord
  <2>2. spare # active /\ phase = "rewrite" /\ active' = active
    BY <1>0, <1>5, OtherPage DEF RewriteRecord, CompactionPlace, TypeOK
  <2>3. page'[active] = page[active]
    BY <1>0, <2>1, <2>2, PageTypes
  <2>4. snap = Replay(page[active])
    BY <2>2 DEF CrashInv, SnapIsActive
  <2>5. InUse(page[active])
    <3>1. PICK k \in todo : snap[k] # None /\ k \in Key
      BY <1>0, <1>5 DEF RewriteRecord, LogInv, TypeInv, TodoHasValues, TypeOK
    <3>2. snap # NoValues
      BY <3>1 DEF NoValues
    <3> QED
      BY <2>4, <3>2, UnusedReplaysNothing
  <2>6. \/ phase' = "rewrite" /\ snap' = snap
        \/ phase' = "idle"
    BY <1>5, <2>2 DEF RewriteRecord, CompactIdle
  <2> QED
    BY <2>2, <2>3, <2>4, <2>5, <2>6 DEF SnapIsActive, OldPageHarmless, SpareHarmless
<1>6. CASE EraseActive
  <2>1. /\ phase' = "switch" /\ snap' = snap /\ active' = active
        /\ page'[active] = BlankPage \/ page'[active] = page[active]
        /\ phase = "rewrite"
    BY <1>0, <1>6, PageTypes DEF EraseActive, RewriteDone
  <2> QED
    BY <2>1 DEF SnapIsActive, OldPageHarmless, SpareHarmless, CrashInv
<1>7. CASE SwitchActive
  <2>1. /\ phase = "switch" /\ phase' = "idle" /\ active' = spare /\ page' = page
        /\ spare = SparePage(active) /\ todo = {}
    BY <1>0, <1>7 DEF SwitchActive, CompactIdle, CompactionPlace
  <2>2. SparePage(active') = active
    BY <1>0, <2>1 DEF SparePage, TypeOK, PageId
  <2>3. ASSUME ~InUse(page[spare]) PROVE Replay(page[active]) = NoValues
    <3>1. Replay(page[spare]) = snap
      <4>1. HoldsExactly(page[spare], snap, SurvivingKeys(snap))
        BY <1>0, <2>1, ContentsAs DEF LogInv
      <4> QED
        BY <1>0, <4>1, PageTypes, ReplayOfTable DEF TypeOK
    <3>2. snap = NoValues
      BY <2>3, <3>1, UnusedReplaysNothing
    <3> QED
      BY <2>1, <3>2, BlankPageUnused DEF CrashInv, OldPageHarmless
  <2> QED
    BY <2>1, <2>2, <2>3 DEF SnapIsActive, OldPageHarmless, SpareHarmless
<1>8. CASE Reset
  BY <1>8 DEF Reset, CompactIdle, SnapIsActive, OldPageHarmless, SpareHarmless
<1>9. CASE UNCHANGED vars
  BY <1>9 DEF vars, CrashInv, SnapIsActive, OldPageHarmless, SpareHarmless
<1> QED
  BY <1>1, <1>2, <1>3, <1>4, <1>5, <1>6, <1>7, <1>8, <1>9
  DEF Next, ImuTask, SysTask

LEMMA CrashInvariant == ASSUME NoEarlyCompaction, NoOverlap PROVE Spec => []CrashInv
<1>1. LogInv /\ [Next]_vars => LogInv'
  BY TypeInvNext, PrefixNext, PlaceNext, WrittenNext, ContentsNext DEF LogInv
<1>2. CrashInv /\ [Next]_vars => CrashInv'
  BY <1>1, CrashInvNext DEF CrashInv
<1> QED
  BY <1>2, CrashInvInit, PTL DEF Spec

\* A finished rewrite holds the snapshot, record by record.
LEMMA RewrittenIsSnap ==
    ASSUME LogInv, phase \in {"rewrite", "switch"}, todo = {}
    PROVE  Replay(page[spare]) = snap
<1>1. HoldsExactly(page[spare], snap, SurvivingKeys(snap))
  BY ContentsAs DEF LogInv
<1> QED
  BY <1>1, PageTypes, ReplayOfTable DEF LogInv, TypeInv, TypeOK

\* While a table without values is rewritten the spare stays empty.
LEMMA NothingRewritten ==
    ASSUME LogInv, phase = "rewrite", snap = NoValues
    PROVE  todo = {} /\ ~InUse(page[spare])
<1>1. todo = {}
  BY DEF LogInv, TypeInv, TypeOK, TodoHasValues, NoValues
<1>2. \A s \in Slot : page[spare][s] = Blank
  BY NothingToRewrite DEF LogInv, SpareContents
<1> QED
  BY <1>1, <1>2, RecordAssumption DEF InUse, Valid

LEMMA RecoveredIsLive ==
    ASSUME CrashInv, ready, ~StaleTie
    PROVE  Replay(page[BootPage(page)]) = Live
<1>0. TypeOK /\ LogInv /\ CompactionPlace
  BY DEF CrashInv, LogInv, TypeInv
<1>a. active = 0 \/ active = 1
  BY <1>0 DEF TypeOK, PageId
<1>1. CASE phase \in {"idle", "erase_spare"}
  <2>1. Live = Replay(page[active])
    BY <1>1 DEF Live
  <2>2. CASE InUse(page[active])
    <3>1. BootPage(page) = active
      BY <1>1, <1>a, <2>2 DEF BootPage, StaleTie, RewriteDone
    <3> QED
      BY <2>1, <3>1
  <2>3. CASE ~InUse(page[active])
    <3>1. Replay(page[active]) = NoValues /\ Replay(page[SparePage(active)]) = NoValues
      BY <1>1, <2>3, UnusedReplaysNothing DEF CrashInv, SpareHarmless
    <3>2. BootPage(page) \in {active, SparePage(active)}
      BY <1>a DEF BootPage, SparePage
    <3> QED
      BY <2>1, <3>1, <3>2
  <2> QED
    BY <2>2, <2>3
<1>2. CASE phase = "rewrite"
  <2>1. /\ Live = Replay(page[active]) /\ snap = Replay(page[active])
        /\ spare = SparePage(active)
    BY <1>0, <1>2 DEF Live, CrashInv, SnapIsActive, CompactionPlace
  <2>2. BootPage(page) \in {active, spare}
    BY <1>a, <2>1 DEF BootPage, SparePage
  <2>3. CASE todo = {}
    <3>1. Replay(page[spare]) = snap
      BY <1>0, <1>2, <2>3, RewrittenIsSnap
    <3> QED
      BY <2>1, <2>2, <3>1
  <2>4. CASE todo # {}
    <3>1. snap # NoValues
      BY <1>0, <1>2, <2>4, NothingRewritten
    <3>2. InUse(page[active])
      BY <2>1, <3>1, UnusedReplaysNothing
    <3>3. BootPage(page) = active
      BY <1>2, <1>a, <2>4, <3>2 DEF BootPage, StaleTie, RewriteDone
    <3> QED
      BY <2>1, <3>3
  <2> QED
    BY <2>3, <2>4
<1>3. CASE phase = "switch"
  <2>1. /\ Live = Replay(page[spare]) /\ Replay(page[spare]) = snap
        /\ spare = SparePage(active)
    BY <1>0, <1>3, RewrittenIsSnap DEF Live, CompactionPlace
  <2>2. \/ ~InUse(page[active])
        \/ Replay(page[active]) = snap
    BY <1>3, BlankPageUnused DEF CrashInv, OldPageHarmless
  <2>3. BootPage(page) \in {active, spare}
    BY <1>a, <2>1 DEF BootPage, SparePage
  <2>4. CASE BootPage(page) = spare
    BY <2>1, <2>4
  <2>5. CASE BootPage(page) = active /\ InUse(page[active])
    BY <2>1, <2>2, <2>5
  <2>6. CASE BootPage(page) = active /\ ~InUse(page[active])
    <3>1. ~InUse(page[spare])
      BY <1>a, <2>1, <2>6 DEF BootPage, SparePage
    <3> QED
      BY <2>1, <2>6, <3>1, UnusedReplaysNothing
  <2> QED
    BY <2>3, <2>4, <2>5, <2>6
<1> QED
  BY <1>0, <1>1, <1>2, <1>3 DEF TypeOK, Phases

\* At every moment, between the operations of a compaction too, the pages as they
\* stand, none of them cut short, recover the saved table, except in the states of
\* StaleTie, which the code recovers from wrongly: a reset between two flash
\* operations is safe outside of them.  A reset inside an operation is not part of
\* it; what that changes is for ImplementsDurableStore, where no erase is cut in part.
THEOREM ResetsAreSafe ==
    ASSUME NoEarlyCompaction, NoOverlap PROVE Spec => []OnlyTieLosesData
<1>1. CrashInv => OnlyTieLosesData
  BY RecoveredIsLive DEF OnlyTieLosesData
<1> QED
  BY <1>1, CrashInvariant, PTL

-----------------------------------------------------------------------------
(***************************************************************************)
(* The store implements DurableStore: a compaction and a failed program    *)
(* are not seen, an append is one operation of the table, and a reset,     *)
(* which may cut a flash operation short, changes nothing.                 *)
(***************************************************************************)
WholeErase == "partial_erase" \notin Admit
NoTieReset == "tie_reset" \notin Admit

\* An erase cut short leaves no record, if it leaves rubble in every used slot.
LEMMA CutEraseUnused ==
    ASSUME WholeErase, NEW p \in Page, NEW q \in CutErase(p)
    PROVE  ~InUse(q)
<1>1. CASE q = BlankPage
  BY <1>1, BlankPageUnused
<1>2. CASE q = [s \in Slot |-> IF s \in Used(p) THEN Torn ELSE p[s]]
  <2>1. \A s \in Slot : q[s] = Torn \/ q[s] = Blank
    BY <1>2 DEF Used
  <2> QED
    BY <2>1, RecordAssumption DEF InUse, Valid
<1> QED
  BY <1>1, <1>2 DEF CutErase, WholeErase

\* A reset that comes while the pages are in order recovers the live table,
\* also when it cuts a program or an erase short.
LEMMA ResetKeepsLive ==
    ASSUME NoOverlap, WholeErase, NoTieReset, CrashInv, ready, Reset
    PROVE  Live' = Live
<1>0. TypeOK /\ LogInv /\ CompactionPlace /\ UsedIsPrefix
  BY DEF CrashInv, LogInv, TypeInv
<1>a. active = 0 \/ active = 1
  BY <1>0 DEF TypeOK, PageId
<1>1. Live' = Replay(page'[BootPage(page')])
  BY DEF Reset, Live
<1>2. Live = Replay(page[BootPage(page)])
  BY RecoveredIsLive DEF Reset, NoTieReset
<1>3. CASE UNCHANGED page
  BY <1>1, <1>2, <1>3
<1>4. ASSUME NEW i \in PageId, NEW s \in Slot, IsNextSlot(page[i], s),
             page' = [page EXCEPT ![i] = Programmed(@, s, Torn)]
      PROVE  Live' = Live
  <2>1. \A j \in PageId : /\ Replay(page'[j]) = Replay(page[j])
                          /\ InUse(page'[j]) <=> InUse(page[j])
    <3> SUFFICES ASSUME NEW j \in PageId
                 PROVE  /\ Replay(page'[j]) = Replay(page[j])
                        /\ InUse(page'[j]) <=> InUse(page[j])
      OBVIOUS
    <3>1. CASE j = i
      <4>1. page'[j] = Programmed(page[i], s, Torn) /\ page[i] \in Page
        BY <1>0, <1>4, <3>1 DEF TypeOK
      <4> QED
        BY <1>4, <3>1, <4>1, TornIsPassedOver
    <3>2. CASE j # i
      BY <1>0, <1>4, <3>2 DEF TypeOK
    <3> QED
      BY <3>1, <3>2
  <2>2. BootPage(page') = BootPage(page) /\ BootPage(page) \in PageId
    BY <1>0, <2>1, PageTypes DEF BootPage
  <2> QED
    BY <1>1, <1>2, <2>1, <2>2
<1>5. ASSUME NEW q \in CutErase(page[spare]), phase = "erase_spare",
             page' = [page EXCEPT ![spare] = q]
      PROVE  Live' = Live
  <2>1. spare = SparePage(active) /\ Live = Replay(page[active])
    BY <1>0, <1>5 DEF CompactionPlace, Live
  <2>2. page'[spare] = q /\ page'[active] = page[active] /\ ~InUse(q)
    BY <1>0, <1>5, <2>1, PageTypes, CutEraseUnused
  <2>3. BootPage(page') \in {active, spare}
    BY <1>a, <2>1 DEF BootPage, SparePage
  <2>4. CASE InUse(page[active])
    <3>1. BootPage(page') = active
      BY <1>a, <2>1, <2>2, <2>4 DEF BootPage, SparePage
    <3> QED
      BY <1>1, <2>1, <2>2, <3>1
  <2>5. CASE ~InUse(page[active])
    BY <1>1, <2>1, <2>2, <2>3, <2>5, UnusedReplaysNothing
  <2> QED
    BY <2>4, <2>5
<1>6. ASSUME NEW q \in CutErase(page[active]), RewriteDone,
             page' = [page EXCEPT ![active] = q]
      PROVE  Live' = Live
  <2>1. /\ spare = SparePage(active) /\ Live = Replay(page[active])
        /\ snap = Replay(page[active]) /\ Replay(page[spare]) = snap
    BY <1>0, <1>6, RewrittenIsSnap DEF RewriteDone, CompactionPlace, Live, CrashInv, SnapIsActive
  <2>2. page'[active] = q /\ page'[spare] = page[spare] /\ ~InUse(q)
    BY <1>0, <1>6, <2>1, PageTypes, CutEraseUnused
  <2>3. BootPage(page') \in {active, spare}
    BY <1>a, <2>1 DEF BootPage, SparePage
  <2>4. CASE InUse(page[spare])
    <3>1. BootPage(page') = spare
      BY <1>a, <2>1, <2>2, <2>4 DEF BootPage, SparePage
    <3> QED
      BY <1>1, <2>1, <2>2, <3>1
  <2>5. CASE ~InUse(page[spare])
    BY <1>1, <2>1, <2>2, <2>3, <2>5, UnusedReplaysNothing
  <2> QED
    BY <2>4, <2>5
<1>7. phase = "rewrite" /\ next \in Slot => IsNextSlot(page[spare], next)
  BY <1>0, RewriteSlot
<1> QED
  BY <1>0, <1>3, <1>4, <1>5, <1>6, <1>7, PageTypes DEF Reset, CutShort

\* Each record is one operation of the table, or none: a gate cleared at an
\* index that does not exist.
LEMMA ApplyIsOperation ==
    ASSUME NEW t \in [Key -> Value \union {None}], NEW r \in Record
    PROVE  \/ Apply(t, r) = t
           \/ \E k \in Key, v \in Value : Apply(t, r) = [t EXCEPT ![k] = v]
           \/ \E k \in Gate : Apply(t, r) = [t EXCEPT ![k] = None]
           \/ Apply(t, r) = [k \in Key |-> IF k = MagKey THEN t[k] ELSE None]
<1>0. /\ \A k \in Key : k # AllGates /\ k # StrayIndex
      /\ \A k \in Key : k \in Gate <=> k # MagKey
      /\ Gate \subseteq Key /\ StrayIndex # AllGates
  BY SizeAssumption DEF Key, Gate, MagKey, AllGates, StrayIndex
<1>1. Valid(r)
  BY DEF Valid
<1>2. CASE \E k \in Key, v \in Value : r = Rec(k, v)
  <2>1. PICK k \in Key, v \in Value : r.key = k /\ r.val = v
    BY <1>2 DEF Rec
  <2>2. \A j \in Key : Sets(r, j) <=> j = k
    BY <1>0, <1>1, <2>1 DEF Sets
  <2>3. Apply(t, r) = [t EXCEPT ![k] = v]
    BY <2>1, <2>2 DEF Apply
  <2> QED
    BY <2>3
<1>3. CASE \E k \in Gate : r = Rec(k, None)
  <2>1. PICK k \in Gate : r.key = k /\ r.val = None
    BY <1>3 DEF Rec
  <2>2. \A j \in Key : Sets(r, j) <=> j = k
    BY <1>0, <1>1, <2>1 DEF Sets
  <2>3. Apply(t, r) = [t EXCEPT ![k] = None]
    BY <2>1, <2>2 DEF Apply
  <2> QED
    BY <2>3
<1>4. CASE r = Rec(StrayIndex, None)
  <2>1. r.key = StrayIndex
    BY <1>4 DEF Rec
  <2>2. \A j \in Key : ~Sets(r, j)
    BY <1>0, <2>1 DEF Sets
  <2>3. Apply(t, r) = t
    BY <2>2 DEF Apply
  <2> QED
    BY <2>3
<1>5. CASE r = Rec(AllGates, None)
  <2>1. r.key = AllGates /\ r.val = None
    BY <1>5 DEF Rec
  <2>2. \A j \in Key : Sets(r, j) <=> j # MagKey
    BY <1>0, <1>1, <2>1 DEF Sets
  <2>3. Apply(t, r) = [k \in Key |-> IF k = MagKey THEN t[k] ELSE None]
    BY <2>1, <2>2 DEF Apply
  <2> QED
    BY <2>3
<1> QED
  BY <1>2, <1>3, <1>4, <1>5 DEF Record

LEMMA AppendIsOperation ==
    ASSUME NoOverlap, CrashInv, NEW r \in Saves, FlashStoreAppend(r)
    PROVE  /\ ready /\ UNCHANGED ready
           /\ Live' = Live \/ Live' = Apply(Live, r)
<1>0. TypeOK /\ UsedIsPrefix
  BY DEF CrashInv, LogInv, TypeInv
<1>1. phase = "idle" /\ ready /\ UNCHANGED <<active, ready, compaction>>
  BY DEF FlashStoreAppend, MayAppend, NoOverlap
<1>2. Live = Replay(page[active]) /\ Live' = Replay(page'[active])
  BY <1>1 DEF Live, compaction
<1>3. PICK s \in Slot :
        /\ IsNextSlot(page[active], s)
        /\ \E p \in {Programmed(page[active], s, r)} \union ProgramRefused(page[active], s) :
             page' = [page EXCEPT ![active] = p]
  BY DEF FlashStoreAppend
<1>4. PICK p \in {Programmed(page[active], s, r)} \union ProgramRefused(page[active], s) :
        page'[active] = p
  BY <1>0, <1>3, PageTypes
<1>5. PagePrefix(page[active]) /\ r \in Record
  BY <1>0, PageTypes, RecordAssumption DEF UsedIsPrefix, PagePrefix
<1>6. Replay(p) = Apply(Replay(page[active]), r) \/ Replay(p) = Replay(page[active])
  BY <1>0, <1>3, <1>4, <1>5, PageTypes, AppendOutcome
<1> QED
  BY <1>1, <1>2, <1>4, <1>6

\* A compaction is not seen by the readers of the store, at any of its steps.
LEMMA CompactionIsHidden ==
    ASSUME NoEarlyCompaction, CrashInv, SysTask
    PROVE  Live' = Live /\ UNCHANGED ready
<1>0. TypeOK /\ LogInv /\ CompactionPlace
  BY DEF CrashInv, LogInv, TypeInv
<1>p. phase # "idle" => ready /\ spare = SparePage(active) /\ spare # active
  BY <1>0, PageTypes DEF CompactionPlace
<1>1. CASE BeginCompaction
  BY <1>1 DEF BeginCompaction, NoEarlyCompaction, Live
<1>2. CASE EraseSpare
  <2>1. page'[active] = page[active] /\ phase' # "switch"
    BY <1>0, <1>2, <1>p, PageTypes DEF EraseSpare, CompactIdle
  <2> QED
    BY <1>2, <1>p, <2>1 DEF EraseSpare, Live
<1>3. CASE RewriteRecord
  <2>1. PICK p : page' = [page EXCEPT ![spare] = p]
    BY <1>3 DEF RewriteRecord
  <2>2. phase = "rewrite" /\ phase' # "switch" /\ UNCHANGED <<active, ready>>
    BY <1>3 DEF RewriteRecord, CompactIdle
  <2>3. page'[active] = page[active]
    BY <1>0, <1>p, <2>1, <2>2, PageTypes
  <2> QED
    BY <1>p, <2>2, <2>3 DEF Live
<1>4. CASE EraseActive
  <2>1. phase = "rewrite" /\ todo = {} /\ phase' = "switch"
        /\ UNCHANGED <<active, ready, spare>>
    BY <1>4 DEF EraseActive, RewriteDone
  <2>2. page'[spare] = page[spare]
    BY <1>0, <1>4, <1>p, <2>1, PageTypes DEF EraseActive
  <2>3. Replay(page[spare]) = snap /\ snap = Replay(page[active])
    BY <1>0, <2>1, RewrittenIsSnap DEF CrashInv, SnapIsActive
  <2> QED
    BY <1>p, <2>1, <2>2, <2>3 DEF Live
<1>5. CASE SwitchActive
  BY <1>5, <1>p DEF SwitchActive, CompactIdle, Live
<1> QED
  BY <1>1, <1>2, <1>3, <1>4, <1>5 DEF SysTask

LEMMA LiveType == TypeOK => Live \in [Key -> Value \union {None}]
<1> SUFFICES ASSUME TypeOK PROVE Live \in [Key -> Value \union {None}]
  OBVIOUS
<1>1. page[BootPage(page)] \in Page
  BY PageTypes DEF BootPage
<1> QED
  BY <1>1, PageTypes, ReplayType DEF Live

LEMMA DurableInit == Init => Durable!Init
<1> SUFFICES ASSUME Init PROVE Durable!Init
  OBVIOUS
<1>1. page[BootPage(page)] = BlankPage
  BY DEF Init, BootPage, PageId
<1>2. Live = NoValues
  BY <1>1, BlankPageUnused DEF Live, Init
<1> QED
  BY <1>2 DEF Init, Durable!Init, NoValues, Key, Durable!Key

LEMMA DurableStep ==
    ASSUME NoEarlyCompaction, NoOverlap, WholeErase, NoTieReset, CrashInv, [Next]_vars
    PROVE  [Durable!Next]_Durable!vars
<1>k. Durable!Key = Key /\ Durable!Gate = Gate /\ Durable!MagKey = MagKey
  BY DEF Durable!Key, Durable!Gate, Durable!MagKey, Key, Gate, MagKey
<1>0. TypeOK /\ LogInv /\ CompactionPlace
  BY DEF CrashInv, LogInv, TypeInv
<1>s. Live' = Live /\ ready' = ready => UNCHANGED Durable!vars
  BY DEF Durable!vars
<1>1. CASE FlashStoreInit
  <2>1. Live' = Live /\ ~ready /\ ready' = TRUE
    BY <1>0, <1>1, RecoveryStep DEF FlashStoreInit
  <2>2. Durable!Restart
    BY <2>1 DEF Durable!Restart
  <2> QED
    BY <2>2 DEF Durable!Next
<1>2. ASSUME NEW r \in Saves, FlashStoreAppend(r)
      PROVE  [Durable!Next]_Durable!vars
  <2>1. ready /\ UNCHANGED ready /\ (Live' = Live \/ Live' = Apply(Live, r))
    BY <1>2, AppendIsOperation
  <2>2. Live \in [Key -> Value \union {None}] /\ r \in Record
    BY <1>0, LiveType, RecordAssumption
  <2>3. \/ Live' = Live
        \/ \E k \in Key, v \in Value : Live' = [Live EXCEPT ![k] = v]
        \/ \E k \in Gate : Live' = [Live EXCEPT ![k] = None]
        \/ Live' = [k \in Key |-> IF k = MagKey THEN Live[k] ELSE None]
    BY <2>1, <2>2, ApplyIsOperation
  <2>4. CASE Live' = Live
    BY <1>s, <2>1, <2>4
  <2>5. CASE \E k \in Key, v \in Value : Live' = [Live EXCEPT ![k] = v]
    BY <1>k, <2>1, <2>5 DEF Durable!Save, Durable!Next
  <2>6. CASE \E k \in Gate : Live' = [Live EXCEPT ![k] = None]
    BY <1>k, <2>1, <2>6 DEF Durable!ClearGate, Durable!Next
  <2>7. CASE Live' = [k \in Key |-> IF k = MagKey THEN Live[k] ELSE None]
    BY <1>k, <2>1, <2>7 DEF Durable!ClearAllGates, Durable!Next
  <2> QED
    BY <2>3, <2>4, <2>5, <2>6, <2>7
<1>3. CASE SysTask
  BY <1>3, <1>s, CompactionIsHidden
<1>4. CASE Reset /\ ready
  <2>1. Live' = Live /\ ready /\ ready' = FALSE
    BY <1>4, ResetKeepsLive DEF Reset
  <2>2. Durable!PowerLoss
    BY <2>1 DEF Durable!PowerLoss
  <2> QED
    BY <2>2 DEF Durable!Next
<1>5. CASE Reset /\ ~ready
  <2>1. Live' = Live /\ ready' = ready
    BY <1>0, <1>5, RecoveryStep DEF Reset, TypeOK
  <2> QED
    BY <1>s, <2>1
<1>6. CASE UNCHANGED vars
  BY <1>6, <1>s DEF vars, Live
<1> QED
  BY <1>1, <1>2, <1>3, <1>4, <1>5, <1>6 DEF Next, ImuTask

\* The whole store, two pages, log, compaction and resets included, behaves as
\* a table whose saves are atomic and survive every power cycle, whatever the
\* sizes and whichever flash operations fail.
THEOREM ImplementsDurableStore ==
    ASSUME NoEarlyCompaction, NoOverlap, WholeErase, NoTieReset
    PROVE  Spec => DurableStoreImplemented
<1>1. CrashInv /\ [Next]_vars => [Durable!Next]_Durable!vars
  BY DurableStep
<1> QED
  BY <1>1, DurableInit, CrashInvariant, PTL DEF Spec, DurableStoreImplemented, Durable!Spec
=============================================================================

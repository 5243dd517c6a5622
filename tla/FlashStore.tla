----------------------------- MODULE FlashStore -----------------------------
(***************************************************************************)
(* persist/flash_store.c: the append-only record log on two flash pages    *)
(* that keeps the gate table and the magnetometer calibration, with the    *)
(* two tasks that call it.                                                 *)
(*                                                                         *)
(* imu_task (priority 6) runs flash_store_init at boot and appends one     *)
(* record per gate edit or calibration save.  sys_task (priority 1) runs   *)
(* flash_store_erase_and_compact, which imu_task can preempt between any   *)
(* two flash operations: each erase and each record program is a step.     *)
(* Nothing preempts imu_task except interrupts, so an append is one step.  *)
(* A reset may come at any moment, inside a flash operation too.           *)
(*                                                                         *)
(* A record is its key and its value.  A gate record's key is its index, a *)
(* calibration's is MagKey, a clear-all's is AllGates, and StrayIndex      *)
(* stands for the index bytes at or above FLASH_STORE_MAX_GATES.  A        *)
(* cleared gate and a clear-all carry None.  The CRC is not computed: a    *)
(* cell is erased, torn (programmed in part, so its CRC fails) or holds a  *)
(* record.                                                                 *)
(***************************************************************************)
EXTENDS Integers, Sequences, FiniteSets

CONSTANTS
    NumSlots,   \* FLASH_STORE_MAX_RECORDS: record slots of a page
    MaxGates,   \* FLASH_STORE_MAX_GATES
    Value,      \* payloads of gate and calibration records
    None,       \* the value of a cleared key
    Blank,      \* an erased slot, all 0xFF
    Torn,       \* a slot that is neither erased nor CRC-valid
    Saves,      \* the records imu_task appends in this instance
    Admit       \* which awkward environment behaviours a run admits

(***************************************************************************)
(* The environment behaviours that a run or a theorem may leave out:       *)
(*   "program_error", "erase_error"  a HAL flash call reports an error;    *)
(*   "partial_erase"  a reset inside an erase leaves some records legible; *)
(*   "tie_reset"      a reset while page 0 holds a copy that is not the    *)
(*                    live one (see StaleTie);                             *)
(*   "overlap"        imu_task appends while a compaction is under way;    *)
(*   "early_compact"  sys_task compacts before flash_store_init has run.   *)
(***************************************************************************)
Behaviours == {"program_error", "erase_error", "partial_erase", "tie_reset",
               "overlap", "early_compact"}

ASSUME SizeAssumption ==
    /\ MaxGates \in Nat \ {0}
    /\ NumSlots \in Nat
    /\ MaxGates + 1 <= NumSlots         \* 8 gates and a calibration, 64 slots
ASSUME CellAssumption ==
    /\ None \notin Value
    /\ Blank # Torn
ASSUME AdmitAssumption == Admit \subseteq Behaviours

-----------------------------------------------------------------------------
(* Keys, records, cells and pages.                                         *)

Gate == 0 .. MaxGates - 1
MagKey == MaxGates
Key == 0 .. MaxGates
StrayIndex == MaxGates + 1
AllGates == MaxGates + 2

Slot == 0 .. NumSlots - 1
PageId == {0, 1}

Rec(k, v) == [key |-> k, val |-> v]

Record ==
    {Rec(k, v) : k \in Key, v \in Value}
        \union {Rec(k, None) : k \in Gate \union {StrayIndex, AllGates}}

ASSUME RecordAssumption ==
    /\ {Blank, Torn} \cap Record = {}
    /\ Saves \subseteq Record

Cell == Record \union {Blank, Torn}
Page == [Slot -> Cell]
BlankPage == [s \in Slot |-> Blank]

\* flash_store_record_is_valid
Valid(c) == c \in Record

\* The keys that a record gives a value to.
Sets(c, k) ==
    /\ Valid(c)
    /\ c.key = k \/ (c.key = AllGates /\ k \in Gate)

\* As Apply, with the clear-all branch missing from the loop.
Apply_IgnoresClearAll(kv, c) ==
    [k \in Key |-> IF Valid(c) /\ c.key = k THEN c.val ELSE kv[k]]

\* One turn of the replay loop.
Apply(kv, c) == [k \in Key |-> IF Sets(c, k) THEN c.val ELSE kv[k]]

\* s is the slot whose record decides key k.
Decides(p, k, s) ==
    /\ Sets(p[s], k)
    /\ \A t \in Slot : t > s => ~Sets(p[t], k)

(***************************************************************************)
(* What flash_store_restore and the first loop of the compaction read from *)
(* a page: the newest record wins, key by key.  ReplayLoop is the loop as  *)
(* the code runs it; a run checks that the two agree.                      *)
(***************************************************************************)
Replay(p) ==
    [k \in Key |-> IF \E s \in Slot : Decides(p, k, s)
                   THEN p[CHOOSE s \in Slot : Decides(p, k, s)].val
                   ELSE None]

ReplayLoop(p) ==
    LET after[n \in 0 .. NumSlots] ==
            IF n = 0 THEN [k \in Key |-> None] ELSE Apply(after[n - 1], p[n - 1])
    IN after[NumSlots]

\* As IsNextSlot, scanning from the end of the page.
IsNextSlot_FromEnd(p, s) ==
    /\ p[s] = Blank
    /\ \A t \in Slot : t > s => p[t] # Blank

\* flash_store_find_next_slot: NumSlots when the page has no erased slot.
IsNextSlot(p, s) ==
    /\ p[s] = Blank
    /\ \A t \in Slot : t < s => p[t] # Blank

\* flash_store_page_in_use
InUse(p) == \E s \in Slot : Valid(p[s])

\* As BootPage, preferring page 1 to page 0.
BootPage_PreferOne(pg) == IF InUse(pg[1]) THEN 1 ELSE 0

\* The page flash_store_init makes active: page 1 only if it alone is in use.
BootPage(pg) == IF InUse(pg[1]) /\ ~InUse(pg[0]) THEN 1 ELSE 0

(***************************************************************************)
(* Flash hardware (external: the STM32 HAL and the flash array behind it). *)
(***************************************************************************)
Used(p) == {s \in Slot : p[s] # Blank}

\* Program record r at slot s: done, or refused with the cell erased or torn.
Programmed(p, s, r) == [p EXCEPT ![s] = r]
ProgramRefused(p, s) ==
    IF "program_error" \in Admit THEN {p, Programmed(p, s, Torn)} ELSE {}

\* What an erase cut short by a reset leaves: nothing, rubble, or some of it.
CutErase(p) ==
    LET Rubble(T) == [s \in Slot |-> IF s \in T THEN Torn ELSE p[s]]
        Lost == IF "partial_erase" \in Admit THEN SUBSET Used(p) ELSE {Used(p)}
    IN {BlankPage} \union {Rubble(T) : T \in Lost}

-----------------------------------------------------------------------------
VARIABLES
    page,       \* the two flash pages; they alone survive a reset
    active,     \* s_active_page
    ready,      \* flash_store_init has run since the last reset
    phase,      \* where sys_task is in flash_store_erase_and_compact
    spare,      \* spare_page, its local variable
    snap,       \* gates[] and mag_cal_rec: what its first loop read
    todo,       \* the keys of snap it has still to write
    next        \* write_offset, in slots

vars == <<page, active, ready, phase, spare, snap, todo, next>>
compaction == <<phase, spare, snap, todo, next>>

Phases == {"idle", "erase_spare", "rewrite", "switch"}

NoValues == [k \in Key |-> None]

TypeOK ==
    /\ page \in [PageId -> Page]
    /\ active \in PageId
    /\ ready \in BOOLEAN
    /\ phase \in Phases
    /\ spare \in PageId
    /\ snap \in [Key -> Value \union {None}]
    /\ todo \in SUBSET Key
    /\ next \in 0 .. NumSlots

Init ==
    /\ page = [i \in PageId |-> BlankPage]
    /\ active = 0
    /\ ready = FALSE
    /\ phase = "idle"
    /\ spare = 0
    /\ snap = NoValues
    /\ todo = {}
    /\ next = 0

-----------------------------------------------------------------------------
(* imu_task                                                                *)

(***************************************************************************)
(* flash_store_init.  Two pages in use are taken for the end of a finished *)
(* compaction: page 0 is kept and page 1 erased, a failure ignored.        *)
(***************************************************************************)
FlashStoreInit ==
    /\ ~ready
    /\ ready' = TRUE
    /\ active' = BootPage(page)
    /\ IF InUse(page[0]) /\ InUse(page[1])
       THEN \/ page' = [page EXCEPT ![1] = BlankPage]
            \/ "erase_error" \in Admit /\ UNCHANGED page
       ELSE UNCHANGED page
    /\ UNCHANGED compaction

\* imu_task may append now.
MayAppend == ready /\ (phase = "idle" \/ "overlap" \in Admit)

(***************************************************************************)
(* flash_store_append, behind flash_store_save_gate, _save_gate_cleared,   *)
(* _save_gates_cleared_all and _save_mag_cal.  On a full page it returns   *)
(* STATUS_FULL, which every caller ignores.                                *)
(***************************************************************************)
FlashStoreAppend(r) ==
    /\ MayAppend
    /\ \E s \in Slot :
         /\ IsNextSlot(page[active], s)
         /\ \E p \in {Programmed(page[active], s, r)}
                       \union ProgramRefused(page[active], s) :
              page' = [page EXCEPT ![active] = p]
    /\ UNCHANGED <<active, ready, compaction>>

-----------------------------------------------------------------------------
(* sys_task: flash_store_erase_and_compact, called with want_compact set   *)
(* and the fused speed below 0.5 m/s, both of which the environment sets.  *)

CompactIdle ==
    /\ phase' = "idle"
    /\ spare' = 0
    /\ snap' = NoValues
    /\ todo' = {}
    /\ next' = 0

\* As SparePage, taking the page after the active one.
SparePage_PageAfter(a) == a + 1

SparePage(a) == 1 - a

\* As SurvivingKeys, with have_mag_cal never set.
SurvivingKeys_NoMagCal(kv) == {k \in Gate : kv[k] # None}

\* As SurvivingKeys, with the test of gates[i].valid missing.
SurvivingKeys_ClearedToo(kv) == Key

\* The keys that are rewritten: set gates and a saved calibration.
SurvivingKeys(kv) == {k \in Key : kv[k] # None}

\* The replay of the active page, and the check that the result fits a page.
BeginCompaction ==
    /\ phase = "idle"
    /\ ready \/ "early_compact" \in Admit
    /\ LET kv == Replay(page[active])
       IN /\ Cardinality(SurvivingKeys(kv)) <= NumSlots
          /\ snap' = kv
          /\ todo' = SurvivingKeys(kv)
    /\ phase' = "erase_spare"
    /\ spare' = SparePage(active)
    /\ next' = 0
    /\ UNCHANGED <<page, active, ready>>

\* As EraseSpare, skipping the erase of a page that is not in use.
EraseSpare_IfInUse ==
    /\ phase = "erase_spare"
    /\ page' = IF InUse(page[spare]) THEN [page EXCEPT ![spare] = BlankPage] ELSE page
    /\ phase' = "rewrite"
    /\ UNCHANGED <<spare, snap, todo, next, active, ready>>

EraseSpare ==
    /\ phase = "erase_spare"
    /\ \/ /\ page' = [page EXCEPT ![spare] = BlankPage]
          /\ phase' = "rewrite"
          /\ UNCHANGED <<spare, snap, todo, next>>
       \/ /\ "erase_error" \in Admit
          /\ UNCHANGED page
          /\ CompactIdle
    /\ UNCHANGED <<active, ready>>

\* Where key k is written: write_offset counts the records, not the keys.
WriteSlot(k) == next

(***************************************************************************)
(* One turn of the rewrite: the least key still to be written goes to the  *)
(* next slot of the spare.  A failure returns STATUS_ERROR and leaves the  *)
(* spare as it is.                                                         *)
(***************************************************************************)
RewriteRecord ==
    /\ phase = "rewrite"
    /\ \E k \in todo :
         /\ \A j \in todo : k <= j
         /\ \/ /\ WriteSlot(k) \in Slot
               /\ page' = [page EXCEPT ![spare] =
                             Programmed(@, WriteSlot(k), Rec(k, snap[k]))]
               /\ todo' = todo \ {k}
               /\ next' = next + 1
               /\ UNCHANGED <<phase, spare, snap>>
            \/ /\ \E p \in IF WriteSlot(k) \in Slot
                           THEN ProgramRefused(page[spare], WriteSlot(k))
                           ELSE {page[spare]} :
                    page' = [page EXCEPT ![spare] = p]
               /\ CompactIdle
    /\ UNCHANGED <<active, ready>>

\* As RewriteDone, without waiting for the records to land.
RewriteDone_AtOnce == phase = "rewrite"

RewriteDone == phase = "rewrite" /\ todo = {}

\* The commit, first half: its status is returned, but the switch follows.
EraseActive ==
    /\ RewriteDone
    /\ \/ page' = [page EXCEPT ![active] = BlankPage]
       \/ "erase_error" \in Admit /\ UNCHANGED page
    /\ phase' = "switch"
    /\ UNCHANGED <<active, ready, spare, snap, todo, next>>

SwitchActive ==
    /\ phase = "switch"
    /\ active' = spare
    /\ CompactIdle
    /\ UNCHANGED <<page, ready>>

-----------------------------------------------------------------------------
(* Resets: power, watchdog, brownout.                                      *)

(***************************************************************************)
(* The spare of a compaction that is not known to be complete, or the page *)
(* a failed commit could not erase, is page 0: flash_store_init would take *)
(* it for the live copy.                                                   *)
(***************************************************************************)
StaleTie ==
    /\ ready
    /\ active = 1
    /\ InUse(page[0]) /\ InUse(page[1])
    /\ ~RewriteDone
    /\ phase # "switch"

\* The flash operation that is under way when the reset comes, cut short.
CutShort ==
    \/ UNCHANGED page
    \/ \E s \in Slot :
         /\ MayAppend
         /\ IsNextSlot(page[active], s)
         /\ page' = [page EXCEPT ![active] = Programmed(@, s, Torn)]
    \/ /\ phase = "erase_spare"
       /\ \E p \in CutErase(page[spare]) : page' = [page EXCEPT ![spare] = p]
    \/ /\ phase = "rewrite"
       /\ todo # {}
       /\ next \in Slot
       /\ page' = [page EXCEPT ![spare] = Programmed(@, next, Torn)]
    \/ /\ RewriteDone
       /\ \E p \in CutErase(page[active]) : page' = [page EXCEPT ![active] = p]
    \/ /\ ~ready
       /\ InUse(page[0]) /\ InUse(page[1])
       /\ \E p \in CutErase(page[1]) : page' = [page EXCEPT ![1] = p]

Reset ==
    /\ StaleTie => "tie_reset" \in Admit
    /\ CutShort
    /\ active' = 0          \* .bss
    /\ ready' = FALSE
    /\ CompactIdle

-----------------------------------------------------------------------------
SysTask ==
    \/ BeginCompaction
    \/ EraseSpare
    \/ RewriteRecord
    \/ EraseActive
    \/ SwitchActive

ImuTask ==
    \/ FlashStoreInit
    \/ \E r \in Saves : FlashStoreAppend(r)

Next == ImuTask \/ SysTask \/ Reset

Spec == Init /\ [][Next]_vars

-----------------------------------------------------------------------------
(* What is checked.                                                        *)

\* The table a reader of the store sees, or would see after the next boot.
Live ==
    IF ~ready THEN Replay(page[BootPage(page)])
    ELSE IF phase = "switch" THEN Replay(page[spare])
    ELSE Replay(page[active])

\* The replay loop of flash_store_restore and flash_store_erase_and_compact
\* computes, for every page that can arise, the newest record of each key.
ReplayIsNewestWins ==
    \A i \in PageId : ReplayLoop(page[i]) = Replay(page[i])

\* The used slots of a page are a prefix of it, torn slots included, whatever
\* failed or was cut short: flash_store_find_next_slot takes the first erased
\* slot for the end of the log.
UsedIsPrefix ==
    \A i \in PageId : \A s, t \in Slot :
        t < s /\ page[i][s] # Blank => page[i][t] # Blank

\* A used slot is never programmed again: it changes only in an erase of its
\* page, run to the end or cut short (flash cells program once).
NeverRewritten ==
    [][\A i \in PageId : \A s \in Slot :
          page[i][s] # Blank /\ page'[i][s] # page[i][s]
            => page'[i] \in CutErase(page[i])]_vars

\* An append that lands changes the table by its own record and nothing else,
\* also when the page holds torn slots or a compaction is under way.
NewestWins ==
    [][UNCHANGED <<active, ready, compaction>> =>
         \A s \in Slot :
            page'[active][s] # page[active][s] =>
               Replay(page'[active]) = Apply(Replay(page[active]), page'[active][s])]_vars

\* When the rewrite is complete the spare replays to what the compaction read,
\* even if imu_task appended to the active page in between.
RewriteMatchesSnapshot ==
    phase \in {"rewrite", "switch"} /\ todo = {} => Replay(page[spare]) = snap

\* A compacted page holds one record for each key that has a value, no more.
CompactionReclaims ==
    phase \in {"rewrite", "switch"} /\ todo = {} =>
        Cardinality(Used(page[spare])) = Cardinality({k \in Key : snap[k] # None})

\* Between a reset and the end of the next flash_store_init nothing changes
\* what is recovered, however often the boot is cut short or its erase fails.
RecoveryIsStable == [][~ready => Live' = Live]_vars

\* What a boot makes of the pages as they stand, after a reset between two flash
\* operations, is the saved table, except in the states that StaleTie names.  The
\* pages that a reset leaves inside an operation are not looked at here: with
\* "partial_erase", an erase of the active page 0 that is cut short leaves some of
\* its records, and the boot prefers them.
OnlyTieLosesData ==
    ready /\ ~StaleTie => Replay(page[BootPage(page)]) = Live

\* A reset, wherever it lands, leaves the saved table as it was
\* (flash_store.c:425-426, "leaves the active page ... untouched").
ResetLosesNothing == [][ready /\ ~ready' => Live' = Live]_vars

(***************************************************************************)
(* The inductive invariants behind these.  LogInv needs flash_store_init   *)
(* to come before any compaction (Admit without "early_compact").          *)
(***************************************************************************)

\* What is still to be written is there to be written.
TodoHasValues == \A k \in todo : snap[k] # None

TypeInv == TypeOK /\ TodoHasValues

\* A compaction works on the page that is not active, and its variables are
\* those of one that has not begun to write until the spare is erased.
CompactionPlace ==
    /\ ~ready => active = 0
    /\ phase # "idle" => ready /\ spare = SparePage(active)
    /\ phase = "erase_spare" => next = 0 /\ todo = SurvivingKeys(snap)
    /\ phase = "switch" => todo = {}

\* The spare is written up to next and erased from there on.
SpareWritten ==
    phase = "rewrite" => \A s \in Slot : page[spare][s] # Blank <=> s < next

\* The spare holds one record of each key written so far, and nothing else.
SpareContents ==
    phase \in {"rewrite", "switch"} =>
        LET p == page[spare]
            done == SurvivingKeys(snap) \ todo
        IN /\ \A s \in Slot : p[s] # Blank => \E k \in done : p[s] = Rec(k, snap[k])
           /\ \A k \in done : \E s \in Slot : p[s] = Rec(k, snap[k])
           /\ \A s, t \in Slot : p[s] # Blank /\ p[s] = p[t] => s = t

LogInv ==
    /\ TypeInv
    /\ UsedIsPrefix
    /\ CompactionPlace
    /\ SpareWritten
    /\ SpareContents

\* The store implements the table of DurableStore.
Durable == INSTANCE DurableStore WITH kv <- Live, up <- ready

DurableStoreImplemented == Durable!Spec

=============================================================================

---------------------------- MODULE DurableStore ----------------------------
(***************************************************************************)
(* What flash_store.h promises its callers: a table with one value per     *)
(* gate index and one magnetometer calibration, where every save takes     *)
(* effect as a whole or not at all, and which a power cycle leaves as it   *)
(* was.  Pages, slots, records and compaction are not visible here.        *)
(***************************************************************************)
EXTENDS Integers

CONSTANTS
    MaxGates,   \* FLASH_STORE_MAX_GATES: gate indices are 0 .. MaxGates - 1
    Value,      \* gate lines and calibrations, told apart only by identity
    None        \* no gate at an index; the identity calibration

Gate == 0 .. MaxGates - 1
MagKey == MaxGates
Key == 0 .. MaxGates

VARIABLES
    kv,     \* the newest saved value of each key
    up      \* the node is powered and has booted

vars == <<kv, up>>

TypeOK ==
    /\ kv \in [Key -> Value \union {None}]
    /\ up \in BOOLEAN

Init ==
    /\ kv = [k \in Key |-> None]
    /\ up = FALSE

\* flash_store_save_gate and flash_store_save_mag_cal
Save(k, v) ==
    /\ up
    /\ kv' = [kv EXCEPT ![k] = v]
    /\ UNCHANGED up

\* flash_store_save_gate_cleared
ClearGate(k) ==
    /\ up
    /\ kv' = [kv EXCEPT ![k] = None]
    /\ UNCHANGED up

\* flash_store_save_gates_cleared_all
ClearAllGates ==
    /\ up
    /\ kv' = [k \in Key |-> IF k = MagKey THEN kv[k] ELSE None]
    /\ UNCHANGED up

PowerLoss ==
    /\ up
    /\ up' = FALSE
    /\ UNCHANGED kv

\* flash_store_init
Restart ==
    /\ ~up
    /\ up' = TRUE
    /\ UNCHANGED kv

Next ==
    \/ \E k \in Key, v \in Value : Save(k, v)
    \/ \E k \in Gate : ClearGate(k)
    \/ ClearAllGates
    \/ PowerLoss
    \/ Restart

Spec == Init /\ [][Next]_vars
=============================================================================

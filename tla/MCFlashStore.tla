---------------------------- MODULE MCFlashStore ----------------------------
(***************************************************************************)
(* FlashStore for TLC: which records imu_task appends in each run.         *)
(***************************************************************************)
EXTENDS FlashStore

SetGate(k) == {Rec(k, v) : v \in Value}
SaveMagCal == {Rec(MagKey, v) : v \in Value}
ClearAll == {Rec(AllGates, None)}

\* Both gates, clear-all and the calibration.
FaultSaves == SetGate(0) \union SetGate(1) \union ClearAll \union SaveMagCal

\* One gate set and cleared on its own, a stray index, clear-all, calibration.
TableSaves ==
    SetGate(0) \union {Rec(0, None), Rec(StrayIndex, None)}
        \union ClearAll \union SaveMagCal
=============================================================================

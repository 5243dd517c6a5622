SPECIFICATION Spec
CONSTANTS
    HistoryLen = 3
    TickMod = 32
    StartTick <- TwoStarts
    Gaps = {1, 2}
    Ages = {0, 1, 4}
    MaxSteps = 5
    MaxFixes = 4
INVARIANTS TypeOK StepsInOrder FixAtItsEpoch OnlyOlderEpochsDiscard
CHECK_DEADLOCK FALSE

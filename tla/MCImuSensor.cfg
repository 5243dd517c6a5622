SPECIFICATION Spec
CONSTANTS
    MagWrites = 3
    MaxPolls = 2
    MaxResets = 2
INVARIANTS TypeOK ReadIsFresh QuietBetweenReads JunkIsFlagged
PROPERTIES ReadsRecover

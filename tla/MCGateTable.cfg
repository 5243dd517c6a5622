SPECIFICATION Spec
CONSTANTS
    MaxGates = 3
    None = None
    QueueLen = 2
    MaxRoom = 4
    CanCommands <- TableCommands
    Button = {"short", "long", "clear"}
    EarlyClear = FALSE
    MaxStamp = 4
    MaxResets = 1
INVARIANTS TypeOK MirrorIsLive SavedIsLive NoMixedLayout

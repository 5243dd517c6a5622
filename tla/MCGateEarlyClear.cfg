SPECIFICATION Spec
CONSTANTS
    MaxGates = 3
    None = None
    QueueLen = 2
    MaxRoom = 4
    CanCommands <- ClearOne
    Button = {"short", "long", "clear"}
    EarlyClear = TRUE
    MaxStamp = 3
    MaxResets = 1
PROPERTY NoneResurrected

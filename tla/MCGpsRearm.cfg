SPECIFICATION Spec
CONSTANTS
    ByteMod = 4
    Sync1 = 3
    Sync2 = 2
    ProbeLimit = 1
    CfgLimit = 1
    MaxRestarts = 0
    Ring = 17
    Frames <- OneFrame
    Admit = {"overrun"}
    MaxErrors = 0
PROPERTIES StreamRecovers
CHECK_DEADLOCK FALSE

SPECIFICATION Spec
CONSTANTS
    ByteMod = 4
    Sync1 = 3
    Sync2 = 2
    ProbeLimit = 2
    CfgLimit = 2
    MaxRestarts = 1
    Ring = 17
    Frames <- OneFrame
    Admit = {}
    MaxErrors = 2
INVARIANTS NoFaultIsConfigured InStep ResyncBounded
PROPERTIES StreamRecovers
CHECK_DEADLOCK FALSE

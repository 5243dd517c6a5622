SPECIFICATION Spec
CONSTANTS
    Rota <- SmallRota
    GateFields <- TwoGates
    Wrap = 4
    SlotMs = 2
    WaitMax = 1
    FifoDepth = 2
    CounterMod = 3
    EventQueueLen = 1
    MaxUpdates = 1
    MaxEvents = 1
INVARIANTS TypeOK GapFlagsDrops LagBounded
PROPERTIES DashCatchesUp

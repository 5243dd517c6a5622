SPECIFICATION TimeSpec
CONSTANTS
    Second = 4
    Week = 24
    NominalRate = 2
    Rate = 3
    TickMod = 72
    MaxDelay = 2
    MaxGap = 8
    MaxAge = 11
    BootItow <- TwoBoots
INVARIANTS TimeTypeOK PairedWhenFlowing MapTracksTime TornReadBounded

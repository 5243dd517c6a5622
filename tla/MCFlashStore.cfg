SPECIFICATION Spec
CONSTANTS
    NumSlots = 3
    MaxGates = 2
    Value = {v1}
    None = None
    Blank = Blank
    Torn = Torn
    Saves <- FaultSaves
    Admit = {"program_error", "erase_error", "partial_erase", "tie_reset", "overlap"}
INVARIANTS TypeOK ReplayIsNewestWins RewriteMatchesSnapshot CompactionReclaims LogInv
PROPERTIES NeverRewritten NewestWins RecoveryIsStable

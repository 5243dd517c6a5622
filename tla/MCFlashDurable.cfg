SPECIFICATION Spec
CONSTANTS
    NumSlots = 3
    MaxGates = 2
    Value = {v1}
    None = None
    Blank = Blank
    Torn = Torn
    Saves <- TableSaves
    Admit = {"program_error", "erase_error"}
INVARIANT OnlyTieLosesData
PROPERTY DurableStoreImplemented

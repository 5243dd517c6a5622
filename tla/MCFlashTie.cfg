SPECIFICATION Spec
CONSTANTS
    NumSlots = 3
    MaxGates = 2
    Value = {v1}
    None = None
    Blank = Blank
    Torn = Torn
    Saves <- FaultSaves
    Admit = {"tie_reset"}
PROPERTY ResetLosesNothing

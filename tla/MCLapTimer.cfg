SPECIFICATION Spec
CONSTANTS
    Week = 5
    MinLap = 2
    MaxGates = 3
    MaxStep = 2
    Misread <- ZeroRead
    MaxCrossed = 2
    MaxLaps = 2
    MaxSector = 2
INVARIANTS TypeOK PublishedTrue
PROPERTIES LapTimesTrue SectorsAddUp LapAnnounced

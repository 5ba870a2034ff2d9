SPECIFICATION Spec
CONSTANTS
    NbPar = 2
    Sensors = {s1, s2}
    Ends <- TwoIntervals
    LastImage = 4
    LastTrigger <- ShorterWithSensors
    MaxCycles = 2
    MaxLate = 1
    MaxFaults = 3
SYMMETRY Alike
INVARIANTS
    TypeOK
    Paired
    Served
    SkippedOnce
PROPERTIES
    TakenInOrder
    KeepsOrder
CHECK_DEADLOCK FALSE

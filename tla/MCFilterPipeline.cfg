SPECIFICATION FairSpec
CONSTANTS
    NbPar = 2
    Sensors <- OneSensor
    FilterMap <- Map
    LastImage = 4
    Modes = {"Normal", "MissingImage"}
    FiltersFail = TRUE
    MaxFaults = 1
INVARIANTS
    TypeOK
    InImageOrder
    OwnData
    SignalsOnce
    ResultsInOrder
    OldestGoesOn
PROPERTIES
    CleanWorkFinishes
CHECK_DEADLOCK FALSE

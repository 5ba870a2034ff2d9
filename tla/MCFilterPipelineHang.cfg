SPECIFICATION FairSpec
CONSTANTS
    NbPar = 3
    Sensors <- OneSensor
    FilterMap <- Map
    LastImage = 2
    Modes = {"Normal"}
    FiltersFail = FALSE
    MaxFaults = 1
PROPERTIES
    WorkFinishes
CHECK_DEADLOCK FALSE

SPECIFICATION FairSpec
CONSTANTS
    NbPar = 2
    Sensors <- OneSensor
    FilterMap <- Map
    LastImage = 1
    Modes = {"Normal", "Overtriggered"}
    FiltersFail = FALSE
    MaxFaults = 1
INVARIANTS
    OvertriggeredSkipped
CHECK_DEADLOCK FALSE

SPECIFICATION FairSpec
CONSTANTS
    Modules <- Station
    Messages = {"Device", "CalibDataMsg"}
    Events = {"Sensor"}
    AnyModule = any
    NoModule = none
    NoMemory = noMemory
    Program <- StationProgram
INVARIANTS
    TypeOK
    MatchesActivated
    PublishedIsPaired
    ReadersCounted
    OneMemory
    WaitsForAReason
PROPERTIES
    WaiterReleased
CHECK_DEADLOCK FALSE

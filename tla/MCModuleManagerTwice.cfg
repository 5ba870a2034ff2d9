SPECIFICATION Spec
CONSTANTS
    Modules <- Station
    Messages = {"Device", "CalibDataMsg"}
    Events = {"Sensor"}
    AnyModule = any
    NoModule = none
    NoMemory = noMemory
    Program <- StationProgram
INVARIANT
    ReadersCountedOnce
CHECK_DEADLOCK FALSE

SPECIFICATION Spec
CONSTANTS
    Products = {def}
    Params = {par}
    Default = def
    Faults = {ext, cam, enc}
    ExtEquipment = ext
    HomingRequired = TRUE
    HomingAfterStop = FALSE
    Requests <- FaultRequests
    NoProduct = NoProduct
    MaxEstop = 2
INVARIANTS
    TypeOK
    InspectManagerFollows
    NotReadyReported
    EmergencyDelivered
PROPERTIES
    OperateFaultFree
    BackupNeverMasksFault
    ImplementsStationModes
CHECK_DEADLOCK FALSE

SPECIFICATION Spec
CONSTANTS
    Products = {def}
    Params = {par}
    Default = def
    Faults = {ext, cam}
    ExtEquipment = ext
    HomingRequired = FALSE
    HomingAfterStop = FALSE
    Requests <- DataRequests
    NoProduct = NoProduct
    MaxEstop = 2
INVARIANT
    ReadyUpToDate
CHECK_DEADLOCK FALSE

SPECIFICATION Spec
CONSTANTS
    Products = {def}
    Params = {par}
    Default = def
    Faults = {ext, cam}
    ExtEquipment = ext
    HomingRequired = FALSE
    HomingAfterStop = FALSE
    Requests <- FaultRequests
    NoProduct = NoProduct
    MaxEstop = 2
INVARIANT
    RelatedOnlyFaulty
CHECK_DEADLOCK FALSE

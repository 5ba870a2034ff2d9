SPECIFICATION DisciplinedSpec
CONSTANTS
    Products = {def}
    Params = {par}
    Default = def
    Faults = {ext, cam}
    ExtEquipment = ext
    HomingRequired = TRUE
    HomingAfterStop = TRUE
    Requests <- Disciplined
    NoProduct = NoProduct
    MaxEstop = 1
INVARIANTS
    LockOrder
    ReadyButOvertaken
    EveryRequestHandled
PROPERTIES
    HandlersTerminate

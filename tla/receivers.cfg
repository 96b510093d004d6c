\* A receiver rests once nothing more happens at Pumble.
CHECK_DEADLOCK FALSE
SPECIFICATION Spec
SYMMETRY Symmetry
CONSTANTS
    MaxSockets = 3
    MaxConnects = 2
    None = None
    Events <- MCEvents
    Deliveries = {d1, d2}
    MaxChanges = 2
    MaxDeliveries = 4
    AtStart = 1
    MaxHandlers = 2
    BufferCap = 2
INVARIANTS
    TypeOK
    StraysHaveACause
    AcksAreEarned
    StaleOnlyByRootEdits

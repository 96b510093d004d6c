\* The app stops in its error phase.
CHECK_DEADLOCK FALSE
SPECIFICATION Spec
CONSTANTS
    Channels = {a, b}
    Queries = {p, q}
    Roots = {r}
    Pages = 3
    MaxShown = 2
    MaxCalls = 2
    None = None
INVARIANTS
    SpinnersAreHonest
    PanesAreConsistent
PROPERTY
    NothingHangs

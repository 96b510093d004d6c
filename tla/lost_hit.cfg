\* A walk that is over stays over.
CHECK_DEADLOCK FALSE
SPECIFICATION Spec
CONSTANTS
    Ids <- MCIds
    Repeated <- MCRepeated
    Seconds <- MCSeconds
    Initially <- MCInitially
    MaxDeletes = 1
    Limit = 2
    MaxResults = 2
    PageCap = 5
    OverlapCap = 3
    None = None
INVARIANT
    EveryHitIsYielded

\* Two sources, two requests per window of two instants, entries kept for four: time enough for a
\* window to run out, to be pruned and to return
CONSTANTS
    Addresses = {a, b}
    MaxRequests = 2
    Window = 2
    Retain = 4
    MaxTime = 6
SPECIFICATION RateSpec
VIEW View
INVARIANTS
    BurstBounded
    PruningInvisible
    MapIsBounded
CHECK_DEADLOCK FALSE

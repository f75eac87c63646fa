\* One worker waits, for a future that a producer has polled.
CONSTANTS
    NumWorkers = 2
    NumShards = 1
    CheapScanVictims = 8
    Producers = {p1}
    Tasks = {a, b}
    SpinRounds = 0
    MaxPanics = 0
    MaxBlocked = 1
    Handover = TRUE
    None = None
SPECIFICATION SpecC
INVARIANT DropsComplete

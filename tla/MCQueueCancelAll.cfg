\* Both workers may wait in SpawnFuture::drop at once.
CONSTANTS
    NumWorkers = 2
    NumShards = 1
    CheapScanVictims = 8
    Producers = {p1}
    Tasks = {a, b, c}
    SpinRounds = 0
    MaxPanics = 0
    MaxBlocked = 2
    Handover = FALSE
    None = None
SPECIFICATION SpecC
INVARIANT DropsComplete

\* Two workers, of which one at a time waits in SpawnFuture::drop.
CONSTANTS
    NumWorkers = 2
    NumShards = 1
    CheapScanVictims = 8
    Producers = {p1}
    Tasks = {a, b, c}
    SpinRounds = 1
    MaxPanics = 1
    MaxBlocked = 1
    Handover = FALSE
    None = None
SPECIFICATION SpecC
SYMMETRY Symmetry
INVARIANTS
    CancelTypeOK
    DropsComplete
    PeersAttend

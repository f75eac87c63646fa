\* Two workers on two shards, two producers, one worker that unwinds.
CONSTANTS
    NumWorkers = 2
    NumShards = 2
    CheapScanVictims = 8
    Producers = {p1, p2}
    Tasks = {a, b, c}
    SpinRounds = 0
    MaxPanics = 1
    None = None
SPECIFICATION Spec
SYMMETRY Symmetry
INVARIANTS
    TypeOK
    ParkedIsExact
    NotifiedIsCovered
    NoLostWakeup
    Attended
    OwnerIsUp
    ShutdownReachesAll
PROPERTY ImplementsTaskPool

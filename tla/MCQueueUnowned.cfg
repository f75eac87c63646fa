\* Three workers on four shards: shard 3 is nobody's preferred one, and cheap
\* scans look no further than the preferred one (the harshest cap).
CONSTANTS
    NumWorkers = 3
    NumShards = 4
    CheapScanVictims = 0
    Producers = {p1}
    Tasks = {a}
    SpinRounds = 0
    MaxPanics = 0
    None = None
SPECIFICATION Spec
INVARIANT NoLostWakeup

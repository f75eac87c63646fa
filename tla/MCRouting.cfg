\* A producer and two pools; the counter saturates at 14, nine workers at most.
CONSTANTS
    Producers = {p1}
    Pools <- PoolNames
    BuiltWith <- PoolSettings
    SpillThreshold = 2
    CountMax = 14
    Hints = {0, 1, 6, 7}
    None = None
    MaxThreads = 9
    MaxShards = 4
    Cpus = 6
    Width = 5
SPECIFICATION Spec
INVARIANTS
    TypeOK
    ShardCounts
PROPERTY SpillIsEven

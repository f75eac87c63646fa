\* Fair runs of two workers, one producer, one worker that unwinds.
CONSTANTS
    NumWorkers = 2
    NumShards = 2
    CheapScanVictims = 8
    Producers = {p1}
    Tasks = {a, b}
    SpinRounds = 0
    MaxPanics = 1
    None = None
SPECIFICATION FairSpec
PROPERTIES
    EventuallyRun
    ShutdownCompletes

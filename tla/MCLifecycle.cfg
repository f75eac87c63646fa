\* Two workers, two that unwind, one thread creation refused.
CONSTANTS
    NumWorkers = 2
    MaxPanics = 2
    MaxFailures = 1
    Owner = Owner
SPECIFICATION FairSpec
INVARIANTS
    TypeOK
    SlotsAreExclusive
    PoolIsFull
    CountCoversLive
    OnlyLateReplacementsOutlive
PROPERTIES
    ImplementsWorkerSlots
    DropReturns

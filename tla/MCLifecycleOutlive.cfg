\* A worker that unwinds while the pool is dropped.
CONSTANTS
    NumWorkers = 2
    MaxPanics = 1
    MaxFailures = 0
    Owner = Owner
SPECIFICATION Spec
INVARIANT DropJoinsAll

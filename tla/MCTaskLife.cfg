\* Two calls, two threads that poll and drop them, two workers, one lost runnable.
CONSTANTS
    Calls = {c1, c2}
    Callers = {t1, t2}
    Workers = {w1, w2}
    MaxLost = 1
    None = None
SPECIFICATION FairSpec
INVARIANTS
    TypeOK
    ClosureEndsFirst
    AwaiterIsWoken
PROPERTIES
    ImplementsContract
    DropReturns
    PendingIsWoken

\* One call that is cancelled while a worker runs it.
CONSTANTS
    Calls = {c1}
    Callers = {t1}
    Workers = {w1}
    MaxLost = 0
    None = None
SPECIFICATION Spec
INVARIANTS
    OutputEndsFirst

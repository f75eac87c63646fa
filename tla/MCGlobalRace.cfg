\* Two threads call build_global, one calls the free spawn.
CONSTANTS
    Pools = {q1, q2}
    Calls = {c}
SPECIFICATION Spec
INVARIANT OkMeansGlobal

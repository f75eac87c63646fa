------------------------------- MODULE WorkerSlots -------------------------------
(***************************************************************************)
(* How the threads of a pool occupy the slots of its queue.  A slot has    *)
(* one worker at a time; a worker gives it back by unwinding, for another  *)
(* one to come, and for good only when the pool has been shut down.        *)
(* Lifecycle is shown to implement this.  (Queue takes it for granted: its *)
(* pc is that of the one worker of each slot.)                             *)
(***************************************************************************)
CONSTANTS Slots, Tenants

VARIABLES
    worker,  \* worker[i]: the threads that work in slot i, one at most
    left,    \* slots to which no worker will come any more
    closed   \* the pool is being dropped

vars == <<worker, left, closed>>

Init ==
    /\ worker = [i \in Slots |-> {}]
    /\ left = {}
    /\ closed = FALSE

\* A thread begins to work in a slot that nobody has.
Enter(i) ==
    /\ i \notin left /\ worker[i] = {}
    /\ \E t \in Tenants : worker' = [worker EXCEPT ![i] = {t}]
    /\ UNCHANGED <<left, closed>>

\* Its worker unwinds, and another one will come.
Vacate(i) ==
    /\ worker[i] # {}
    /\ worker' = [worker EXCEPT ![i] = {}]
    /\ UNCHANGED <<left, closed>>

\* Nobody comes any more.
Leave(i) ==
    /\ closed /\ i \notin left
    /\ worker' = [worker EXCEPT ![i] = {}]
    /\ left' = left \cup {i}
    /\ UNCHANGED closed

Close ==
    /\ closed' = TRUE
    /\ UNCHANGED <<worker, left>>

Next == Close \/ \E i \in Slots : Enter(i) \/ Vacate(i) \/ Leave(i)

Spec == Init /\ [][Next]_vars
================================================================================

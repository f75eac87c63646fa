-------------------------------- MODULE TaskPool --------------------------------
(***************************************************************************)
(* What the queue promises to the rest of the pool, with no queue in it:   *)
(* a submitted task is taken by one worker, once, and run; nothing is      *)
(* submitted to a closed pool; a worker may retire from a closed pool, the *)
(* last one only when no submitted task is waiting; and tasks are lost     *)
(* only to the death of a worker.  Queue is shown to implement this.       *)
(***************************************************************************)
EXTENDS Naturals

CONSTANTS Workers, Tasks, None

VARIABLES
    waiting,   \* submitted tasks that no worker has taken
    finished,  \* tasks that have been run
    dropped,   \* tasks that will never run
    hand,      \* hand[w]: the task worker w has taken, or None
    retired,   \* workers that have left their loop
    dead,      \* workers that died and are not replaced yet
    closed     \* the pool is being dropped

vars == <<waiting, finished, dropped, hand, retired, dead, closed>>

Taken == {hand[w] : w \in Workers} \ {None}
Known == waiting \cup finished \cup dropped \cup Taken

Init ==
    /\ waiting = {} /\ finished = {} /\ dropped = {}
    /\ hand = [w \in Workers |-> None]
    /\ retired = {} /\ dead \subseteq Workers
    /\ closed = FALSE

Submit ==
    /\ ~closed
    /\ \E task \in Tasks \ Known : waiting' = waiting \cup {task}
    /\ UNCHANGED <<finished, dropped, hand, retired, dead, closed>>

Take(w) ==
    /\ w \notin retired \cup dead
    /\ hand[w] = None
    /\ \E task \in waiting :
         /\ hand' = [hand EXCEPT ![w] = task]
         /\ waiting' = waiting \ {task}
    /\ UNCHANGED <<finished, dropped, retired, dead, closed>>

\* The task in hand has run.
Finish(w) ==
    /\ hand[w] # None
    /\ finished' = finished \cup {hand[w]}
    /\ hand' = [hand EXCEPT ![w] = None]
    /\ UNCHANGED <<waiting, dropped, retired, dead, closed>>

\* A worker dies, but not of a task: it has none in hand.
Die(w) ==
    /\ w \notin retired \cup dead
    /\ hand[w] = None
    /\ dead' = dead \cup {w}
    /\ UNCHANGED <<waiting, finished, dropped, hand, retired, closed>>

\* A replacement takes over; tasks that were set aside for the dead worker may
\* be dropped.
Replace(w) ==
    /\ w \in dead
    /\ dead' = dead \ {w}
    /\ \E gone \in SUBSET waiting :
         /\ dropped' = dropped \cup gone
         /\ waiting' = waiting \ gone
    /\ UNCHANGED <<finished, hand, retired, closed>>

Close ==
    /\ closed' = TRUE
    /\ UNCHANGED <<waiting, finished, dropped, hand, retired, dead>>

Retire(w) ==
    /\ closed
    /\ w \notin retired \cup dead
    /\ hand[w] = None
    /\ retired' = retired \cup {w}
    /\ retired' = Workers => waiting = {}
    /\ UNCHANGED <<waiting, finished, dropped, hand, dead, closed>>

Next ==
    \/ Submit \/ Close
    \/ \E w \in Workers :
         Take(w) \/ Finish(w) \/ Die(w) \/ Replace(w) \/ Retire(w)

Spec == Init /\ [][Next]_vars
================================================================================

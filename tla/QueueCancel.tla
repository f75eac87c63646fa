------------------------------ MODULE QueueCancel ------------------------------
(***************************************************************************)
(* Queue with closures that drop a SpawnFuture: the worker they run on     *)
(* then waits inside SpawnFuture::drop (src/src/local.rs) until the        *)
(* runnable has stopped, which may still be in a queue, even in its own    *)
(* deque.  What the task and the waker do meanwhile is module TaskLife;    *)
(* here a waiting worker is back as soon as the runnable is run or lost.   *)
(***************************************************************************)
EXTENDS Queue

CONSTANTS
    MaxBlocked,   \* bound: workers inside SpawnFuture::drop at a time
    Handover      \* futures polled by producers may be moved into closures

ASSUME QueueCancelAssumption == MaxBlocked \in Nat /\ Handover \in BOOLEAN

VARIABLES
    held,       \* held[t]: polled SpawnFutures in the hands of thread t
    waits,      \* waits[w]: the runnable whose end worker w waits for, or None
    cancelled   \* runnables cancelled before a worker had them to run

cancelVars == <<held, waits, cancelled>>
allVars == <<vars, cancelVars>>

Blocked == {w \in Workers : waits[w] # None}

InitC ==
    /\ Init
    /\ held = [t \in Threads |-> {}]
    /\ waits = [w \in Workers |-> None]
    /\ cancelled = {}

\* The closure of the runnable in w's hand is running, and not in a drop.
InClosure(w) == pc[w] = "run" /\ waits[w] = None /\ cur[w] \notin cancelled

\* Some worker has the runnable, to run or running.
Started(task) == \E w \in In({"run"} \cup PushPcs) : cur[w] = task

--------------------------------------------------------------------------------
\* Mutant of Submit: a worker pushes on its own deque and wakes nobody.
MutQuietSelfPush(t) ==
    /\ t \in Workers => InClosure(t)
    /\ IF t \in Producers THEN Push(t)
       ELSE /\ ~shutdown
            /\ \E task \in fresh :
                 /\ queue' = [queue EXCEPT ![Deque(t)] = Append(@, task)]
                 /\ fresh' = fresh \ {task}
            /\ UNCHANGED <<scanVars, counterVars, closeVars, pc, stealers, buffer,
                           seen, cur, transit, done, lost, panics>>
    /\ held' = [held EXCEPT ![t] = @ \cup (fresh \ fresh')]
    /\ UNCHANGED <<waits, cancelled>>

\* A push is the call of spawn, or the first poll of a SpawnFuture, which t has
\* from now on.
Submit(t) ==
    /\ t \in Workers => InClosure(t)
    /\ Push(t)
    /\ \/ UNCHANGED held
       \/ held' = [held EXCEPT ![t] = @ \cup (fresh \ fresh')]
    /\ UNCHANGED <<waits, cancelled>>

\* The futures a closure may drop: those it has polled itself and, with
\* Handover, those a producer has polled and passed on.
Droppable(w) ==
    held[w] \cup IF Handover THEN UNION {held[p] : p \in Producers} ELSE {}

\* Mutant of Drop: the future is still there afterwards.
MutDropKeeps(w) ==
    /\ InClosure(w)
    /\ Cardinality(Blocked) < MaxBlocked
    /\ \E task \in Droppable(w) \ {cur[w]} :
         /\ waits' = [waits EXCEPT ![w] = task]
         /\ cancelled' = IF Started(task) THEN cancelled
                         ELSE cancelled \cup {task}
    /\ UNCHANGED <<vars, held>>

\* SpawnFuture::drop in a closure: block_on_cancel cancels the task and parks.
Drop(w) ==
    /\ InClosure(w)
    /\ Cardinality(Blocked) < MaxBlocked
    /\ \E task \in Droppable(w) \ {cur[w]} :
         /\ waits' = [waits EXCEPT ![w] = task]
         /\ held' = [t \in Threads |-> held[t] \ {task}]
         /\ cancelled' = IF Started(task) THEN cancelled
                         ELSE cancelled \cup {task}
    /\ UNCHANGED vars

\* It returns when the runnable has stopped.
DropReturns(w) ==
    /\ waits[w] \in done \cup lost
    /\ waits' = [waits EXCEPT ![w] = None]
    /\ UNCHANGED <<vars, held, cancelled>>

\* The closure returns; the futures it still had are elsewhere by now.
ClosureEnds(w) ==
    /\ waits[w] = None
    /\ Finish(w)
    /\ held' = [held EXCEPT ![w] = {}]
    /\ UNCHANGED <<waits, cancelled>>

\* Every other step is Queue's.
QueueStep(t) ==
    /\ \/ PushProgress(t)
       \/ t \in Workers /\ (ScanStep(t) \/ ParkStep(t) \/ Register(t) \/ Panic(t))
    /\ UNCHANGED cancelVars

\* A SpawnFuture borrows the pool, so none is left that is not over when the
\* pool is dropped.
ClosePool ==
    /\ Blocked = {}
    /\ \A t \in Threads : held[t] \subseteq done \cup lost
    /\ SetShutdown
    /\ UNCHANGED cancelVars

CloseStep == (NotifyAll \/ Joined) /\ UNCHANGED cancelVars

--------------------------------------------------------------------------------
NextC ==
    \/ \E t \in Threads : Submit(t) \/ QueueStep(t)
    \/ \E w \in Workers : Drop(w) \/ DropReturns(w) \/ ClosureEnds(w)
    \/ ClosePool \/ CloseStep

SpecC == InitC /\ [][NextC]_allVars

--------------------------------------------------------------------------------
(* Properties *)

\* The type of every variable added to Queue's; each future has one owner at
\* most, and only a worker inside a closure waits.
CancelTypeOK ==
    /\ held \in [Threads -> SUBSET (Tasks \ fresh)]
    /\ waits \in [Workers -> Tasks \cup {None}]
    /\ cancelled \subseteq Tasks \ fresh
    /\ \A t \in Threads : \A u \in Threads \ {t} : held[t] \cap held[u] = {}
    /\ \A w \in Blocked : pc[w] = "run" /\ \A t \in Threads : waits[w] \notin held[t]

\* A closure that is waiting for a runnable which is neither run nor lost.
Waiting(w) == waits[w] # None /\ waits[w] \notin done \cup lost

\* Nothing but a new push can happen: every worker sleeps, has exited or waits
\* inside SpawnFuture::drop, and no push or broadcast is under way.
Stuck ==
    /\ \A w \in Workers : pc[w] \in {"asleep", "exited"} \/ Waiting(w)
    /\ \A p \in Producers : pc[p] = "idle"
    /\ dropping # "lock"

\* "On a pool with two or more workers the queued runnable is stolen by a peer,
\* as the self-spawn path wakes one, and the drop completes": no state is the
\* end of the road for a worker that waits in SpawnFuture::drop.
DropsComplete == Stuck => Blocked = {}

\* Worker v will look at place p, and nothing can keep it from doing so: its
\* closure, if it is in one, has no future that it could drop and wait for.
Keen(v, p) == WillLook(v, p) /\ held[v] = {} /\ waits[v] = None

\* What a worker that waits for a runnable in place p counts on: some other
\* worker is bound to look there, a push has yet to wake one, or every worker
\* will look there once its own drop returns.
PeersAttend ==
    \A p \in Places :
        queue[p] # <<>> => \/ \E v \in Workers : Keen(v, p)
                           \/ \E t \in Threads : WillWake(t)
                           \/ \A v \in Workers : WillLook(v, p)
================================================================================

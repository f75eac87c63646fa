--------------------------------- MODULE Queue ---------------------------------
(***************************************************************************)
(* The shared work queue of the pool (src/src/queue.rs): producers push    *)
(* runnables on sharded injectors or, from inside a worker, on that        *)
(* worker's own deque; workers scan, steal batches and park on a condition *)
(* variable, and the `parked'/`notified' counters decide who is woken.     *)
(*                                                                         *)
(* One action is one shared-memory access, or one region of the code that  *)
(* holds the park lock and is not interrupted by an unlocked reader.       *)
(* crossbeam's injectors and deques, parking_lot's mutex and condition     *)
(* variable are external: they are atomic objects here, except that a      *)
(* steal leaves the source before its batch shows in the thief's deque,    *)
(* and that the two accesses the SeqCst fences of the code order are weak: *)
(* a push sits in `buffer' until it is flushed, and the increment of       *)
(* `parked' may be missed by an unlocked read until the worker's fence.    *)
(***************************************************************************)
EXTENDS ScanOrder, FiniteSets, Functions

CONSTANTS
    Producers,    \* threads outside the pool that push
    Tasks,        \* runnables; each is pushed at most once
    SpinRounds,   \* SPIN_ROUNDS
    MaxPanics,    \* bound: workers that unwind
    None

Threads == Workers \cup Producers

ASSUME QueueAssumption ==
    /\ Producers \cap Workers = {}
    /\ SpinRounds \in Nat
    /\ MaxPanics \in Nat
    /\ None \notin Threads \cup Tasks
    /\ None \notin [to : Places, task : Tasks]

VARIABLES
    queue,      \* queue[p]: contents of each injector and deque, oldest first
    stealers,   \* stealers[w]: the slot of worker w holds a Stealer
    parked, notified, shutdown,   \* the atomics of struct Queue
    park,       \* the thread that holds the park mutex, or None
    pc,         \* pc[t]: where thread t is
    buffer,     \* buffer[t]: t's push that other threads do not see yet
    seen,       \* seen[t]: the value of `parked' that t loaded in push
    todo,       \* todo[w]: victims the current pass of w has yet to visit
    contended,  \* contended[w]: a victim of this pass answered Retry
    round,      \* round[w]: cheap re-scans done in this pop_blocking
    cur,        \* cur[w]: the runnable in w's hand
    transit,    \* transit[w]: batch w has claimed and not yet published
    fresh, done, lost,  \* tasks not pushed yet, run, dropped without running
    dropping,   \* progress of the shutdown() called by Threadpool::drop
    panics      \* unwinds so far

storeVars   == <<queue, stealers, buffer, cur, transit>>
scanVars    == <<todo, contended, round>>
counterVars == <<parked, notified, park>>
closeVars   == <<shutdown, dropping>>
taskVars    == <<fresh, done, lost, panics>>
allButPc == <<storeVars, scanVars, counterVars, closeVars, taskVars, seen>>
vars == <<allButPc, pc>>

\* Where a thread is inside push, and where a worker is elsewhere.
PushPcs == {"push", "loadParked", "loadNotified", "notify"}
LeavePcs == {"found", "quit", "back"}
Left == [found |-> "foundLeft", quit |-> "quitLeft", back |-> "backLeft"]
LeftPcs == {"foundLeft", "quitLeft", "backLeft"}
WorkerPcs == {"register", "scan", "probe", "migrate", "run", "lock", "armed",
              "check", "wait", "asleep", "woken", "exited"}
             \cup LeavePcs \cup LeftPcs

Home(t) == IF t \in Workers THEN "run" ELSE "idle"
Goto(t, label) == pc' = [pc EXCEPT ![t] = label]

\* The scan under the park lock is Probe::Strict, every other one Probe::Cheap.
Strict(w) == park = w
Probe(w) == IF Strict(w) THEN "strict" ELSE "cheap"

In(labels) == {w \in Workers : pc[w] \in labels}
Asleep == In({"asleep"})

Init ==
    /\ queue = [p \in Places |-> <<>>]
    /\ stealers = [w \in Workers |-> FALSE]
    /\ parked = 0 /\ notified = 0 /\ shutdown = FALSE
    /\ park = None
    /\ pc = [t \in Threads |-> IF t \in Workers THEN "register" ELSE "idle"]
    /\ buffer = [t \in Threads |-> None]
    /\ seen = [t \in Threads |-> 0]
    /\ todo = [w \in Workers |-> <<>>]
    /\ contended = [w \in Workers |-> FALSE]
    /\ round = [w \in Workers |-> 0]
    /\ cur = [w \in Workers |-> None]
    /\ transit = [w \in Workers |-> <<>>]
    /\ fresh = Tasks /\ done = {} /\ lost = {}
    /\ dropping = "no"
    /\ panics = 0

--------------------------------------------------------------------------------
(* push *)

\* The call: a worker of this queue pushes on its own deque, any other thread
\* on the injector route_shard picks (any shard: module Routing).  Callers
\* borrow the pool, so none starts or is under way once drop has begun.
Push(t) ==
    /\ pc[t] = Home(t)
    /\ ~shutdown
    /\ \E task \in fresh,
          to \in IF t \in Workers THEN {Deque(t)} ELSE Injectors :
            /\ buffer' = [buffer EXCEPT ![t] = [to |-> to, task |-> task]]
            /\ fresh' = fresh \ {task}
    /\ Goto(t, "push")
    /\ UNCHANGED <<scanVars, counterVars, closeVars, queue, stealers, seen, cur,
                   transit, done, lost, panics>>

\* The pushed runnable becomes visible to the other threads.
Flush(t) ==
    /\ buffer[t] # None
    /\ queue' = [queue EXCEPT ![buffer[t].to] = Append(@, buffer[t].task)]
    /\ buffer' = [buffer EXCEPT ![t] = None]
    /\ UNCHANGED <<scanVars, counterVars, closeVars, taskVars, stealers, pc,
                   seen, cur, transit>>

\* Mutant of PushFence: without the fence the load may overtake the push.
MutPushNoFence(t) ==
    /\ pc[t] = "push"
    /\ Goto(t, "loadParked")
    /\ UNCHANGED allButPc

\* fence(SeqCst) between the queue access and the load of `parked'.
PushFence(t) ==
    /\ pc[t] = "push"
    /\ buffer[t] = None
    /\ Goto(t, "loadParked")
    /\ UNCHANGED allButPc

\* What an unlocked load of `parked' may return: the increment of a worker
\* that has not reached its fence may still be invisible.
ParkedReads == IF In({"armed"}) = {} THEN {parked} ELSE {parked - 1, parked}

LoadParked(t) ==
    /\ pc[t] = "loadParked"
    /\ \E value \in ParkedReads : seen' = [seen EXCEPT ![t] = value]
    /\ Goto(t, "loadNotified")
    /\ UNCHANGED <<storeVars, scanVars, counterVars, closeVars, taskVars>>

LoadNotified(t) ==
    /\ pc[t] = "loadNotified"
    /\ Goto(t, IF seen[t] > notified THEN "notify" ELSE Home(t))
    /\ seen' = [seen EXCEPT ![t] = 0]
    /\ UNCHANGED <<storeVars, scanVars, counterVars, closeVars, taskVars>>

\* The program counters after t has called notify_one and gone home: some
\* sleeper is woken, none if nobody sleeps.
NotifyOne(t) ==
    IF Asleep = {} THEN Goto(t, Home(t))
    ELSE \E w \in Asleep : pc' = [pc EXCEPT ![t] = Home(t), ![w] = "woken"]

\* Mutant of Notify: the counters are not checked again under the lock.
MutNotifyUnchecked(t) ==
    /\ pc[t] = "notify"
    /\ park = None
    /\ notified' = notified + 1 /\ NotifyOne(t)
    /\ UNCHANGED <<storeVars, scanVars, closeVars, taskVars, parked, park,
                   seen>>

\* Mutant of Notify: the signal is counted and not sent.
MutCountOnly(t) ==
    /\ pc[t] = "notify"
    /\ park = None
    /\ notified' = IF parked > notified THEN notified + 1 ELSE notified
    /\ Goto(t, Home(t))
    /\ UNCHANGED <<storeVars, scanVars, closeVars, taskVars, parked, park,
                   seen>>

\* Under the park lock: recheck, count the signal, notify_one.
Notify(t) ==
    /\ pc[t] = "notify"
    /\ park = None
    /\ IF parked > notified
         THEN notified' = notified + 1 /\ NotifyOne(t)
         ELSE UNCHANGED notified /\ Goto(t, Home(t))
    /\ UNCHANGED <<storeVars, scanVars, closeVars, taskVars, parked, park,
                   seen>>

--------------------------------------------------------------------------------
(* scan *)

\* A worker with a runnable in hand runs it, or first leaves the armed region.
Holding(w) == IF Strict(w) THEN "found" ELSE "run"

\* The own deque is popped first.
PopOwn(w) ==
    /\ pc[w] = "scan"
    /\ queue[Deque(w)] # <<>>
    /\ cur' = [cur EXCEPT ![w] = Head(queue[Deque(w)])]
    /\ queue' = [queue EXCEPT ![Deque(w)] = Tail(@)]
    /\ round' = [round EXCEPT ![w] = 0]
    /\ Goto(w, Holding(w))
    /\ UNCHANGED <<counterVars, closeVars, taskVars, stealers, buffer, seen,
                   todo, contended, transit>>

\* Mutant of BeginPass: the pass does not try the own deque first.
MutBeginPassAnyway(w) ==
    /\ pc[w] = "scan"
    /\ \E order \in VictimOrders(w, Probe(w)) :
         todo' = [todo EXCEPT ![w] = order]
    /\ contended' = [contended EXCEPT ![w] = FALSE]
    /\ Goto(w, "probe")
    /\ UNCHANGED <<storeVars, counterVars, closeVars, taskVars, seen, round>>

\* It is empty: draw the starts of this pass over the other places.
BeginPass(w) ==
    /\ pc[w] = "scan"
    /\ queue[Deque(w)] = <<>>
    /\ \E order \in VictimOrders(w, Probe(w)) :
         todo' = [todo EXCEPT ![w] = order]
    /\ contended' = [contended EXCEPT ![w] = FALSE]
    /\ Goto(w, "probe")
    /\ UNCHANGED <<storeVars, counterVars, closeVars, taskVars, seen, round>>

Visiting(w) == pc[w] = "probe" /\ todo[w] # <<>>
Victim(w) == Head(todo[w])

\* The victim can be stolen from: an injector, or a peer whose slot is set.
Stealable(p) ==
    /\ queue[p] # <<>>
    /\ p \in Deques => stealers[p.at]

\* The victim is empty or its slot is not set.  A cheap probe learns this from
\* is_empty, a strict one from the steal; a push either may still miss is one
\* that is still in `buffer'.
SkipVictim(w) ==
    /\ Visiting(w)
    /\ ~Stealable(Victim(w))
    /\ todo' = [todo EXCEPT ![w] = Tail(@)]
    /\ UNCHANGED <<storeVars, counterVars, closeVars, taskVars, pc, seen,
                   contended, round>>

\* Steal::Retry: somebody else's access won.
Retry(w) ==
    /\ Visiting(w)
    /\ Stealable(Victim(w))
    /\ todo' = [todo EXCEPT ![w] = Tail(@)]
    /\ contended' = [contended EXCEPT ![w] = TRUE]
    /\ UNCHANGED <<storeVars, counterVars, closeVars, taskVars, pc, seen,
                   round>>

\* steal_batch_and_pop: claim a batch of the oldest runnables (how many is up
\* to crossbeam), keep the first; the others are in no queue until published.
Steal(w) ==
    /\ Visiting(w)
    /\ Stealable(Victim(w))
    /\ \E n \in 1 .. Len(queue[Victim(w)]) :
         LET q == queue[Victim(w)] IN
         /\ cur' = [cur EXCEPT ![w] = Head(q)]
         /\ transit' = [transit EXCEPT ![w] = SubSeq(q, 2, n)]
         /\ queue' = [queue EXCEPT ![Victim(w)] = SubSeq(q, n + 1, Len(q))]
         /\ Goto(w, IF n = 1 THEN Holding(w) ELSE "migrate")
    /\ todo' = [todo EXCEPT ![w] = <<>>]
    /\ contended' = [contended EXCEPT ![w] = FALSE]
    /\ round' = [round EXCEPT ![w] = 0]
    /\ UNCHANGED <<counterVars, closeVars, taskVars, stealers, buffer, seen>>

\* The rest of the batch shows in the thief's own deque.
Migrate(w) ==
    /\ pc[w] = "migrate"
    /\ queue' = [queue EXCEPT ![Deque(w)] = @ \o transit[w]]
    /\ transit' = [transit EXCEPT ![w] = <<>>]
    /\ Goto(w, Holding(w))
    /\ UNCHANGED <<scanVars, counterVars, closeVars, taskVars, stealers, buffer,
                   seen, cur>>

PassOver(w) == pc[w] = "probe" /\ todo[w] = <<>>

\* Nothing found but some victim was contended: walk everything again.
WalkAgain(w) ==
    /\ PassOver(w)
    /\ contended[w]
    /\ contended' = [contended EXCEPT ![w] = FALSE]
    /\ Goto(w, "scan")
    /\ UNCHANGED <<storeVars, counterVars, closeVars, taskVars, seen, todo,
                   round>>

\* Mutant of SpinOrArm: one spin too many.
MutSpinOnceMore(w) ==
    /\ PassOver(w)
    /\ ~contended[w]
    /\ ~Strict(w)
    /\ IF round[w] <= SpinRounds
         THEN round' = [round EXCEPT ![w] = @ + 1] /\ Goto(w, "scan")
         ELSE round' = [round EXCEPT ![w] = 0] /\ Goto(w, "lock")
    /\ UNCHANGED <<storeVars, counterVars, closeVars, taskVars, seen, todo,
                   contended>>

\* A cheap scan found nothing: spin and scan again, or go and arm.
SpinOrArm(w) ==
    /\ PassOver(w)
    /\ ~contended[w]
    /\ ~Strict(w)
    /\ IF round[w] < SpinRounds
         THEN round' = [round EXCEPT ![w] = @ + 1] /\ Goto(w, "scan")
         ELSE round' = [round EXCEPT ![w] = 0] /\ Goto(w, "lock")
    /\ UNCHANGED <<storeVars, counterVars, closeVars, taskVars, seen, todo,
                   contended>>

\* The armed re-scan found nothing: look at the shutdown flag.
StrictEmpty(w) ==
    /\ PassOver(w)
    /\ ~contended[w]
    /\ Strict(w)
    /\ Goto(w, "check")
    /\ UNCHANGED allButPc

--------------------------------------------------------------------------------
(* pop_blocking: arm, sleep, leave *)

\* park.lock() and parked.fetch_add(1).
Arm(w) ==
    /\ pc[w] = "lock"
    /\ park = None
    /\ park' = w
    /\ parked' = parked + 1
    /\ Goto(w, "armed")
    /\ UNCHANGED <<storeVars, scanVars, closeVars, taskVars, notified, seen>>

\* Mutant of ArmFence: shutdown is looked at before the strict re-scan.
MutShutdownFirst(w) ==
    /\ pc[w] = "armed"
    /\ Goto(w, IF shutdown THEN "quit" ELSE "scan")
    /\ UNCHANGED allButPc

\* fence(SeqCst) between the increment and the strict re-scan.
ArmFence(w) ==
    /\ pc[w] = "armed"
    /\ Goto(w, "scan")
    /\ UNCHANGED allButPc

\* Mutant of LoadShutdown: the worker goes round once more instead of returning.
MutShutdownLoops(w) ==
    /\ pc[w] = "check"
    /\ Goto(w, IF shutdown THEN "back" ELSE "wait")
    /\ UNCHANGED allButPc

LoadShutdown(w) ==
    /\ pc[w] = "check"
    /\ Goto(w, IF shutdown THEN "quit" ELSE "wait")
    /\ UNCHANGED allButPc

\* notify.wait(&mut park): sleep and release the lock in one step.
Wait(w) ==
    /\ pc[w] = "wait"
    /\ park' = None
    /\ Goto(w, "asleep")
    /\ UNCHANGED <<storeVars, scanVars, closeVars, taskVars, parked, notified,
                   seen>>

\* A woken worker returns from wait once it has the lock again.
Reacquire(w) ==
    /\ pc[w] = "woken"
    /\ park = None
    /\ park' = w
    /\ Goto(w, "back")
    /\ UNCHANGED <<storeVars, scanVars, closeVars, taskVars, parked, notified,
                   seen>>

\* Mutant of ForgetSignal: a worker that was woken keeps its signal; only one that
\* did not wait gives one back.
MutForgetOnlyBack(w) ==
    /\ pc[w] \in LeavePcs
    /\ notified' = IF pc[w] # "back" /\ notified > 0 THEN notified - 1
                   ELSE notified
    /\ Goto(w, Left[pc[w]])
    /\ UNCHANGED <<storeVars, scanVars, closeVars, taskVars, parked, park,
                   seen>>

\* The three ways out of the armed region (a runnable found, shutdown, woken)
\* all give back a signal if there is one ...
ForgetSignal(w) ==
    /\ pc[w] \in LeavePcs
    /\ notified' = IF notified > 0 THEN notified - 1 ELSE notified
    /\ Goto(w, Left[pc[w]])
    /\ UNCHANGED <<storeVars, scanVars, closeVars, taskVars, parked, park,
                   seen>>

\* Mutant of Leave: a worker that found work stays counted.
MutLeaveCounted(w) ==
    /\ \/ pc[w] = "foundLeft" /\ Goto(w, "run")
       \/ pc[w] = "quitLeft" /\ Goto(w, "exited")
       \/ pc[w] = "backLeft" /\ Goto(w, "scan")
    /\ parked' = IF pc[w] = "foundLeft" THEN parked ELSE parked - 1
    /\ park' = None
    /\ UNCHANGED <<storeVars, scanVars, closeVars, taskVars, notified, seen>>

\* ... and then stop being counted and release the lock.
Leave(w) ==
    /\ \/ pc[w] = "foundLeft" /\ Goto(w, "run")
       \/ pc[w] = "quitLeft" /\ Goto(w, "exited")
       \/ pc[w] = "backLeft" /\ Goto(w, "scan")
    /\ parked' = parked - 1
    /\ park' = None
    /\ UNCHANGED <<storeVars, scanVars, closeVars, taskVars, notified, seen>>

--------------------------------------------------------------------------------
(* The worker loop around pop_blocking *)

\* register_worker and enter_worker_scope.  A respawned worker overwrites its
\* slot: the deque of its predecessor goes, with the runnables left in it.
Register(w) ==
    /\ pc[w] = "register"
    /\ lost' = lost \cup Range(queue[Deque(w)])
    /\ queue' = [queue EXCEPT ![Deque(w)] = <<>>]
    /\ stealers' = [stealers EXCEPT ![w] = TRUE]
    /\ Goto(w, "scan")
    /\ UNCHANGED <<scanVars, counterVars, closeVars, buffer, seen, cur, transit,
                   fresh, done, panics>>

\* runnable.run() returns.
Finish(w) ==
    /\ pc[w] = "run"
    /\ done' = done \cup {cur[w]}
    /\ cur' = [cur EXCEPT ![w] = None]
    /\ Goto(w, "scan")
    /\ UNCHANGED <<scanVars, counterVars, closeVars, queue, stealers, buffer,
                   seen, transit, fresh, lost, panics>>

\* A worker unwinds between two runnables: its sentry starts a replacement with
\* the same index.  No panic of a closure gets here (catch_unwind); sentry.rs
\* provides for one outside Runnable::run and calls the path dead in normal
\* operation.
Panic(w) ==
    /\ pc[w] = "scan"
    /\ ~Strict(w)
    /\ panics < MaxPanics
    /\ panics' = panics + 1
    /\ round' = [round EXCEPT ![w] = 0]
    /\ Goto(w, "register")
    /\ UNCHANGED <<storeVars, counterVars, closeVars, seen, todo, contended,
                   fresh, done, lost>>

--------------------------------------------------------------------------------
(* shutdown *)

\* Called from Threadpool::drop, which has the pool to itself.
SetShutdown ==
    /\ ~shutdown
    /\ \A t \in Threads : pc[t] \notin PushPcs
    /\ shutdown' = TRUE
    /\ dropping' = "lock"
    /\ UNCHANGED <<storeVars, scanVars, counterVars, taskVars, pc, seen>>

\* Mutant of NotifyAll: without the lock.
MutNotifyAllUnlocked ==
    /\ dropping = "lock"
    /\ dropping' = "join"
    /\ pc' = [t \in Threads |-> IF t \in Asleep THEN "woken" ELSE pc[t]]
    /\ UNCHANGED <<storeVars, scanVars, counterVars, taskVars, shutdown, seen>>

\* notify_all under the park lock.
NotifyAll ==
    /\ dropping = "lock"
    /\ park = None
    /\ dropping' = "join"
    /\ pc' = [t \in Threads |-> IF t \in Asleep THEN "woken" ELSE pc[t]]
    /\ UNCHANGED <<storeVars, scanVars, counterVars, taskVars, shutdown, seen>>

--------------------------------------------------------------------------------
PushStep(t) ==
    \/ Push(t) \/ Flush(t) \/ PushFence(t)
    \/ LoadParked(t) \/ LoadNotified(t) \/ Notify(t)

ScanStep(w) ==
    \/ PopOwn(w) \/ BeginPass(w) \/ SkipVictim(w) \/ Retry(w) \/ Steal(w)
    \/ Migrate(w) \/ WalkAgain(w) \/ SpinOrArm(w) \/ StrictEmpty(w)

ParkStep(w) ==
    \/ Arm(w) \/ ArmFence(w) \/ LoadShutdown(w) \/ Wait(w) \/ Reacquire(w)
    \/ ForgetSignal(w) \/ Leave(w)

LoopStep(w) == Register(w) \/ Finish(w) \/ Panic(w)

\* Every worker has left its loop: Threadpool::drop's joins return.
AllExited == \A w \in Workers : pc[w] = "exited"

\* Joined: nothing is left to happen.  (Not a step of the code: it tells a
\* dropped pool from a deadlock.)
Joined ==
    /\ dropping = "join"
    /\ AllExited
    /\ UNCHANGED vars

Next ==
    \/ \E t \in Threads : PushStep(t)
    \/ \E w \in Workers : ScanStep(w) \/ ParkStep(w) \/ LoopStep(w)
    \/ SetShutdown
    \/ NotifyAll
    \/ Joined

Spec == Init /\ [][Next]_vars

\* What the code may count on: the operating system runs every thread that can
\* run, closures return, a free park lock is eventually granted to a waiter
\* that can have it for good, and Retry does not answer for ever, because it
\* means that somebody else got ahead.  Nobody is obliged to push, to unwind or
\* to drop the pool.
WorkerProgress(w) == ScanStep(w) \/ ParkStep(w) \/ Register(w) \/ Finish(w)
PushProgress(t) ==
    Flush(t) \/ PushFence(t) \/ LoadParked(t) \/ LoadNotified(t) \/ Notify(t)

Fairness ==
    /\ \A t \in Threads : WF_vars(PushProgress(t))
    /\ \A w \in Workers : WF_vars(WorkerProgress(w)) /\ SF_vars(Steal(w))
    /\ WF_vars(NotifyAll)

FairSpec == Spec /\ Fairness

--------------------------------------------------------------------------------
(* Properties *)

\* The type of every variable.  (`parked' is only said to be an integer, so that
\* this holds by itself; that it never goes below zero is in ParkedIsExact.)
TypeOK ==
    /\ queue \in [Places -> Seq(Tasks)]
    /\ stealers \in [Workers -> BOOLEAN]
    /\ parked \in Int /\ notified \in Nat /\ shutdown \in BOOLEAN
    /\ park \in Workers \cup {None}
    /\ pc \in [Threads -> WorkerPcs \cup PushPcs \cup {"idle"}]
    /\ \A t \in Producers : pc[t] \in PushPcs \cup {"idle"}
    /\ \A w \in Workers : pc[w] # "idle"
    /\ buffer \in [Threads -> [to : Places, task : Tasks] \cup {None}]
    /\ seen \in [Threads -> Int]
    /\ todo \in [Workers -> Seq(Places)]
    /\ contended \in [Workers -> BOOLEAN]
    /\ round \in [Workers -> 0 .. SpinRounds]
    /\ cur \in [Workers -> Tasks \cup {None}]
    /\ transit \in [Workers -> Seq(Tasks)]
    /\ fresh \subseteq Tasks /\ done \subseteq Tasks /\ lost \subseteq Tasks
    /\ dropping \in {"no", "lock", "join"}
    /\ panics \in 0 .. MaxPanics

\* The workers `parked' is meant to count: armed, asleep, or not yet out of
\* the armed region.  Under the lock only scan, probe and migrate are among
\* them: the cheap scans run the same code without it.
Counted == In({"armed", "check", "wait", "asleep", "woken"}
              \cup LeavePcs \cup LeftPcs)
           \cup {w \in In({"scan", "probe", "migrate"}) : Strict(w)}

\* `parked' is exactly the number of workers in the armed region, whatever
\* the interleaving of arming, leaving, notifying and shutting down.
ParkedIsExact == parked = Cardinality(Counted)

\* The workers that have been woken and have not yet consumed a signal.
Woken == In({"woken", "back"})

\* `notified' never exceeds the number of workers that have been woken and not
\* yet consumed a signal.  Were it larger, push would find parked <= notified
\* while a worker sleeps and skip the wake that worker needs.  (It may be
\* smaller: a worker that finds work in its strict scan consumes the signal
\* that woke another one.)
NotifiedIsCovered == notified <= Cardinality(Woken)

\* Worker w will try to steal from place p before it can sleep or exit: it is
\* anywhere but in a strict pass that already has p behind it.
LookingPcs == {"register", "scan", "migrate", "run", "lock", "armed", "woken",
               "found", "foundLeft", "back", "backLeft"} \cup PushPcs

WillLook(w, p) ==
    \/ pc[w] \in LookingPcs
    \/ pc[w] = "probe" /\ (~Strict(w) \/ contended[w] \/ p \in Range(todo[w]))

\* The push of t has yet to decide whether to wake somebody, or will.
WillWake(t) ==
    \/ pc[t] \in {"push", "loadParked", "notify"}
    \/ pc[t] = "loadNotified" /\ seen[t] >= 1

\* The Dekker argument of the module documentation as an invariant of every
\* moment: an injector that holds a runnable has a worker that will look at
\* it, or a push that has yet to pass the wake-up check.
Attended ==
    \A p \in Injectors :
        queue[p] # <<>> => \/ \E w \in Workers : WillLook(w, p)
                           \/ \E t \in Threads : WillWake(t)

\* Nobody is on the way to look at the queues: every worker sleeps or has
\* exited and no push is under way.
Idle ==
    /\ \A w \in Workers : pc[w] \in {"asleep", "exited"}
    /\ \A t \in Threads : pc[t] \notin PushPcs

\* No lost wakeup: when nobody is on the way to look, nothing is queued.  This
\* is what the Dekker argument of the module documentation is for (a push
\* races the arming of the last worker awake) and, once the pool is dropped,
\* what lets join return only after everything queued has been run.
NoLostWakeup == Idle => \A p \in Places : queue[p] = <<>>

\* A worker never goes to sleep or exits on top of its own deque, which only
\* a peer's steal could then empty.
OwnerIsUp ==
    \A w \in Workers :
        queue[Deque(w)] # <<>> =>
            pc[w] \in {"register", "scan", "run", "found", "foundLeft"} \cup PushPcs

\* The broadcast of shutdown() reaches everybody: once it is out, no worker is
\* asleep or about to sleep on a flag it read before the store.
ShutdownReachesAll == dropping = "join" => In({"wait", "asleep"}) = {}

\* Facts about the control state that the inductive invariant needs: who holds
\* the park lock, who holds a runnable, whose push is buffered where, and that
\* pushes and exits lie on either side of the shutdown flag.
LockedPcs == {"armed", "check", "wait"} \cup LeavePcs \cup LeftPcs

LockIsHeld ==
    \A w \in Workers :
        /\ pc[w] \in LockedPcs => park = w
        /\ park = w => pc[w] \in LockedPcs \cup {"scan", "probe", "migrate"}

HandIsFull ==
    \A w \in Workers :
        pc[w] \in {"migrate", "run", "found", "foundLeft"} \cup PushPcs
            => cur[w] # None

BufferIsLocal ==
    \A t \in Threads :
        buffer[t] # None =>
            /\ pc[t] = "push"
            /\ buffer[t].to \in IF t \in Workers THEN {Deque(t)} ELSE Injectors

ShutdownIsLate ==
    /\ shutdown <=> dropping # "no"
    /\ shutdown => \A t \in Threads : pc[t] \notin PushPcs
    /\ ~shutdown => In({"quit", "quitLeft", "exited"}) = {}

ControlInv ==
    TypeOK /\ LockIsHeld /\ HandIsFull /\ BufferIsLocal /\ ShutdownIsLate

\* The inductive invariant: the control facts and the properties above, which
\* lean on one another (NoLostWakeup follows from Attended and OwnerIsUp).
IInv ==
    /\ ControlInv
    /\ ParkedIsExact /\ NotifiedIsCovered
    /\ OwnerIsUp /\ Attended /\ ShutdownReachesAll

\* Every pushed runnable is run, or dropped with the deque of a worker that
\* died: it is never left in a queue for good, whether the push raced the
\* parking of the workers, a steal, an unwind or the drop of the pool.
EventuallyRun ==
    \A task \in Tasks : task \notin fresh ~> task \in done \cup lost

\* A dropped pool's joins return.
ShutdownCompletes == shutdown ~> AllExited

--------------------------------------------------------------------------------
(* The abstract pool: which queue a runnable is in does not matter *)

InHand == {cur[w] : w \in Workers} \ {None}

Pool == INSTANCE TaskPool WITH
    waiting  <- Tasks \ (fresh \cup done \cup lost \cup InHand),
    finished <- done,
    dropped  <- lost,
    hand     <- cur,
    retired  <- In({"exited"}),
    dead     <- In({"register"}),
    closed   <- shutdown

\* Queue implements TaskPool: a runnable is handed to exactly one worker, is
\* lost only when a dead worker's slot is overwritten, and the last worker of
\* a dropped pool exits only when nothing is queued or in flight any more.
ImplementsTaskPool == Pool!Spec

================================================================================

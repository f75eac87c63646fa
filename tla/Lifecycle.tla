------------------------------- MODULE Lifecycle -------------------------------
(***************************************************************************)
(* The worker threads of a pool: Threadpool::new and Builder::build start  *)
(* them, a sentry replaces one that unwinds, Threadpool::drop joins them   *)
(* (src/src/lib.rs, builder.rs, sentry.rs).  The queue is abstract here:   *)
(* a registered worker works until it unwinds or finds the pool shut down  *)
(* (module Queue says what it does meanwhile).                             *)
(*                                                                         *)
(* spin_up runs on the thread that calls it, the pool's owner or a worker  *)
(* that is unwinding; OS threads are numbered in the order they start.     *)
(***************************************************************************)
EXTENDS Naturals, FiniteSets, Sequences, Functions

CONSTANTS
    NumWorkers,
    MaxPanics,     \* bound: workers that unwind
    MaxFailures,   \* bound: thread creations that the OS refuses
    Owner          \* the thread that builds and drops the pool

ASSUME LifecycleAssumption ==
    /\ NumWorkers \in Nat \ {0} /\ MaxPanics \in Nat /\ MaxFailures \in Nat
    /\ Owner \notin 1 .. NumWorkers + MaxPanics

Threads == 1 .. NumWorkers + MaxPanics
Callers == Threads \cup {Owner}
Indices == 0 .. NumWorkers - 1
NoThread == 0

VARIABLES
    thread,    \* thread[t]: "unborn", "started", "registered", "unwinding", "ended"
    index,     \* index[t]: the queue slot of t
    spin,      \* spin[c]: where c is in spin_up: "no", "spawn", "store"
    slot,      \* slot[c]: the index c is spinning up
    built,     \* built[c]: the thread whose handle c has yet to store
    owner,     \* "building", "open", "drain", "join", "dropped", "freed"
    shutdown,  \* the queue's flag
    threadCount, handles,   \* thread_count and thread_handles of struct Data
    joining,   \* the handles Threadpool::drop has taken and not joined yet
    panics, failures

spinVars  == <<spin, slot, built>>
ownerVars == <<owner, shutdown, joining>>
vars == <<thread, index, spinVars, ownerVars, threadCount, handles,
          panics, failures>>

Init ==
    /\ thread = [t \in Threads |-> "unborn"]
    /\ index = [t \in Threads |-> 0]
    /\ spin = [c \in Callers |-> "no"]
    /\ slot = [c \in Callers |-> 0]
    /\ built = [c \in Callers |-> NoThread]
    /\ owner = "building" /\ shutdown = FALSE
    /\ threadCount = 0 /\ handles = <<>> /\ joining = <<>>
    /\ panics = 0 /\ failures = 0

Live(t) == thread[t] \in {"started", "registered", "unwinding"}

\* Somebody holds a strong reference to Data: the pool, or a spin_up under way.
DataAlive == owner # "freed" \/ \E c \in Callers : spin[c] # "no"

--------------------------------------------------------------------------------
(* spin_up *)

\* Mutant of BeginSpin: a replacement is not counted.
MutReplaceUncounted(c, i) ==
    /\ threadCount' = IF c = Owner THEN threadCount + 1 ELSE threadCount
    /\ spin' = [spin EXCEPT ![c] = "spawn"]
    /\ slot' = [slot EXCEPT ![c] = i]
    /\ UNCHANGED built

\* Its first steps: count the thread, make the sentry.
BeginSpin(c, i) ==
    /\ threadCount' = threadCount + 1
    /\ spin' = [spin EXCEPT ![c] = "spawn"]
    /\ slot' = [slot EXCEPT ![c] = i]
    /\ UNCHANGED built

\* The OS creates the thread.
SpawnThread(c) ==
    /\ spin[c] = "spawn"
    /\ \E t \in Threads :
         /\ thread[t] = "unborn"
         /\ \A u \in 1 .. t - 1 : thread[u] # "unborn"
         /\ thread' = [thread EXCEPT ![t] = "started"]
         /\ index' = [index EXCEPT ![t] = slot[c]]
         /\ built' = [built EXCEPT ![c] = t]
    /\ spin' = [spin EXCEPT ![c] = "store"]
    /\ UNCHANGED <<slot, ownerVars, threadCount, handles, panics, failures>>

\* Mutant of SpawnFails: the worker is given up.
MutGiveUp(c) ==
    /\ spin[c] = "spawn"
    /\ failures < MaxFailures
    /\ failures' = failures + 1
    /\ spin' = [spin EXCEPT ![c] = "store"]
    /\ UNCHANGED <<thread, index, slot, built, ownerVars, threadCount, handles,
                   panics>>

\* The OS refuses.  The closure is dropped, its sentry is still active and Data
\* is alive, so spin_up is called again from within itself; when that returns
\* there is no handle for this call to store.
SpawnFails(c) ==
    /\ spin[c] = "spawn"
    /\ failures < MaxFailures
    /\ failures' = failures + 1
    /\ threadCount' = threadCount + 1
    /\ UNCHANGED <<thread, index, spinVars, ownerVars, handles, panics>>

\* Mutant of EndSpin: the loop over the indices runs once too often.
MutOneTooMany(c) ==
    /\ spin' = [spin EXCEPT ![c] = "no"]
    /\ built' = [built EXCEPT ![c] = NoThread]
    /\ IF c = Owner
         THEN /\ owner' = IF slot[c] = NumWorkers THEN "open" ELSE owner
              /\ slot' = [slot EXCEPT ![c] = @ + 1]
              /\ UNCHANGED thread
         ELSE /\ thread' = [thread EXCEPT ![c] = "ended"]
              /\ UNCHANGED <<owner, slot>>

\* After the last step of a spin_up by c: the builder goes on, the unwinding
\* worker is at its end.
EndSpin(c) ==
    /\ spin' = [spin EXCEPT ![c] = "no"]
    /\ built' = [built EXCEPT ![c] = NoThread]
    /\ IF c = Owner
         THEN /\ owner' = IF slot[c] = NumWorkers - 1 THEN "open" ELSE owner
              /\ slot' = [slot EXCEPT ![c] = @ + 1]
              /\ UNCHANGED thread
         ELSE /\ thread' = [thread EXCEPT ![c] = "ended"]
              /\ UNCHANGED <<owner, slot>>

\* Mutant of StoreHandle: drop keeps the lock on thread_handles while it
\* joins, and the caller spins for it.
MutStoreLockedOut(c) ==
    /\ spin[c] = "store"
    /\ IF owner = "join" THEN UNCHANGED vars
       ELSE /\ handles' = IF built[c] = NoThread THEN handles
                         ELSE Append(handles, built[c])
            /\ EndSpin(c)
            /\ UNCHANGED <<index, shutdown, joining, threadCount, panics, failures>>

\* The handle is stored under the lock of thread_handles.
StoreHandle(c) ==
    /\ spin[c] = "store"
    /\ handles' = IF built[c] = NoThread THEN handles ELSE Append(handles, built[c])
    /\ EndSpin(c)
    /\ UNCHANGED <<index, shutdown, joining, threadCount, panics, failures>>

--------------------------------------------------------------------------------
(* A worker thread *)

\* Queue::register_worker and enter_worker_scope.
Register(t) ==
    /\ thread[t] = "started"
    /\ thread' = [thread EXCEPT ![t] = "registered"]
    /\ UNCHANGED <<index, spinVars, ownerVars, threadCount, handles, panics,
                   failures>>

\* pop_blocking returned None: the sentry is cancelled and the thread ends.
Exit(t) ==
    /\ thread[t] = "registered"
    /\ spin[t] = "no"
    /\ shutdown
    /\ thread' = [thread EXCEPT ![t] = "ended"]
    /\ UNCHANGED <<index, spinVars, ownerVars, threadCount, handles, panics,
                   failures>>

\* Mutant of Panic: the sentry fires before the worker has left its slot.
MutSentryFirst(t) ==
    /\ thread[t] = "registered"
    /\ panics < MaxPanics
    /\ DataAlive
    /\ panics' = panics + 1
    /\ BeginSpin(t, index[t])
    /\ UNCHANGED <<thread, index, ownerVars, handles, failures>>

\* The worker unwinds, outside Runnable::run: its scope and its deque go before
\* its sentry does.
Panic(t) ==
    /\ thread[t] = "registered"
    /\ panics < MaxPanics
    /\ panics' = panics + 1
    /\ thread' = [thread EXCEPT ![t] = "unwinding"]
    /\ UNCHANGED <<index, spinVars, ownerVars, threadCount, handles, failures>>

\* Sentry::drop, still active: a replacement if Data is still alive.
SentryDrop(t) ==
    /\ thread[t] = "unwinding"
    /\ spin[t] = "no"
    /\ IF DataAlive
         THEN BeginSpin(t, index[t]) /\ UNCHANGED thread
         ELSE /\ thread' = [thread EXCEPT ![t] = "ended"]
              /\ UNCHANGED <<spinVars, threadCount>>
    /\ UNCHANGED <<index, ownerVars, handles, panics, failures>>

--------------------------------------------------------------------------------
(* The owner: new or build, and drop *)

\* The next turn of the loop over the indices.
Build ==
    /\ owner = "building"
    /\ spin[Owner] = "no"
    /\ BeginSpin(Owner, slot[Owner])
    /\ UNCHANGED <<thread, index, ownerVars, handles, panics, failures>>

\* Threadpool::drop: Queue::shutdown.
Shutdown ==
    /\ owner = "open"
    /\ owner' = "drain" /\ shutdown' = TRUE
    /\ UNCHANGED <<thread, index, spinVars, joining, threadCount, handles,
                   panics, failures>>

\* Mutant of Drain: only the threads that new started are joined.
MutDrainOriginals ==
    /\ owner = "drain"
    /\ owner' = "join"
    /\ joining' = SelectSeq(handles, LAMBDA t : t <= NumWorkers)
    /\ handles' = <<>>
    /\ UNCHANGED <<thread, index, spinVars, shutdown, threadCount, panics,
                   failures>>

\* Take all the handles there are now.
Drain ==
    /\ owner = "drain"
    /\ owner' = "join"
    /\ joining' = handles /\ handles' = <<>>
    /\ UNCHANGED <<thread, index, spinVars, shutdown, threadCount, panics,
                   failures>>

\* The next one in order.
Join ==
    /\ owner = "join"
    /\ joining # <<>> /\ thread[Head(joining)] = "ended"
    /\ joining' = Tail(joining)
    /\ UNCHANGED <<thread, index, spinVars, owner, shutdown, threadCount, handles,
                   panics, failures>>

ResetCount ==
    /\ owner = "join"
    /\ joining = <<>>
    /\ owner' = "dropped"
    /\ threadCount' = 0
    /\ UNCHANGED <<thread, index, spinVars, shutdown, joining, handles, panics,
                   failures>>

\* The fields of Threadpool go, with its reference to Data.
Free ==
    /\ owner = "dropped"
    /\ owner' = "freed"
    /\ UNCHANGED <<thread, index, spinVars, shutdown, joining, threadCount, handles,
                   panics, failures>>

--------------------------------------------------------------------------------
SpinStep(c) == SpawnThread(c) \/ StoreHandle(c)

ThreadStep(t) == Register(t) \/ Exit(t) \/ SentryDrop(t)

DropStep == Drain \/ Join \/ ResetCount \/ Free

\* Nothing is left to happen.  (Not a step of the code: it tells a dropped pool
\* from a deadlock.)
Gone ==
    /\ owner = "freed"
    /\ \A t \in Threads : ~Live(t)
    /\ UNCHANGED vars

Next ==
    \/ \E c \in Callers : SpinStep(c) \/ SpawnFails(c)
    \/ \E t \in Threads : ThreadStep(t) \/ Panic(t)
    \/ Build \/ Shutdown \/ DropStep \/ Gone

Spec == Init /\ [][Next]_vars

\* The threads run and the OS refuses only finitely many creations.  Nothing
\* makes a worker unwind or the owner drop the pool.
Fairness ==
    /\ \A c \in Callers : WF_vars(SpinStep(c))
    /\ \A t \in Threads : WF_vars(ThreadStep(t))
    /\ WF_vars(Build) /\ WF_vars(DropStep)

FairSpec == Spec /\ Fairness

--------------------------------------------------------------------------------
(* Properties *)

\* The type of every variable.
TypeOK ==
    /\ thread \in [Threads -> {"unborn", "started", "registered", "unwinding", "ended"}]
    /\ index \in [Threads -> Indices]
    /\ spin \in [Callers -> {"no", "spawn", "store"}]
    /\ slot \in [Callers -> 0 .. NumWorkers]
    /\ built \in [Callers -> Threads \cup {NoThread}]
    /\ owner \in {"building", "open", "drain", "join", "dropped", "freed"}
    /\ shutdown = (owner \notin {"building", "open"})
    /\ threadCount \in Nat
    /\ handles \in Seq(Threads) /\ joining \in Seq(Threads)
    /\ panics \in 0 .. MaxPanics /\ failures \in 0 .. MaxFailures

\* No two threads are registered on the same slot of the queue: a replacement
\* overwrites the slot of a worker that has left it, never of one that works.
SlotsAreExclusive ==
    \A t, u \in Threads :
        /\ t # u
        /\ thread[t] = "registered" /\ thread[u] = "registered"
        => index[t] # index[u]

\* An unwind or a refused thread never shrinks an open pool: every index has a
\* worker, or a thread on its way to start one.
PoolIsFull ==
    owner = "open" =>
        \A i \in Indices :
            \E t \in Threads : Live(t) /\ index[t] = i

\* Until drop is through, thread_count() never says fewer threads than there
\* are.  (It may say more: nothing takes an unwound or a refused thread off it.)
CountCoversLive ==
    owner \notin {"dropped", "freed"} =>
        threadCount >= Cardinality({t \in Threads : Live(t)})

\* A thread that drop did not wait for is one whose handle spin_up stored after
\* drop had taken the list, or has yet to store: a replacement, since new stores
\* its handles before there is a pool to drop.  The unwind that it makes good, and
\* its own start, may well precede drop.
OnlyLateReplacementsOutlive ==
    owner \in {"dropped", "freed"} =>
        \A t \in Threads :
            Live(t) => t \in Range(handles) \/ \E c \in Threads : built[c] = t

\* Dropping the pool returns, and every thread comes to its end.
DropReturns == shutdown ~> owner = "freed" /\ \A t \in Threads : ~Live(t)

\* "When pool drops, it should join ALL threads: the original 2 threads, the
\* replacement thread that was created after the panic."
DropJoinsAll == owner \in {"dropped", "freed"} => \A t \in Threads : ~Live(t)

--------------------------------------------------------------------------------
(* The inductive invariant (LifecycleProofs) *)

\* Who is in spin_up: the builder, for the index it has come to, or a worker
\* that unwinds, for its own.
SpinMatches ==
    /\ \A t \in Threads : spin[t] # "no" => thread[t] = "unwinding" /\ slot[t] = index[t]
    /\ spin[Owner] # "no" => owner = "building"
    /\ slot[Owner] = NumWorkers <=> owner # "building"
    /\ \A c \in Callers : built[c] # NoThread <=> spin[c] = "store"

\* A thread has its index until the thread that replaces it has been created.
Claims(t) ==
    \/ thread[t] \in {"started", "registered"}
    \/ thread[t] = "unwinding" /\ spin[t] # "store"

\* The builder has brought index i into use.
InUse(i) ==
    \/ i < slot[Owner]
    \/ i = slot[Owner] /\ spin[Owner] = "store"

\* Each index in use has one claim, until the pool is dropped.
ClaimsMatch ==
    /\ \A t \in Threads : Claims(t) => InUse(index[t])
    /\ \A t, u \in Threads : Claims(t) /\ Claims(u) /\ index[t] = index[u] => t = u
    /\ ~shutdown =>
         \A i \in Indices : InUse(i) => \E t \in Threads : Claims(t) /\ index[t] = i

\* Every thread that is alive can be found by its handle.
HandlesMatch ==
    /\ \A t \in Threads : Live(t) =>
         t \in Range(handles) \cup Range(joining) \/ (\E c \in Callers : built[c] = t)
    /\ owner # "join" => joining = <<>>

\* thread_count covers the threads alive and those about to be created.
Spinning == {c \in Callers : spin[c] = "spawn"}
CountMatches ==
    owner \notin {"dropped", "freed"} =>
        threadCount >= Cardinality({t \in Threads : Live(t)}) + Cardinality(Spinning)

IInv == TypeOK /\ SpinMatches /\ ClaimsMatch /\ HandlesMatch /\ CountMatches

--------------------------------------------------------------------------------
(* The slots of the queue, as Queue sees them *)

\* The threads that work in slot i.
WorkersOf(i) == {t \in Threads : thread[t] = "registered" /\ index[t] = i}

\* The slots that have been in use and that nobody claims any more.
GivenUp == {i \in Indices : InUse(i) /\ ~\E t \in Threads : Claims(t) /\ index[t] = i}

Slot == INSTANCE WorkerSlots WITH
    Slots   <- Indices,
    Tenants <- Threads,
    worker  <- [i \in Indices |-> WorkersOf(i)],
    left    <- GivenUp,
    closed  <- shutdown

\* Lifecycle implements WorkerSlots: a slot gets a worker only when it has none,
\* loses it only to an unwind that will be made good, and is given up only when
\* the pool is being dropped, however unwinds, refused threads and drop fall.
ImplementsWorkerSlots == Slot!Spec
================================================================================

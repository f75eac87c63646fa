# A formal model of affinitypool

TLA+ modules, TLC configurations and TLAPS proofs for the thread pool under
`src/` (crate `affinitypool`, Rust). Paths below are relative to that
directory: `src/queue.rs` is the queue, `src/lib.rs` the pool, and so on.

Check a configuration with `tlc -config MCQueueTwo.cfg MCQueue.tla`, a proof
with `tlapm QueueProofs.tla`. `PROJECT.json` lists the runs with what each one
shows, a mutation of the modelled code for every property, the source lines of
every definition, the hazards and the theorems.

## 1. The system

| Component | State | Operations | Interacts with |
|---|---|---|---|
| Work queue (`queue.rs`) | sharded injectors, one deque per worker behind a stealer slot, `park` mutex and `notify` condition variable, `parked`, `notified`, `shutdown` | `push`, `pop_blocking` (with `scan`), `register_worker`, `enter_worker_scope`, `shutdown` | producers and workers call it; `push` picks a shard through `route_shard` |
| Scan order (`queue.rs`) | the worker's random state | preferred shard, rotation, cheap cap | part of `scan` |
| Routing (`cpu.rs`) | thread-local hint, last preferred shard, consecutive counter | `route_shard` | one cache per thread for every pool it uses |
| Worker threads (`lib.rs`, `builder.rs`, `data.rs`) | `thread_count`, `thread_handles`, strong and weak references to `Data` | `new`, `build`, `spin_up`, the worker's closure, `drop` | the worker loop calls `pop_blocking`; `drop` calls `shutdown` and joins |
| Sentry (`sentry.rs`) | `active`, `index`, weak reference | `cancel`, `drop` | a worker that unwinds calls `spin_up` for its index |
| Tasks (`lib.rs`, `local.rs`) | the `async_task` header; `SpawnFuture`'s runnable and task | `spawn`, `spawn_local`, `poll`, `drop`, `block_on_cancel` | schedule calls `push`; a worker runs the runnable |
| Global pool (`global.rs`, `lib.rs`) | a `OnceLock` | `build_global`, free `spawn`/`spawn_local` | |
| Builder, errors | settings | setters | `build` sizes the queue and calls `spin_up` |

What is hard here:

* **The parked handshake.** A push looks at `parked` without the lock; a worker
  counts itself and looks at the queues once more. If each misses the other, a
  runnable waits for ever. The two `fence(SeqCst)` decide it, on the injector
  path and on the self-spawn path.
* **The two counters.** `notified` lets a burst of pushes skip the lock. If it
  ever exceeds the wakes that are under way, a later push skips the wake a
  sleeper needs. It is touched on one path in and three paths out.
* **Batches.** A steal moves a batch from a place every worker looks at to the
  thief's deque, in two visible steps.
* **Shutdown** against a worker that is arming, and against queued runnables.
* **Unwinding workers**, before, during and after `drop`, and refused thread
  creations.
* **Bounded scans** in a large pool, and shards that are nobody's preferred one.
* **Cancellation** against a worker that is about to run, runs or has just run
  the closure: `block_on_cancel` may wake for the wrong reason, and must never
  end early, because the closure borrows from the dropping thread's stack.
* **Waiting workers.** A closure that drops a polled `SpawnFuture` takes its
  worker out of service, perhaps for a runnable in that worker's own deque.
* **Check, then initialise** in `build_global`.

`PROJECT.json` "hazards" lists these line by line with the properties that
would catch each going wrong.

What makes each component correct:

* queue: no wakeup is lost; every pushed runnable is run once; `parked` is
  exact; `notified` never overcounts; no worker sleeps on its own deque;
  `shutdown` reaches everybody and the last worker leaves an empty queue;
* scan order: a strict pass visits everything once, a pass never repeats;
* routing: single-producer fan-out is even, the counter never wraps;
* worker threads: one worker per slot at a time, an open pool never shrinks,
  `thread_count` does not undercount, `drop` returns and waits for every thread
  whose handle it could find;
* tasks: a closure runs at most once and never after its handle has gone, a
  `SpawnFuture`'s closure is over before its `drop` returns, that drop returns,
  an awaiter is woken and told how the closure ended;
* waiting workers: a worker that waits is not waiting for ever;
* builder: a pool is sized as documented, for every number a caller may pass;
* global: one winner, which is never dropped; and only the winner should report
  success.

## 2. The modules

| Module | Models | Used by |
|---|---|---|
| `ScanOrder` | victim orders of `scan` as pure operators | `Queue` |
| `Queue` | the whole of `queue.rs`, the worker loop around it | `MCQueue` |
| `TaskPool` | what the queue promises, with no queue in it | `Queue` (INSTANCE) |
| `QueueCancel` | `Queue`, with closures that wait in `SpawnFuture::drop` | `MCQueueCancel` |
| `TaskLife` | `spawn`, `spawn_local`, both futures, `block_on_cancel` | `MCTaskLife` |
| `CallContract` | what `spawn` and `spawn_local` promise, with no task in it | `TaskLife` (INSTANCE) |
| `Sizing` | workers and shards of a pool from its builder's settings, as pure operators | `Routing` |
| `Routing` | `route_shard`, for threads that use several pools | `MCRouting` |
| `Lifecycle` | threads, handles, sentries, drop | `MCLifecycle` |
| `WorkerSlots` | when a slot of the queue has a worker, with no thread and no queue in it | `Lifecycle` (INSTANCE) |
| `Global` | `build_global`, the free functions, with their proofs | `MCGlobal` |
| `ScanOrderProofs`, `QueueProofs`, `QueuePoolProofs`, `QueueCancelProofs` | theorems | each one extends the one before |
| `RoutingProofs`, `TaskLifeProofs`, `LifecycleProofs` | theorems | |

How they fit together. `Queue` says how a runnable gets from a push to a worker
and takes closures for atomic; `TaskLife` says what happens to one call around
that and takes the queue for a set; `QueueCancel` is the place where the two
meet, because a closure may wait for a runnable. `Lifecycle` says which threads
are workers, and `Queue` what a worker does; they share the shutdown flag and
the slots, and `WorkerSlots` says how those are used. `Lifecycle` implements it.
`Queue` takes it for granted: its slot `w` has worker `w` by construction, absent
only between an unwind and the `Register` of the replacement. `Lifecycle` takes
from `Queue` that a worker which does not unwind stays until the shutdown. That a
replacement comes at all is not `WorkerSlots`' to say: `PoolIsFull` has it on its
way, and the fairness of the threads that start it does the rest.

### ScanOrder

Places are `Injector(i)` and `Deque(w)`. `VictimOrders(w, probe)` is the set of
sequences of places one pass of worker `w` may visit after its own deque: the
preferred injector, the rotated other injectors, the rotated peers. The draw of
the xorshift generator is any start in `Starts(span)`, the image of
`fast_reduce`. `NumWorkers`, `NumShards` and `CheapScanVictims` are constants;
the power of two of the code is not needed, because `x & mask` is `x % NumShards`.

### Queue

One action is one access to shared memory, or one region under the park lock
that no unlocked reader can look into. `pc[t]` is where a thread is:

| `pc` | Code |
|---|---|
| `idle` / `run` | outside `push`; a worker is running a closure, from which it may push |
| `push`, `loadParked`, `loadNotified`, `notify` | `push`: before the fence, the two loads of the check, the locked recheck |
| `scan`, `probe`, `migrate` | own deque, walking the victims in `todo`, publishing a batch |
| `lock`, `armed` | before `park.lock()`, between `parked.fetch_add` and the fence |
| `check`, `wait`, `asleep`, `woken` | the shutdown flag, `notify.wait` before and after the release, a wake before the lock is back |
| `found`, `quit`, `back` and `...Left` | the three ways out, before and after the signal is given back |
| `register`, `exited` | entry of the worker closure; the loop is over |

A scan is strict exactly when its worker holds the lock (`Strict(w)`).

Where the memory model matters, the model is weaker than interleaving:

* A push goes to `buffer[t]` and becomes visible (`Flush`) at any moment up to
  its fence; `PushFence` waits for it.
* An unlocked load of `parked` may miss the increment of a worker that is
  between `fetch_add` and its fence (`ParkedReads`). Locked accesses and
  everything after the fence are in order.
* `steal_batch_and_pop` claims a batch (`Steal`) and shows the rest of it in the
  thief's deque later (`Migrate`); in between it is in `transit`. How many it
  claims is crossbeam's business: any non-empty prefix.
* `Steal::Retry` may be the answer wherever there is something to steal.
* The store of the shutdown flag is one step; the lock that follows orders it
  before every later load under the lock.

Spurious wakes do not exist in parking_lot and are not modelled; neither are
its internal queues (`notify_one` wakes any sleeper).

Callers borrow the pool, so `Push` starts only before `SetShutdown`, and
`SetShutdown` only when no push is under way. A worker that pushes stays inside
its closure (`Home`). `Panic` is a worker that unwinds between two runnables. No
panic of a closure does that: `catch_unwind` has the closure and its captures, and
`async_task` the rest. `sentry.rs` provides for an unwind outside `Runnable::run`
and calls the path dead in normal operation; so it is in the model, once, as the
reason for a respawn: the replacement registers on the same index and the old
deque is gone with what was in it (`lost`). A stealer slot
stays set while its worker is being replaced.

`Joined` (and `Gone` in `Lifecycle`) only stutter in the final state, so that
TLC's deadlock check is on everywhere else.

### TaskPool

`waiting`, `hand`, `finished`, `dropped` and the workers that have `retired` or
are `dead`. A task is taken by one worker once; nothing is submitted to a closed
pool; a worker retires only from a closed pool and the last one only when
nothing waits; an unwound worker is dead (`Die`) until it is replaced, and tasks
are dropped only then. `Queue`
implements it with `waiting` the tasks that are known and neither run, dropped
nor in a hand, wherever they are.

### QueueCancel

Adds to `Queue` which thread has which polled `SpawnFuture` (`held`), what each
worker waits for inside a drop (`waits`) and which runnables were cancelled
before anybody had them to run (`cancelled`: their closure does not run, so it
neither pushes nor drops). `Submit` is a push of `spawn`, or of the first poll of
a `SpawnFuture`, whose future the pushing thread then has; `Drop` is
`block_on_cancel` of a future the closure has polled itself or, with `Handover`,
of one that a producer has polled and passed on; `DropReturns` is its return.
Every other step is a step of `Queue`, and every step of this module is one of
`Queue` or leaves it alone (theorem `ImplementsQueue`). `MaxBlocked` bounds the
workers that wait at one time. A `SpawnFuture` borrows its pool, so `ClosePool`
waits until all of them are over.

### TaskLife and CallContract

`phase`, `closed`, `output` and `awaiter` are `async_task`'s header, an external
atomic object: its state word, its output slot and its waker. `future`, `awaited`
and `answer` are the caller's side, with `pc`, `at` and `token` (of
`thread::park`) for the threads inside the library; `runnable`, `work`, `hand`
and `waking` are the pool's.

| Action | Code |
|---|---|
| `Spawn`, `SpawnLocal` | `Threadpool::spawn`, which schedules; `spawn_local`, which does not |
| `BeginPoll`; `PollPending`, `PollReady`, `PollLost` | `poll` of either future; the answer of `Task::poll` |
| `DropUnpolled`, `DropJoinHandle`, `DropSpawnFuture` | the three drops |
| `SetCanceled`, `CancelPending`, `Unpark`, `SpuriousUnpark`, `CancelReady` | `block_on_cancel`: `Task::cancel` polled in a loop around `park` |
| `Take`, `RunClosed`, `RunStart`, `RunEnd`, `Settle`, `Wake` | the worker: `runnable.run()` around `catch_unwind`. `RunEnd` publishes that the closure is completed, `Settle` drops the output of a task that was cancelled meanwhile and takes the waker, `Wake` calls it |
| `Lose` | a queued runnable is dropped with a dead worker's deque (`Queue`'s `Register`) |

Any thread may poll or drop any future, one thread at a time (`&mut self`,
`self`); polling needs no wake. Between `RunEnd`, `Settle` and `Wake` others may
come in: a canceller that polls after `RunEnd` is through (`CancelReady`), with an
output that is then the worker's to drop if the task was cancelled before its end;
and a token can arrive late and meet the thread's next park. `PollLost` is the panic
of `Task::poll` on a task whose runnable was dropped: it leaves a `SpawnFuture`
with its task, which the unwinding drop then cancels.

`CallContract` has a handle and a closure per call: a closure starts only while
its handle is held, ends once, or is cancelled; an answer is the outcome; the
handle of a borrowing closure goes only when that is over or was never asked for.

### Sizing and Routing

`Sizing` computes the workers (`NumThreads`) and shards (`NumShards`) of a pool
from `num_threads`, `thread_per_core` and `shards`, where `Settings` are the
ones the setters can leave; `NextPowerOfTwo` is 0 beyond the width of `usize`,
as in a release build.

`Routing` has two actions. `Build(q)` is `Builder::build` as far as the size of
the queue goes; `RouteShard(p, q)` is the whole of `route_shard` for a push of
thread `p` to pool `q`, whose mask depends on the pool while the route is the
thread's. The counter saturates at `CountMax` for `u32::MAX`. `visited` is a
history variable of `SpillIsEven`.

### Lifecycle

`spin_up` is three steps of its caller, the owner or an unwinding worker: count
(`BeginSpin`), create (`SpawnThread`) or be refused (`SpawnFails`: the dropped
closure's sentry is active, so it starts over, from within), store the handle.
A thread is `started`, `registered`, maybe `unwinding`, `ended`; between
registration and its end it may do anything `Queue` says (`WorkerSlots`: the
threads registered on a slot are its workers, and a slot is given up when it has
been in use and no thread claims it any more). The owner goes from
`building` through `open`, `drain` and `join` to `dropped` and `freed`. `Data`
is alive while the pool or a `spin_up` holds it.

### Global

`Check` and `GetOrInit` are the two halves of `build_global`, which any number of
threads may interleave; a pool that is not stored is dropped with the call.
`FreeSpawn` is the first poll of the free `spawn` or `spawn_local`: inline or on
the pool, as the cell is then.

## 3. What TLC checks

| Run | Instance | Properties |
|---|---|---|
| `queue_two` | 2 workers, 2 shards, 2 producers, 3 tasks, 1 unwind, no spin (697 thousand states) | `TypeOK`, `ParkedIsExact`, `NotifiedIsCovered`, `NoLostWakeup`, `Attended`, `OwnerIsUp`, `ShutdownReachesAll`, `ImplementsTaskPool` |
| `queue_unowned` | 3 workers, 4 shards, cheap cap 0, 1 task (286 thousand) | `NoLostWakeup` |
| `queue_live` | 2 workers, 2 shards, 1 producer, 2 tasks, 1 unwind, fair (148 thousand) | `EventuallyRun`, `ShutdownCompletes` |
| `queue_cancel` | 2 workers, 1 shard, 1 producer, 3 tasks, 1 unwind, 1 spin, 1 worker waiting at a time (1.1 million) | `CancelTypeOK`, `DropsComplete`, `PeersAttend` |
| `routing` | 1 producer, 2 pools, one with any settings, threshold 2, counter up to 14, `usize` of 5 bits (93 thousand) | `TypeOK`, `ShardCounts`, `SpillIsEven` |
| `lifecycle` | 2 workers, 2 unwinds, 1 refused creation, fair (11 thousand) | `TypeOK`, `SlotsAreExclusive`, `PoolIsFull`, `CountCoversLive`, `OnlyLateReplacementsOutlive`, `ImplementsWorkerSlots`, `DropReturns` |
| `task_life` | 2 calls, 2 threads that poll and drop, 2 workers, 1 lost runnable, fair (149 thousand) | `TypeOK`, `ClosureEndsFirst`, `AwaiterIsWoken`, `ImplementsContract`, `DropReturns`, `PendingIsWoken` |

Why the bounds are enough to be interesting. Two workers give one that arms
while the other scans, runs, pushes on its own deque or leaves; two producers
race each other in the locked recheck; three tasks make a batch with something
left in both places; one unwind respawns a worker with a deque that is not empty. In
`queue_unowned` shard 3 is preferred by none of three workers, and a cap of zero
is the limit of what a cap can do: cheap scans miss that shard every time, as
with the cap of eight and sixteen shards they may. Spin rounds
(6 in the code) repeat a cheap scan and nothing else; one round in
`queue_cancel` takes both branches. There, three tasks are the smallest number
with one that waits, one that is waited for and one that keeps the peer busy. In
`routing` the caller's numbers go from 0 past `MaxThreads` and include the
largest of the type, which has no next power of two; the counter passes the
threshold by more than a turn of the largest pool before it saturates. Two
calls in `task_life` let a stale token of one cancellation meet the next one on
the same thread, and let a worker that has not yet called a waker be overtaken
by another. Symmetry is used for producers and tasks in the
safety run only; workers are never symmetric, because their index matters.

Fairness. `FairSpec` of `Queue` asks weak fairness of every thread's own steps
(the OS runs threads that can run, closures return) and of the broadcast, and
strong fairness of `Steal` by each worker: `Retry` means that somebody else
succeeded, so it cannot be the answer for ever. Weak fairness of a lock step
means that a lock which stays free is granted. Pushing, unwinding and dropping
are never forced. `TaskLife` asks weak fairness of a thread inside the library and
of every worker: a queued runnable is taken, which is `EventuallyRun` of `Queue`,
and closures return. Nobody has to poll, drop, or lose a runnable, and a
spurious return of `park` is never needed. `Lifecycle` asks weak fairness of every thread, the builder
and `drop`; refusals of the OS are finite by their bound.

### Disagreements between code and documentation

Each is a run that TLC must find violated.

* `queue_cancel_all` (`DropsComplete`): `lib.rs:231-233` says that a `SpawnFuture`
  polled and dropped inside a worker completes on a pool of two or more workers,
  because a peer steals the runnable. It does so while the peer is not itself
  inside such a drop. Here the one worker waits for the closure that the other
  has stolen, and that closure polls and drops a future of its own: nobody is
  left. `queue_cancel` shows that one waiting worker of two is safe
  when futures stay with the closure that polled them.
* `queue_stranded` (`DropsComplete`): the module documentation
  (`queue.rs:104-106`) concludes that a wakeup is delivered for every runnable
  the strict scan missed. A batch in flight is seen by neither side of the
  argument: a second worker may go to sleep while runnables wait behind the
  first worker's closure. They are only late (`EventuallyRun`), unless that
  closure drops the future of one of them, polled by a producer and moved into
  the closure. Then it waits for ever although a worker is free. A batch of the
  model is any prefix of the injector; crossbeam takes about half, for which
  three queued runnables are enough.
* `lifecycle_outlive` (`DropJoinsAll`): `tests/threadpool_tests.rs:713-716` says
  that drop joins all threads including replacements. One whose handle `spin_up`
  stores after drop has taken the list is not joined. The worker it replaces may
  have unwound after that, but also before: drop may come between the creation of
  the replacement and the push of its handle (`lib.rs:341-368`).
  `OnlyLateReplacementsOutlive` in the passing run says that there is no other
  exception.
* `task_life_output` (`OutputEndsFirst`): `lib.rs:238-240` says that
  `SpawnFuture`'s drop guarantees that the worker has stopped touching what the
  call borrows. `block_on_cancel` goes by the state word of `async_task`, which
  says completed before the worker has dropped the output of a cancelled task. So
  the drop may return while the destructor of the output is still to run or
  running; the output's type may hold the borrows too (`R: 'pool`,
  `lib.rs:261`). For the closure itself the promise holds (`ClosureEndsFirst`). The
  order of the two steps is that of version 4.7.1 of `async_task`, which is not part
  of this repository.
* `global_race` (`OkMeansGlobal`): two threads pass the check of `build_global`
  together; the slower one's pool is dropped and it is told `Ok`
  (`lib.rs:304-306`), where `error.rs:5` has an error for it.

Remarks on comments that say more than the code does, without a run of their own:

* `queue.rs:575-576` says that every pass visits every victim; cheap ones stop
  at eight (`VictimOrders` with a bounded probe).
* `cpu.rs:12-14` says that pushes of several producers interleave and reset the
  counter; the counter is per thread, so nothing another thread does resets it.
* `cpu.rs:5-7` says that the rotation distributes a fan-out evenly. The counter
  is shared by all pools of a thread: one that alternates between two pools in
  which it prefers the same shard advances it twice per push to either, and of a
  pool with an even number of shards it then reaches every other one. Hence the
  condition of `SpillIsEven`.

* `CHEAP_SCAN_VICTIMS`: its comment says that liveness would survive a
bounded strict sweep. The mutant of `queue_unowned`, which bounds it, loses a
wakeup: with fewer workers than shards and a small enough cap, the shard nobody
prefers can be missed by every scan. (With the code's cap of eight, an override
of nine or more on a pool of nine to fifteen workers gives sixteen shards, some of
them nobody's preferred one.)

## 4. What is proved

For every number of workers, shards, producers and tasks, every cap and every
number of spin rounds, from `SizesAssumption` and `QueueAssumption` (sizes are
positive, threads and tasks are told apart) and nothing else:

* `ScanOrderProofs`: `StrictVisitsAll` and `NoPlaceTwice`. The rotation is a
  permutation of the steps, the shard step is a wrap (`ModStep`, so that no
  bitmask or division reaches the solver), each leg covers its places without
  repetition, and the order is the concatenation.
* `QueueProofs`: `TypeCorrect` (`Spec => []TypeOK`), together with the
  control facts: who holds the lock (`LockStep`), that a hand is full where
  `done` needs it (`HandStep`), that a buffered push is where it belongs
  (`BufferStep`), and that pushes and exits lie on either side of the shutdown
  flag (`ShutdownStep`). Then `Invariance` (`Spec => []IInv`) and, from it,
  `ParkedExact`, `NotifiedCovered`, `OwnersUp`, `AlwaysAttended`,
  `ShutdownReaches` and `WakeupNotLost`.

The argument for `WakeupNotLost` runs as follows. `NoLostWakeup` speaks of the
states where everybody is at rest and is not inductive: nothing in it says why
the step into such a state is impossible. `Attended` says it for every moment:
a filled injector has a worker that will still look at it, or a push that has
yet to pass the wake-up check. It is kept by each step for a reason of its own:

* a push shows its runnable before its fence and is then itself the witness
  (`WillWake`);
* a push that gives up read `parked <= notified`. By `ParkedIsExact` and
  `NotifiedIsCovered` the armed workers are then all woken or about to scan, so
  one of them takes over; if it read an old `parked`, the worker it missed has
  not reached its fence and has the whole strict scan before it;
* a push that notifies wakes a sleeper, who will scan;
* a strict pass goes past a place only if it is empty, and by `StrictVisitsAll`
  it has every place before it when it starts;
* a worker that leaves does so towards a scan, or exits, and by
  `ShutdownIsLate` no push follows it.

`OwnerIsUp` does the same for deques, which only their owner fills.
`ParkedIsExact` needs no more than that steps into and out of the armed region
are single; `NotifiedIsCovered` needs that signals are counted only with a
sleeper to wake, which is `ParkedIsExact` again under the lock. `TypeOK` leaves
`parked` an integer, so that types are inductive alone; that it is a natural
number is `ParkedIsExact`.

`QueuePoolProofs` shows `ImplementsPool` (`Spec => ImplementsTaskPool`). Which queue
holds a runnable is not part of the abstract pool, but that no two threads get the
same one is, and `IInv` says nothing of it: a copy left in a queue by a steal would
break none of its conjuncts. `PlaceInv` adds that a task is in exactly one of the
places the code moves it through (not pushed, a push buffer, a queue, a batch in
transit, a hand, run, dropped: `Alone`), at one position of it (`NoneTwice`), and
that hands and batches are empty where the code does not use them (`HandIsKnown`).
Seven kinds of steps move tasks, each has its lemma (`PushMoves` to `FinishMoves`),
on top of what an append, a pop, a steal and a concatenation do to a sequence
without repetition; `StepKinds` says that the others move none. Then a pop or a
steal is a `Take`, `Register` is a `Replace`, and so on; the one step that needs
more is the last worker's exit (`LeaveRetires`): by `NothingMissed` the queues are
empty, by `BufferIsLocal` and `HandIsKnown` so are buffers and batches, so by `Alone`
no task waits.

`QueueCancelProofs` shows `ImplementsQueue` (`SpecC => Spec`): whatever closures
do with futures, the pool is one that `Queue` describes, so all of the above holds
with any number of workers waiting, `AttendedWhileWaiting` and
`CancelImplementsPool` among it. With it, `CancelTypeCorrect`: a future has one
owner, and a worker waits only for one that nobody else has any more.

`NoDropIsStuck` is `SpecC => []DropsComplete` under two conditions on the
constants, `MaxBlocked < NumWorkers` (a worker is left that does not wait) and
`~Handover` (futures stay with the closure that polled them). Neither can be
dropped: `queue_cancel_all` is the counterexample without the first,
`queue_stranded` without the second. They are conditions on the pool's use, not
guarantees of the code: what closures do decides them. The argument supposes a
state where no step is left and a worker waits.

* `BoundStep`: fewer workers wait than there are, so one does not; as nothing
  can happen, it sleeps or has exited.
* `PeersAttended`: whatever is queued has a worker that will look at it *and has
  nothing to wait for*, or a push that has yet to wake one, or else every worker
  will look at it once its own drop, if it is in one, returns. The last case is that
  of a pool in which nobody sleeps or has gone; all of its workers may be waiting in
  a drop, which `BoundStep` excludes. It is what makes the invariant inductive: a
  worker that starts to wait stops being a witness, and only the fence of its own self-push (`MutQuietSelfPush` drops it)
  has made sure that there is another. A `Drop` of a future from elsewhere has no
  such push behind it, hence `~Handover`.
* So no queue holds a runnable. Buffers and batches are empty where nobody pushes
  or steals, and by `Alone` the runnable a worker waits for is then in a hand: that
  of another worker that waits (`WaitsForWaiter`).
* `RankStep`: runnables have a rank (`Ranked`) such that a closure ranks below
  everything it polls and waits for, because it pushed that itself, later. Of the
  workers that wait, one has the runnable of the highest rank (`Highest`), and it
  cannot be waiting for another one of them.

`TaskLifeProofs`: `TypeCorrect`, `ClosureFirst`, `AwaiterWoken` and `Implements`
(`Spec => ImplementsContract`), for any number of calls, threads, workers and
lost runnables, from `TaskLifeAssumption` (names are told apart). `ClosureEndsFirst`
is not inductive: that a cancellation ends only when the closure is over is of
use only if a closure that is over does not start again. `IInv` adds where the
runnable is for each state of the header (`RunnableMatches`), that it is in one
hand (`HandMatches`), that a call has one thread in the library (`InLibrary`),
what the header knows of the answer (`AnswerMatches`), and that whoever waits for
a closure that is not over has its waker registered (`WakerIsThere`), without
which `AwaiterIsWoken` could not survive the end of the run. What `ClosureFirst`
says is about the closure; of its output it says nothing, and `task_life_output`
shows that it cannot.

`LifecycleProofs`: `TypeCorrect`, `SlotsExclusive`, `PoolFull`, `CountCovers` and
`OnlyLateOutlive`, for any number of workers, unwinds and refused creations. The
argument is a claim: of the threads that are alive, a slot has one that has not
unwound or that is going to replace itself (`ClaimsMatch`), and every thread alive
is in the list of handles, in the owner's hands or with the thread that created
it (`HandlesMatch`). `CountMatches` adds to the count of threads those that are
being created. `ImplementsSlots` (`Spec => ImplementsWorkerSlots`) rests on the same
claim: a thread that enters a slot, leaves it or unwinds is the only one that
claims it (`SoleWorker`), and the creation of a replacement passes the claim on
unseen (`SpawnUnseen`).

`RoutingProofs`: `SizesAreDocumented`, `TypeCorrect`, `PoolsAreSized` and
`SpillsEvenly`, for any number of threads and pools, any settings, limits, word
size, threshold and counter width. `SizingAssumption` says of the limits what the
code's values (512 and 8) satisfy: that the largest number of threads can be
rounded up, that it is not below the default of two, and that the largest number
of shards is a power of two. Each is needed: with `MaxThreads` = 1 a builder
without settings would have more threads than the limit, and with a limit of six
shards the default would be capped at six. `ExponentAssumption` is a law of
arithmetic, 2^(k+1) = 2 * 2^k, which the provers do not know for a variable k. The
rounding picks the least power that is large enough, and half of it, if it is not
1, is a power that is not (`RoundedUp`).

`SpillIsEven` is an action property: the next shard is none of `visited`.
`RotationInv` says what `visited` is: the shards of the last m steps of the turn,
where m is less than the number of shards, because a turn that has come round is
forgotten. Remainders of consecutive numbers are apart for less than a turn
(`NotBackYet`) and cover everything in a whole one (`WholeTurn`); the provers know
division with a variable divisor only as far as `Remainder` and `Quotient`, from
which the rest follows without it.

`Global`: `GlobalIsThere` and `WrittenOnce`, for any number of pools and calls.

What stays with TLC: liveness (`EventuallyRun`, `ShutdownCompletes`, both
`DropReturns`, `PendingIsWoken`) under fairness, which this prover does not do.
Every invariant and every refinement of a passing run is a theorem as well.

## 5. What is not modelled, and what is left

Not modelled at all: thread names and stack sizes, the random generator beyond
its range, wasm, the error's message; the insides of crossbeam, parking_lot,
arc-swap, async_task and std; relaxed reads of `thread_count` by
`thread_count()`.

Left out on purpose:

* Leaking a `SpawnFuture`. It breaks the `unsafe` contract of `spawn_local`, and
  `ClosureEndsFirst` holds because no action does it.
* A pool dropped by one of its own closures (`lib.rs:388`): `drop` then joins the
  thread it runs on, and what happens is the platform's.
* Liveness over the composition. That a drop inside a worker returns follows in
  three parts, each checked on its own: the runnable is taken or lost
  (`EventuallyRun`, when a worker is free), one is free (`DropsComplete`), and
  the waiting thread is then woken (`TaskLife`'s `DropReturns`).

What could be added: the composition of `TaskLife` with `Queue`, in which the
runnables of calls are those the queue holds; so far `TaskLife` takes the queue for
the set that `TaskPool` says it is.

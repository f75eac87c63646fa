-------------------------------- MODULE TaskLife --------------------------------
(***************************************************************************)
(* One closure from call to answer: Threadpool::spawn and spawn_local,     *)
(* JoinHandle, SpawnFuture and block_on_cancel (src/src/lib.rs, local.rs). *)
(* Futures are polled and dropped by threads outside the pool, in any      *)
(* order and by any of them; workers take queued runnables and run them.   *)
(* How a runnable gets from the queue to a worker is module Queue.         *)
(*                                                                         *)
(* async_task is external: its header is an atomic object (`phase',        *)
(* `closed', `output', `awaiter') and each of its operations one step,     *)
(* except the end of run(): the state word says that the closure has       *)
(* stopped, then the output of a cancelled task is dropped and the waker   *)
(* taken out, then the waker is called; others may come in between.  std's *)
(* park and unpark are a token.                                            *)
(***************************************************************************)
EXTENDS Naturals, FiniteSets

CONSTANTS
    Calls,      \* calls of spawn or spawn_local
    Callers,    \* threads that poll and drop the futures
    Workers,
    MaxLost,    \* bound: runnables dropped with the deque of a dead worker
    None

ASSUME TaskLifeAssumption ==
    /\ MaxLost \in Nat
    /\ None \notin Calls
    /\ Callers \cap {"nobody", "task"} = {}
    /\ None \notin {"value", "panic", "lost"}

VARIABLES
    \* The header of async_task
    phase,      \* phase[c]: "new", "scheduled", "running", "completed", "dropped"
    closed,     \* closed[c]: CLOSED
    output,     \* output[c]: the output that nobody has taken yet, and whose
                \* destructor has not returned
    awaiter,    \* awaiter[c]: whose waker is registered: "nobody", "task", a thread
    \* The caller's side
    future,     \* future[c]: "none", "unpolled", "live", "answered", "dropped"
    local,      \* calls of spawn_local
    awaited,    \* awaited[c]: the task around c: "fresh", "pending", "woken"
    answer,     \* answer[c]: what poll returned or raised
    pc, at,     \* pc[t], at[t]: what t is doing in the library, and to which call
    token,      \* token[t]: park's token of thread t
    \* The pool's side
    runnable,   \* runnable[c]: "none", "held", "queued", "taken", "gone"
    work, hand, \* work[w], hand[w]: what worker w does, with which runnable
    waking,     \* waking[w]: the waker w has taken out and not called yet
    outcome,    \* outcome[c]: how the closure ended
    lost        \* runnables lost so far

headerVars == <<phase, closed, output, awaiter>>
callVars   == <<future, local, awaited, answer>>
threadVars == <<pc, at, token>>
poolVars   == <<runnable, work, hand, waking, outcome, lost>>
vars == <<headerVars, callVars, threadVars, poolVars>>

Outcomes == {"value", "panic"}

Init ==
    /\ phase = [c \in Calls |-> "new"]
    /\ closed = [c \in Calls |-> FALSE]
    /\ output = [c \in Calls |-> None]
    /\ awaiter = [c \in Calls |-> "nobody"]
    /\ future = [c \in Calls |-> "none"]
    /\ local = {}
    /\ awaited = [c \in Calls |-> "fresh"]
    /\ answer = [c \in Calls |-> None]
    /\ pc = [t \in Callers |-> "idle"]
    /\ at = [t \in Callers |-> None]
    /\ token = [t \in Callers |-> FALSE]
    /\ runnable = [c \in Calls |-> "none"]
    /\ work = [w \in Workers |-> "idle"]
    /\ hand = [w \in Workers |-> None]
    /\ waking = [w \in Workers |-> "nobody"]
    /\ outcome = [c \in Calls |-> None]
    /\ lost = 0

\* The runnable has stopped or will never run: neither SCHEDULED nor RUNNING.
Over(c) == phase[c] \in {"completed", "dropped"}

\* Thread t enters the library with call c, or leaves it.
Free(t, c) == pc[t] = "idle" /\ \A u \in Callers : at[u] # c
Enter(t, c, label) ==
    pc' = [pc EXCEPT ![t] = label] /\ at' = [at EXCEPT ![t] = c]
Return(t) ==
    pc' = [pc EXCEPT ![t] = "idle"] /\ at' = [at EXCEPT ![t] = None]

\* Mutant of Woken: ParkWaker does not unpark.
MutWokenAsleep(c, who) ==
    /\ awaited' = IF who = "task" /\ awaited[c] = "pending"
                    THEN [awaited EXCEPT ![c] = "woken"] ELSE awaited
    /\ UNCHANGED token

\* Calling a waker: the executor learns that the task around c is to be polled,
\* or ParkWaker unparks its thread.
Woken(c, who) ==
    /\ awaited' = IF who = "task" /\ awaited[c] = "pending"
                    THEN [awaited EXCEPT ![c] = "woken"] ELSE awaited
    /\ token' = [t \in Callers |-> token[t] \/ t = who]

--------------------------------------------------------------------------------
(* The caller *)

\* Threadpool::spawn: the runnable is on the queue before the call returns.
Spawn(c) ==
    /\ future[c] = "none"
    /\ future' = [future EXCEPT ![c] = "live"]
    /\ phase' = [phase EXCEPT ![c] = "scheduled"]
    /\ runnable' = [runnable EXCEPT ![c] = "queued"]
    /\ UNCHANGED <<closed, output, awaiter, local, awaited, answer, threadVars,
                   work, hand, waking, outcome, lost>>

\* Threadpool::spawn_local: the runnable stays with the future.
SpawnLocal(c) ==
    /\ future[c] = "none"
    /\ future' = [future EXCEPT ![c] = "unpolled"]
    /\ local' = local \cup {c}
    /\ phase' = [phase EXCEPT ![c] = "scheduled"]
    /\ runnable' = [runnable EXCEPT ![c] = "held"]
    /\ UNCHANGED <<closed, output, awaiter, awaited, answer, threadVars, work,
                   hand, waking, outcome, lost>>

\* poll, up to the call of Task::poll: a SpawnFuture's first one schedules.
\* Executors poll when they like, not only when woken.
BeginPoll(t, c) ==
    /\ Free(t, c)
    /\ future[c] \in {"unpolled", "live"}
    /\ future' = [future EXCEPT ![c] = "live"]
    /\ runnable' = IF future[c] = "unpolled"
                     THEN [runnable EXCEPT ![c] = "queued"] ELSE runnable
    /\ Enter(t, c, "poll")
    /\ UNCHANGED <<headerVars, local, awaited, answer, token, work, hand, waking,
                   outcome, lost>>

\* Task::poll finds the closure not over: it registers the waker.
PollPending(t) ==
    LET c == at[t] IN
    /\ pc[t] = "poll"
    /\ ~Over(c)
    /\ awaiter' = [awaiter EXCEPT ![c] = "task"]
    /\ awaited' = [awaited EXCEPT ![c] = "pending"]
    /\ Return(t)
    /\ UNCHANGED <<phase, closed, output, future, local, answer, token, poolVars>>

\* Closing a completed task and taking its output are one step, so that whoever
\* finds it closed already leaves the output alone.
CloseWith(c) ==
    /\ closed' = [closed EXCEPT ![c] = TRUE]
    /\ output' = [output EXCEPT ![c] = IF closed[c] THEN @ ELSE None]

\* It finds the output: the value is returned, the payload of a panic raised.
PollReady(t) ==
    LET c == at[t] IN
    /\ pc[t] = "poll"
    /\ phase[c] = "completed" /\ ~closed[c]
    /\ CloseWith(c)
    /\ answer' = [answer EXCEPT ![c] = output[c]]
    /\ future' = [future EXCEPT ![c] = "answered"]
    /\ awaiter' = [awaiter EXCEPT ![c] = "nobody"]
    /\ Return(t)
    /\ UNCHANGED <<phase, local, awaited, token, poolVars>>

\* It finds that the runnable was dropped, and panics.  A SpawnFuture still has
\* its task then, which its drop cancels while the panic unwinds.
PollLost(t) ==
    LET c == at[t] IN
    /\ pc[t] = "poll"
    /\ Over(c) /\ closed[c]
    /\ answer' = [answer EXCEPT ![c] = "lost"]
    /\ awaiter' = [awaiter EXCEPT ![c] = "nobody"]
    /\ IF c \in local
         THEN Enter(t, c, "setCanceled") /\ UNCHANGED future
         ELSE Return(t) /\ future' = [future EXCEPT ![c] = "answered"]
    /\ UNCHANGED <<phase, closed, output, local, awaited, token, poolVars>>

\* Mutant of DropUnpolled: the future cancels as if it had been polled.
MutUnpolledBlocks(t, c) ==
    /\ Free(t, c)
    /\ future[c] = "unpolled"
    /\ Enter(t, c, "setCanceled")
    /\ UNCHANGED <<headerVars, callVars, token, poolVars>>

\* Drop of a SpawnFuture that was never polled: runnable and task go here.
DropUnpolled(t, c) ==
    /\ Free(t, c)
    /\ future[c] = "unpolled"
    /\ future' = [future EXCEPT ![c] = "dropped"]
    /\ phase' = [phase EXCEPT ![c] = "dropped"]
    /\ closed' = [closed EXCEPT ![c] = TRUE]
    /\ runnable' = [runnable EXCEPT ![c] = "gone"]
    /\ UNCHANGED <<output, awaiter, local, awaited, answer, threadVars, work,
                   hand, waking, outcome, lost>>

\* Calling the waker that is registered.
Notify(c) ==
    /\ awaiter' = [awaiter EXCEPT ![c] = "nobody"]
    /\ Woken(c, awaiter[c])

\* Task::set_canceled calls it when it closes the task, which it does unless the
\* closure is over.
NotifyIfOpen(c) ==
    IF Over(c) THEN UNCHANGED <<awaiter, awaited, token>> ELSE Notify(c)

\* Drop of a JoinHandle: the task is cancelled and detached, nobody waits.
DropJoinHandle(t, c) ==
    /\ Free(t, c)
    /\ future[c] = "live" /\ c \notin local
    /\ future' = [future EXCEPT ![c] = "dropped"]
    /\ CloseWith(c)
    /\ NotifyIfOpen(c)
    /\ UNCHANGED <<phase, local, answer, pc, at, poolVars>>

\* Mutant of DropSpawnFuture: the task is cancelled and detached, as in
\* JoinHandle, so that the caller's borrows may end under a running closure.
MutDetach(t, c) ==
    /\ Free(t, c)
    /\ future[c] = "live" /\ c \in local
    /\ future' = [future EXCEPT ![c] = "dropped"]
    /\ CloseWith(c)
    /\ NotifyIfOpen(c)
    /\ UNCHANGED <<phase, local, answer, pc, at, poolVars>>

\* Drop of a SpawnFuture that was polled and not answered: block_on_cancel.
DropSpawnFuture(t, c) ==
    /\ Free(t, c)
    /\ future[c] = "live" /\ c \in local
    /\ Enter(t, c, "setCanceled")
    /\ UNCHANGED <<headerVars, callVars, token, poolVars>>

\* Task::cancel begins ...
SetCanceled(t) ==
    /\ pc[t] = "setCanceled"
    /\ closed' = [closed EXCEPT ![at[t]] = @ \/ ~Over(at[t])]
    /\ NotifyIfOpen(at[t])
    /\ pc' = [pc EXCEPT ![t] = "pollCancel"]
    /\ UNCHANGED <<phase, output, future, local, answer, at, poolVars>>

\* ... is pending while the runnable is queued or running: the thread's waker
\* is registered and the thread goes to park ...
CancelPending(t) ==
    /\ pc[t] = "pollCancel"
    /\ ~Over(at[t])
    /\ awaiter' = [awaiter EXCEPT ![at[t]] = t]
    /\ pc' = [pc EXCEPT ![t] = "park"]
    /\ UNCHANGED <<phase, closed, output, callVars, at, token, poolVars>>

\* Mutant of CancelReady: the thread stays inside the library.
MutStayInside(t) ==
    /\ pc[t] = "pollCancel"
    /\ Over(at[t])
    /\ CloseWith(at[t])
    /\ awaiter' = [awaiter EXCEPT ![at[t]] = "nobody"]
    /\ Woken(at[t], IF awaiter[at[t]] = t THEN "nobody" ELSE awaiter[at[t]])
    /\ future' = [future EXCEPT ![at[t]] = "dropped"]
    /\ pc' = [pc EXCEPT ![t] = "idle"]
    /\ UNCHANGED <<phase, local, answer, at, poolVars>>

\* ... and is through when the state word says that it has stopped.  An output
\* is dropped here, unless the task was closed before: then the worker does it,
\* or is doing it.  A waker other than this thread's is called.
CancelReady(t) ==
    /\ pc[t] = "pollCancel"
    /\ Over(at[t])
    /\ CloseWith(at[t])
    /\ awaiter' = [awaiter EXCEPT ![at[t]] = "nobody"]
    /\ Woken(at[t], IF awaiter[at[t]] = t THEN "nobody" ELSE awaiter[at[t]])
    /\ future' = [future EXCEPT ![at[t]] = "dropped"]
    /\ Return(t)
    /\ UNCHANGED <<phase, local, answer, poolVars>>

\* Mutant of Unpark: a wake is taken for the end of the closure.
MutTrustWake(t) ==
    /\ pc[t] = "park"
    /\ token[t]
    /\ token' = [token EXCEPT ![t] = FALSE]
    /\ future' = [future EXCEPT ![at[t]] = "dropped"]
    /\ Return(t)
    /\ UNCHANGED <<headerVars, local, awaited, answer, poolVars>>

\* thread::park returns with the token (it may be an old one) ...
Unpark(t) ==
    /\ pc[t] = "park"
    /\ token[t]
    /\ token' = [token EXCEPT ![t] = FALSE]
    /\ pc' = [pc EXCEPT ![t] = "pollCancel"]
    /\ UNCHANGED <<headerVars, callVars, at, poolVars>>

\* ... or for no reason.
SpuriousUnpark(t) ==
    /\ pc[t] = "park"
    /\ pc' = [pc EXCEPT ![t] = "pollCancel"]
    /\ UNCHANGED <<headerVars, callVars, at, token, poolVars>>

--------------------------------------------------------------------------------
(* The worker: runnable.run() *)

\* pop_blocking returned c's runnable.
Take(w, c) ==
    /\ work[w] = "idle"
    /\ runnable[c] = "queued"
    /\ runnable' = [runnable EXCEPT ![c] = "taken"]
    /\ hand' = [hand EXCEPT ![w] = c]
    /\ work' = [work EXCEPT ![w] = "run"]
    /\ UNCHANGED <<headerVars, callVars, threadVars, waking, outcome, lost>>

\* The waker of c, if one is registered, is in w's hand to be called.
TakeWaker(w, c) ==
    /\ waking' = [waking EXCEPT ![w] = awaiter[c]]
    /\ awaiter' = [awaiter EXCEPT ![c] = "nobody"]
    /\ work' = [work EXCEPT ![w] = "wake"]

\* The task was cancelled meanwhile: its closure is dropped.
RunClosed(w) ==
    LET c == hand[w] IN
    /\ work[w] = "run"
    /\ closed[c]
    /\ phase' = [phase EXCEPT ![c] = "dropped"]
    /\ runnable' = [runnable EXCEPT ![c] = "gone"]
    /\ TakeWaker(w, c)
    /\ UNCHANGED <<closed, output, callVars, threadVars, hand, outcome, lost>>

\* The closure starts.
RunStart(w) ==
    /\ work[w] = "run"
    /\ ~closed[hand[w]]
    /\ phase' = [phase EXCEPT ![hand[w]] = "running"]
    /\ work' = [work EXCEPT ![w] = "closure"]
    /\ UNCHANGED <<closed, output, awaiter, callVars, threadVars, runnable, hand,
                   waking, outcome, lost>>

\* It returns or panics, which catch_unwind makes an output like any other.  The
\* closure is gone, and the state word says that the task is completed.
RunEnd(w) ==
    LET c == hand[w] IN
    /\ work[w] = "closure"
    /\ \E how \in Outcomes :
         /\ outcome' = [outcome EXCEPT ![c] = how]
         /\ output' = [output EXCEPT ![c] = how]
    /\ phase' = [phase EXCEPT ![c] = "completed"]
    /\ runnable' = [runnable EXCEPT ![c] = "gone"]
    /\ work' = [work EXCEPT ![w] = "settle"]
    /\ UNCHANGED <<closed, awaiter, callVars, threadVars, hand, waking, lost>>

\* Only then is the output of a task that was cancelled meanwhile dropped, and
\* after it the waker taken out.  (Who has closed it since has the output.)
Settle(w) ==
    LET c == hand[w] IN
    /\ work[w] = "settle"
    /\ output' = [output EXCEPT ![c] = IF closed[c] THEN None ELSE @]
    /\ TakeWaker(w, c)
    /\ UNCHANGED <<phase, closed, callVars, threadVars, runnable, hand, outcome,
                   lost>>

\* The last step of run(): the waker is called.
Wake(w) ==
    /\ work[w] = "wake"
    /\ Woken(hand[w], waking[w])
    /\ waking' = [waking EXCEPT ![w] = "nobody"]
    /\ hand' = [hand EXCEPT ![w] = None]
    /\ work' = [work EXCEPT ![w] = "idle"]
    /\ UNCHANGED <<headerVars, future, local, answer, pc, at, runnable, outcome,
                   lost>>

\* Mutant of Lose: the awaiter is not told.
MutLoseSilently(c) ==
    /\ runnable[c] = "queued"
    /\ lost < MaxLost
    /\ lost' = lost + 1
    /\ runnable' = [runnable EXCEPT ![c] = "gone"]
    /\ closed' = [closed EXCEPT ![c] = TRUE]
    /\ phase' = [phase EXCEPT ![c] = "dropped"]
    /\ UNCHANGED <<output, awaiter, callVars, threadVars, work, hand, waking,
                   outcome>>

\* A queued runnable goes with the deque of a worker that died: Runnable::drop.
Lose(c) ==
    /\ runnable[c] = "queued"
    /\ lost < MaxLost
    /\ lost' = lost + 1
    /\ runnable' = [runnable EXCEPT ![c] = "gone"]
    /\ closed' = [closed EXCEPT ![c] = TRUE]
    /\ phase' = [phase EXCEPT ![c] = "dropped"]
    /\ Notify(c)
    /\ UNCHANGED <<output, future, local, answer, pc, at, work, hand, waking,
                   outcome>>

--------------------------------------------------------------------------------
PollStep(t) == PollPending(t) \/ PollReady(t) \/ PollLost(t)

CancelStep(t) ==
    SetCanceled(t) \/ CancelPending(t) \/ CancelReady(t) \/ Unpark(t)

CallStep(t, c) ==
    \/ BeginPoll(t, c)
    \/ DropUnpolled(t, c) \/ DropJoinHandle(t, c) \/ DropSpawnFuture(t, c)

WorkStep(w) ==
    \/ \E c \in Calls : Take(w, c)
    \/ RunClosed(w) \/ RunStart(w) \/ RunEnd(w) \/ Settle(w) \/ Wake(w)

\* Nothing is left to happen.  (Not a step of the code: it tells the end from a
\* deadlock.)
AllGone ==
    /\ \A c \in Calls : future[c] \in {"answered", "dropped"}
    /\ \A t \in Callers : pc[t] = "idle"
    /\ \A w \in Workers : work[w] = "idle"
    /\ \A c \in Calls : runnable[c] = "gone"
    /\ UNCHANGED vars

Next ==
    \/ \E c \in Calls : Spawn(c) \/ SpawnLocal(c) \/ Lose(c)
    \/ \E t \in Callers :
         \/ PollStep(t) \/ CancelStep(t) \/ SpuriousUnpark(t)
         \/ \E c \in Calls : CallStep(t, c)
    \/ \E w \in Workers : WorkStep(w)
    \/ AllGone

Spec == Init /\ [][Next]_vars

\* Threads that can run do, closures return, and a queued runnable is taken
\* (Queue: EventuallyRun).  Nobody has to call, poll, drop or lose anything.
Fairness ==
    /\ \A t \in Callers : WF_vars(PollStep(t)) /\ WF_vars(CancelStep(t))
    /\ \A w \in Workers : WF_vars(WorkStep(w))

FairSpec == Spec /\ Fairness

--------------------------------------------------------------------------------
(* Properties *)

\* The type of every variable; a thread is at a call exactly while it is inside
\* the library.
TypeOK ==
    /\ phase \in [Calls -> {"new", "scheduled", "running", "completed", "dropped"}]
    /\ closed \in [Calls -> BOOLEAN]
    /\ output \in [Calls -> Outcomes \cup {None}]
    /\ awaiter \in [Calls -> {"nobody", "task"} \cup Callers]
    /\ future \in [Calls -> {"none", "unpolled", "live", "answered", "dropped"}]
    /\ local \subseteq Calls
    /\ awaited \in [Calls -> {"fresh", "pending", "woken"}]
    /\ answer \in [Calls -> Outcomes \cup {"lost", None}]
    /\ pc \in [Callers -> {"idle", "poll", "setCanceled", "pollCancel", "park"}]
    /\ at \in [Callers -> Calls \cup {None}]
    /\ \A t \in Callers : at[t] = None <=> pc[t] = "idle"
    /\ token \in [Callers -> BOOLEAN]
    /\ runnable \in [Calls -> {"none", "held", "queued", "taken", "gone"}]
    /\ work \in [Workers -> {"idle", "run", "closure", "settle", "wake"}]
    /\ hand \in [Workers -> Calls \cup {None}]
    /\ \A w \in Workers : hand[w] = None <=> work[w] = "idle"
    /\ waking \in [Workers -> {"nobody", "task"} \cup Callers]
    /\ outcome \in [Calls -> Outcomes \cup {None}]
    /\ lost \in 0 .. MaxLost

\* spawn_local's closure ends first: once its SpawnFuture has been answered or
\* dropped, the closure is not running, is in no queue and in no worker's hand to
\* be run.  It says nothing of the closure's output (OutputEndsFirst).
ClosureEndsFirst ==
    \A c \in local :
        future[c] \in {"answered", "dropped"} => Over(c) /\ runnable[c] = "gone"

\* What the `# Safety' section of spawn_local says of SpawnFuture's drop: that it
\* guarantees the worker has stopped touching the borrows.  The output, of type
\* R: 'pool, may have them too; so no worker has one left to drop.
OutputEndsFirst ==
    \A c \in local :
        future[c] \in {"answered", "dropped"} => output[c] = None

\* A waker is never lost: whoever saw a pending closure that is over by now
\* has been woken, or a worker is about to wake it.  The thread in park is in
\* the same position as a task, but for its token, which may also be old.
Waking(c, who) ==
    \E w \in Workers :
        /\ hand[w] = c
        /\ \/ work[w] = "settle" /\ awaiter[c] = who
           \/ work[w] = "wake" /\ waking[w] = who

AwaiterIsWoken ==
    /\ \A c \in Calls :
         future[c] = "live" /\ awaited[c] = "pending" /\ Over(c) =>
            \/ Waking(c, "task")
            \/ \E t \in Callers : at[t] = c
    /\ \A t \in Callers :
         pc[t] = "park" /\ Over(at[t]) => token[t] \/ Waking(at[t], t)

\* A dropped SpawnFuture gives its thread back, whatever the worker is doing
\* with the runnable, even if the runnable is lost with a dead worker.
DropReturns ==
    \A t \in Callers :
        pc[t] \in {"setCanceled", "pollCancel", "park"} ~> pc[t] = "idle"

\* An awaited call does not hang: the task around a pending one is woken again,
\* unless the caller drops it.
PendingIsWoken ==
    \A c \in Calls :
        future[c] = "live" /\ awaited[c] = "pending" ~>
            awaited[c] = "woken" \/ future[c] \in {"answered", "dropped"}

--------------------------------------------------------------------------------
(* The inductive invariant (TaskLifeProofs) *)

CancelPcs == {"setCanceled", "pollCancel", "park"}
Cancelling(c) == \E t \in Callers : at[t] = c /\ pc[t] \in CancelPcs

\* Where the runnable is, against the state in the task's header.
RunnableMatches ==
    \A c \in Calls :
        /\ runnable[c] = "none" <=> future[c] = "none"
        /\ runnable[c] = "none" <=> phase[c] = "new"
        /\ runnable[c] = "held" <=> future[c] = "unpolled"
        /\ runnable[c] \in {"held", "queued"} => phase[c] = "scheduled"
        /\ runnable[c] = "gone" <=> Over(c)

\* A runnable has one worker at most, until the task is completed.
Busy == {w \in Workers : work[w] \in {"run", "closure"}}

HandMatches ==
    /\ \A w \in Busy :
         /\ runnable[hand[w]] = "taken"
         /\ phase[hand[w]] = IF work[w] = "run" THEN "scheduled" ELSE "running"
    /\ \A w, v \in Busy : hand[w] = hand[v] => w = v
    /\ \A w \in Workers : work[w] = "settle" => phase[hand[w]] = "completed"

\* A call has one thread at most in the library, which is the caller's side of
\* the borrow checker's rules for &mut self and self.
InLibrary ==
    /\ \A t, u \in Callers : at[t] = at[u] /\ at[t] # None => t = u
    /\ \A t \in Callers : pc[t] # "idle" => future[at[t]] = "live"
    /\ \A t \in Callers : pc[t] \in CancelPcs => at[t] \in local

\* What the header knows of the answer and of the end of the future.
AnswerMatches ==
    \A c \in Calls :
        /\ answer[c] # None \/ future[c] \in {"answered", "dropped"} => closed[c]
        /\ future[c] \in {"none", "unpolled", "live"} /\ ~Cancelling(c) =>
              answer[c] = None /\ (closed[c] => phase[c] = "dropped")
        /\ phase[c] = "completed" /\ ~closed[c] =>
              output[c] = outcome[c] /\ output[c] # None

\* Whoever waits for a closure that is not over has its waker in the header.
WakerIsThere ==
    /\ \A c \in Calls : awaited[c] = "pending" => future[c] \notin {"none", "unpolled"}
    /\ \A c \in Calls :
         /\ future[c] = "live" /\ awaited[c] = "pending" /\ ~Over(c)
         /\ \A t \in Callers : at[t] # c
         => awaiter[c] = "task"
    /\ \A t \in Callers :
         pc[t] = "park" /\ ~Over(at[t]) => awaiter[at[t]] = t

IInv ==
    /\ TypeOK /\ RunnableMatches /\ HandMatches /\ InLibrary /\ ClosureEndsFirst
    /\ AnswerMatches /\ WakerIsThere /\ AwaiterIsWoken

--------------------------------------------------------------------------------
(* The abstract call *)

Handle(c) ==
    IF answer[c] # None THEN "answered"
    ELSE IF future[c] \in {"unpolled", "live"} THEN "held"
    ELSE future[c]

Closure(c) ==
    IF phase[c] = "running" THEN "running"
    ELSE IF phase[c] = "completed" THEN "ended"
    ELSE IF phase[c] = "dropped" THEN "never"
    ELSE IF runnable[c] \in {"queued", "taken"} THEN "asked"
    ELSE "unasked"

HandleOf == [c \in Calls |-> Handle(c)]
ClosureOf == [c \in Calls |-> Closure(c)]

Contract == INSTANCE CallContract WITH
    handle <- HandleOf, borrows <- local, closure <- ClosureOf

\* TaskLife implements CallContract: a closure runs at most once and never
\* after its handle has gone, an answer is the closure's own outcome, and a
\* borrowed closure is over before its SpawnFuture is.
ImplementsContract == Contract!Spec
================================================================================

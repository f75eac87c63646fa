--------------------------- MODULE QueueCancelProofs ---------------------------
(***************************************************************************)
(* What Queue guarantees stays true when closures wait inside              *)
(* SpawnFuture::drop: QueueCancel implements Queue, so the theorems of     *)
(* QueueProofs hold of it.  And the waiting itself: CancelTypeOK for every *)
(* number of workers, tasks and blocked closures; and that nobody waits    *)
(* for ever, as long as a worker is left that does not wait and futures    *)
(* stay with the closure that polled them.                                 *)
(***************************************************************************)
EXTENDS QueueCancel, QueuePoolProofs

\* The steps of QueueCancel that are none of Queue's: the drop of a future in a
\* closure, and its return.
CancelOnly == \E w \in Workers : Drop(w) \/ DropReturns(w)

\* Without those, a step of a closure or of a worker is one that Queue has.
LEMMA StepIsQueues ==
    NextC => CancelOnly \/ Next
<1> SUFFICES ASSUME NextC PROVE CancelOnly \/ Next
  OBVIOUS
<1>1. ASSUME NEW t \in Threads, Submit(t)
      PROVE  Next
  BY <1>1 DEF Submit, Next, PushStep
<1>2. ASSUME NEW t \in Threads, QueueStep(t)
      PROVE  Next
  BY <1>2 DEF QueueStep, Next, PushProgress, PushStep, LoopStep
<1>3. ASSUME NEW w \in Workers, ClosureEnds(w)
      PROVE  Next
  BY <1>3 DEF ClosureEnds, Next, LoopStep
<1>4. CASE ClosePool
  BY <1>4 DEF ClosePool, Next
<1>5. CASE CloseStep
  BY <1>5 DEF CloseStep, Next
<1> QED BY <1>1, <1>2, <1>3, <1>4, <1>5 DEF NextC, CancelOnly

\* Every step of QueueCancel is a step of Queue or leaves Queue's variables
\* alone: closures that drop futures, and workers that wait for them, do
\* nothing to the queue that a closure without them could not do.
THEOREM ImplementsQueue == SpecC => Spec
<1>1. InitC => Init
  BY DEF InitC
<1>2. [NextC]_allVars => [Next]_vars
  BY StepIsQueues DEF CancelOnly, Drop, DropReturns, allVars
<1> QED BY <1>1, <1>2, PTL DEF SpecC, Spec

\* No wakeup is lost on account of a worker that waits in SpawnFuture::drop: if
\* the other workers sleep and no push is under way, all queues are attended.
THEOREM AttendedWhileWaiting == SpecC => [](Attended /\ NoLostWakeup)
BY ImplementsQueue, AlwaysAttended, WakeupNotLost, PTL

--------------------------------------------------------------------------------
(* CancelTypeOK *)

\* Inductive: a future that somebody waits for has been pushed.
CancelInv ==
    /\ ControlInv
    /\ CancelTypeOK
    /\ \A w \in Blocked : waits[w] \in Tasks \ fresh

\* A task that was pushed stays pushed.
LEMMA FreshShrinks ==
    ASSUME TypeOK, [Next]_vars
    PROVE  fresh' \subseteq fresh
<1> USE DEF vars, allButPc, taskVars
<1>1. ASSUME NEW t \in Threads, PushStep(t)
      PROVE  fresh' \subseteq fresh
  BY <1>1 DEF PushStep, Push, Flush, PushFence, LoadParked, LoadNotified, Notify
<1>2. ASSUME NEW w \in Workers, ScanStep(w)
      PROVE  fresh' = fresh
  BY <1>2 DEF ScanStep, PopOwn, BeginPass, SkipVictim, Retry, Steal, Migrate,
              WalkAgain, SpinOrArm, StrictEmpty
<1>3. ASSUME NEW w \in Workers, ParkStep(w)
      PROVE  fresh' = fresh
  BY <1>3 DEF ParkStep, Arm, ArmFence, LoadShutdown, Wait, Reacquire,
              ForgetSignal, Leave
<1>4. ASSUME NEW w \in Workers, LoopStep(w)
      PROVE  fresh' = fresh
  BY <1>4 DEF LoopStep, Register, Finish, Panic
<1> QED BY <1>1, <1>2, <1>3, <1>4 DEF Next, SetShutdown, NotifyAll, Joined

\* The steps of push, of the scan, of parking and of a replacement leave a
\* closure running.
LEMMA StaysRunning ==
    ASSUME TypeOK, NEW w \in Workers, pc[w] = "run",
           NEW t \in Threads, QueueStep(t)
    PROVE  pc'[w] = "run"
<1>a. /\ pc \in [Threads -> WorkerPcs \cup PushPcs \cup {"idle"}]
      /\ w \in Threads
  BY DEF TypeOK, Threads
<1> USE <1>a DEF Goto
<1>1. CASE PushProgress(t)
  <2>1. CASE t = w
    <3>1. Home(w) = "run"
      BY DEF Home
    <3> QED BY <1>1, <2>1, <3>1
        DEF PushProgress, Flush, PushFence, LoadParked, LoadNotified, Notify
  <2>2. CASE t # w
    <3>1. CASE Notify(t)
      BY <3>1, <2>2 DEF Notify, NotifyOne, Asleep, In
    <3> QED BY <1>1, <2>2, <3>1
        DEF PushProgress, Flush, PushFence, LoadParked, LoadNotified
  <2> QED BY <2>1, <2>2
<1>2. CASE ScanStep(t)
  BY <1>2
  DEF ScanStep, PopOwn, BeginPass, SkipVictim, Retry, Steal, Migrate,
      WalkAgain, SpinOrArm, StrictEmpty, Visiting, PassOver
<1>3. CASE ParkStep(t)
  BY <1>3
  DEF ParkStep, Arm, ArmFence, LoadShutdown, Wait, Reacquire, ForgetSignal,
      Leave, LeavePcs
<1>4. CASE Register(t) \/ Panic(t)
  BY <1>4 DEF Register, Panic
<1> QED BY <1>1, <1>2, <1>3, <1>4 DEF QueueStep

\* A closure that waits goes on running until it is woken from its drop.
LEMMA WaitersRun ==
    ASSUME CancelInv, [NextC]_allVars,
           NEW w \in Workers, waits[w] # None, waits'[w] # None
    PROVE  pc'[w] = "run" /\ waits'[w] = waits[w]
<1>a. /\ pc[w] = "run" /\ w \in Threads
      /\ waits \in [Workers -> Tasks \cup {None}]
  BY DEF CancelInv, CancelTypeOK, Blocked, Threads
<1>b. pc \in [Threads -> WorkerPcs \cup PushPcs \cup {"idle"}]
  BY DEF CancelInv, ControlInv, TypeOK
<1>1. ASSUME NEW t \in Threads, Submit(t)
      PROVE  pc'[w] = "run" /\ waits'[w] = waits[w]
  <2>1. t # w
    BY <1>a, <1>1 DEF Submit, InClosure
  <2> QED BY <1>a, <1>b, <1>1, <2>1 DEF Submit, Push, Goto
<1>2. ASSUME NEW t \in Threads, QueueStep(t)
      PROVE  pc'[w] = "run" /\ waits'[w] = waits[w]
  <2>1. pc'[w] = "run"
    BY <1>a, <1>2, StaysRunning DEF CancelInv, ControlInv
  <2> QED BY <1>2, <2>1 DEF QueueStep, cancelVars
<1>3. ASSUME NEW u \in Workers, Drop(u)
      PROVE  pc'[w] = "run" /\ waits'[w] = waits[w]
  BY <1>a, <1>3 DEF Drop, InClosure, vars
<1>4. ASSUME NEW u \in Workers, DropReturns(u)
      PROVE  pc'[w] = "run" /\ waits'[w] = waits[w]
  BY <1>a, <1>4 DEF DropReturns, vars
<1>5. ASSUME NEW u \in Workers, ClosureEnds(u)
      PROVE  pc'[w] = "run" /\ waits'[w] = waits[w]
  BY <1>a, <1>b, <1>5 DEF ClosureEnds, Finish, Goto
<1>6. CASE ClosePool
  BY <1>a, <1>6 DEF ClosePool, SetShutdown, cancelVars
<1>7. CASE CloseStep
  BY <1>a, <1>b, <1>7
     DEF CloseStep, NotifyAll, Joined, Asleep, In, vars, cancelVars
<1>8. CASE UNCHANGED allVars
  BY <1>a, <1>8 DEF allVars, vars, cancelVars
<1> QED BY <1>1, <1>2, <1>3, <1>4, <1>5, <1>6, <1>7, <1>8 DEF NextC

\* Each future has one owner at most, and one that is waited for none.
LEMMA OwnersStep ==
    ASSUME CancelInv, [NextC]_allVars, fresh' \subseteq fresh
    PROVE  /\ held' \in [Threads -> SUBSET (Tasks \ fresh')]
           /\ \A t \in Threads : \A u \in Threads \ {t} : held'[t] \cap held'[u] = {}
           /\ \A w \in Workers : waits'[w] # None =>
                /\ waits'[w] \in Tasks \ fresh'
                /\ \A t \in Threads : waits'[w] \notin held'[t]
           /\ waits' \in [Workers -> Tasks \cup {None}]
           /\ cancelled' \subseteq Tasks \ fresh'
<1> DEFINE Goal ==
      /\ held' \in [Threads -> SUBSET (Tasks \ fresh')]
      /\ \A t \in Threads : \A u \in Threads \ {t} : held'[t] \cap held'[u] = {}
      /\ \A w \in Workers : waits'[w] # None =>
           /\ waits'[w] \in Tasks \ fresh'
           /\ \A t \in Threads : waits'[w] \notin held'[t]
      /\ waits' \in [Workers -> Tasks \cup {None}]
      /\ cancelled' \subseteq Tasks \ fresh'
<1>a. /\ held \in [Threads -> SUBSET (Tasks \ fresh)]
      /\ \A t \in Threads : \A u \in Threads \ {t} : held[t] \cap held[u] = {}
      /\ \A w \in Workers : waits[w] # None =>
           /\ waits[w] \in Tasks \ fresh
           /\ \A t \in Threads : waits[w] \notin held[t]
      /\ waits \in [Workers -> Tasks \cup {None}]
      /\ cancelled \subseteq Tasks \ fresh
      /\ fresh \subseteq Tasks
  BY DEF CancelInv, ControlInv, CancelTypeOK, Blocked, TypeOK
<1>u. CASE UNCHANGED cancelVars
  BY <1>a, <1>u DEF cancelVars
<1>1. ASSUME NEW t \in Threads, Submit(t)
      PROVE  Goal
  <2>1. /\ \/ held' = held
           \/ held' = [held EXCEPT ![t] = @ \cup (fresh \ fresh')]
        /\ UNCHANGED <<waits, cancelled>>
    BY <1>1 DEF Submit
  <2> QED BY <1>a, <2>1
<1>2. ASSUME NEW w \in Workers, Drop(w)
      PROVE  Goal
  <2>1. PICK task \in Droppable(w) \ {cur[w]} :
          /\ waits' = [waits EXCEPT ![w] = task]
          /\ held' = [t \in Threads |-> held[t] \ {task}]
          /\ cancelled' = IF Started(task) THEN cancelled
                          ELSE cancelled \cup {task}
    BY <1>2 DEF Drop
  <2>2. PICK t \in Threads : task \in held[t]
    BY <2>1 DEF Droppable, Threads
  <2>3. task \in Tasks \ fresh /\ fresh' = fresh /\ task # None
    BY <1>a, <1>2, <2>2, QueueAssumption DEF Drop, vars, allButPc, taskVars
  <2>4. \A u \in Workers : waits[u] # task
    BY <1>a, <2>2, <2>3
  <2> QED BY <1>a, <2>1, <2>3, <2>4
<1>3. ASSUME NEW w \in Workers, DropReturns(w)
      PROVE  Goal
  BY <1>a, <1>3 DEF DropReturns
<1>4. ASSUME NEW w \in Workers, ClosureEnds(w)
      PROVE  Goal
  <2>1. held' = [held EXCEPT ![w] = {}] /\ UNCHANGED <<waits, cancelled>>
    BY <1>4 DEF ClosureEnds
  <2> QED BY <1>a, <2>1
<1> QED BY <1>u, <1>1, <1>2, <1>3, <1>4
    DEF NextC, QueueStep, ClosePool, CloseStep, allVars

\* The inductive step.
LEMMA CancelStep ==
    CancelInv /\ [NextC]_allVars => CancelInv'
<1> SUFFICES ASSUME CancelInv, [NextC]_allVars PROVE CancelInv'
  OBVIOUS
<1>1. [Next]_vars
  BY StepIsQueues DEF CancelOnly, Drop, DropReturns, allVars
<1>2. ControlInv'
  BY <1>1, ControlStep DEF CancelInv
<1>3. fresh' \subseteq fresh
  BY <1>1, FreshShrinks DEF CancelInv, ControlInv
<1>4. \A w \in Workers : waits'[w] # None => pc'[w] = "run"
  <2> SUFFICES ASSUME NEW w \in Workers, waits'[w] # None
               PROVE  pc'[w] = "run"
    OBVIOUS
  <2>1. CASE waits[w] # None
    BY <2>1, WaitersRun
  <2>2. CASE waits[w] = None
    <3>1. waits \in [Workers -> Tasks \cup {None}]
      BY DEF CancelInv, CancelTypeOK
    <3>2. \E u \in Workers : Drop(u) \/ DropReturns(u)
      BY <2>2 DEF NextC, Submit, QueueStep, ClosureEnds,
                  ClosePool, CloseStep, allVars, cancelVars
    <3>3. Drop(w)
      BY <2>2, <3>1, <3>2 DEF Drop, DropReturns
    <3> QED BY <3>3 DEF Drop, InClosure, vars
  <2> QED BY <2>1, <2>2
<1> QED BY <1>2, <1>3, <1>4, OwnersStep DEF CancelInv, CancelTypeOK, Blocked

\* The variables of a drop are well typed throughout: a worker that waits is
\* inside a closure, for a future of a pushed runnable that nobody else has.
THEOREM CancelTypeCorrect == SpecC => []CancelTypeOK
<1>1. InitC => CancelInv
  <2> SUFFICES ASSUME InitC PROVE CancelInv
    OBVIOUS
  <2>1. ControlInv
    BY ControlInit DEF InitC
  <2>2. Blocked = {}
    BY DEF InitC, Blocked
  <2> QED BY <2>1, <2>2 DEF InitC, Init, CancelInv, CancelTypeOK
<1>2. CancelInv => CancelTypeOK
  BY DEF CancelInv
<1> QED BY <1>1, <1>2, CancelStep, PTL DEF SpecC

--------------------------------------------------------------------------------
(* Around a closure *)

\* Polled futures are in the hands of a worker only while a closure runs on it.
HeldInClosure ==
    \A w \in Workers : held[w] # {} => pc[w] \in {"run"} \cup PushPcs

\* A slot without a Stealer is that of a worker which has not registered, and
\* has nothing in its deque.
SlotsAreSet ==
    \A w \in Workers :
        ~stealers[w] => pc[w] = "register" /\ queue[Deque(w)] = <<>>

BlockedIsBounded == Cardinality(Blocked) <= MaxBlocked

\* The steps of push, of the scan, of parking and of a replacement do not end a
\* closure.
LEMMA StaysInClosure ==
    ASSUME TypeOK, NEW w \in Workers, pc[w] \in {"run"} \cup PushPcs,
           NEW t \in Threads, QueueStep(t)
    PROVE  pc'[w] \in {"run"} \cup PushPcs
<1>a. /\ pc \in [Threads -> WorkerPcs \cup PushPcs \cup {"idle"}]
      /\ w \in Threads /\ Home(w) = "run"
  BY DEF TypeOK, Threads, Home
<1> USE <1>a DEF Goto, PushPcs
<1>1. CASE PushProgress(t)
  <2>1. CASE Notify(t)
    BY <2>1 DEF Notify, NotifyOne, Asleep, In
  <2> QED BY <1>1, <2>1 DEF PushProgress, Flush, PushFence, LoadParked, LoadNotified
<1>2. CASE ScanStep(t)
  BY <1>2
  DEF ScanStep, PopOwn, BeginPass, SkipVictim, Retry, Steal, Migrate,
      WalkAgain, SpinOrArm, StrictEmpty, Visiting, PassOver
<1>3. CASE ParkStep(t)
  BY <1>3
  DEF ParkStep, Arm, ArmFence, LoadShutdown, Wait, Reacquire, ForgetSignal,
      Leave, LeavePcs
<1>4. CASE Register(t) \/ Panic(t)
  BY <1>4 DEF Register, Panic
<1> QED BY <1>1, <1>2, <1>3, <1>4 DEF QueueStep

\* Only a push from inside a closure gives a worker a future, and the end of the
\* closure takes them all.
LEMMA HeldStep ==
    ASSUME CancelInv, HeldInClosure, [NextC]_allVars
    PROVE  HeldInClosure'
<1> SUFFICES ASSUME NEW w \in Workers, held'[w] # {}
             PROVE  pc'[w] \in {"run"} \cup PushPcs
  BY DEF HeldInClosure
<1>a. /\ TypeOK /\ w \in Threads
      /\ pc \in [Threads -> WorkerPcs \cup PushPcs \cup {"idle"}]
      /\ held \in [Threads -> SUBSET (Tasks \ fresh)]
      /\ held[w] # {} => pc[w] \in {"run"} \cup PushPcs
  BY DEF CancelInv, ControlInv, TypeOK, CancelTypeOK, HeldInClosure, Threads
<1>1. ASSUME NEW t \in Threads, Submit(t)
      PROVE  pc'[w] \in {"run"} \cup PushPcs
  <2>1. pc' = [pc EXCEPT ![t] = "push"] /\ (t # w => held'[w] = held[w])
    BY <1>a, <1>1 DEF Submit, Push, Goto
  <2> QED BY <1>a, <2>1 DEF PushPcs
<1>2. ASSUME NEW t \in Threads, QueueStep(t)
      PROVE  pc'[w] \in {"run"} \cup PushPcs
  <2>1. held' = held
    BY <1>2 DEF QueueStep, cancelVars
  <2> QED BY <1>a, <1>2, <2>1, StaysInClosure
<1>3. ASSUME NEW u \in Workers, Drop(u) \/ DropReturns(u)
      PROVE  pc'[w] \in {"run"} \cup PushPcs
  <2>1. pc' = pc /\ held'[w] \subseteq held[w]
    BY <1>a, <1>3 DEF Drop, DropReturns, vars
  <2> QED BY <1>a, <2>1
<1>4. ASSUME NEW u \in Workers, ClosureEnds(u)
      PROVE  pc'[w] \in {"run"} \cup PushPcs
  <2>1. held' = [held EXCEPT ![u] = {}]
    BY <1>4 DEF ClosureEnds
  <2>2. u # w
    BY <1>a, <2>1
  <2>3. pc'[w] = pc[w]
    BY <1>a, <1>4, <2>2 DEF ClosureEnds, Finish, Goto
  <2> QED BY <1>a, <2>1, <2>2, <2>3
<1>5. CASE ClosePool
  BY <1>a, <1>5 DEF ClosePool, SetShutdown, cancelVars
<1>6. CASE CloseStep
  <2>1. held' = held /\ (pc[w] # "asleep" => pc'[w] = pc[w])
    BY <1>a, <1>6
       DEF CloseStep, NotifyAll, Joined, Asleep, In, vars, cancelVars
  <2> QED BY <1>a, <2>1 DEF PushPcs
<1>7. CASE UNCHANGED allVars
  BY <1>a, <1>7 DEF allVars, vars, cancelVars
<1> QED BY <1>1, <1>2, <1>3, <1>4, <1>5, <1>6, <1>7 DEF NextC

\* A deque without a Stealer is empty: only its owner adds to it, and it does
\* not before it has registered.
LEMMA SlotsStep ==
    ASSUME TypeOK, BufferIsLocal, SlotsAreSet, [Next]_vars
    PROVE  SlotsAreSet'
<1>a. /\ pc \in [Threads -> WorkerPcs \cup PushPcs \cup {"idle"}]
      /\ stealers \in [Workers -> BOOLEAN]
      /\ queue \in [Places -> Seq(Tasks)]
      /\ Workers \subseteq Threads
      /\ \A w \in Workers : Deque(w) \in Places
  BY DEF TypeOK, Threads, Places, Deques
<1>b. \A v, w \in Workers : Deque(v) = Deque(w) => v = w
  BY DEF Deque
<1>c. \A w \in Workers : stealers[w] => stealers'[w]
  <2> USE <1>a DEF vars, allButPc, storeVars
  <2>1. ASSUME NEW w \in Workers, Register(w)
        PROVE  stealers' = [stealers EXCEPT ![w] = TRUE]
    BY <2>1 DEF Register
  <2>2. ASSUME NEW t \in Threads, PushStep(t) PROVE stealers' = stealers
    BY <2>2 DEF PushStep, Push, Flush, PushFence, LoadParked, LoadNotified, Notify
  <2>3. ASSUME NEW w \in Workers, ScanStep(w) PROVE stealers' = stealers
    BY <2>3 DEF ScanStep, PopOwn, BeginPass, SkipVictim, Retry, Steal, Migrate,
                WalkAgain, SpinOrArm, StrictEmpty
  <2>4. ASSUME NEW w \in Workers, ParkStep(w) PROVE stealers' = stealers
    BY <2>4 DEF ParkStep, Arm, ArmFence, LoadShutdown, Wait, Reacquire,
                ForgetSignal, Leave
  <2>5. ASSUME NEW w \in Workers, Finish(w) \/ Panic(w) PROVE stealers' = stealers
    BY <2>5 DEF Finish, Panic
  <2> QED BY <2>1, <2>2, <2>3, <2>4, <2>5
          DEF Next, LoopStep, SetShutdown, NotifyAll, Joined
<1> SUFFICES ASSUME NEW w \in Workers, ~stealers'[w]
             PROVE  pc'[w] = "register" /\ queue'[Deque(w)] = <<>>
  BY DEF SlotsAreSet
<1>d. pc[w] = "register" /\ queue[Deque(w)] = <<>>
  BY <1>c DEF SlotsAreSet
<1> USE <1>a, <1>d DEF Goto
<1>1. ASSUME NEW t \in Threads, Push(t)
      PROVE  pc'[w] = "register" /\ queue'[Deque(w)] = <<>>
  <2>1. t # w
    BY <1>1 DEF Push, Home
  <2> QED BY <1>1, <2>1 DEF Push
<1>2. ASSUME NEW t \in Threads, Flush(t)
      PROVE  pc'[w] = "register" /\ queue'[Deque(w)] = <<>>
  <2>1. /\ pc[t] = "push"
        /\ buffer[t].to \in IF t \in Workers THEN {Deque(t)} ELSE Injectors
    BY <1>2 DEF Flush, BufferIsLocal
  <2>2. Deque(w) \notin Injectors
    BY DEF Deque, Injectors, Injector
  <2>3. buffer[t].to # Deque(w)
    BY <2>1, <2>2, <1>b
  <2> QED BY <1>2, <2>3 DEF Flush
<1>3. ASSUME NEW v \in Workers, PopOwn(v) \/ Migrate(v) \/ Register(v)
      PROVE  pc'[w] = "register" /\ queue'[Deque(w)] = <<>>
  <2>1. v # w
    BY <1>3 DEF PopOwn, Migrate, Register
  <2>2. Deque(v) # Deque(w)
    BY <2>1, <1>b
  <2> QED BY <1>3, <2>1, <2>2 DEF PopOwn, Migrate, Register
<1>4. ASSUME NEW v \in Workers, Steal(v)
      PROVE  pc'[w] = "register" /\ queue'[Deque(w)] = <<>>
  <2>1. Victim(v) # Deque(w) /\ v # w
    BY <1>4 DEF Steal, Visiting, Stealable
  <2> QED BY <1>4, <2>1 DEF Steal
<1>5. ASSUME NEW v \in Workers, Finish(v) \/ Panic(v) \/ Leave(v)
      PROVE  pc'[w] = "register" /\ queue'[Deque(w)] = <<>>
  BY <1>5 DEF Finish, Panic, Leave, storeVars
<1>6. CASE SetShutdown
  BY <1>6 DEF SetShutdown, storeVars
<1>7. CASE Quiet
  <2>1. queue' = queue /\ w \in In({"register"})
    BY <1>7 DEF Quiet, In
  <2>2. w \in In({"register"})'
    BY <1>7, <2>1 DEF Quiet
  <2> QED BY <2>1, <2>2 DEF In
<1> QED BY <1>1, <1>2, <1>3, <1>4, <1>5, <1>6, <1>7, StepKinds

\* A drop begins only while fewer than MaxBlocked are under way.
LEMMA BoundStep ==
    ASSUME CancelInv, BlockedIsBounded, [NextC]_allVars
    PROVE  BlockedIsBounded'
<1>a. /\ waits \in [Workers -> Tasks \cup {None}]
      /\ Blocked \in SUBSET Workers /\ Blocked' \in SUBSET Workers
  BY DEF CancelInv, CancelTypeOK, Blocked
<1>b. /\ IsFiniteSet(Blocked) /\ Cardinality(Blocked) \in Nat
      /\ MaxBlocked \in Nat
  BY <1>a, WorkersFinite, FS_CardinalityType, QueueCancelAssumption
<1>1. ASSUME NEW w \in Workers, Drop(w) PROVE BlockedIsBounded'
  <2>1. /\ Cardinality(Blocked) < MaxBlocked
        /\ \E task : waits' = [waits EXCEPT ![w] = task]
    BY <1>1 DEF Drop
  <2>2. Blocked' \subseteq Blocked \cup {w}
    BY <1>a, <2>1 DEF Blocked
  <2>3. /\ IsFiniteSet(Blocked \cup {w})
        /\ Cardinality(Blocked \cup {w}) <= Cardinality(Blocked) + 1
        /\ Cardinality(Blocked \cup {w}) \in Nat
    BY <1>b, FS_AddElement, FS_CardinalityType
  <2>4. Cardinality(Blocked') <= Cardinality(Blocked \cup {w})
        /\ Cardinality(Blocked') \in Nat
    BY <2>2, <2>3, FS_Subset, FS_CardinalityType
  <2> QED BY <1>b, <2>1, <2>3, <2>4 DEF BlockedIsBounded
<1>2. CASE Blocked' \subseteq Blocked
  <2>1. Cardinality(Blocked') <= Cardinality(Blocked)
        /\ Cardinality(Blocked') \in Nat
    BY <1>2, <1>b, FS_Subset, FS_CardinalityType
  <2> QED BY <1>b, <2>1 DEF BlockedIsBounded
<1>3. ASSUME NEW w \in Workers, DropReturns(w) PROVE Blocked' \subseteq Blocked
  BY <1>a, <1>3 DEF DropReturns, Blocked
<1>4. CASE UNCHANGED waits
  <2>1. Blocked' = Blocked
    BY <1>4 DEF Blocked
  <2> QED BY <1>2, <2>1
<1> QED BY <1>1, <1>2, <1>3, <1>4
    DEF NextC, Submit, QueueStep, ClosureEnds, ClosePool,
        CloseStep, allVars, cancelVars

--------------------------------------------------------------------------------
(* Who waits for whom *)

\* Without Handover a closure waits only for runnables that were pushed while it
\* was running: they rank above its own.
RankedBy(rank) ==
    \A w \in Workers :
        cur[w] # None =>
            \A task \in held[w] \cup ({waits[w]} \ {None}) :
                rank[cur[w]] < rank[task]

Ranked == \E rank \in [Tasks -> Nat] : RankedBy(rank)

\* A runnable that has not been pushed is in nobody's hand.
LEMMA FreshInNoHand ==
    ASSUME TypeOK, Alone, NEW task \in fresh, NEW w \in Workers
    PROVE  cur[w] # task
<1>1. task \in Tasks /\ task # None
  BY StoresHold DEF Stores
<1>2. OnlyAt(task, "fresh", None)
  BY <1>1, WhereIs DEF At
<1>3. ~At(task, "hand", w)
  BY <1>2 DEF OnlyAt
<1> QED BY <1>3 DEF At

\* The steps of Queue that are not about a closure change the hand of a worker
\* only while it scans.
LEMMA HandsKeep ==
    ASSUME TypeOK, NEW t \in Threads, QueueStep(t), NEW w \in Workers
    PROVE  cur'[w] = cur[w] \/ pc[w] \in {"scan", "probe"}
<1>a. cur \in [Workers -> Tasks \cup {None}]
  BY DEF TypeOK
<1> USE <1>a DEF storeVars
<1>1. CASE PushProgress(t)
  BY <1>1 DEF PushProgress, Flush, PushFence, LoadParked, LoadNotified, Notify,
              allButPc
<1>2. ASSUME t \in Workers, ScanStep(t)
      PROVE  cur'[w] = cur[w] \/ pc[w] \in {"scan", "probe"}
  <2>1. CASE PopOwn(t)
    BY <1>2, <2>1 DEF PopOwn
  <2>2. CASE Steal(t)
    <3>1. pc[t] = "probe" /\ \E x : cur' = [cur EXCEPT ![t] = x]
      BY <2>2 DEF Steal, Visiting
    <3> QED BY <1>2, <3>1
  <2> QED BY <1>2, <2>1, <2>2
          DEF ScanStep, BeginPass, SkipVictim, Retry, Migrate,
              WalkAgain, SpinOrArm, StrictEmpty, allButPc
<1>3. CASE ParkStep(t)
  BY <1>3 DEF ParkStep, Arm, ArmFence, LoadShutdown, Wait, Reacquire,
              ForgetSignal, Leave, allButPc
<1>4. CASE Register(t) \/ Panic(t)
  BY <1>4 DEF Register, Panic
<1> QED BY <1>1, <1>2, <1>3, <1>4 DEF QueueStep

\* A new future outranks the closure that polled it, and nothing else is new.
LEMMA RankStep ==
    ASSUME ~Handover, CancelInv, HandIsFull, Alone, HeldInClosure, Ranked,
           [NextC]_allVars
    PROVE  Ranked'
<1>a. /\ TypeOK
      /\ cur \in [Workers -> Tasks \cup {None}]
      /\ held \in [Threads -> SUBSET (Tasks \ fresh)]
      /\ waits \in [Workers -> Tasks \cup {None}]
      /\ \A w \in Workers : waits[w] # None =>
           waits[w] \in Tasks \ fresh /\ pc[w] = "run"
      /\ fresh \subseteq Tasks /\ Workers \subseteq Threads /\ None \notin Tasks
  BY QueueAssumption
     DEF CancelInv, ControlInv, CancelTypeOK, TypeOK, Blocked, Threads
<1>b. PICK rank \in [Tasks -> Nat] : RankedBy(rank)
  BY DEF Ranked
<1>keep. ASSUME \A w \in Workers :
                   \/ cur'[w] = None
                   \/ held'[w] = {} /\ waits'[w] = None
                   \/ /\ cur'[w] = cur[w] /\ held'[w] \subseteq held[w]
                      /\ waits'[w] \in held[w] \cup {waits[w], None}
         PROVE  Ranked'
  <2>1. RankedBy(rank)'
    <3> SUFFICES ASSUME NEW w \in Workers, cur'[w] # None,
                        NEW task \in held'[w] \cup ({waits'[w]} \ {None})
                 PROVE  rank[cur'[w]] < rank[task]
      BY DEF RankedBy
    <3>1. /\ cur'[w] = cur[w]
          /\ task \in held[w] \cup ({waits[w]} \ {None})
      BY <1>keep
    <3> QED BY <1>b, <3>1 DEF RankedBy
  <2> QED BY <2>1 DEF Ranked
<1>1. ASSUME NEW t \in Threads, Submit(t)
      PROVE  Ranked'
  <2>1. /\ \/ held' = held
           \/ held' = [held EXCEPT ![t] = @ \cup (fresh \ fresh')]
        /\ waits' = waits /\ cur' = cur
        /\ pc[t] = Home(t)
    BY <1>1 DEF Submit, Push
  <2>2. PICK new \in fresh : fresh \ fresh' = {new}
    BY <1>1 DEF Submit, Push
  <2>3. CASE t \notin Workers
    BY <1>a, <1>keep, <2>1, <2>3
  <2>4. CASE t \in Workers
    <3>1. cur[t] \in Tasks
      BY <1>a, <2>1, <2>4 DEF HandIsFull, Home
    <3>2. PICK next \in [Tasks -> Nat] :
            /\ next[new] = rank[cur[t]] + 1
            /\ \A x \in Tasks : x # new => next[x] = rank[x]
      <4>1. rank[cur[t]] + 1 \in Nat /\ new \in Tasks
        BY <1>a, <1>b, <2>2, <3>1
      <4> DEFINE raised == [rank EXCEPT ![new] = rank[cur[t]] + 1]
      <4>2. /\ raised \in [Tasks -> Nat] /\ raised[new] = rank[cur[t]] + 1
            /\ \A x \in Tasks : x # new => raised[x] = rank[x]
        BY <1>b, <4>1
      <4> QED BY <4>2
    <3>3. RankedBy(next)'
      <4> SUFFICES ASSUME NEW w \in Workers, cur'[w] # None,
                          NEW task \in held'[w] \cup ({waits'[w]} \ {None})
                   PROVE  next[cur'[w]] < next[task]
        BY DEF RankedBy
      <4>1. cur'[w] = cur[w] /\ cur[w] \in Tasks
        BY <1>a, <2>1
      <4>2. next[cur[w]] = rank[cur[w]] /\ rank[cur[w]] \in Nat
        BY <1>a, <1>b, <2>2, <3>2, <4>1, FreshInNoHand
      <4>3. CASE task \in held[w] \cup ({waits[w]} \ {None})
        <5>1. task \in Tasks /\ task # new
          BY <1>a, <2>2, <4>3
        <5>2. rank[cur[w]] < rank[task]
          BY <1>b, <4>1, <4>3 DEF RankedBy
        <5> QED BY <3>2, <4>1, <4>2, <5>1, <5>2
      <4>4. CASE task \notin held[w] \cup ({waits[w]} \ {None})
        <5>1. task = new /\ w = t
          BY <1>a, <2>1, <2>2, <4>4
        <5> QED BY <3>2, <4>1, <4>2, <5>1
      <4> QED BY <4>3, <4>4
    <3> QED BY <3>3 DEF Ranked
  <2> QED BY <2>3, <2>4
<1>2. ASSUME NEW t \in Threads, QueueStep(t)
      PROVE  Ranked'
  <2>1. held' = held /\ waits' = waits
    BY <1>2 DEF QueueStep, cancelVars
  <2>2. ASSUME NEW w \in Workers, cur'[w] # cur[w]
        PROVE  held[w] = {} /\ waits[w] = None
    <3>1. pc[w] \in {"scan", "probe"}
      BY <1>a, <1>2, <2>2, HandsKeep
    <3> QED BY <1>a, <3>1 DEF HeldInClosure, PushPcs
  <2> QED BY <1>keep, <2>1, <2>2
<1>3. ASSUME NEW u \in Workers, Drop(u)
      PROVE  Ranked'
  <2>1. PICK task \in held[u] : /\ waits' = [waits EXCEPT ![u] = task]
                                /\ held' = [t \in Threads |-> held[t] \ {task}]
    BY <1>3 DEF Drop, Droppable
  <2>2. cur' = cur
    BY <1>3 DEF Drop, vars, allButPc, storeVars
  <2> QED BY <1>a, <1>keep, <2>1, <2>2
<1>4. ASSUME NEW u \in Workers, DropReturns(u)
      PROVE  Ranked'
  <2>1. /\ waits' = [waits EXCEPT ![u] = None] /\ held' = held
        /\ cur' = cur
    BY <1>4 DEF DropReturns, vars, allButPc, storeVars
  <2> QED BY <1>a, <1>keep, <2>1
<1>5. ASSUME NEW u \in Workers, ClosureEnds(u)
      PROVE  Ranked'
  <2>1. /\ held' = [held EXCEPT ![u] = {}] /\ waits' = waits
        /\ cur' = [cur EXCEPT ![u] = None]
    BY <1>5 DEF ClosureEnds, Finish
  <2> QED BY <1>a, <1>keep, <2>1
<1>6. CASE UNCHANGED <<held, waits, cur>>
  BY <1>keep, <1>6
<1>7. CASE ClosePool
  BY <1>6, <1>7 DEF ClosePool, SetShutdown, cancelVars, storeVars
<1>8. CASE CloseStep
  BY <1>6, <1>8
     DEF CloseStep, NotifyAll, Joined, cancelVars, vars, allButPc, storeVars
<1>9. CASE UNCHANGED allVars
  BY <1>6, <1>9 DEF allVars, cancelVars, vars, allButPc, storeVars
<1> QED BY <1>1, <1>2, <1>3, <1>4, <1>5, <1>7, <1>8, <1>9 DEF NextC

--------------------------------------------------------------------------------
(* PeersAttend *)

\* Once a place holds a runnable, no worker that will look there ceases to: an
\* owner pops its deque empty before a pass, a strict pass has every other place
\* on its list, and a victim is skipped only when it is empty.
LEMMA LooksOn ==
    ASSUME TypeOK, LockIsHeld, SlotsAreSet, [Next]_vars,
           NEW p \in Places, queue[p] # <<>>,
           NEW v \in Workers, WillLook(v, p)
    PROVE  WillLook(v, p)'
<1>a. /\ pc \in [Threads -> WorkerPcs \cup PushPcs \cup {"idle"}]
      /\ todo \in [Workers -> Seq(Places)]
      /\ contended \in [Workers -> BOOLEAN]
      /\ Workers \subseteq Threads /\ None \notin Workers
  BY QueueAssumption DEF TypeOK, Threads
<1>b. pc[v] \in LockedPcs => Strict(v)
  BY DEF LockIsHeld, Strict
<1>look. ASSUME pc'[v] \in LookingPcs PROVE WillLook(v, p)'
  BY <1>look DEF WillLook
<1>same. ASSUME pc'[v] = pc[v], todo'[v] = todo[v], contended'[v] = contended[v],
                park'= v => park = v
         PROVE  WillLook(v, p)'
  BY <1>same DEF WillLook, Strict
<1> USE <1>a DEF vars, allButPc, storeVars, scanVars, counterVars, closeVars,
          taskVars, Goto
<1>1. ASSUME NEW t \in Threads, PushStep(t)
      PROVE  WillLook(v, p)'
  <2>1. /\ \/ pc'[v] = pc[v]
           \/ pc'[v] = "woken"
           \/ pc'[v] \in PushPcs \cup {Home(v)}
        /\ UNCHANGED <<todo, contended, park>>
    <3>1. CASE Notify(t)
      BY <3>1 DEF Notify, NotifyOne, Asleep, In
    <3> QED BY <1>1, <3>1 DEF PushStep, Push, Flush, PushFence, LoadParked,
               LoadNotified, PushPcs
  <2> QED BY <1>look, <1>same, <2>1 DEF LookingPcs, Home
<1>2. ASSUME NEW w \in Workers, ScanStep(w)
      PROVE  WillLook(v, p)'
  <2>1. CASE w # v
    BY <1>2, <1>same, <2>1
    DEF ScanStep, PopOwn, BeginPass, SkipVictim, Retry, Steal, Migrate,
        WalkAgain, SpinOrArm, StrictEmpty
  <2>2. CASE PopOwn(v)
    BY <1>look, <2>2 DEF PopOwn, Holding, LookingPcs
  <2>3. CASE BeginPass(v)
    <3>1. PICK order \in VictimOrders(v, Probe(v)) :
            todo' = [todo EXCEPT ![v] = order]
      BY <2>3 DEF BeginPass
    <3>2. pc'[v] = "probe" /\ park' = park /\ todo'[v] = order
      BY <2>3, <3>1 DEF BeginPass
    <3>3. CASE Strict(v)
      <4>1. Probe(v) = "strict"
        BY <3>3 DEF Probe
      <4>2. p \in Places \ {Deque(v)}
        BY <2>3 DEF BeginPass
      <4>3. order \in Seq(Places)
        BY <3>1, <4>1, OrderInPlaces DEF Probes
      <4>4. \E k \in 1 .. Len(order) : order[k] = p
        BY <3>1, <4>1, <4>2, StrictVisitsAll
      <4>5. p \in Range(order)
        BY <4>3, <4>4 DEF Range
      <4> QED BY <3>2, <4>5 DEF WillLook
    <3>4. CASE ~Strict(v)
      BY <3>2, <3>4 DEF WillLook, Strict
    <3> QED BY <3>3, <3>4
  <2>4. CASE SkipVictim(v)
    <3>1. /\ todo[v] \in Seq(Places) /\ todo[v] # <<>> /\ pc[v] = "probe"
          /\ todo' = [todo EXCEPT ![v] = Tail(@)]
          /\ UNCHANGED <<contended, park, pc>>
      BY <2>4 DEF SkipVictim, Visiting
    <3>2. p # Victim(v)
      BY <2>4 DEF SkipVictim, Stealable, SlotsAreSet, Places, Deques, Deque,
                  Injectors, Injector
    <3>3. p \in Range(todo[v]) => p \in Range(Tail(todo[v]))
      BY <3>1, <3>2, TailKeeps DEF Victim
    <3> QED BY <3>1, <3>3 DEF WillLook, Strict, LookingPcs
  <2>5. CASE Retry(v)
    BY <2>5 DEF Retry, Visiting, WillLook
  <2>6. CASE Steal(v)
    <3>1. \E l \in {"run", "found", "migrate"} : pc' = [pc EXCEPT ![v] = l]
      BY <2>6 DEF Steal, Holding
    <3> QED BY <1>look, <3>1 DEF LookingPcs
  <2>7. CASE Migrate(v)
    BY <1>look, <2>7 DEF Migrate, Holding, LookingPcs
  <2>8. CASE WalkAgain(v) \/ SpinOrArm(v)
    BY <1>look, <2>8 DEF WalkAgain, SpinOrArm, LookingPcs
  <2>9. CASE StrictEmpty(v)
    BY <2>9 DEF StrictEmpty, PassOver, WillLook, LookingPcs, PushPcs, Range
  <2> QED BY <1>2, <2>1, <2>2, <2>3, <2>4, <2>5, <2>6, <2>7, <2>8, <2>9
          DEF ScanStep
<1>3. ASSUME NEW w \in Workers, ParkStep(w)
      PROVE  WillLook(v, p)'
  <2>1. CASE w # v
    BY <1>3, <1>same, <2>1
    DEF ParkStep, Arm, ArmFence, LoadShutdown, Wait, Reacquire, ForgetSignal,
        Leave
  <2>2. CASE w = v
    <3>1. pc[v] \notin {"check", "wait", "quit", "quitLeft"}
      BY DEF WillLook, LookingPcs, PushPcs
    <3>2. pc'[v] \in {"armed", "scan", "back", "foundLeft", "backLeft", "run"}
      BY <1>3, <2>2, <3>1
      DEF ParkStep, Arm, ArmFence, LoadShutdown, Wait, Reacquire, ForgetSignal,
          Leave, LeavePcs, Left
    <3> QED BY <1>look, <3>2 DEF LookingPcs
  <2> QED BY <2>1, <2>2
<1>4. ASSUME NEW w \in Workers, LoopStep(w)
      PROVE  WillLook(v, p)'
  <2>1. CASE w # v
    BY <1>4, <1>same, <2>1 DEF LoopStep, Register, Finish, Panic
  <2>2. CASE w = v
    BY <1>4, <1>look, <2>2 DEF LoopStep, Register, Finish, Panic, LookingPcs
  <2> QED BY <2>1, <2>2
<1>5. CASE SetShutdown
  BY <1>5, <1>same DEF SetShutdown
<1>6. CASE NotifyAll
  BY <1>6, <1>same, <1>look DEF NotifyAll, LookingPcs
<1>7. CASE UNCHANGED vars
  BY <1>7, <1>same
<1> QED BY <1>1, <1>2, <1>3, <1>4, <1>5, <1>6, <1>7 DEF Next, Joined

\* A push that decides to wake nobody has seen a worker that is armed or has
\* been woken already, or no worker is in the armed region: then all will look.
LEMMA WakesOn ==
    ASSUME TypeOK, LockIsHeld, ShutdownIsLate, ParkedIsExact, NotifiedIsCovered,
           [Next]_vars, NEW p \in Places, NEW t \in Threads, WillWake(t)
    PROVE  \/ WillWake(t)'
           \/ \E v \in Workers : pc'[v] \in {"armed", "woken", "back"}
           \/ \A v \in Workers : WillLook(v, p)
<1>a. /\ pc \in [Threads -> WorkerPcs \cup PushPcs \cup {"idle"}]
      /\ seen \in [Threads -> Int] /\ notified \in Nat /\ parked \in Int
      /\ Workers \subseteq Threads
      /\ \A v \in Workers : pc[v] # "idle"
  BY DEF TypeOK, Threads
<1>counts. /\ notified > 0 => Woken # {}
           /\ parked > 0 <=> Counted # {}
  <2>1. Woken \in SUBSET Workers /\ Counted \in SUBSET Workers
    BY DEF Woken, Counted, In
  <2>2. /\ Cardinality(Woken) \in Nat /\ (Cardinality(Woken) = 0 <=> Woken = {})
        /\ Cardinality(Counted) \in Nat
        /\ (Cardinality(Counted) = 0 <=> Counted = {})
    BY <2>1, WorkersFinite, FS_EmptySet, FS_CardinalityType
  <2> QED BY <1>a, <2>2 DEF NotifiedIsCovered, ParkedIsExact, Woken
<1>uncounted. ASSUME Counted = {}
              PROVE  \A v \in Workers : WillLook(v, p)
  <2> SUFFICES ASSUME NEW v \in Workers PROVE WillLook(v, p)
    OBVIOUS
  <2>1. ~shutdown
    BY DEF ShutdownIsLate, WillWake, PushPcs
  <2>2. pc[v] \notin {"quit", "quitLeft", "exited"}
    BY <2>1 DEF ShutdownIsLate, In
  <2>3. pc[v] \in LookingPcs \/ (pc[v] = "probe" /\ ~Strict(v))
    BY <1>a, <1>uncounted, <2>2
       DEF Counted, In, LookingPcs, WorkerPcs, LeavePcs, LeftPcs, PushPcs
  <2> QED BY <2>3 DEF WillLook
<1>woken. ASSUME Woken # {}, \A v \in Woken : pc'[v] = pc[v]
          PROVE  \E v \in Workers : pc'[v] \in {"armed", "woken", "back"}
  BY <1>woken DEF Woken, In
<1> USE <1>a DEF Goto
<1>1. CASE LoadParked(t)
  <2>1. PICK value \in ParkedReads : seen' = [seen EXCEPT ![t] = value]
    BY <1>1 DEF LoadParked
  <2>2. pc' = [pc EXCEPT ![t] = "loadNotified"] /\ pc[t] = "loadParked"
    BY <1>1 DEF LoadParked
  <2>3. CASE value >= 1
    BY <2>1, <2>2, <2>3 DEF WillWake
  <2>4. CASE In({"armed"}) # {}
    <3>1. PICK v \in Workers : pc[v] = "armed"
      BY <2>4 DEF In
    <3> QED BY <2>2, <3>1
  <2>5. CASE ~(value >= 1) /\ In({"armed"}) = {}
    <3>1. ~(parked > 0)
      BY <2>1, <2>5 DEF ParkedReads
    <3> QED BY <1>counts, <1>uncounted, <3>1
  <2> QED BY <2>3, <2>4, <2>5
<1>2. CASE LoadNotified(t)
  <2>1. CASE seen[t] > notified
    BY <1>2, <2>1 DEF LoadNotified, WillWake
  <2>2. CASE ~(seen[t] > notified)
    <3>1. notified > 0
      BY <1>2, <2>2 DEF LoadNotified, WillWake
    <3>2. \A v \in Woken : pc'[v] = pc[v]
      BY <1>2 DEF LoadNotified, Woken, In
    <3> QED BY <1>counts, <1>woken, <3>1, <3>2
  <2> QED BY <2>1, <2>2
<1>3. CASE Notify(t)
  <2>1. CASE Asleep # {} /\ parked > notified
    <3>1. PICK v \in Asleep : pc' = [pc EXCEPT ![t] = Home(t), ![v] = "woken"]
      BY <1>3, <2>1 DEF Notify, NotifyOne
    <3> QED BY <3>1 DEF Asleep, In
  <2>2. CASE Counted = {}
    BY <1>uncounted, <2>2
  <2>3. CASE ~(Asleep # {} /\ parked > notified) /\ Counted # {}
    <3>1. pc' = [pc EXCEPT ![t] = Home(t)] /\ pc[t] = "notify" /\ park = None
      BY <1>3, <2>3 DEF Notify, NotifyOne
    <3>2. Woken # {}
      <4>1. CASE Asleep = {}
        BY <2>3, <3>1, <4>1, QueueAssumption
           DEF Asleep, Counted, Strict, In, Woken, LockIsHeld, LockedPcs, Threads
      <4>2. CASE ~(parked > notified)
        BY <1>counts, <2>3, <4>2
      <4> QED BY <2>3, <4>1, <4>2
    <3>3. \A v \in Woken : pc'[v] = pc[v]
      BY <3>1 DEF Woken, In
    <3> QED BY <1>woken, <3>2, <3>3
  <2> QED BY <2>1, <2>2, <2>3
<1>4. ASSUME NEW u \in Threads, PushStep(u),
             ~(LoadParked(t) \/ LoadNotified(t) \/ Notify(t))
      PROVE  WillWake(t)'
  <2>1. CASE u = t
    BY <1>4, <2>1 DEF PushStep, Push, Flush, PushFence, WillWake, Home
  <2>2. CASE u # t
    <3>1. /\ pc[t] \notin {"asleep", "idle", "run"}
          /\ pc[t] \in {"push", "loadParked", "loadNotified", "notify"}
      BY DEF WillWake
    <3>2. pc'[t] = pc[t]
      <4>1. CASE Notify(u)
        BY <2>2, <3>1, <4>1 DEF Notify, NotifyOne, Asleep, In
      <4> QED BY <1>4, <2>2, <4>1
              DEF PushStep, Push, Flush, PushFence, LoadParked, LoadNotified
    <3>3. seen'[t] = seen[t]
      <4>1. seen' = seen \/ \E value : seen' = [seen EXCEPT ![u] = value]
        BY <1>4 DEF PushStep, Push, Flush, PushFence, LoadParked, LoadNotified,
                    Notify, allButPc
      <4> QED BY <2>2, <4>1
    <3> QED BY <3>2, <3>3 DEF WillWake
  <2> QED BY <2>1, <2>2
<1>5. ASSUME pc'[t] = pc[t], seen' = seen PROVE WillWake(t)'
  BY <1>5 DEF WillWake
<1>6. ASSUME NEW w \in Workers, ScanStep(w) \/ ParkStep(w) \/ LoopStep(w)
      PROVE  WillWake(t)'
  <2>1. pc[t] \in PushPcs
    BY DEF WillWake, PushPcs
  <2>2. seen' = seen
    BY <1>6
    DEF ScanStep, PopOwn, BeginPass, SkipVictim, Retry, Steal, Migrate,
        WalkAgain, SpinOrArm, StrictEmpty, ParkStep, Arm, ArmFence,
        LoadShutdown, Wait, Reacquire, ForgetSignal, Leave, LoopStep, Register,
        Finish, Panic, allButPc
  <2>3. pc'[t] = pc[t]
    <3>1. CASE t = w
      <4>1. pc[w] \in {"push", "loadParked", "loadNotified", "notify"}
        BY <2>1, <3>1 DEF PushPcs
      <4> QED BY <1>6, <3>1, <4>1
          DEF ScanStep, PopOwn, BeginPass, SkipVictim, Retry, Steal, Migrate,
              WalkAgain, SpinOrArm, StrictEmpty, Visiting, PassOver, ParkStep,
              Arm, ArmFence, LoadShutdown, Wait, Reacquire, ForgetSignal, Leave,
              LeavePcs, LoopStep, Register, Finish, Panic
    <3>2. CASE t # w
      BY <1>6, <3>2
      DEF ScanStep, PopOwn, BeginPass, SkipVictim, Retry, Steal, Migrate,
          WalkAgain, SpinOrArm, StrictEmpty, ParkStep, Arm, ArmFence,
          LoadShutdown, Wait, Reacquire, ForgetSignal, Leave, LoopStep, Register,
          Finish, Panic
    <3> QED BY <3>1, <3>2
  <2> QED BY <1>5, <2>2, <2>3
<1>7. CASE SetShutdown \/ NotifyAll \/ Joined \/ UNCHANGED vars
  <2>1. pc[t] # "asleep"
    BY DEF WillWake
  <2> QED BY <1>5, <1>7, <2>1
      DEF SetShutdown, NotifyAll, Joined, Asleep, In, vars, allButPc
<1> QED BY <1>1, <1>2, <1>3, <1>4, <1>6, <1>7 DEF Next

\* Only the end of a push and that of a steal put a runnable in an empty place.
LEMMA FilledBy ==
    ASSUME TypeOK, NEW p \in Places, queue[p] = <<>>, queue'[p] # <<>>, NextC
    PROVE  \E t \in Threads :
              QueueStep(t) /\ (Flush(t) \/ (t \in Workers /\ Migrate(t)))
<1>a. queue \in [Places -> Seq(Tasks)]
  BY DEF TypeOK
<1>b. queue' # queue
  OBVIOUS
<1>1. ASSUME NEW t \in Threads, QueueStep(t), ~Flush(t),
             ~(t \in Workers /\ Migrate(t))
      PROVE  FALSE
  <2>1. CASE PushProgress(t)
    BY <1>b, <1>1, <2>1
    DEF PushProgress, PushFence, LoadParked, LoadNotified, Notify, allButPc,
        storeVars
  <2>2. ASSUME t \in Workers, ScanStep(t) PROVE FALSE
    <3>1. CASE PopOwn(t)
      BY <1>a, <3>1 DEF PopOwn
    <3>2. CASE Steal(t)
      <4>1. Victim(t) # p
        BY <3>2 DEF Steal, Stealable
      <4> QED BY <1>a, <3>2, <4>1 DEF Steal
    <3> QED BY <1>b, <1>1, <2>2, <3>1, <3>2
        DEF ScanStep, BeginPass, SkipVictim, Retry, WalkAgain, SpinOrArm,
            StrictEmpty, allButPc, storeVars
  <2>3. CASE ParkStep(t)
    BY <1>b, <2>3
    DEF ParkStep, Arm, ArmFence, LoadShutdown, Wait, Reacquire, ForgetSignal,
        Leave, allButPc, storeVars
  <2>4. CASE Register(t) \/ Panic(t)
    BY <1>a, <1>b, <2>4 DEF Register, Panic, storeVars
  <2> QED BY <1>1, <2>1, <2>2, <2>3, <2>4 DEF QueueStep
<1>2. ASSUME NEW t \in Threads, Submit(t) PROVE FALSE
  BY <1>b, <1>2 DEF Submit, Push
<1>3. ASSUME NEW w \in Workers,
             Drop(w) \/ DropReturns(w) \/ ClosureEnds(w)
      PROVE  FALSE
  BY <1>b, <1>3 DEF Drop, DropReturns, ClosureEnds, Finish, vars, allButPc, storeVars
<1>4. CASE ClosePool \/ CloseStep
  BY <1>b, <1>4 DEF ClosePool, SetShutdown, CloseStep, NotifyAll, Joined, vars,
                    allButPc, storeVars
<1> QED BY <1>1, <1>2, <1>3, <1>4 DEF NextC

\* A worker that has nothing to drop gets something only by a push of its own.
LEMMA FreeStays ==
    ASSUME ~Handover, CancelInv, [NextC]_allVars,
           NEW v \in Workers, held[v] = {}, waits[v] = None
    PROVE  (held'[v] = {} /\ waits'[v] = None) \/ pc'[v] = "push"
<1>a. /\ held \in [Threads -> SUBSET (Tasks \ fresh)]
      /\ waits \in [Workers -> Tasks \cup {None}]
      /\ pc \in [Threads -> WorkerPcs \cup PushPcs \cup {"idle"}]
      /\ v \in Threads
  BY DEF CancelInv, ControlInv, CancelTypeOK, TypeOK, Threads
<1>1. ASSUME NEW t \in Threads, Submit(t)
      PROVE  (held'[v] = {} /\ waits'[v] = None) \/ pc'[v] = "push"
  BY <1>a, <1>1 DEF Submit, Push, Goto
<1>2. ASSUME NEW w \in Workers, Drop(w)
      PROVE  held'[v] = {} /\ waits'[v] = None
  <2>1. PICK task \in held[w] : /\ waits' = [waits EXCEPT ![w] = task]
                                /\ held' = [t \in Threads |-> held[t] \ {task}]
    BY <1>2 DEF Drop, Droppable
  <2> QED BY <1>a, <2>1
<1>3. ASSUME NEW w \in Workers, DropReturns(w) \/ ClosureEnds(w)
      PROVE  held'[v] = {} /\ waits'[v] = None
  BY <1>a, <1>3 DEF DropReturns, ClosureEnds
<1> QED BY <1>1, <1>2, <1>3
    DEF NextC, QueueStep, ClosePool, CloseStep, allVars, cancelVars

\* A place that holds a runnable stays attended while closures push and wait: the
\* push that fills it wakes somebody who waits for nothing, or finds everybody
\* awake.
LEMMA PeersStep ==
    ASSUME ~Handover, IInv, CancelInv, HeldInClosure, SlotsAreSet, PeersAttend,
           [NextC]_allVars, CancelInv', HeldInClosure'
    PROVE  PeersAttend'
<1> SUFFICES ASSUME NEW p \in Places, queue'[p] # <<>>
             PROVE  \/ \E v \in Workers : Keen(v, p)'
                    \/ \E t \in Threads : WillWake(t)'
                    \/ \A v \in Workers : WillLook(v, p)'
  BY DEF PeersAttend
<1>a. /\ TypeOK /\ LockIsHeld /\ BufferIsLocal /\ ShutdownIsLate
      /\ ParkedIsExact /\ NotifiedIsCovered
      /\ pc \in [Threads -> WorkerPcs \cup PushPcs \cup {"idle"}]
      /\ Workers \subseteq Threads
  BY DEF IInv, ControlInv, TypeOK, Threads
<1>b. [Next]_vars
  BY StepIsQueues DEF CancelOnly, Drop, DropReturns, allVars
\* Outside a closure a worker has nothing that it could wait for.
<1>free. ASSUME NEW v \in Workers,
                pc'[v] \in LookingPcs \ ({"run"} \cup PushPcs)
         PROVE  Keen(v, p)'
  BY <1>free DEF Keen, WillLook, HeldInClosure, CancelInv, CancelTypeOK, Blocked,
                 LookingPcs
<1>1. CASE queue[p] = <<>>
  <2>1. NextC
    BY <1>1 DEF allVars, vars, allButPc, storeVars
  <2>2. PICK t \in Threads :
           QueueStep(t) /\ (Flush(t) \/ (t \in Workers /\ Migrate(t)))
    BY <1>1, <1>a, <2>1, FilledBy
  <2>3. CASE Flush(t)
    BY <1>a, <2>3 DEF Flush, BufferIsLocal, WillWake
  <2>4. CASE t \in Workers /\ Migrate(t)
    <3>1. /\ pc[t] = "migrate" /\ held' = held /\ waits' = waits
          /\ pc'[t] \in {"run", "found"}
      BY <1>a, <2>2, <2>4 DEF Migrate, Goto, Holding, QueueStep, cancelVars
    <3>2. held[t] = {} /\ waits[t] = None
      BY <2>4, <3>1 DEF HeldInClosure, PushPcs, CancelInv, CancelTypeOK, Blocked
    <3>3. Keen(t, p)'
      BY <2>4, <3>1, <3>2 DEF Keen, WillLook, LookingPcs
    <3> QED BY <2>4, <3>3
  <2> QED BY <2>2, <2>3, <2>4
<1>2. CASE queue[p] # <<>>
  <2>1. ASSUME NEW v \in Workers, WillLook(v, p) PROVE WillLook(v, p)'
    BY <1>2, <1>a, <1>b, <2>1, LooksOn
  <2>2. ASSUME NEW v \in Workers, Keen(v, p)
        PROVE  Keen(v, p)' \/ WillWake(v)'
    <3>1. WillLook(v, p)'
      BY <2>1, <2>2 DEF Keen
    <3>2. (held'[v] = {} /\ waits'[v] = None) \/ pc'[v] = "push"
      BY <2>2, FreeStays DEF Keen
    <3> QED BY <3>1, <3>2 DEF Keen, WillWake
  <2>3. ASSUME NEW t \in Threads, WillWake(t)
        PROVE  \/ \E v \in Workers : Keen(v, p)'
               \/ WillWake(t)'
               \/ \A v \in Workers : WillLook(v, p)'
    <3>1. \/ WillWake(t)'
          \/ \E v \in Workers : pc'[v] \in {"armed", "woken", "back"}
          \/ \A v \in Workers : WillLook(v, p)
      BY <1>a, <1>b, <2>3, WakesOn
    <3>2. {"armed", "woken", "back"} \subseteq LookingPcs \ ({"run"} \cup PushPcs)
      BY DEF LookingPcs, PushPcs
    <3> QED BY <1>free, <2>1, <3>1, <3>2
  <2> QED BY <1>2, <1>a, <2>1, <2>2, <2>3 DEF PeersAttend
<1> QED BY <1>1, <1>2

--------------------------------------------------------------------------------
(* DropsComplete *)

WaitsInv ==
    /\ IInv /\ PlaceInv /\ CancelInv
    /\ HeldInClosure /\ SlotsAreSet /\ BlockedIsBounded
    /\ Ranked /\ PeersAttend

\* Nothing is held, waited for or queued at first.
LEMMA WaitsInit ==
    InitC => WaitsInv
<1> SUFFICES ASSUME InitC PROVE WaitsInv
  OBVIOUS
<1>1. IInv /\ PlaceInv
  BY IInvInit, PlaceInit DEF InitC
<1>2. /\ held = [t \in Threads |-> {}] /\ waits = [w \in Workers |-> None]
      /\ cancelled = {} /\ Workers \subseteq Threads
      /\ \A w \in Workers : pc[w] = "register" /\ cur[w] = None
      /\ \A p \in Places : queue[p] = <<>>
  BY DEF InitC, Init, Threads
<1>3. Blocked = {}
  BY <1>2 DEF Blocked
<1>4. CancelInv
  BY <1>1, <1>2, <1>3 DEF IInv, CancelInv, CancelTypeOK
<1>5. HeldInClosure /\ PeersAttend
  BY <1>2 DEF HeldInClosure, PeersAttend
<1>6. SlotsAreSet
  BY <1>2 DEF SlotsAreSet, Places, Deques
<1>7. BlockedIsBounded
  BY <1>3, FS_EmptySet, QueueCancelAssumption DEF BlockedIsBounded
<1>8. Ranked
  <2>1. [task \in Tasks |-> 0] \in [Tasks -> Nat]
    OBVIOUS
  <2>2. RankedBy([task \in Tasks |-> 0])
    BY <1>2 DEF RankedBy
  <2> QED BY <2>1, <2>2 DEF Ranked
<1> QED BY <1>1, <1>4, <1>5, <1>6, <1>7, <1>8 DEF WaitsInv

\* The inductive step.
LEMMA WaitsStep ==
    ASSUME ~Handover
    PROVE  WaitsInv /\ [NextC]_allVars => WaitsInv'
<1> SUFFICES ASSUME WaitsInv, [NextC]_allVars PROVE WaitsInv'
  OBVIOUS
<1>1. /\ IInv /\ PlaceInv /\ CancelInv /\ HeldInClosure /\ SlotsAreSet
      /\ BlockedIsBounded /\ Ranked /\ PeersAttend
  BY DEF WaitsInv
<1>2. TypeOK /\ HandIsFull /\ BufferIsLocal /\ Alone
  BY <1>1 DEF IInv, ControlInv, PlaceInv
<1>3. [Next]_vars
  BY StepIsQueues DEF CancelOnly, Drop, DropReturns, allVars
<1>4. IInv' /\ PlaceInv'
  BY <1>1, <1>3, IInvStep, PlaceStep
<1>5. CancelInv' /\ HeldInClosure' /\ BlockedIsBounded'
  BY <1>1, CancelStep, HeldStep, BoundStep
<1>6. SlotsAreSet'
  BY <1>1, <1>2, <1>3, SlotsStep
<1>7. Ranked'
  BY <1>1, <1>2, RankStep
<1>8. PeersAttend'
  BY <1>1, <1>5, PeersStep
<1> QED BY <1>4, <1>5, <1>6, <1>7, <1>8 DEF WaitsInv

\* One of finitely many ranks is the highest.
LEMMA Highest ==
    ASSUME NEW S, IsFiniteSet(S), S # {}, NEW rank \in [S -> Nat]
    PROVE  \E top \in S : \A x \in S : rank[x] <= rank[top]
<1> DEFINE Above(x) == {y \in S : rank[y] > rank[x]}
           T == {Above(x) : x \in S}
<1>1. T \subseteq FiniteSubsetsOf(S) /\ T # {}
  <2>1. \A B \in SUBSET S : B \in FiniteSubsetsOf(S)
    BY FS_Subset DEF FiniteSubsetsOf
  <2>2. \A B \in T : B \in SUBSET S
    OBVIOUS
  <2>3. PICK x \in S : TRUE
    OBVIOUS
  <2>4. Above(x) \in T
    OBVIOUS
  <2> HIDE DEF T
  <2> QED BY <2>1, <2>2, <2>4
<1>2. PICK A \in T : \A B \in T : <<B, A>> \notin StrictSubsetOrdering(S)
  <2> HIDE DEF T
  <2> QED BY <1>1, FS_StrictSubsetOrderingWellFounded, WFMin
<1>3. PICK top \in S : A = Above(top)
  OBVIOUS
<1>4. ASSUME NEW x \in S, ~(rank[x] <= rank[top]) PROVE FALSE
  <2>1. x \in Above(top) /\ x \notin Above(x)
    BY <1>4
  <2>2. Above(x) \subseteq Above(top)
    BY <1>4
  <2>3. <<Above(x), Above(top)>> \in StrictSubsetOrdering(S)
    BY <2>1, <2>2 DEF StrictSubsetOrdering
  <2> QED BY <1>2, <1>3, <2>3
<1> QED BY <1>4

\* In a state where nothing can happen any more, the runnable that a closure
\* waits for is in the hand of a worker that waits itself: no buffer and no batch
\* is under way, and a place that held it would be attended.
LEMMA WaitsForWaiter ==
    ASSUME WaitsInv, Stuck, MaxBlocked < NumWorkers, NEW w \in Blocked
    PROVE  \E v \in Blocked : cur[v] = waits[w]
<1>a. /\ TypeOK /\ BufferIsLocal /\ Alone /\ HandIsKnown
      /\ waits[w] \in Tasks \ fresh /\ pc[w] = "run" /\ w \in Workers
      /\ \A t \in Producers : pc[t] = "idle"
      /\ \A v \in Workers : pc[v] \in {"asleep", "exited"} \/ Waiting(v)
      /\ \A v \in Blocked : pc[v] = "run"
  BY DEF WaitsInv, IInv, ControlInv, PlaceInv, CancelInv, CancelTypeOK, Stuck,
         Blocked
<1>b. \A v \in Workers : Waiting(v) => v \in Blocked /\ pc[v] = "run"
  BY <1>a DEF Waiting, Blocked
<1>c. waits[w] \notin done \cup lost
  BY <1>a DEF Waiting
<1>1. PICK where, of : OnlyAt(waits[w], where, of)
  BY <1>a DEF Alone
<1>2. At(waits[w], where, of)
  BY <1>1 DEF OnlyAt
<1>3. CASE where = "buffer"
  <2>1. of \in Threads /\ pc[of] = "push"
    BY <1>a, <1>2, <1>3 DEF At, BufferIsLocal
  <2> QED BY <1>a, <1>b, <2>1 DEF Threads
<1>4. CASE where = "transit"
  <2>1. of \in Workers /\ transit[of] # <<>>
    BY <1>2, <1>4 DEF At, Range
  <2>2. pc[of] = "migrate"
    BY <1>a, <2>1 DEF HandIsKnown
  <2> QED BY <1>a, <1>b, <2>1, <2>2
<1>5. CASE where = "queue"
  <2>1. of \in Places /\ queue[of] # <<>>
    BY <1>2, <1>5 DEF At, Range
  <2>2. \A v \in Workers : ~Keen(v, of)
    BY <1>a, <1>b DEF Keen, WillLook, LookingPcs, PushPcs, Blocked
  <2>3. \A t \in Threads : ~WillWake(t)
    BY <1>a, <1>b DEF WillWake, Threads
  <2>4. \A v \in Workers : WillLook(v, of)
    BY <2>1, <2>2, <2>3 DEF WaitsInv, PeersAttend
  <2>5. \A v \in Workers : pc[v] \notin {"asleep", "exited"}
    BY <2>4 DEF WillLook, LookingPcs, PushPcs
  <2>6. Blocked = Workers
    BY <1>a, <1>b, <2>5 DEF Blocked
  <2>7. Cardinality(Workers) = NumWorkers
    BY FS_Interval, SizesAssumption DEF Workers
  <2> QED BY <2>6, <2>7, SizesAssumption, QueueCancelAssumption
          DEF WaitsInv, BlockedIsBounded
<1>6. CASE where = "hand"
  <2>1. of \in Workers /\ cur[of] = waits[w]
    BY <1>2, <1>6 DEF At
  <2>2. cur[of] # None
    BY <1>a, <2>1, QueueAssumption
  <2>3. pc[of] \notin {"asleep", "exited"}
    BY <1>a, <2>1, <2>2 DEF HandIsKnown, PushPcs
  <2> QED BY <1>a, <1>b, <2>1, <2>3
<1> QED BY <1>a, <1>c, <1>2, <1>3, <1>4, <1>5, <1>6 DEF At

\* So the waiting goes up in rank without end, which finitely many closures
\* cannot do.
LEMMA NobodyStuck ==
    ASSUME WaitsInv, MaxBlocked < NumWorkers
    PROVE  DropsComplete
<1> SUFFICES ASSUME Stuck, Blocked # {} PROVE FALSE
  BY DEF DropsComplete
<1>1. PICK rank \in [Tasks -> Nat] : RankedBy(rank)
  BY DEF WaitsInv, Ranked
<1>2. /\ IsFiniteSet(Blocked) /\ Blocked \subseteq Workers
      /\ \A w \in Blocked : cur[w] \in Tasks
  <2>1. Blocked \in SUBSET Workers
    BY DEF Blocked
  <2>2. ASSUME NEW w \in Blocked PROVE cur[w] \in Tasks
    <3>1. pc[w] = "run" /\ w \in Workers
      BY <2>1 DEF WaitsInv, CancelInv, CancelTypeOK
    <3> QED BY <3>1 DEF WaitsInv, IInv, ControlInv, TypeOK, HandIsFull
  <2> QED BY <2>1, <2>2, WorkersFinite
<1>3. PICK top \in Blocked :
        \A w \in Blocked : rank[cur[w]] <= rank[cur[top]]
  <2> DEFINE of == [w \in Blocked |-> rank[cur[w]]]
  <2>1. of \in [Blocked -> Nat]
    BY <1>1, <1>2
  <2>2. \E top \in Blocked : \A w \in Blocked : of[w] <= of[top]
    <3> HIDE DEF of
    <3> QED BY <1>2, <2>1, Highest
  <2> QED BY <2>2
<1>4. PICK v \in Blocked : cur[v] = waits[top]
  BY WaitsForWaiter
<1>5. rank[cur[top]] < rank[cur[v]]
  BY <1>1, <1>2, <1>4, QueueAssumption DEF RankedBy, Blocked
<1> QED BY <1>1, <1>2, <1>3, <1>4, <1>5

\* A worker waiting in SpawnFuture::drop always has somebody to wait for, as long
\* as fewer workers wait at a time than the pool has and no closure drops a
\* future that it has not polled: however many workers, drops, steals and unwinds
\* there are, a state where nothing can happen has no such worker.
THEOREM NoDropIsStuck ==
    ASSUME MaxBlocked < NumWorkers, ~Handover
    PROVE  SpecC => []DropsComplete
<1>1. WaitsInv /\ [NextC]_allVars => WaitsInv'
  BY WaitsStep
<1>2. WaitsInv => DropsComplete
  BY NobodyStuck
<1> QED BY WaitsInit, <1>1, <1>2, PTL DEF SpecC

\* And whatever the number of workers that wait: a place that holds a runnable
\* has a worker bound for it that waits for nothing, a push that will wake one,
\* or nobody asleep or gone: every worker will look there once its own drop, if
\* it is in one, returns.
THEOREM PeersAttended ==
    ASSUME ~Handover
    PROVE  SpecC => []PeersAttend
<1>1. WaitsInv /\ [NextC]_allVars => WaitsInv'
  BY WaitsStep
<1>2. WaitsInv => PeersAttend
  BY DEF WaitsInv
<1> QED BY WaitsInit, <1>1, <1>2, PTL DEF SpecC

\* What the pool promises its callers holds with closures that wait, too.
THEOREM CancelImplementsPool == SpecC => ImplementsTaskPool
BY ImplementsQueue, ImplementsPool, PTL
================================================================================

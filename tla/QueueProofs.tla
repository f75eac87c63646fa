------------------------------ MODULE QueueProofs ------------------------------
(***************************************************************************)
(* The properties of Queue that TLC checks on small instances, for every   *)
(* number of workers, shards, producers, tasks and panics: IInv is         *)
(* inductive.  First the control facts, which are so by themselves: types, *)
(* who holds the lock and a runnable, where a push may still be invisible, *)
(* and that pushes and exits lie on either side of shutdown().  Then the   *)
(* counters (parked is exact, notified is covered), the owners' deques,    *)
(* the broadcast of shutdown(), and last Attended, which uses all of them  *)
(* and, from ScanOrderProofs, that a strict pass visits every place.       *)
(***************************************************************************)
EXTENDS Queue, ScanOrderProofs, SequenceTheorems, FiniteSetTheorems, TLAPS

--------------------------------------------------------------------------------
(* Types and control *)

\* A piece of a sequence is a sequence over the same set.
LEMMA SubSeqInSeq ==
    ASSUME NEW S, NEW q \in Seq(S), NEW m \in 1 .. Len(q) + 1,
           NEW n \in 0 .. Len(q)
    PROVE  SubSeq(q, m, n) \in Seq(S)
BY SubSeqProperties

\* A step keeps every variable in its type, whatever the order the threads run
\* in.  That a worker in run holds a runnable (HandIsFull) is what types `done'.
LEMMA TypeStep ==
    ASSUME TypeOK, HandIsFull, [Next]_vars
    PROVE  TypeOK'
<1> USE DEF TypeOK, vars, allButPc, storeVars, scanVars, counterVars,
          closeVars, taskVars, Goto, WorkerPcs, PushPcs, LeavePcs,
          LeftPcs, Left, Home, Threads
<1>1. ASSUME NEW t \in Threads, PushStep(t)
      PROVE  TypeOK'
  <2>1. CASE Push(t)
    <3>1. PICK task \in fresh,
               to \in IF t \in Workers THEN {Deque(t)} ELSE Injectors :
            /\ buffer' = [buffer EXCEPT ![t] = [to |-> to, task |-> task]]
            /\ fresh' = fresh \ {task}
      BY <2>1 DEF Push
    <3>2. to \in Places
      BY DEF Places, Deques
    <3>3. buffer' \in [Threads -> [to : Places, task : Tasks] \cup {None}]
      BY <3>1, <3>2
    <3> QED BY <2>1, <3>1, <3>3 DEF Push
  <2>2. CASE Flush(t)
    <3>a. /\ buffer[t].to \in Places /\ buffer[t].task \in Tasks
          /\ queue' = [queue EXCEPT ![buffer[t].to] =
                         Append(queue[buffer[t].to], buffer[t].task)]
      BY <2>2 DEF Flush
    <3>b. Append(queue[buffer[t].to], buffer[t].task) \in Seq(Tasks)
      BY <3>a
    <3>1. queue' \in [Places -> Seq(Tasks)]
      BY <3>a, <3>b
    <3> QED BY <2>2, <3>1 DEF Flush
  <2>3. CASE PushFence(t)
    BY <2>3, QueueAssumption DEF PushFence
  <2>4. CASE LoadParked(t)
    BY <2>4, QueueAssumption DEF LoadParked, ParkedReads
  <2>5. CASE LoadNotified(t)
    <3>1. pc' = [pc EXCEPT ![t] = "notify"] \/ pc' = [pc EXCEPT ![t] = Home(t)]
      BY <2>5 DEF LoadNotified
    <3>2. seen' \in [Threads -> Int]
      BY <2>5 DEF LoadNotified
    <3> QED BY <2>5, <3>1, <3>2, QueueAssumption DEF LoadNotified
  <2>6. CASE Notify(t)
    <3>1. notified' \in Nat
      BY <2>6 DEF Notify
    <3>2. \/ pc' = [pc EXCEPT ![t] = Home(t)]
          \/ \E w \in Workers : pc' = [pc EXCEPT ![t] = Home(t), ![w] = "woken"]
      BY <2>6 DEF Notify, NotifyOne, Asleep, In
    <3>3. CASE pc' = [pc EXCEPT ![t] = Home(t)]
      BY <2>6, <3>1, <3>3, QueueAssumption DEF Notify
    <3>4. ASSUME NEW w \in Workers,
                 pc' = [pc EXCEPT ![t] = Home(t), ![w] = "woken"]
          PROVE  TypeOK'
      <4>1. w \in Threads /\ Home(t) \in {"run", "idle"}
        OBVIOUS
      <4>2. /\ pc' \in [Threads -> WorkerPcs \cup PushPcs \cup {"idle"}]
            /\ \A p \in Producers : pc'[p] \in PushPcs \cup {"idle"}
            /\ \A v \in Workers : pc'[v] # "idle"
        <5>1. pc' \in [Threads -> WorkerPcs \cup PushPcs \cup {"idle"}]
          BY <3>4, <4>1
        <5>2. ASSUME NEW p \in Producers
              PROVE  pc'[p] \in PushPcs \cup {"idle"}
          <6>1. p # w /\ p \in Threads /\ p \notin Workers
            BY QueueAssumption
          <6> QED BY <3>4, <6>1
        <5>3. \A v \in Workers : pc'[v] # "idle"
          BY <3>4
        <5> QED BY <5>1, <5>2, <5>3
      <4> QED BY <2>6, <3>1, <4>2 DEF Notify
    <3> QED BY <3>2, <3>3, <3>4
  <2> QED BY <1>1, <2>1, <2>2, <2>3, <2>4, <2>5, <2>6 DEF PushStep
<1>2. ASSUME NEW w \in Workers, ScanStep(w)
      PROVE  TypeOK'
  <2>1. CASE PopOwn(w)
    <3>1. Deque(w) \in Places /\ queue[Deque(w)] \in Seq(Tasks)
      BY DEF Places, Deques
    <3>2. /\ Head(queue[Deque(w)]) \in Tasks
          /\ Tail(queue[Deque(w)]) \in Seq(Tasks)
      BY <2>1, <3>1 DEF PopOwn
    <3>3. /\ cur' \in [Workers -> Tasks \cup {None}]
          /\ queue' \in [Places -> Seq(Tasks)]
      <4>1. /\ cur' = [cur EXCEPT ![w] = Head(queue[Deque(w)])]
            /\ queue' = [queue EXCEPT ![Deque(w)] = Tail(queue[Deque(w)])]
        BY <2>1 DEF PopOwn
      <4>2. /\ cur \in [Workers -> Tasks \cup {None}]
            /\ queue \in [Places -> Seq(Tasks)]
        OBVIOUS
      <4> HIDE DEF TypeOK
      <4> QED BY <3>1, <3>2, <4>1, <4>2
    <3>4. round' \in [Workers -> 0 .. SpinRounds]
      BY <2>1, QueueAssumption DEF PopOwn
    <3>5. pc' = [pc EXCEPT ![w] = "run"] \/ pc' = [pc EXCEPT ![w] = "found"]
      BY <2>1 DEF PopOwn, Holding
    <3> QED BY <2>1, <3>3, <3>4, <3>5, QueueAssumption DEF PopOwn
  <2>2. CASE BeginPass(w)
    <3>1. PICK order \in VictimOrders(w, Probe(w)) :
            todo' = [todo EXCEPT ![w] = order]
      BY <2>2 DEF BeginPass
    <3>2. order \in Seq(Places)
      <4>1. Probe(w) \in Probes
        BY DEF Probe, Probes
      <4>2. order \in Seq(Places \ {Deque(w)})
        BY <4>1, OrderType
      <4> QED BY <4>2
    <3>3. todo' \in [Workers -> Seq(Places)]
      BY <3>1, <3>2
    <3> QED BY <2>2, <3>3 DEF BeginPass
  <2>3. CASE SkipVictim(w)
    <3>1. Tail(todo[w]) \in Seq(Places)
      BY <2>3 DEF SkipVictim, Visiting
    <3>2. todo' \in [Workers -> Seq(Places)]
      BY <2>3, <3>1 DEF SkipVictim
    <3> QED BY <2>3, <3>2 DEF SkipVictim
  <2>4. CASE Retry(w)
    <3>1. Tail(todo[w]) \in Seq(Places)
      BY <2>4 DEF Retry, Visiting
    <3>2. todo' \in [Workers -> Seq(Places)]
      BY <2>4, <3>1 DEF Retry
    <3> QED BY <2>4, <3>2 DEF Retry
  <2>5. CASE Steal(w)
    <3> DEFINE q == queue[Victim(w)]
    <3>1. Victim(w) \in Places
      BY <2>5 DEF Steal, Visiting, Victim
    <3>2. q \in Seq(Tasks) /\ q # <<>>
      BY <2>5, <3>1 DEF Steal, Stealable
    <3>3. PICK n \in 1 .. Len(q) :
            /\ cur' = [cur EXCEPT ![w] = Head(q)]
            /\ transit' = [transit EXCEPT ![w] = SubSeq(q, 2, n)]
            /\ queue' = [queue EXCEPT ![Victim(w)] = SubSeq(q, n + 1, Len(q))]
            /\ Goto(w, IF n = 1 THEN Holding(w) ELSE "migrate")
      BY <2>5 DEF Steal
    <3>4. Head(q) \in Tasks /\ SubSeq(q, 2, n) \in Seq(Tasks)
          /\ SubSeq(q, n + 1, Len(q)) \in Seq(Tasks)
      <4> HIDE DEF q, TypeOK
      <4> QED BY <3>2, <3>3, SubSeqInSeq
    <3> HIDE DEF q
    <3>5. /\ cur' \in [Workers -> Tasks \cup {None}]
          /\ transit' \in [Workers -> Seq(Tasks)]
          /\ queue' \in [Places -> Seq(Tasks)]
      <4>1. /\ cur \in [Workers -> Tasks \cup {None}]
            /\ transit \in [Workers -> Seq(Tasks)]
            /\ queue \in [Places -> Seq(Tasks)]
        OBVIOUS
      <4> HIDE DEF TypeOK
      <4> QED BY <3>1, <3>3, <3>4, <4>1
    <3>6. pc' = [pc EXCEPT ![w] = "run"] \/ pc' = [pc EXCEPT ![w] = "found"]
          \/ pc' = [pc EXCEPT ![w] = "migrate"]
      BY <3>3 DEF Holding
    <3>7. /\ round' = [round EXCEPT ![w] = 0]
          /\ todo' = [todo EXCEPT ![w] = <<>>]
          /\ contended' = [contended EXCEPT ![w] = FALSE]
          /\ UNCHANGED <<counterVars, closeVars, taskVars, stealers,
                         buffer, seen>>
      BY <2>5 DEF Steal
    <3>8. round' \in [Workers -> 0 .. SpinRounds]
      BY <3>7, QueueAssumption
    <3>9. /\ todo' \in [Workers -> Seq(Places)]
          /\ contended' \in [Workers -> BOOLEAN]
      BY <3>7
    <3>10. ASSUME NEW l \in {"run", "found", "migrate"},
                  pc' = [pc EXCEPT ![w] = l]
           PROVE  /\ pc' \in [Threads -> WorkerPcs \cup PushPcs \cup {"idle"}]
                  /\ \A p \in Producers : pc'[p] \in PushPcs \cup {"idle"}
                  /\ \A v \in Workers : pc'[v] # "idle"
      BY <3>10, QueueAssumption
    <3> QED BY <3>5, <3>6, <3>7, <3>8, <3>9, <3>10
  <2>6. CASE Migrate(w)
    <3>1. Deque(w) \in Places
      BY DEF Places, Deques
    <3>2. /\ queue' \in [Places -> Seq(Tasks)]
          /\ transit' \in [Workers -> Seq(Tasks)]
      BY <2>6, <3>1 DEF Migrate
    <3> QED BY <2>6, <3>2, QueueAssumption DEF Migrate, Holding
  <2>7. CASE WalkAgain(w)
    BY <2>7, QueueAssumption DEF WalkAgain, PassOver
  <2>8. CASE SpinOrArm(w)
    <3>1. SpinRounds \in Nat /\ round[w] \in 0 .. SpinRounds
      BY QueueAssumption
    <3>2. CASE round[w] < SpinRounds
      <4>1. /\ round' = [round EXCEPT ![w] = round[w] + 1]
            /\ pc' = [pc EXCEPT ![w] = "scan"]
        BY <2>8, <3>2 DEF SpinOrArm
      <4>2. round[w] + 1 \in 0 .. SpinRounds
        BY <3>1, <3>2
      <4>3. round' \in [Workers -> 0 .. SpinRounds]
        BY <4>1, <4>2
      <4> QED BY <2>8, <4>1, <4>3, QueueAssumption DEF SpinOrArm
    <3>3. CASE ~(round[w] < SpinRounds)
      <4>1. round' = [round EXCEPT ![w] = 0] /\ pc' = [pc EXCEPT ![w] = "lock"]
        BY <2>8, <3>3 DEF SpinOrArm
      <4>2. 0 \in 0 .. SpinRounds
        BY <3>1
      <4> QED BY <2>8, <4>1, <4>2, QueueAssumption DEF SpinOrArm
    <3> QED BY <3>2, <3>3
  <2>9. CASE StrictEmpty(w)
    BY <2>9, QueueAssumption DEF StrictEmpty, PassOver, Strict
  <2> QED BY <1>2, <2>1, <2>2, <2>3, <2>4, <2>5, <2>6, <2>7, <2>8, <2>9
          DEF ScanStep
<1>3. ASSUME NEW w \in Workers, ParkStep(w)
      PROVE  TypeOK'
  <2>1. CASE Arm(w)
    BY <2>1, QueueAssumption DEF Arm
  <2>2. CASE ArmFence(w)
    BY <2>2, QueueAssumption DEF ArmFence
  <2>3. CASE LoadShutdown(w)
    BY <2>3, QueueAssumption DEF LoadShutdown
  <2>4. CASE Wait(w)
    BY <2>4, QueueAssumption DEF Wait
  <2>5. CASE Reacquire(w)
    BY <2>5, QueueAssumption DEF Reacquire
  <2>6. CASE ForgetSignal(w)
    BY <2>6, QueueAssumption DEF ForgetSignal
  <2>7. CASE Leave(w)
    <3>1. parked' \in Int
      BY <2>7 DEF Leave
    <3>2. \E l \in {"run", "exited", "scan"} : pc' = [pc EXCEPT ![w] = l]
      BY <2>7 DEF Leave
    <3>3. ASSUME NEW l \in {"run", "exited", "scan"}, pc' = [pc EXCEPT ![w] = l]
          PROVE  TypeOK'
      BY <2>7, <3>1, <3>3, QueueAssumption DEF Leave
    <3> QED BY <3>2, <3>3
  <2> QED BY <1>3, <2>1, <2>2, <2>3, <2>4, <2>5, <2>6, <2>7 DEF ParkStep
<1>4. ASSUME NEW w \in Workers, LoopStep(w)
      PROVE  TypeOK'
  <2>1. CASE Register(w)
    <3>1. Deque(w) \in Places
      BY DEF Places, Deques
    <3>2. Range(queue[Deque(w)]) \subseteq Tasks
      BY <3>1 DEF Range
    <3>3. lost' \subseteq Tasks /\ queue' \in [Places -> Seq(Tasks)]
      BY <2>1, <3>1, <3>2 DEF Register
    <3> QED BY <2>1, <3>3, QueueAssumption DEF Register
  <2>2. CASE Finish(w)
    <3>1. cur[w] \in Tasks
      BY <2>2 DEF Finish, HandIsFull
    <3> QED BY <2>2, <3>1, QueueAssumption DEF Finish
  <2>3. CASE Panic(w)
    BY <2>3, QueueAssumption DEF Panic
  <2> QED BY <1>4, <2>1, <2>2, <2>3 DEF LoopStep
<1>5. CASE SetShutdown
  BY <1>5, QueueAssumption DEF SetShutdown
<1>6. CASE NotifyAll
  BY <1>6, QueueAssumption DEF NotifyAll, Asleep, In
<1>7. CASE UNCHANGED vars
  BY <1>7
<1> QED BY <1>1, <1>2, <1>3, <1>4, <1>5, <1>6, <1>7 DEF Next, Joined

\* The park mutex is held by the worker whose pc is in the armed region: taken
\* by Arm and Reacquire, given back by Wait and Leave only.
LEMMA LockStep ==
    ASSUME TypeOK, LockIsHeld, [Next]_vars
    PROVE  LockIsHeld'
<1>a. /\ pc \in [Threads -> WorkerPcs \cup PushPcs \cup {"idle"}]
      /\ \A v \in Workers : pc[v] # "idle"
      /\ park \in Workers \cup {None}
  BY DEF TypeOK
<1> USE <1>a DEF LockIsHeld, vars, allButPc, storeVars, scanVars,
          counterVars,
          closeVars, taskVars, Goto,
          WorkerPcs, LockedPcs, PushPcs, LeavePcs, LeftPcs, Left, Home, Threads
<1>1. ASSUME NEW t \in Threads, PushStep(t)
      PROVE  LockIsHeld'
  <2>1. CASE Push(t)
    BY <2>1, QueueAssumption DEF Push
  <2>2. CASE Flush(t)
    BY <2>2, QueueAssumption DEF Flush
  <2>3. CASE PushFence(t)
    BY <2>3, QueueAssumption DEF PushFence
  <2>4. CASE LoadParked(t)
    BY <2>4, QueueAssumption DEF LoadParked, ParkedReads
  <2>5. CASE LoadNotified(t)
    BY <2>5, QueueAssumption DEF LoadNotified
  <2>6. CASE Notify(t)
    <3>1. \/ pc' = [pc EXCEPT ![t] = Home(t)]
          \/ \E w \in Workers : /\ pc[w] = "asleep"
                                /\ pc' = [pc EXCEPT ![t] = Home(t),
                                                    ![w] = "woken"]
      BY <2>6 DEF Notify, NotifyOne, Asleep, In
    <3>2. park' = park
      BY <2>6 DEF Notify
    <3>3. CASE pc' = [pc EXCEPT ![t] = Home(t)]
      BY <2>6, <3>2, <3>3 DEF Notify
    <3>4. ASSUME NEW w \in Workers, pc[w] = "asleep",
                 pc' = [pc EXCEPT ![t] = Home(t), ![w] = "woken"]
          PROVE  LockIsHeld'
      BY <2>6, <3>2, <3>4 DEF Notify
    <3> QED BY <3>1, <3>3, <3>4
  <2> QED BY <1>1, <2>1, <2>2, <2>3, <2>4, <2>5, <2>6 DEF PushStep
<1>2. ASSUME NEW w \in Workers, ScanStep(w)
      PROVE  LockIsHeld'
  <2>1. CASE PopOwn(w)
    BY <2>1, QueueAssumption DEF PopOwn, Holding, Strict
  <2>2. CASE BeginPass(w)
    BY <2>2, QueueAssumption DEF BeginPass
  <2>3. CASE SkipVictim(w)
    BY <2>3, QueueAssumption DEF SkipVictim, Visiting, Victim
  <2>4. CASE Retry(w)
    BY <2>4, QueueAssumption DEF Retry, Visiting, Victim
  <2>5. CASE Steal(w)
    BY <2>5, QueueAssumption DEF Steal, Visiting, Victim, Holding, Strict
  <2>6. CASE Migrate(w)
    BY <2>6, QueueAssumption DEF Migrate, Holding, Strict
  <2>7. CASE WalkAgain(w)
    BY <2>7, QueueAssumption DEF WalkAgain, PassOver
  <2>8. CASE SpinOrArm(w)
    BY <2>8, QueueAssumption DEF SpinOrArm, PassOver, Strict
  <2>9. CASE StrictEmpty(w)
    BY <2>9, QueueAssumption DEF StrictEmpty, PassOver, Strict
  <2> QED BY <1>2, <2>1, <2>2, <2>3, <2>4, <2>5, <2>6, <2>7, <2>8, <2>9
          DEF ScanStep
<1>3. ASSUME NEW w \in Workers, ParkStep(w)
      PROVE  LockIsHeld'
  <2>1. CASE Arm(w)
    BY <2>1, QueueAssumption DEF Arm
  <2>2. CASE ArmFence(w)
    BY <2>2, QueueAssumption DEF ArmFence
  <2>3. CASE LoadShutdown(w)
    BY <2>3, QueueAssumption DEF LoadShutdown
  <2>4. CASE Wait(w)
    BY <2>4, QueueAssumption DEF Wait
  <2>5. CASE Reacquire(w)
    BY <2>5, QueueAssumption DEF Reacquire
  <2>6. CASE ForgetSignal(w)
    BY <2>6, QueueAssumption DEF ForgetSignal
  <2>7. CASE Leave(w)
    BY <2>7, QueueAssumption DEF Leave
  <2> QED BY <1>3, <2>1, <2>2, <2>3, <2>4, <2>5, <2>6, <2>7 DEF ParkStep
<1>4. ASSUME NEW w \in Workers, LoopStep(w)
      PROVE  LockIsHeld'
  <2>1. CASE Register(w)
    BY <2>1, QueueAssumption DEF Register
  <2>2. CASE Finish(w)
    BY <2>2, QueueAssumption DEF Finish
  <2>3. CASE Panic(w)
    BY <2>3, QueueAssumption DEF Panic, Strict
  <2> QED BY <1>4, <2>1, <2>2, <2>3 DEF LoopStep
<1>5. CASE SetShutdown
  BY <1>5, QueueAssumption DEF SetShutdown
<1>6. CASE NotifyAll
  BY <1>6, QueueAssumption DEF NotifyAll, Asleep, In
<1>7. CASE UNCHANGED vars
  BY <1>7
<1> QED BY <1>1, <1>2, <1>3, <1>4, <1>5, <1>6, <1>7 DEF Next, Joined

\* A worker only gets to run, migrate or a found exit with a runnable in hand:
\* pops and steals fill it, Finish empties it and goes elsewhere.
LEMMA HandStep ==
    ASSUME TypeOK, HandIsFull, [Next]_vars
    PROVE  HandIsFull'
<1>a. /\ pc \in [Threads -> WorkerPcs \cup PushPcs \cup {"idle"}]
      /\ \A v \in Workers : pc[v] # "idle"
      /\ cur \in [Workers -> Tasks \cup {None}]
      /\ queue \in [Places -> Seq(Tasks)]
  BY DEF TypeOK
<1> USE <1>a DEF HandIsFull, vars, allButPc, storeVars, scanVars,
          counterVars,
          closeVars, taskVars, Goto,
          WorkerPcs, PushPcs, LeavePcs, LeftPcs, Left, Home, Threads
<1>1. ASSUME NEW t \in Threads, PushStep(t)
      PROVE  HandIsFull'
  <2>1. CASE Push(t)
    BY <2>1, QueueAssumption DEF Push
  <2>2. CASE Flush(t)
    BY <2>2, QueueAssumption DEF Flush
  <2>3. CASE PushFence(t)
    BY <2>3, QueueAssumption DEF PushFence
  <2>4. CASE LoadParked(t)
    BY <2>4, QueueAssumption DEF LoadParked, ParkedReads
  <2>5. CASE LoadNotified(t)
    BY <2>5, QueueAssumption DEF LoadNotified
  <2>6. CASE Notify(t)
    <3>1. \/ pc' = [pc EXCEPT ![t] = Home(t)]
          \/ \E w \in Workers : /\ pc[w] = "asleep"
                                /\ pc' = [pc EXCEPT ![t] = Home(t),
                                                    ![w] = "woken"]
      BY <2>6 DEF Notify, NotifyOne, Asleep, In
    <3>2. cur' = cur
      BY <2>6 DEF Notify
    <3>3. CASE pc' = [pc EXCEPT ![t] = Home(t)]
      BY <2>6, <3>2, <3>3 DEF Notify
    <3>4. ASSUME NEW w \in Workers, pc[w] = "asleep",
                 pc' = [pc EXCEPT ![t] = Home(t), ![w] = "woken"]
          PROVE  HandIsFull'
      BY <2>6, <3>2, <3>4 DEF Notify
    <3> QED BY <3>1, <3>3, <3>4
  <2> QED BY <1>1, <2>1, <2>2, <2>3, <2>4, <2>5, <2>6 DEF PushStep
<1>2. ASSUME NEW w \in Workers, ScanStep(w)
      PROVE  HandIsFull'
  <2>1. CASE PopOwn(w)
    <3>1. Deque(w) \in Places /\ queue[Deque(w)] \in Seq(Tasks)
      BY DEF Places, Deques
    <3>2. Head(queue[Deque(w)]) \in Tasks
      BY <2>1, <3>1 DEF PopOwn
    <3>3. cur'[w] # None
      BY <2>1, <3>2, QueueAssumption DEF PopOwn
    <3> QED BY <2>1, <3>3, QueueAssumption DEF PopOwn, Holding
  <2>2. CASE BeginPass(w)
    BY <2>2, QueueAssumption DEF BeginPass
  <2>3. CASE SkipVictim(w)
    BY <2>3, QueueAssumption DEF SkipVictim, Visiting, Victim
  <2>4. CASE Retry(w)
    BY <2>4, QueueAssumption DEF Retry, Visiting, Victim
  <2>5. CASE Steal(w)
    <3> DEFINE q == queue[Victim(w)]
    <3>a. Victim(w) \in Places
      BY <2>5 DEF TypeOK, Steal, Visiting, Victim
    <3>1. q \in Seq(Tasks) /\ q # <<>>
      BY <2>5, <3>a DEF Steal, Stealable
    <3>2. Head(q) \in Tasks
      <4> HIDE DEF q
      <4> QED BY <3>1
    <3>3. cur' = [cur EXCEPT ![w] = Head(q)]
      BY <2>5 DEF Steal
    <3>4. \E l \in {"run", "found", "migrate"} : pc' = [pc EXCEPT ![w] = l]
      BY <2>5 DEF Steal, Holding
    <3> HIDE DEF q
    <3> QED BY <3>2, <3>3, <3>4, QueueAssumption
  <2>6. CASE Migrate(w)
    BY <2>6, QueueAssumption DEF Migrate, Holding, Strict
  <2>7. CASE WalkAgain(w)
    BY <2>7, QueueAssumption DEF WalkAgain, PassOver
  <2>8. CASE SpinOrArm(w)
    BY <2>8, QueueAssumption DEF SpinOrArm, PassOver, Strict
  <2>9. CASE StrictEmpty(w)
    BY <2>9, QueueAssumption DEF StrictEmpty, PassOver, Strict
  <2> QED BY <1>2, <2>1, <2>2, <2>3, <2>4, <2>5, <2>6, <2>7, <2>8, <2>9
          DEF ScanStep
<1>3. ASSUME NEW w \in Workers, ParkStep(w)
      PROVE  HandIsFull'
  <2>1. CASE Arm(w)
    BY <2>1, QueueAssumption DEF Arm
  <2>2. CASE ArmFence(w)
    BY <2>2, QueueAssumption DEF ArmFence
  <2>3. CASE LoadShutdown(w)
    BY <2>3, QueueAssumption DEF LoadShutdown
  <2>4. CASE Wait(w)
    BY <2>4, QueueAssumption DEF Wait
  <2>5. CASE Reacquire(w)
    BY <2>5, QueueAssumption DEF Reacquire
  <2>6. CASE ForgetSignal(w)
    BY <2>6, QueueAssumption DEF ForgetSignal
  <2>7. CASE Leave(w)
    BY <2>7, QueueAssumption DEF Leave
  <2> QED BY <1>3, <2>1, <2>2, <2>3, <2>4, <2>5, <2>6, <2>7 DEF ParkStep
<1>4. ASSUME NEW w \in Workers, LoopStep(w)
      PROVE  HandIsFull'
  <2>1. CASE Register(w)
    BY <2>1, QueueAssumption DEF Register
  <2>2. CASE Finish(w)
    BY <2>2, QueueAssumption DEF Finish
  <2>3. CASE Panic(w)
    BY <2>3, QueueAssumption DEF Panic
  <2> QED BY <1>4, <2>1, <2>2, <2>3 DEF LoopStep
<1>5. CASE SetShutdown
  BY <1>5, QueueAssumption DEF SetShutdown
<1>6. CASE NotifyAll
  BY <1>6, QueueAssumption DEF NotifyAll, Asleep, In
<1>7. CASE UNCHANGED vars
  BY <1>7
<1> QED BY <1>1, <1>2, <1>3, <1>4, <1>5, <1>6, <1>7 DEF Next, Joined

\* A push is invisible only between its call and its fence, and it is bound for
\* the pushing worker's own deque or, from outside the pool, an injector.
LEMMA BufferStep ==
    ASSUME TypeOK, BufferIsLocal, [Next]_vars
    PROVE  BufferIsLocal'
<1>a. /\ pc \in [Threads -> WorkerPcs \cup PushPcs \cup {"idle"}]
      /\ \A v \in Workers : pc[v] # "idle"
      /\ buffer \in [Threads -> [to : Places, task : Tasks] \cup {None}]
      /\ fresh \subseteq Tasks
  BY DEF TypeOK
<1> USE <1>a DEF BufferIsLocal, vars, allButPc, storeVars, scanVars,
          counterVars,
          closeVars, taskVars, Goto,
          WorkerPcs, PushPcs, LeavePcs, LeftPcs, Left, Home, Threads
<1>1. ASSUME NEW t \in Threads, PushStep(t)
      PROVE  BufferIsLocal'
  <2>1. CASE Push(t)
    <3>1. PICK task \in fresh,
               to \in IF t \in Workers THEN {Deque(t)} ELSE Injectors :
            buffer' = [buffer EXCEPT ![t] = [to |-> to, task |-> task]]
      BY <2>1 DEF Push
    <3>2. buffer'[t].to = to
      BY <3>1
    <3> QED BY <2>1, <3>1, <3>2, QueueAssumption DEF Push
  <2>2. CASE Flush(t)
    BY <2>2, QueueAssumption DEF Flush
  <2>3. CASE PushFence(t)
    BY <2>3, QueueAssumption DEF PushFence
  <2>4. CASE LoadParked(t)
    BY <2>4, QueueAssumption DEF LoadParked, ParkedReads
  <2>5. CASE LoadNotified(t)
    BY <2>5, QueueAssumption DEF LoadNotified
  <2>6. CASE Notify(t)
    BY <2>6, QueueAssumption DEF Notify, NotifyOne, Asleep, In
  <2> QED BY <1>1, <2>1, <2>2, <2>3, <2>4, <2>5, <2>6 DEF PushStep
<1>2. ASSUME NEW w \in Workers, ScanStep(w)
      PROVE  BufferIsLocal'
  <2>1. CASE PopOwn(w)
    BY <2>1, QueueAssumption DEF PopOwn, Holding, Strict
  <2>2. CASE BeginPass(w)
    BY <2>2, QueueAssumption DEF BeginPass
  <2>3. CASE SkipVictim(w)
    BY <2>3, QueueAssumption DEF SkipVictim, Visiting, Victim
  <2>4. CASE Retry(w)
    BY <2>4, QueueAssumption DEF Retry, Visiting, Victim
  <2>5. CASE Steal(w)
    BY <2>5, QueueAssumption DEF Steal, Visiting, Victim, Holding, Strict
  <2>6. CASE Migrate(w)
    BY <2>6, QueueAssumption DEF Migrate, Holding, Strict
  <2>7. CASE WalkAgain(w)
    BY <2>7, QueueAssumption DEF WalkAgain, PassOver
  <2>8. CASE SpinOrArm(w)
    BY <2>8, QueueAssumption DEF SpinOrArm, PassOver, Strict
  <2>9. CASE StrictEmpty(w)
    BY <2>9, QueueAssumption DEF StrictEmpty, PassOver, Strict
  <2> QED BY <1>2, <2>1, <2>2, <2>3, <2>4, <2>5, <2>6, <2>7, <2>8, <2>9
          DEF ScanStep
<1>3. ASSUME NEW w \in Workers, ParkStep(w)
      PROVE  BufferIsLocal'
  <2>1. CASE Arm(w)
    BY <2>1, QueueAssumption DEF Arm
  <2>2. CASE ArmFence(w)
    BY <2>2, QueueAssumption DEF ArmFence
  <2>3. CASE LoadShutdown(w)
    BY <2>3, QueueAssumption DEF LoadShutdown
  <2>4. CASE Wait(w)
    BY <2>4, QueueAssumption DEF Wait
  <2>5. CASE Reacquire(w)
    BY <2>5, QueueAssumption DEF Reacquire
  <2>6. CASE ForgetSignal(w)
    BY <2>6, QueueAssumption DEF ForgetSignal
  <2>7. CASE Leave(w)
    BY <2>7, QueueAssumption DEF Leave
  <2> QED BY <1>3, <2>1, <2>2, <2>3, <2>4, <2>5, <2>6, <2>7 DEF ParkStep
<1>4. ASSUME NEW w \in Workers, LoopStep(w)
      PROVE  BufferIsLocal'
  <2>1. CASE Register(w)
    BY <2>1, QueueAssumption DEF Register
  <2>2. CASE Finish(w)
    BY <2>2, QueueAssumption DEF Finish
  <2>3. CASE Panic(w)
    BY <2>3, QueueAssumption DEF Panic
  <2> QED BY <1>4, <2>1, <2>2, <2>3 DEF LoopStep
<1>5. CASE SetShutdown
  BY <1>5, QueueAssumption DEF SetShutdown
<1>6. CASE NotifyAll
  BY <1>6, QueueAssumption DEF NotifyAll, Asleep, In
<1>7. CASE UNCHANGED vars
  BY <1>7
<1> QED BY <1>1, <1>2, <1>3, <1>4, <1>5, <1>6, <1>7 DEF Next, Joined

\* shutdown() starts when no push is under way, none starts after it, and no
\* worker is on its way out before it.
LEMMA ShutdownStep ==
    ASSUME TypeOK, ShutdownIsLate, [Next]_vars
    PROVE  ShutdownIsLate'
<1>a. /\ pc \in [Threads -> WorkerPcs \cup PushPcs \cup {"idle"}]
      /\ \A v \in Workers : pc[v] # "idle"
      /\ shutdown \in BOOLEAN
      /\ dropping \in {"no", "lock", "join"}
  BY DEF TypeOK
<1> USE <1>a DEF ShutdownIsLate, In, vars, allButPc, storeVars, scanVars,
          counterVars,
          closeVars, taskVars, Goto,
          WorkerPcs, PushPcs, LeavePcs, LeftPcs, Left, Home, Threads
<1>1. ASSUME NEW t \in Threads, PushStep(t)
      PROVE  ShutdownIsLate'
  <2>1. CASE Push(t)
    BY <2>1, QueueAssumption DEF Push
  <2>2. CASE Flush(t)
    BY <2>2, QueueAssumption DEF Flush
  <2>3. CASE PushFence(t)
    BY <2>3, QueueAssumption DEF PushFence
  <2>4. CASE LoadParked(t)
    BY <2>4, QueueAssumption DEF LoadParked, ParkedReads
  <2>5. CASE LoadNotified(t)
    BY <2>5, QueueAssumption DEF LoadNotified
  <2>6. CASE Notify(t)
    BY <2>6, QueueAssumption DEF Notify, NotifyOne, Asleep, In
  <2> QED BY <1>1, <2>1, <2>2, <2>3, <2>4, <2>5, <2>6 DEF PushStep
<1>2. ASSUME NEW w \in Workers, ScanStep(w)
      PROVE  ShutdownIsLate'
  <2>1. CASE PopOwn(w)
    BY <2>1, QueueAssumption DEF PopOwn, Holding, Strict
  <2>2. CASE BeginPass(w)
    BY <2>2, QueueAssumption DEF BeginPass
  <2>3. CASE SkipVictim(w)
    BY <2>3, QueueAssumption DEF SkipVictim, Visiting, Victim
  <2>4. CASE Retry(w)
    BY <2>4, QueueAssumption DEF Retry, Visiting, Victim
  <2>5. CASE Steal(w)
    BY <2>5, QueueAssumption DEF Steal, Visiting, Victim, Holding, Strict
  <2>6. CASE Migrate(w)
    BY <2>6, QueueAssumption DEF Migrate, Holding, Strict
  <2>7. CASE WalkAgain(w)
    BY <2>7, QueueAssumption DEF WalkAgain, PassOver
  <2>8. CASE SpinOrArm(w)
    BY <2>8, QueueAssumption DEF SpinOrArm, PassOver, Strict
  <2>9. CASE StrictEmpty(w)
    BY <2>9, QueueAssumption DEF StrictEmpty, PassOver, Strict
  <2> QED BY <1>2, <2>1, <2>2, <2>3, <2>4, <2>5, <2>6, <2>7, <2>8, <2>9
          DEF ScanStep
<1>3. ASSUME NEW w \in Workers, ParkStep(w)
      PROVE  ShutdownIsLate'
  <2>1. CASE Arm(w)
    BY <2>1, QueueAssumption DEF Arm
  <2>2. CASE ArmFence(w)
    BY <2>2, QueueAssumption DEF ArmFence
  <2>3. CASE LoadShutdown(w)
    BY <2>3, QueueAssumption DEF LoadShutdown
  <2>4. CASE Wait(w)
    BY <2>4, QueueAssumption DEF Wait
  <2>5. CASE Reacquire(w)
    BY <2>5, QueueAssumption DEF Reacquire
  <2>6. CASE ForgetSignal(w)
    BY <2>6, QueueAssumption DEF ForgetSignal
  <2>7. CASE Leave(w)
    BY <2>7, QueueAssumption DEF Leave
  <2> QED BY <1>3, <2>1, <2>2, <2>3, <2>4, <2>5, <2>6, <2>7 DEF ParkStep
<1>4. ASSUME NEW w \in Workers, LoopStep(w)
      PROVE  ShutdownIsLate'
  <2>1. CASE Register(w)
    BY <2>1, QueueAssumption DEF Register
  <2>2. CASE Finish(w)
    BY <2>2, QueueAssumption DEF Finish
  <2>3. CASE Panic(w)
    BY <2>3, QueueAssumption DEF Panic
  <2> QED BY <1>4, <2>1, <2>2, <2>3 DEF LoopStep
<1>5. CASE SetShutdown
  BY <1>5, QueueAssumption DEF SetShutdown
<1>6. CASE NotifyAll
  BY <1>6, QueueAssumption DEF NotifyAll, Asleep, In
<1>7. CASE UNCHANGED vars
  BY <1>7
<1> QED BY <1>1, <1>2, <1>3, <1>4, <1>5, <1>6, <1>7 DEF Next, Joined

\* The control facts hold at first and are kept by every step.
LEMMA ControlInit ==
    Init => ControlInv
<1> SUFFICES ASSUME Init PROVE ControlInv
  OBVIOUS
<1> USE DEF Init, Threads
<1>1. TypeOK
  <2>1. /\ queue \in [Places -> Seq(Tasks)]
        /\ todo \in [Workers -> Seq(Places)]
        /\ transit \in [Workers -> Seq(Tasks)]
    OBVIOUS
  <2>2. /\ pc \in [Threads -> WorkerPcs \cup PushPcs \cup {"idle"}]
        /\ \A t \in Producers : pc[t] \in PushPcs \cup {"idle"}
        /\ \A w \in Workers : pc[w] # "idle"
    BY QueueAssumption DEF WorkerPcs
  <2>3. 0 \in 0 .. SpinRounds /\ 0 \in 0 .. MaxPanics
    BY QueueAssumption
  <2>4. /\ stealers \in [Workers -> BOOLEAN]
        /\ buffer \in [Threads -> [to : Places, task : Tasks] \cup {None}]
        /\ seen \in [Threads -> Int]
        /\ contended \in [Workers -> BOOLEAN]
        /\ round \in [Workers -> 0 .. SpinRounds]
        /\ cur \in [Workers -> Tasks \cup {None}]
    BY <2>3
  <2>5. shutdown \in BOOLEAN
    OBVIOUS
  <2>6. /\ parked \in Int /\ notified \in Nat
        /\ park \in Workers \cup {None}
        /\ fresh \subseteq Tasks /\ done \subseteq Tasks /\ lost \subseteq Tasks
        /\ dropping \in {"no", "lock", "join"} /\ panics \in 0 .. MaxPanics
    BY <2>3
  <2> QED BY <2>1, <2>2, <2>4, <2>5, <2>6 DEF TypeOK
<1>2. LockIsHeld
  BY QueueAssumption DEF LockIsHeld, LockedPcs, LeavePcs, LeftPcs
<1>3. HandIsFull /\ BufferIsLocal
  BY DEF HandIsFull, BufferIsLocal, PushPcs
<1>4. ShutdownIsLate
  BY DEF ShutdownIsLate, PushPcs, In
<1> QED BY <1>1, <1>2, <1>3, <1>4 DEF ControlInv

\* Every step keeps the control facts together.
LEMMA ControlStep ==
    ControlInv /\ [Next]_vars => ControlInv'
BY TypeStep, LockStep, HandStep, BufferStep, ShutdownStep DEF ControlInv

\* The variables keep their types in every behaviour of the queue.
THEOREM TypeCorrect == Spec => []TypeOK
<1>1. ControlInv => TypeOK
  BY DEF ControlInv
<1> QED BY ControlInit, ControlStep, <1>1, PTL DEF Spec

--------------------------------------------------------------------------------
(* The counters *)

\* How one step may change the armed region and the counter of it.
CountChange ==
    \/ Counted' = Counted /\ parked' = parked
    \/ \E w \in Workers \ Counted :
          Counted' = Counted \cup {w} /\ parked' = parked + 1
    \/ \E w \in Counted :
          Counted' = Counted \ {w} /\ parked' = parked - 1

\* Arm is the only step that adds to the armed region and to `parked', Leave the
\* only one that takes from them, both by one worker at a time.
LEMMA CountedStep ==
    ASSUME TypeOK, LockIsHeld, [Next]_vars
    PROVE  CountChange
<1> USE DEF TypeOK, LockIsHeld, CountChange, Counted, In, Strict, LockedPcs,
          vars, allButPc, storeVars, scanVars, counterVars,
          closeVars, taskVars, Goto,
          WorkerPcs, PushPcs, LeavePcs, LeftPcs, Left, Home, Threads
<1>1. ASSUME NEW t \in Threads, PushStep(t)
      PROVE  CountChange
  <2>1. CASE Push(t)
    BY <2>1, QueueAssumption DEF Push
  <2>2. CASE Flush(t)
    BY <2>2, QueueAssumption DEF Flush
  <2>3. CASE PushFence(t)
    BY <2>3, QueueAssumption DEF PushFence
  <2>4. CASE LoadParked(t)
    BY <2>4, QueueAssumption DEF LoadParked, ParkedReads
  <2>5. CASE LoadNotified(t)
    BY <2>5, QueueAssumption DEF LoadNotified
  <2>6. CASE Notify(t)
    <3>1. \/ pc' = [pc EXCEPT ![t] = Home(t)]
          \/ \E w \in Workers : /\ pc[w] = "asleep"
                                /\ pc' = [pc EXCEPT ![t] = Home(t),
                                                    ![w] = "woken"]
      BY <2>6 DEF Notify, NotifyOne, Asleep
    <3>2. CASE pc' = [pc EXCEPT ![t] = Home(t)]
      BY <2>6, <3>2 DEF Notify
    <3>3. ASSUME NEW w \in Workers, pc[w] = "asleep",
                 pc' = [pc EXCEPT ![t] = Home(t), ![w] = "woken"]
          PROVE  CountChange
      <4>1. Counted' = Counted
        BY <2>6, <3>3 DEF Notify
      <4> QED BY <2>6, <4>1 DEF Notify
    <3> QED BY <3>1, <3>2, <3>3
  <2> QED BY <1>1, <2>1, <2>2, <2>3, <2>4, <2>5, <2>6 DEF PushStep
<1>2. ASSUME NEW w \in Workers, ScanStep(w)
      PROVE  CountChange
  <2>1. CASE PopOwn(w)
    BY <2>1, QueueAssumption DEF PopOwn, Holding, Strict
  <2>2. CASE BeginPass(w)
    BY <2>2, QueueAssumption DEF BeginPass
  <2>3. CASE SkipVictim(w)
    BY <2>3, QueueAssumption DEF SkipVictim, Visiting, Victim
  <2>4. CASE Retry(w)
    BY <2>4, QueueAssumption DEF Retry, Visiting, Victim
  <2>5. CASE Steal(w)
    <3>1. PICK l \in IF Strict(w) THEN {"found", "migrate"}
                 ELSE {"run", "migrate"} :
            pc' = [pc EXCEPT ![w] = l]
      BY <2>5 DEF Steal, Holding
    <3>2. pc[w] = "probe" /\ UNCHANGED <<parked, park>>
      BY <2>5 DEF Steal, Visiting
    <3> QED BY <3>1, <3>2
  <2>6. CASE Migrate(w)
    BY <2>6, QueueAssumption DEF Migrate, Holding, Strict
  <2>7. CASE WalkAgain(w)
    BY <2>7, QueueAssumption DEF WalkAgain, PassOver
  <2>8. CASE SpinOrArm(w)
    BY <2>8, QueueAssumption DEF SpinOrArm, PassOver, Strict
  <2>9. CASE StrictEmpty(w)
    BY <2>9, QueueAssumption DEF StrictEmpty, PassOver, Strict
  <2> QED BY <1>2, <2>1, <2>2, <2>3, <2>4, <2>5, <2>6, <2>7, <2>8, <2>9
          DEF ScanStep
<1>3. ASSUME NEW w \in Workers, ParkStep(w)
      PROVE  CountChange
  <2>1. CASE Arm(w)
    <3>1. w \in Workers \ Counted
      BY <2>1 DEF Arm
    <3>2. Counted' = Counted \cup {w}
      BY <2>1, QueueAssumption DEF Arm
    <3> QED BY <2>1, <3>1, <3>2 DEF Arm
  <2>2. CASE ArmFence(w)
    BY <2>2, QueueAssumption DEF ArmFence
  <2>3. CASE LoadShutdown(w)
    BY <2>3, QueueAssumption DEF LoadShutdown
  <2>4. CASE Wait(w)
    BY <2>4, QueueAssumption DEF Wait
  <2>5. CASE Reacquire(w)
    BY <2>5, QueueAssumption DEF Reacquire
  <2>6. CASE ForgetSignal(w)
    BY <2>6, QueueAssumption DEF ForgetSignal
  <2>7. CASE Leave(w)
    <3>1. w \in Counted
      BY <2>7 DEF Leave
    <3>2. PICK l \in {"run", "exited", "scan"} : pc' = [pc EXCEPT ![w] = l]
      BY <2>7 DEF Leave
    <3>3. park = w /\ park' = None
      BY <2>7 DEF Leave
    <3>4. None \notin Workers
      BY QueueAssumption
    <3>5. Counted' = Counted \ {w}
      BY <3>2, <3>3, <3>4
    <3> QED BY <2>7, <3>1, <3>5 DEF Leave
  <2> QED BY <1>3, <2>1, <2>2, <2>3, <2>4, <2>5, <2>6, <2>7 DEF ParkStep
<1>4. ASSUME NEW w \in Workers, LoopStep(w)
      PROVE  CountChange
  <2>1. CASE Register(w)
    BY <2>1, QueueAssumption DEF Register
  <2>2. CASE Finish(w)
    BY <2>2, QueueAssumption DEF Finish
  <2>3. CASE Panic(w)
    BY <2>3, QueueAssumption DEF Panic
  <2> QED BY <1>4, <2>1, <2>2, <2>3 DEF LoopStep
<1>5. CASE SetShutdown
  BY <1>5, QueueAssumption DEF SetShutdown
<1>6. CASE NotifyAll
  BY <1>6, QueueAssumption DEF NotifyAll, Asleep, In
<1>7. CASE UNCHANGED vars
  BY <1>7
<1> QED BY <1>1, <1>2, <1>3, <1>4, <1>5, <1>6, <1>7 DEF Next, Joined

\* Every set of workers is finite, so the cardinalities below are numbers.
LEMMA WorkersFinite ==
    \A S \in SUBSET Workers : IsFiniteSet(S)
<1>1. IsFiniteSet(Workers)
  BY FS_Interval, SizesAssumption DEF Workers
<1> QED BY <1>1, FS_Subset

\* `parked' follows the size of the armed region through such a change.
LEMMA ExactStep ==
    ASSUME ParkedIsExact, CountChange
    PROVE  ParkedIsExact'
<1>1. Counted \subseteq Workers
  BY DEF Counted, In
<1>2. IsFiniteSet(Counted)
  BY <1>1, WorkersFinite
<1>3. CASE Counted' = Counted /\ parked' = parked
  BY <1>3 DEF ParkedIsExact
<1>4. ASSUME NEW w \in Workers \ Counted,
             Counted' = Counted \cup {w}, parked' = parked + 1
      PROVE  ParkedIsExact'
  BY <1>2, <1>4, FS_AddElement DEF ParkedIsExact
<1>5. ASSUME NEW w \in Counted, Counted' = Counted \ {w}, parked' = parked - 1
      PROVE  ParkedIsExact'
  BY <1>2, <1>5, FS_RemoveElement DEF ParkedIsExact
<1> QED BY <1>3, <1>4, <1>5 DEF CountChange

\* How one step may change `notified' and the workers that are woken: they stay
\* or grow, a sleeper is signalled, the signal finds nobody asleep (then all of
\* the armed region is awake already), or a woken worker consumes one.
SignalChange ==
    \/ notified' <= notified /\ Woken' = Woken
    \/ notified' = notified /\ Woken \subseteq Woken'
    \/ \E w \in Workers \ Woken :
          Woken' = Woken \cup {w} /\ notified' = notified + 1
    \/ /\ Counted \subseteq Woken /\ parked > notified
       /\ Woken' = Woken /\ notified' = notified + 1
    \/ \E w \in Woken :
          /\ Woken' = Woken \ {w}
          /\ notified' = IF notified > 0 THEN notified - 1 ELSE notified

\* `notified' stays covered through such a change.
LEMMA CoveredStep ==
    ASSUME TypeOK, notified' \in Nat, ParkedIsExact, NotifiedIsCovered,
           SignalChange
    PROVE  NotifiedIsCovered'
<1>1. /\ IsFiniteSet(Woken) /\ IsFiniteSet(Woken') /\ IsFiniteSet(Counted)
      /\ Cardinality(Woken) \in Nat /\ Cardinality(Woken') \in Nat
  <2>1. /\ Woken \in SUBSET Workers /\ Woken' \in SUBSET Workers
        /\ Counted \in SUBSET Workers
    BY DEF Woken, Counted, In
  <2> QED BY <2>1, WorkersFinite, FS_CardinalityType
<1>2. notified \in Nat /\ notified' \in Nat /\ parked \in Int
  BY DEF TypeOK
<1>3. notified <= Cardinality(Woken)
  BY DEF NotifiedIsCovered, Woken
<1>4. SUFFICES notified' <= Cardinality(Woken')
  BY DEF NotifiedIsCovered, Woken
<1>5. CASE notified' <= notified /\ Woken' = Woken
  BY <1>1, <1>2, <1>3, <1>5
<1>6. CASE notified' = notified /\ Woken \subseteq Woken'
  BY <1>1, <1>2, <1>3, <1>6, FS_Subset
<1>7. ASSUME NEW w \in Workers \ Woken,
             Woken' = Woken \cup {w}, notified' = notified + 1
      PROVE  notified' <= Cardinality(Woken')
  BY <1>1, <1>2, <1>3, <1>7, FS_AddElement
<1>8. CASE /\ Counted \subseteq Woken /\ parked > notified
           /\ Woken' = Woken /\ notified' = notified + 1
  <2>1. Cardinality(Counted) <= Cardinality(Woken)
    BY <1>1, <1>8, FS_Subset
  <2> QED BY <1>1, <1>2, <1>8, <2>1 DEF ParkedIsExact
<1>9. ASSUME NEW w \in Woken, Woken' = Woken \ {w},
             notified' = IF notified > 0 THEN notified - 1 ELSE notified
      PROVE  notified' <= Cardinality(Woken')
  BY <1>1, <1>2, <1>3, <1>9, FS_RemoveElement
<1> QED BY <1>5, <1>6, <1>7, <1>8, <1>9 DEF SignalChange

\* notify_one and the consumption of its signal, under the park lock, are the
\* only steps that change `notified'.
LEMMA SignalStep ==
    ASSUME TypeOK, LockIsHeld, [Next]_vars
    PROVE  SignalChange
<1> USE DEF TypeOK, SignalChange, Woken, In, vars, allButPc, storeVars,
          scanVars, counterVars,
          closeVars, taskVars, Goto,
          WorkerPcs, PushPcs, LeavePcs, LeftPcs, Left, Home, Threads
<1>1. ASSUME NEW t \in Threads, PushStep(t)
      PROVE  SignalChange
  <2>1. CASE Push(t)
    BY <2>1, QueueAssumption DEF Push
  <2>2. CASE Flush(t)
    BY <2>2, QueueAssumption DEF Flush
  <2>3. CASE PushFence(t)
    BY <2>3, QueueAssumption DEF PushFence
  <2>4. CASE LoadParked(t)
    BY <2>4, QueueAssumption DEF LoadParked, ParkedReads
  <2>5. CASE LoadNotified(t)
    BY <2>5, QueueAssumption DEF LoadNotified
  <2>6. CASE Notify(t)
    <3>1. CASE parked > notified /\ Asleep = {}
      <4>1. Counted \subseteq Woken
        BY <2>6, <3>1, QueueAssumption DEF Notify, Asleep, Counted, Strict,
           LockIsHeld, LockedPcs
      <4>2. Woken' = Woken /\ notified' = notified + 1
        BY <2>6, <3>1 DEF Notify, NotifyOne
      <4> QED BY <3>1, <4>1, <4>2
    <3>2. CASE parked > notified /\ Asleep # {}
      <4>1. PICK w \in Asleep : pc' = [pc EXCEPT ![t] = Home(t), ![w] = "woken"]
        BY <2>6, <3>2 DEF Notify, NotifyOne
      <4>2. w \in Workers \ Woken
        BY DEF Asleep
      <4>3. Woken' = Woken \cup {w}
        BY <2>6, <4>1, <4>2 DEF Notify
      <4> QED BY <2>6, <3>2, <4>2, <4>3 DEF Notify
    <3>3. CASE ~(parked > notified)
      BY <2>6, <3>3 DEF Notify
    <3> QED BY <3>1, <3>2, <3>3
  <2> QED BY <1>1, <2>1, <2>2, <2>3, <2>4, <2>5, <2>6 DEF PushStep
<1>2. ASSUME NEW w \in Workers, ScanStep(w)
      PROVE  SignalChange
  <2>1. CASE PopOwn(w)
    BY <2>1, QueueAssumption DEF PopOwn, Holding, Strict
  <2>2. CASE BeginPass(w)
    BY <2>2, QueueAssumption DEF BeginPass
  <2>3. CASE SkipVictim(w)
    BY <2>3, QueueAssumption DEF SkipVictim, Visiting, Victim
  <2>4. CASE Retry(w)
    BY <2>4, QueueAssumption DEF Retry, Visiting, Victim
  <2>5. CASE Steal(w)
    BY <2>5, QueueAssumption DEF Steal, Visiting, Victim, Holding, Strict
  <2>6. CASE Migrate(w)
    BY <2>6, QueueAssumption DEF Migrate, Holding, Strict
  <2>7. CASE WalkAgain(w)
    BY <2>7, QueueAssumption DEF WalkAgain, PassOver
  <2>8. CASE SpinOrArm(w)
    BY <2>8, QueueAssumption DEF SpinOrArm, PassOver, Strict
  <2>9. CASE StrictEmpty(w)
    BY <2>9, QueueAssumption DEF StrictEmpty, PassOver, Strict
  <2> QED BY <1>2, <2>1, <2>2, <2>3, <2>4, <2>5, <2>6, <2>7, <2>8, <2>9
          DEF ScanStep
<1>3. ASSUME NEW w \in Workers, ParkStep(w)
      PROVE  SignalChange
  <2>1. CASE Arm(w)
    BY <2>1, QueueAssumption DEF Arm
  <2>2. CASE ArmFence(w)
    BY <2>2, QueueAssumption DEF ArmFence
  <2>3. CASE LoadShutdown(w)
    BY <2>3, QueueAssumption DEF LoadShutdown
  <2>4. CASE Wait(w)
    BY <2>4, QueueAssumption DEF Wait
  <2>5. CASE Reacquire(w)
    BY <2>5, QueueAssumption DEF Reacquire
  <2>6. CASE ForgetSignal(w)
    <3>1. CASE pc[w] = "back"
      <4>1. w \in Woken /\ Woken' = Woken \ {w}
        BY <2>6, <3>1 DEF ForgetSignal
      <4> QED BY <2>6, <4>1 DEF ForgetSignal
    <3>2. CASE pc[w] \in {"found", "quit"}
      <4>1. Woken' = Woken
        BY <2>6, <3>2 DEF ForgetSignal
      <4>2. notified' <= notified
        BY <2>6 DEF ForgetSignal
      <4> QED BY <4>1, <4>2
    <3> QED BY <2>6, <3>1, <3>2 DEF ForgetSignal
  <2>7. CASE Leave(w)
    BY <2>7, QueueAssumption DEF Leave
  <2> QED BY <1>3, <2>1, <2>2, <2>3, <2>4, <2>5, <2>6, <2>7 DEF ParkStep
<1>4. ASSUME NEW w \in Workers, LoopStep(w)
      PROVE  SignalChange
  <2>1. CASE Register(w)
    BY <2>1, QueueAssumption DEF Register
  <2>2. CASE Finish(w)
    BY <2>2, QueueAssumption DEF Finish
  <2>3. CASE Panic(w)
    BY <2>3, QueueAssumption DEF Panic
  <2> QED BY <1>4, <2>1, <2>2, <2>3 DEF LoopStep
<1>5. CASE SetShutdown
  BY <1>5, QueueAssumption DEF SetShutdown
<1>6. CASE NotifyAll
  BY <1>6, QueueAssumption DEF NotifyAll, Asleep, In
<1>7. CASE UNCHANGED vars
  BY <1>7
<1> QED BY <1>1, <1>2, <1>3, <1>4, <1>5, <1>6, <1>7 DEF Next, Joined

\* Only its owner's push and its owner's batch add to a deque, and the owner
\* pops it empty before each pass.
LEMMA OwnerStep ==
    ASSUME TypeOK, BufferIsLocal, OwnerIsUp, [Next]_vars
    PROVE  OwnerIsUp'
<1>a. /\ pc \in [Threads -> WorkerPcs \cup PushPcs \cup {"idle"}]
      /\ \A v \in Workers : pc[v] # "idle"
      /\ queue \in [Places -> Seq(Tasks)]
      /\ stealers \in [Workers -> BOOLEAN]
      /\ buffer \in [Threads -> [to : Places, task : Tasks] \cup {None}]
  BY DEF TypeOK
<1> USE <1>a DEF BufferIsLocal, OwnerIsUp, vars, allButPc, storeVars,
          scanVars, counterVars,
          closeVars, taskVars, Goto,
          WorkerPcs, PushPcs, LeavePcs, LeftPcs, Left, Home, Threads
<1>1. ASSUME NEW t \in Threads, PushStep(t)
      PROVE  OwnerIsUp'
  <2>1. CASE Push(t)
    BY <2>1, QueueAssumption DEF Push
  <2>2. CASE Flush(t)
    <3>1. buffer[t] # None /\ pc' = pc
      BY <2>2 DEF Flush
    <3>2. ASSUME NEW v \in Workers, queue'[Deque(v)] # <<>>
          PROVE  v = t \/ queue[Deque(v)] # <<>>
      <4>1. CASE Deque(v) = buffer[t].to
        <5>1. Deque(v) \in IF t \in Workers THEN {Deque(t)} ELSE Injectors
          BY <3>1, <4>1
        <5>2. Deque(v).kind = "deque" /\ Deque(v).at = v
          BY DEF Deque
        <5>3. \A p \in Injectors : p.kind = "injector"
          BY DEF Injectors, Injector
        <5>4. t \in Workers => Deque(t).at = t
          BY DEF Deque
        <5> QED BY <5>1, <5>2, <5>3, <5>4
      <4>2. CASE Deque(v) # buffer[t].to
        BY <2>2, <3>2, <4>2 DEF Flush
      <4> QED BY <4>1, <4>2
    <3> QED BY <3>1, <3>2
  <2>3. CASE PushFence(t)
    BY <2>3, QueueAssumption DEF PushFence
  <2>4. CASE LoadParked(t)
    BY <2>4, QueueAssumption DEF LoadParked, ParkedReads
  <2>5. CASE LoadNotified(t)
    BY <2>5, QueueAssumption DEF LoadNotified
  <2>6. CASE Notify(t)
    <3>1. \/ pc' = [pc EXCEPT ![t] = Home(t)]
          \/ \E w \in Workers : /\ pc[w] = "asleep"
                                /\ pc' = [pc EXCEPT ![t] = Home(t),
                                                    ![w] = "woken"]
      BY <2>6 DEF Notify, NotifyOne, Asleep, In
    <3>2. queue' = queue
      BY <2>6 DEF Notify
    <3>3. ASSUME NEW w \in Workers, pc[w] = "asleep",
                 pc' = [pc EXCEPT ![t] = Home(t), ![w] = "woken"]
          PROVE  OwnerIsUp'
      BY <2>6, <3>2, <3>3 DEF Notify
    <3> QED BY <2>6, <3>1, <3>2, <3>3 DEF Notify
  <2> QED BY <1>1, <2>1, <2>2, <2>3, <2>4, <2>5, <2>6 DEF PushStep
<1>2. ASSUME NEW w \in Workers, ScanStep(w)
      PROVE  OwnerIsUp'
  <2>1. CASE PopOwn(w)
    BY <2>1, QueueAssumption DEF PopOwn, Holding, Strict
  <2>2. CASE BeginPass(w)
    BY <2>2, QueueAssumption DEF BeginPass
  <2>3. CASE SkipVictim(w)
    BY <2>3, QueueAssumption DEF SkipVictim, Visiting, Victim
  <2>4. CASE Retry(w)
    BY <2>4, QueueAssumption DEF Retry, Visiting, Victim
  <2>5. CASE Steal(w)
    <3>1. PICK l \in {"run", "found", "migrate"} : pc' = [pc EXCEPT ![w] = l]
      BY <2>5 DEF Steal, Holding
    <3>2. pc[w] = "probe"
      BY <2>5 DEF Steal, Visiting
    <3>3. queue[Deque(w)] = <<>>
      BY <3>2
    <3>4. /\ queue[Victim(w)] # <<>>
          /\ \A p : p # Victim(w) => queue'[p] = queue[p]
      BY <2>5 DEF Steal, Stealable
    <3>5. ASSUME NEW v \in Workers, queue'[Deque(v)] # <<>>
          PROVE  v # w /\ queue[Deque(v)] # <<>>
      BY <3>3, <3>4, <3>5
    <3> QED BY <3>1, <3>5
  <2>6. CASE Migrate(w)
    <3>1. \E l \in {"run", "found"} : pc' = [pc EXCEPT ![w] = l]
      BY <2>6 DEF Migrate, Holding
    <3>2. ASSUME NEW v \in Workers, v # w
          PROVE  queue'[Deque(v)] = queue[Deque(v)]
      BY <2>6, <3>2 DEF Migrate, Deque
    <3> QED BY <3>1, <3>2
  <2>7. CASE WalkAgain(w)
    BY <2>7, QueueAssumption DEF WalkAgain, PassOver
  <2>8. CASE SpinOrArm(w)
    BY <2>8, QueueAssumption DEF SpinOrArm, PassOver, Strict
  <2>9. CASE StrictEmpty(w)
    BY <2>9, QueueAssumption DEF StrictEmpty, PassOver, Strict
  <2> QED BY <1>2, <2>1, <2>2, <2>3, <2>4, <2>5, <2>6, <2>7, <2>8, <2>9
          DEF ScanStep
<1>3. ASSUME NEW w \in Workers, ParkStep(w)
      PROVE  OwnerIsUp'
  <2>1. CASE Arm(w)
    BY <2>1, QueueAssumption DEF Arm
  <2>2. CASE ArmFence(w)
    BY <2>2, QueueAssumption DEF ArmFence
  <2>3. CASE LoadShutdown(w)
    BY <2>3, QueueAssumption DEF LoadShutdown
  <2>4. CASE Wait(w)
    BY <2>4, QueueAssumption DEF Wait
  <2>5. CASE Reacquire(w)
    BY <2>5, QueueAssumption DEF Reacquire
  <2>6. CASE ForgetSignal(w)
    BY <2>6, QueueAssumption DEF ForgetSignal
  <2>7. CASE Leave(w)
    BY <2>7, QueueAssumption DEF Leave
  <2> QED BY <1>3, <2>1, <2>2, <2>3, <2>4, <2>5, <2>6, <2>7 DEF ParkStep
<1>4. ASSUME NEW w \in Workers, LoopStep(w)
      PROVE  OwnerIsUp'
  <2>1. CASE Register(w)
    BY <2>1, QueueAssumption DEF Register
  <2>2. CASE Finish(w)
    BY <2>2, QueueAssumption DEF Finish
  <2>3. CASE Panic(w)
    BY <2>3, QueueAssumption DEF Panic
  <2> QED BY <1>4, <2>1, <2>2, <2>3 DEF LoopStep
<1>5. CASE SetShutdown
  BY <1>5, QueueAssumption DEF SetShutdown
<1>6. CASE NotifyAll
  BY <1>6, QueueAssumption DEF NotifyAll, Asleep, In
<1>7. CASE UNCHANGED vars
  BY <1>7
<1> QED BY <1>1, <1>2, <1>3, <1>4, <1>5, <1>6, <1>7 DEF Next, Joined

\* Once the broadcast is out nobody waits: a worker about to wait would hold the
\* lock shutdown() takes, and one that arms later reads the flag.
LEMMA ReachStep ==
    ASSUME TypeOK, LockIsHeld, ShutdownIsLate, ShutdownReachesAll, [Next]_vars
    PROVE  ShutdownReachesAll'
<1> USE DEF TypeOK, ShutdownIsLate, ShutdownReachesAll, LockIsHeld, LockedPcs,
          In, vars, allButPc, storeVars, scanVars, counterVars,
          closeVars, taskVars, Goto,
          WorkerPcs, PushPcs, LeavePcs, LeftPcs, Left, Home, Threads
<1>1. ASSUME NEW t \in Threads, PushStep(t)
      PROVE  ShutdownReachesAll'
  <2>1. CASE Push(t)
    BY <2>1, QueueAssumption DEF Push
  <2>2. CASE Flush(t)
    BY <2>2, QueueAssumption DEF Flush
  <2>3. CASE PushFence(t)
    BY <2>3, QueueAssumption DEF PushFence
  <2>4. CASE LoadParked(t)
    BY <2>4, QueueAssumption DEF LoadParked, ParkedReads
  <2>5. CASE LoadNotified(t)
    BY <2>5, QueueAssumption DEF LoadNotified
  <2>6. CASE Notify(t)
    BY <2>6, QueueAssumption DEF Notify, NotifyOne, Asleep, In
  <2> QED BY <1>1, <2>1, <2>2, <2>3, <2>4, <2>5, <2>6 DEF PushStep
<1>2. ASSUME NEW w \in Workers, ScanStep(w)
      PROVE  ShutdownReachesAll'
  <2>1. CASE PopOwn(w)
    BY <2>1, QueueAssumption DEF PopOwn, Holding, Strict
  <2>2. CASE BeginPass(w)
    BY <2>2, QueueAssumption DEF BeginPass
  <2>3. CASE SkipVictim(w)
    BY <2>3, QueueAssumption DEF SkipVictim, Visiting, Victim
  <2>4. CASE Retry(w)
    BY <2>4, QueueAssumption DEF Retry, Visiting, Victim
  <2>5. CASE Steal(w)
    BY <2>5, QueueAssumption DEF Steal, Visiting, Victim, Holding, Strict
  <2>6. CASE Migrate(w)
    BY <2>6, QueueAssumption DEF Migrate, Holding, Strict
  <2>7. CASE WalkAgain(w)
    BY <2>7, QueueAssumption DEF WalkAgain, PassOver
  <2>8. CASE SpinOrArm(w)
    BY <2>8, QueueAssumption DEF SpinOrArm, PassOver, Strict
  <2>9. CASE StrictEmpty(w)
    BY <2>9, QueueAssumption DEF StrictEmpty, PassOver, Strict
  <2> QED BY <1>2, <2>1, <2>2, <2>3, <2>4, <2>5, <2>6, <2>7, <2>8, <2>9
          DEF ScanStep
<1>3. ASSUME NEW w \in Workers, ParkStep(w)
      PROVE  ShutdownReachesAll'
  <2>1. CASE Arm(w)
    BY <2>1, QueueAssumption DEF Arm
  <2>2. CASE ArmFence(w)
    BY <2>2, QueueAssumption DEF ArmFence
  <2>3. CASE LoadShutdown(w)
    BY <2>3, QueueAssumption DEF LoadShutdown
  <2>4. CASE Wait(w)
    BY <2>4, QueueAssumption DEF Wait
  <2>5. CASE Reacquire(w)
    BY <2>5, QueueAssumption DEF Reacquire
  <2>6. CASE ForgetSignal(w)
    BY <2>6, QueueAssumption DEF ForgetSignal
  <2>7. CASE Leave(w)
    BY <2>7, QueueAssumption DEF Leave
  <2> QED BY <1>3, <2>1, <2>2, <2>3, <2>4, <2>5, <2>6, <2>7 DEF ParkStep
<1>4. ASSUME NEW w \in Workers, LoopStep(w)
      PROVE  ShutdownReachesAll'
  <2>1. CASE Register(w)
    BY <2>1, QueueAssumption DEF Register
  <2>2. CASE Finish(w)
    BY <2>2, QueueAssumption DEF Finish
  <2>3. CASE Panic(w)
    BY <2>3, QueueAssumption DEF Panic
  <2> QED BY <1>4, <2>1, <2>2, <2>3 DEF LoopStep
<1>5. CASE SetShutdown
  BY <1>5, QueueAssumption DEF SetShutdown
<1>6. CASE NotifyAll
  BY <1>6, QueueAssumption DEF NotifyAll, Asleep, In
<1>7. CASE UNCHANGED vars
  BY <1>7
<1> QED BY <1>1, <1>2, <1>3, <1>4, <1>5, <1>6, <1>7 DEF Next, Joined

\* Attended for one place: a queued runnable has somebody that will see to it.
AttendedAt(p) ==
    queue[p] # <<>> => \/ \E w \in Workers : WillLook(w, p)
                       \/ \E t \in Threads : WillWake(t)

\* A pass visits places only.
LEMMA OrderInPlaces ==
    ASSUME NEW w \in Workers, NEW probe \in Probes,
           NEW order \in VictimOrders(w, probe)
    PROVE  order \in Seq(Places)
<1>1. order \in Seq(Places \ {Deque(w)})
  BY OrderType
<1> QED BY <1>1

\* What is in a sequence and is not its head is in its tail.
LEMMA TailKeeps ==
    ASSUME NEW S, NEW q \in Seq(S), q # <<>>, NEW x \in Range(q), x # Head(q)
    PROVE  x \in Range(Tail(q))
<1>1. PICK i \in 1 .. Len(q) : q[i] = x
  BY DEF Range
<1>2. i # 1
  BY <1>1
<1>3. i - 1 \in 1 .. Len(Tail(q)) /\ Tail(q)[i - 1] = x
  BY <1>1, <1>2
<1>4. DOMAIN Tail(q) = 1 .. Len(Tail(q))
  BY <1>3
<1> QED BY <1>3, <1>4 DEF Range

\* An injector is nobody's deque.
LEMMA InjectorNoDeque ==
    Injectors \cap Deques = {}
BY DEF Injectors, Injector, Deques, Deque

\* Every injector that holds a runnable keeps a worker that will look at it or
\* a push that will wake one.  The cases that matter are the ones where a
\* witness gives up: a push that finds nobody to wake, a strict pass that is
\* over, a worker that leaves.
LEMMA AttendStep ==
    ASSUME TypeOK, LockIsHeld, BufferIsLocal, ShutdownIsLate, ParkedIsExact,
           NotifiedIsCovered, Attended, [Next]_vars
    PROVE  Attended'
<1> USE DEF TypeOK, vars, allButPc, storeVars, scanVars, counterVars,
          closeVars, taskVars, Goto,
          WorkerPcs, PushPcs, LeavePcs, LeftPcs, Left, Home, Threads
<1> SUFFICES ASSUME NEW p \in Injectors
             PROVE  AttendedAt(p)'
  BY DEF Attended, AttendedAt
<1>at. AttendedAt(p)
  BY DEF Attended, AttendedAt
<1>looking. ASSUME NEW v \in Workers, pc'[v] \in LookingPcs
      PROVE  AttendedAt(p)'
  BY <1>looking DEF AttendedAt, WillLook
<1>staying. ASSUME \A v \in Threads :
                       pc'[v] = pc[v] \/ (~WillLook(v, p) /\ ~WillWake(v)),
                   queue' = queue, seen' = seen, todo' = todo,
                   contended' = contended, park' \in {park, None}
            PROVE  AttendedAt(p)'
  <2>1. ASSUME NEW v \in Workers, WillLook(v, p)
        PROVE  WillLook(v, p)'
    BY <1>staying, <2>1, QueueAssumption DEF WillLook, Strict
  <2>2. ASSUME NEW v \in Threads, WillWake(v)
        PROVE  WillWake(v)'
    BY <1>staying, <2>2 DEF WillWake
  <2> QED BY <1>at, <1>staying, <2>1, <2>2 DEF AttendedAt
<1>signalled. ASSUME Woken # {}, \A v \in Woken : pc'[v] = pc[v]
       PROVE  AttendedAt(p)'
  <2>1. PICK v \in Workers : pc[v] \in {"woken", "back"} /\ pc'[v] = pc[v]
    BY <1>signalled DEF Woken, In
  <2> QED BY <1>looking, <2>1 DEF LookingPcs
<1>counts. /\ notified > 0 => Woken # {}
           /\ parked > 0 <=> Counted # {}
  <2>1. Woken \in SUBSET Workers /\ Counted \in SUBSET Workers
    BY DEF Woken, Counted, In
  <2>2. /\ Cardinality(Woken) \in Nat /\ (Cardinality(Woken) = 0 <=> Woken = {})
        /\ Cardinality(Counted) \in Nat
        /\ (Cardinality(Counted) = 0 <=> Counted = {})
    BY <2>1, WorkersFinite, FS_EmptySet, FS_CardinalityType
  <2> QED BY <2>2 DEF NotifiedIsCovered, ParkedIsExact, Woken
<1>uncounted. ASSUME Counted = {}, \E t \in Threads : pc[t] \in PushPcs,
              \A v \in Workers : pc'[v] = pc[v] \/ pc'[v] \in LookingPcs,
              park' = park
       PROVE  AttendedAt(p)'
  <2>1. 0 \in Workers
    BY SizesAssumption DEF Workers
  <2>2. pc[0] \notin {"quit", "quitLeft", "exited"}
    BY <1>uncounted, <2>1 DEF ShutdownIsLate, In
  <2>3. \/ pc[0] \in LookingPcs
        \/ pc[0] = "probe" /\ ~Strict(0)
    BY <1>uncounted, <2>1, <2>2 DEF Counted, In, LookingPcs, LockedPcs
  <2>4. CASE pc'[0] \in LookingPcs
    BY <1>looking, <2>1, <2>4
  <2>5. CASE pc'[0] = "probe" /\ pc[0] = "probe" /\ ~Strict(0)
    BY <1>uncounted, <2>1, <2>5 DEF AttendedAt, WillLook, Strict
  <2> QED BY <1>uncounted, <2>1, <2>3, <2>4, <2>5
<1>1. ASSUME NEW t \in Threads, PushStep(t)
      PROVE  AttendedAt(p)'
  <2>1. CASE Push(t)
    <3>1. WillWake(t)'
      BY <2>1, QueueAssumption DEF Push, WillWake
    <3> QED BY <3>1 DEF AttendedAt
  <2>2. CASE Flush(t)
    <3>1. WillWake(t)'
      BY <2>2, QueueAssumption DEF Flush, WillWake, BufferIsLocal
    <3> QED BY <3>1 DEF AttendedAt
  <2>3. CASE PushFence(t)
    <3>1. WillWake(t)'
      BY <2>3, QueueAssumption DEF PushFence, WillWake
    <3> QED BY <3>1 DEF AttendedAt
  <2>4. CASE LoadParked(t)
    <3>1. PICK value \in ParkedReads : seen' = [seen EXCEPT ![t] = value]
      BY <2>4 DEF LoadParked
    <3>2. pc' = [pc EXCEPT ![t] = "loadNotified"]
      BY <2>4 DEF LoadParked
    <3>3. CASE value >= 1
      <4>1. WillWake(t)'
        BY <3>1, <3>2, <3>3 DEF WillWake
      <4> QED BY <4>1 DEF AttendedAt
    <3>4. CASE In({"armed"}) # {}
      <4>1. PICK v \in Workers : pc[v] = "armed"
        BY <3>4 DEF In
      <4> QED BY <2>4, <1>looking, <3>2, <4>1 DEF LoadParked, LookingPcs
    <3>5. CASE ~(value >= 1) /\ In({"armed"}) = {}
      <4>1. value = parked /\ parked \in Int
        BY <3>1, <3>5 DEF ParkedReads
      <4>2. parked <= 0
        BY <3>5, <4>1
      <4>3. Counted = {}
        BY <1>counts, <4>2
      <4> QED BY <2>4, <1>uncounted, <3>2, <4>3, QueueAssumption
              DEF LoadParked, LookingPcs
    <3> QED BY <3>1, <3>3, <3>4, <3>5 DEF ParkedReads
  <2>5. CASE LoadNotified(t)
    <3>1. CASE seen[t] > notified
      <4>1. WillWake(t)'
        BY <2>5, <3>1 DEF LoadNotified, WillWake
      <4> QED BY <4>1 DEF AttendedAt
    <3>2. CASE ~(seen[t] > notified) /\ notified > 0
      <4>1. \A v \in Woken : pc'[v] = pc[v]
        BY <2>5 DEF LoadNotified, Woken, In
      <4> QED BY <1>signalled, <1>counts, <3>2, <4>1
    <3>3. CASE ~(seen[t] > notified) /\ ~(notified > 0)
      <4>1. CASE t \in Workers
        BY <2>5, <1>looking, <3>3, <4>1 DEF LoadNotified, LookingPcs
      <4>2. CASE t \notin Workers
        <5>1. ~WillWake(t)
          BY <2>5, <3>3 DEF LoadNotified, WillWake
        <5>2. ASSUME NEW v \in Workers, WillLook(v, p)
              PROVE  WillLook(v, p)'
          BY <2>5, <4>2, <5>2 DEF LoadNotified, WillLook, Strict
        <5>3. ASSUME NEW v \in Threads, WillWake(v)
              PROVE  WillWake(v)'
          BY <2>5, <5>1, <5>3 DEF LoadNotified, WillWake
        <5>4. queue' = queue
          BY <2>5 DEF LoadNotified
        <5> QED BY <1>at, <5>2, <5>3, <5>4 DEF AttendedAt
      <4> QED BY <4>1, <4>2
    <3> QED BY <3>1, <3>2, <3>3
  <2>6. CASE Notify(t)
    <3>1. CASE Asleep # {} /\ parked > notified
      <4>1. PICK v \in Asleep : pc' = [pc EXCEPT ![t] = Home(t), ![v] = "woken"]
        BY <2>6, <3>1 DEF Notify, NotifyOne
      <4>2. v \in Workers /\ pc'[v] = "woken"
        BY <4>1 DEF Asleep, In
      <4> QED BY <1>looking, <4>2 DEF LookingPcs
    <3>2. CASE ~(Asleep # {} /\ parked > notified) /\ Counted # {}
      <4>1. pc' = [pc EXCEPT ![t] = Home(t)]
        BY <2>6, <3>2 DEF Notify, NotifyOne
      <4>2. Woken # {}
        <5>1. CASE Asleep = {}
          BY <2>6, <3>2, <5>1, QueueAssumption DEF Notify, Asleep, Counted,
             Strict, In, Woken, LockIsHeld, LockedPcs
        <5>2. CASE ~(parked > notified)
          <6>1. parked > 0
            BY <1>counts, <3>2
          <6>2. notified > 0
            BY <5>2, <6>1
          <6> QED BY <1>counts, <6>2
        <5> QED BY <3>2, <5>1, <5>2
      <4> QED BY <2>6, <1>signalled, <4>1, <4>2 DEF Notify, Woken, In
    <3>3. CASE ~(Asleep # {} /\ parked > notified) /\ Counted = {}
      <4>1. pc' = [pc EXCEPT ![t] = Home(t)] /\ park' = park
        BY <2>6, <3>3 DEF Notify, NotifyOne
      <4> QED BY <2>6, <1>uncounted, <3>3, <4>1 DEF Notify, LookingPcs
    <3> QED BY <3>1, <3>2, <3>3
  <2> QED BY <1>1, <2>1, <2>2, <2>3, <2>4, <2>5, <2>6 DEF PushStep
<1>2. ASSUME NEW w \in Workers, ScanStep(w)
      PROVE  AttendedAt(p)'
  <2>1. CASE PopOwn(w)
    BY <1>looking, <2>1, QueueAssumption DEF PopOwn, Holding, Strict, LookingPcs
  <2>2. CASE BeginPass(w)
    <3>1. PICK order \in VictimOrders(w, Probe(w)) :
            todo' = [todo EXCEPT ![w] = order]
      BY <2>2 DEF BeginPass
    <3>2. pc'[w] = "probe" /\ park' = park /\ todo'[w] = order
      BY <2>2, <3>1 DEF BeginPass
    <3>3. CASE Strict(w)
      <4>1. Probe(w) = "strict"
        BY <3>3 DEF Probe
      <4>2. p \in Places \ {Deque(w)}
        BY DEF Places, Injectors, Injector, Deque
      <4>3. p \in Range(order)
        <5>1. order \in Seq(Places)
          BY <3>1, <4>1, OrderInPlaces DEF Probes
        <5>2. \E k \in 1 .. Len(order) : order[k] = p
          BY <3>1, <4>1, <4>2, StrictVisitsAll
        <5> QED BY <5>1, <5>2 DEF Range
      <4> QED BY <3>2, <4>3 DEF AttendedAt, WillLook
    <3>4. CASE ~Strict(w)
      BY <3>2, <3>4 DEF AttendedAt, WillLook, Strict
    <3> QED BY <3>3, <3>4
  <2>3. CASE SkipVictim(w)
    <3>1. todo[w] \in Seq(Places) /\ todo[w] # <<>> /\ pc[w] = "probe"
      BY <2>3 DEF SkipVictim, Visiting
    <3>2. todo' = [todo EXCEPT ![w] = Tail(@)]
          /\ UNCHANGED <<queue, seen, contended, park, pc>>
      BY <2>3 DEF SkipVictim
    <3>3. CASE p = Victim(w)
      BY <2>3, <3>2, <3>3, InjectorNoDeque DEF SkipVictim, Stealable, AttendedAt
    <3>4. CASE p # Victim(w)
      <4>1. p \in Range(todo[w]) => p \in Range(Tail(todo[w]))
        BY <3>1, <3>4, TailKeeps DEF Victim
      <4>2. ASSUME NEW v \in Workers, WillLook(v, p)
            PROVE  WillLook(v, p)'
        BY <3>2, <4>1, <4>2 DEF WillLook, Strict
      <4>3. ASSUME NEW v \in Threads, WillWake(v)
            PROVE  WillWake(v)'
        BY <3>2, <4>3 DEF WillWake
      <4> QED BY <1>at, <3>2, <4>2, <4>3 DEF AttendedAt
    <3> QED BY <3>3, <3>4
  <2>4. CASE Retry(w)
    BY <2>4 DEF Retry, Visiting, AttendedAt, WillLook
  <2>5. CASE Steal(w)
    BY <1>looking, <2>5, QueueAssumption DEF Steal, Visiting, Victim, Holding,
       Strict, LookingPcs
  <2>6. CASE Migrate(w)
    BY <1>looking, <2>6, QueueAssumption DEF Migrate, Holding, Strict,
       LookingPcs
  <2>7. CASE WalkAgain(w)
    BY <1>looking, <2>7, QueueAssumption DEF WalkAgain, PassOver, LookingPcs
  <2>8. CASE SpinOrArm(w)
    BY <1>looking, <2>8, QueueAssumption DEF SpinOrArm, PassOver, Strict,
       LookingPcs
  <2>9. CASE StrictEmpty(w)
    <3>1. p \notin Range(todo[w])
      BY <2>9 DEF StrictEmpty, PassOver, Range
    <3>2. /\ queue' = queue /\ seen' = seen /\ todo' = todo
          /\ contended' = contended /\ park' \in {park, None}
      BY <2>9 DEF StrictEmpty, PassOver, Strict
    <3>3. \A v \in Threads :
             pc'[v] = pc[v] \/ (~WillLook(v, p) /\ ~WillWake(v))
      BY <2>9, <3>1 DEF StrictEmpty, PassOver, Strict, WillLook, WillWake,
         LookingPcs
    <3> QED BY <1>staying, <3>2, <3>3
  <2> QED BY <1>2, <2>1, <2>2, <2>3, <2>4, <2>5, <2>6, <2>7, <2>8, <2>9
          DEF ScanStep
<1>3. ASSUME NEW w \in Workers, ParkStep(w)
      PROVE  AttendedAt(p)'
  <2>1. CASE Arm(w)
    BY <1>looking, <2>1, QueueAssumption DEF Arm, LookingPcs
  <2>2. CASE ArmFence(w)
    BY <1>looking, <2>2, QueueAssumption DEF ArmFence, LookingPcs
  <2>3. CASE LoadShutdown(w)
    <3>1. /\ queue' = queue /\ seen' = seen /\ todo' = todo
          /\ contended' = contended /\ park' \in {park, None}
      BY <2>3 DEF LoadShutdown
    <3>2. \A v \in Threads :
             pc'[v] = pc[v] \/ (~WillLook(v, p) /\ ~WillWake(v))
      BY <2>3 DEF LoadShutdown, WillLook, WillWake, LookingPcs
    <3> QED BY <1>staying, <3>1, <3>2
  <2>4. CASE Wait(w)
    <3>1. /\ queue' = queue /\ seen' = seen /\ todo' = todo
          /\ contended' = contended /\ park' \in {park, None}
      BY <2>4 DEF Wait
    <3>2. \A v \in Threads :
             pc'[v] = pc[v] \/ (~WillLook(v, p) /\ ~WillWake(v))
      BY <2>4 DEF Wait, WillLook, WillWake, LookingPcs
    <3> QED BY <1>staying, <3>1, <3>2
  <2>5. CASE Reacquire(w)
    BY <1>looking, <2>5, QueueAssumption DEF Reacquire, LookingPcs
  <2>6. CASE ForgetSignal(w)
    <3>1. CASE pc[w] = "quit"
      <4>1. /\ queue' = queue /\ seen' = seen /\ todo' = todo
            /\ contended' = contended /\ park' \in {park, None}
        BY <2>6 DEF ForgetSignal
      <4>2. \A v \in Threads :
               pc'[v] = pc[v] \/ (~WillLook(v, p) /\ ~WillWake(v))
        BY <2>6, <3>1 DEF ForgetSignal, WillLook, WillWake, LookingPcs
      <4> QED BY <1>staying, <4>1, <4>2
    <3>2. CASE pc[w] \in {"found", "back"}
      BY <1>looking, <2>6, <3>2, QueueAssumption DEF ForgetSignal, LookingPcs
    <3> QED BY <2>6, <3>1, <3>2 DEF ForgetSignal
  <2>7. CASE Leave(w)
    <3>1. CASE pc[w] = "quitLeft"
      <4>1. /\ queue' = queue /\ seen' = seen /\ todo' = todo
            /\ contended' = contended /\ park' \in {park, None}
        BY <2>7 DEF Leave
      <4>2. \A v \in Threads :
               pc'[v] = pc[v] \/ (~WillLook(v, p) /\ ~WillWake(v))
        BY <2>7, <3>1 DEF Leave, WillLook, WillWake, LookingPcs
      <4> QED BY <1>staying, <4>1, <4>2
    <3>2. CASE pc[w] \in {"foundLeft", "backLeft"}
      BY <1>looking, <2>7, <3>2, QueueAssumption DEF Leave, LookingPcs
    <3> QED BY <2>7, <3>1, <3>2 DEF Leave
  <2> QED BY <1>3, <2>1, <2>2, <2>3, <2>4, <2>5, <2>6, <2>7 DEF ParkStep
<1>4. ASSUME NEW w \in Workers, LoopStep(w)
      PROVE  AttendedAt(p)'
  <2>1. CASE Register(w)
    BY <1>looking, <2>1, QueueAssumption DEF Register, LookingPcs
  <2>2. CASE Finish(w)
    BY <1>looking, <2>2, QueueAssumption DEF Finish, LookingPcs
  <2>3. CASE Panic(w)
    BY <1>looking, <2>3, QueueAssumption DEF Panic, LookingPcs
  <2> QED BY <1>4, <2>1, <2>2, <2>3 DEF LoopStep
<1>5. CASE SetShutdown
  <2>1. /\ queue' = queue /\ seen' = seen /\ todo' = todo
          /\ contended' = contended /\ park' \in {park, None}
    BY <1>5 DEF SetShutdown
  <2>2. \A v \in Threads :
             pc'[v] = pc[v] \/ (~WillLook(v, p) /\ ~WillWake(v))
    BY <1>5 DEF SetShutdown, WillLook, WillWake, LookingPcs
  <2> QED BY <1>staying, <2>1, <2>2
<1>6. CASE NotifyAll
  <2>1. /\ queue' = queue /\ seen' = seen /\ todo' = todo
          /\ contended' = contended /\ park' \in {park, None}
    BY <1>6 DEF NotifyAll, Asleep, In
  <2>2. \A v \in Threads :
             pc'[v] = pc[v] \/ (~WillLook(v, p) /\ ~WillWake(v))
    BY <1>6 DEF NotifyAll, Asleep, In, WillLook, WillWake, LookingPcs
  <2> QED BY <1>staying, <2>1, <2>2
<1>7. CASE UNCHANGED vars
  <2>1. /\ queue' = queue /\ seen' = seen /\ todo' = todo
        /\ contended' = contended /\ park' = park /\ pc' = pc
    BY <1>7
  <2> QED BY <1>staying, <2>1
<1> QED BY <1>1, <1>2, <1>3, <1>4, <1>5, <1>6, <1>7 DEF Next, Joined

--------------------------------------------------------------------------------
\* At first nobody is armed, nothing is queued and the pool is not dropped.
LEMMA IInvInit ==
    Init => IInv
<1> SUFFICES ASSUME Init PROVE IInv
  OBVIOUS
<1>1. ControlInv
  BY ControlInit
<1>2. Counted = {}
  BY DEF Init, Counted, In, Threads, LeavePcs, LeftPcs
<1>3. ParkedIsExact
  BY <1>2, FS_EmptySet DEF Init, ParkedIsExact
<1>4. NotifiedIsCovered
  <2>1. Woken = {}
    BY DEF Init, Woken, In, Threads
  <2> QED BY <2>1, FS_EmptySet DEF Init, NotifiedIsCovered
<1>5. OwnerIsUp /\ Attended
  <2>1. Injectors \subseteq Places /\ \A w \in Workers : Deque(w) \in Places
    BY DEF Places, Deques
  <2>2. \A p \in Places : queue[p] = <<>>
    BY DEF Init
  <2> QED BY <2>1, <2>2 DEF OwnerIsUp, Attended
<1>6. ShutdownReachesAll
  BY DEF Init, ShutdownReachesAll
<1> QED BY <1>1, <1>3, <1>4, <1>5, <1>6 DEF IInv

\* The inductive step, assembled from the lemmas on its conjuncts.
LEMMA IInvStep ==
    IInv /\ [Next]_vars => IInv'
<1> SUFFICES ASSUME IInv, [Next]_vars PROVE IInv'
  OBVIOUS
<1>1. /\ ControlInv /\ ParkedIsExact /\ NotifiedIsCovered
      /\ OwnerIsUp /\ Attended /\ ShutdownReachesAll
  BY DEF IInv
<1>2. TypeOK /\ LockIsHeld /\ HandIsFull /\ BufferIsLocal /\ ShutdownIsLate
  BY <1>1 DEF ControlInv
<1>3. ControlInv'
  BY <1>1, ControlStep
<1>4. notified' \in Nat
  BY <1>3 DEF ControlInv, TypeOK
<1>5. ParkedIsExact'
  BY <1>1, <1>2, CountedStep, ExactStep
<1>6. NotifiedIsCovered'
  BY <1>1, <1>2, <1>4, SignalStep, CoveredStep
<1>7. OwnerIsUp' /\ ShutdownReachesAll'
  BY <1>1, <1>2, OwnerStep, ReachStep
<1>8. Attended'
  BY <1>1, <1>2, AttendStep
<1> QED BY <1>3, <1>5, <1>6, <1>7, <1>8 DEF IInv

\* The inductive invariant holds throughout.
THEOREM Invariance == Spec => []IInv
BY IInvInit, IInvStep, PTL DEF Spec

\* `parked' is the number of workers in the armed region in every state.
THEOREM ParkedExact == Spec => []ParkedIsExact
<1>1. IInv => ParkedIsExact
  BY DEF IInv
<1> QED BY Invariance, <1>1, PTL

\* `notified' never outnumbers the woken workers.
THEOREM NotifiedCovered == Spec => []NotifiedIsCovered
<1>1. IInv => NotifiedIsCovered
  BY DEF IInv
<1> QED BY Invariance, <1>1, PTL

\* No worker sleeps or exits on top of its own deque.
THEOREM OwnersUp == Spec => []OwnerIsUp
<1>1. IInv => OwnerIsUp
  BY DEF IInv
<1> QED BY Invariance, <1>1, PTL

\* A queued runnable always has somebody that will see to it.
THEOREM AlwaysAttended == Spec => []Attended
<1>1. IInv => Attended
  BY DEF IInv
<1> QED BY Invariance, <1>1, PTL

\* Nobody waits once shutdown() has notified all.
THEOREM ShutdownReaches == Spec => []ShutdownReachesAll
<1>1. IInv => ShutdownReachesAll
  BY DEF IInv
<1> QED BY Invariance, <1>1, PTL

\* An injector that nobody is on the way to is empty because it is attended, a
\* deque because its owner would not sleep or exit on top of it.
LEMMA NothingMissed ==
    IInv => NoLostWakeup
<1> SUFFICES ASSUME IInv, Idle, NEW p \in Places
             PROVE  queue[p] = <<>>
  BY DEF NoLostWakeup
<1>1. CASE p \in Injectors
  <2>1. \A w \in Workers : ~WillLook(w, p)
    BY DEF Idle, WillLook, LookingPcs, PushPcs
  <2>2. \A t \in Threads : ~WillWake(t)
    BY DEF Idle, WillWake, PushPcs
  <2> QED BY <1>1, <2>1, <2>2 DEF IInv, Attended
<1>2. CASE p \in Deques
  BY <1>2 DEF IInv, OwnerIsUp, Idle, Deques, PushPcs
<1> QED BY <1>1, <1>2 DEF Places

\* No wakeup is lost: when every worker sleeps or has exited and no push is
\* under way, every queue is empty, for any number of workers and shards.
THEOREM WakeupNotLost == Spec => []NoLostWakeup
BY Invariance, NothingMissed, PTL
================================================================================

---------------------------- MODULE QueuePoolProofs ----------------------------
(***************************************************************************)
(* Queue implements TaskPool for every number of workers, shards,          *)
(* producers and tasks.  What has to be added to the inductive invariant   *)
(* of QueueProofs is that a task is in one place at a time (not pushed, in *)
(* a push buffer, in a queue, in a batch, in a hand, run or dropped) and   *)
(* once there: then taking it from a queue takes it from everybody else.   *)
(***************************************************************************)
EXTENDS QueueProofs

--------------------------------------------------------------------------------
(* Sequences without repetition *)

\* A push adds one runnable to a queue.
LEMMA AppendAdds ==
    ASSUME NEW S, NEW s \in Seq(S), NEW e \in S \ Range(s), NoRepeat(s)
    PROVE  /\ Range(Append(s, e)) = Range(s) \cup {e}
           /\ NoRepeat(Append(s, e))
<1>1. /\ Len(Append(s, e)) = Len(s) + 1
      /\ \A i \in 1 .. Len(s) : Append(s, e)[i] = s[i]
      /\ Append(s, e)[Len(s) + 1] = e
      /\ DOMAIN Append(s, e) = 1 .. Len(s) + 1
      /\ DOMAIN s = 1 .. Len(s) /\ Len(s) \in Nat
  OBVIOUS
<1>2. \A i \in 1 .. Len(s) : s[i] # e
  BY <1>1 DEF Range
<1>3. Range(Append(s, e)) = Range(s) \cup {e}
  BY <1>1 DEF Range
<1>4. NoRepeat(Append(s, e))
  BY <1>1, <1>2 DEF NoRepeat
<1> QED BY <1>3, <1>4

\* A pop takes one away.
LEMMA TailTakes ==
    ASSUME NEW S, NEW s \in Seq(S), s # <<>>, NoRepeat(s)
    PROVE  /\ Head(s) \in Range(s)
           /\ Range(Tail(s)) = Range(s) \ {Head(s)}
           /\ NoRepeat(Tail(s))
<1>1. /\ Len(s) \in Nat \ {0} /\ DOMAIN s = 1 .. Len(s)
      /\ Len(Tail(s)) = Len(s) - 1 /\ DOMAIN Tail(s) = 1 .. Len(s) - 1
      /\ \A i \in 1 .. Len(s) - 1 : Tail(s)[i] = s[i + 1]
      /\ Head(s) = s[1]
  OBVIOUS
<1>2. ASSUME NEW x \in Range(s), x # Head(s) PROVE x \in Range(Tail(s))
  <2>1. PICK i \in 1 .. Len(s) : s[i] = x
    BY <1>1 DEF Range
  <2>2. i - 1 \in 1 .. Len(s) - 1 /\ Tail(s)[i - 1] = s[i]
    BY <1>1, <1>2, <2>1
  <2> QED BY <1>1, <2>1, <2>2 DEF Range
<1>3. ASSUME NEW x \in Range(Tail(s)) PROVE x \in Range(s) /\ x # Head(s)
  <2>1. PICK i \in 1 .. Len(s) - 1 : Tail(s)[i] = x
    BY <1>1 DEF Range
  <2>2. s[i + 1] = x /\ i + 1 \in 1 .. Len(s) /\ i + 1 # 1
    BY <1>1, <2>1
  <2> QED BY <1>1, <2>2 DEF Range, NoRepeat
<1>4. Head(s) \in Range(s)
  BY <1>1 DEF Range
<1>5. NoRepeat(Tail(s))
  <2> SUFFICES ASSUME NEW i \in 1 .. Len(s) - 1, NEW j \in 1 .. Len(s) - 1,
                      Tail(s)[i] = Tail(s)[j]
               PROVE  i = j
    BY <1>1 DEF NoRepeat
  <2>1. s[i + 1] = s[j + 1] /\ i + 1 \in 1 .. Len(s) /\ j + 1 \in 1 .. Len(s)
    BY <1>1
  <2> QED BY <2>1 DEF NoRepeat
<1> QED BY <1>2, <1>3, <1>4, <1>5

\* A stretch of a queue has the runnables at its positions.
LEMMA Stretch ==
    ASSUME NEW S, NEW s \in Seq(S), NoRepeat(s),
           NEW m \in 1 .. Len(s) + 1, NEW n \in 0 .. Len(s), m <= n + 1
    PROVE  /\ \A x : x \in Range(SubSeq(s, m, n)) <=> \E i \in m .. n : s[i] = x
           /\ NoRepeat(SubSeq(s, m, n))
<1> DEFINE b == SubSeq(s, m, n)
<1>1. /\ Len(s) \in Nat /\ Len(b) = n - m + 1
      /\ \A i \in 1 .. n - m + 1 : b[i] = s[m + i - 1]
      /\ DOMAIN b = 1 .. n - m + 1
  BY SubSeqProperties
<1> HIDE DEF b
<1>2. ASSUME NEW x, NEW i \in m .. n, s[i] = x PROVE x \in Range(b)
  <2>1. i - m + 1 \in 1 .. n - m + 1 /\ b[i - m + 1] = x
    BY <1>1, <1>2
  <2> QED BY <1>1, <2>1 DEF Range
<1>3. ASSUME NEW x \in Range(b) PROVE \E i \in m .. n : s[i] = x
  <2>1. PICK k \in 1 .. n - m + 1 : b[k] = x
    BY <1>1 DEF Range
  <2>2. m + k - 1 \in m .. n /\ s[m + k - 1] = x
    BY <1>1, <2>1
  <2> QED BY <2>2
<1>4. NoRepeat(b)
  <2> SUFFICES ASSUME NEW i \in 1 .. n - m + 1, NEW j \in 1 .. n - m + 1,
                      b[i] = b[j]
               PROVE  i = j
    BY <1>1 DEF NoRepeat
  <2>1. /\ m + i - 1 \in 1 .. Len(s) /\ m + j - 1 \in 1 .. Len(s)
        /\ s[m + i - 1] = s[m + j - 1]
    BY <1>1
  <2> QED BY <2>1 DEF NoRepeat
<1> QED BY <1>2, <1>3, <1>4 DEF b

\* A steal divides a queue: the first, the others of the batch, what stays.
LEMMA StealDivides ==
    ASSUME NEW S, NEW s \in Seq(S), NoRepeat(s), NEW n \in 1 .. Len(s)
    PROVE  /\ Head(s) \in S /\ Head(s) \in Range(s)
           /\ Range(SubSeq(s, 2, n)) \subseteq Range(s) \ {Head(s)}
           /\ Range(SubSeq(s, n + 1, Len(s))) =
                (Range(s) \ {Head(s)}) \ Range(SubSeq(s, 2, n))
           /\ NoRepeat(SubSeq(s, 2, n))
           /\ NoRepeat(SubSeq(s, n + 1, Len(s)))
<1>1. /\ Len(s) \in Nat \ {0} /\ Head(s) = s[1] /\ DOMAIN s = 1 .. Len(s)
      /\ s[1] \in S
  OBVIOUS
<1>2. /\ \A x : x \in Range(SubSeq(s, 2, n)) <=> \E i \in 2 .. n : s[i] = x
      /\ NoRepeat(SubSeq(s, 2, n))
  BY <1>1, Stretch
<1>3. /\ \A x : x \in Range(SubSeq(s, n + 1, Len(s)))
                  <=> \E i \in n + 1 .. Len(s) : s[i] = x
      /\ NoRepeat(SubSeq(s, n + 1, Len(s)))
  BY <1>1, Stretch
<1>4. \A x : x \in Range(s) <=> \E i \in 1 .. Len(s) : s[i] = x
  BY <1>1 DEF Range
<1>5. \A i, j \in 1 .. Len(s) : s[i] = s[j] => i = j
  BY DEF NoRepeat
<1>6. 2 .. n \subseteq 1 .. Len(s) /\ n + 1 .. Len(s) \subseteq 1 .. Len(s)
  BY <1>1
<1>7. Range(SubSeq(s, 2, n)) \subseteq Range(s) \ {Head(s)}
  BY <1>1, <1>2, <1>4, <1>5, <1>6
<1>8. ASSUME NEW x \in Range(SubSeq(s, n + 1, Len(s)))
      PROVE  x \in Range(s) /\ x # Head(s) /\ x \notin Range(SubSeq(s, 2, n))
  BY <1>1, <1>2, <1>3, <1>4, <1>5, <1>6
<1>9. ASSUME NEW x \in Range(s), x # Head(s), x \notin Range(SubSeq(s, 2, n))
      PROVE  x \in Range(SubSeq(s, n + 1, Len(s)))
  <2>1. PICK i \in 1 .. Len(s) : s[i] = x
    BY <1>4
  <2>2. i # 1 /\ i \notin 2 .. n
    BY <1>1, <1>2, <1>9, <2>1
  <2>3. i \in n + 1 .. Len(s)
    BY <1>1, <2>2
  <2> QED BY <1>3, <2>1, <2>3
<1>10. Head(s) \in S /\ Head(s) \in Range(s)
  BY <1>1, <1>4
<1> QED BY <1>2, <1>3, <1>7, <1>8, <1>9, <1>10

\* A batch joins the thief's deque.
LEMMA ConcatJoins ==
    ASSUME NEW S, NEW s \in Seq(S), NEW t \in Seq(S), NoRepeat(s), NoRepeat(t),
           Range(s) \cap Range(t) = {}
    PROVE  /\ Range(s \o t) = Range(s) \cup Range(t)
           /\ NoRepeat(s \o t)
<1>1. /\ Len(s) \in Nat /\ Len(t) \in Nat
      /\ DOMAIN s = 1 .. Len(s) /\ DOMAIN t = 1 .. Len(t)
      /\ Len(s \o t) = Len(s) + Len(t)
      /\ DOMAIN (s \o t) = 1 .. Len(s) + Len(t)
      /\ \A i \in 1 .. Len(s) : (s \o t)[i] = s[i]
      /\ \A i \in Len(s) + 1 .. Len(s) + Len(t) : (s \o t)[i] = t[i - Len(s)]
  OBVIOUS
<1> DEFINE u == s \o t
<1> HIDE DEF u
<1>2. \A i \in 1 .. Len(s) : u[i] \in Range(s) /\ u[i] = s[i]
  BY <1>1 DEF Range, u
<1>3. \A i \in Len(s) + 1 .. Len(s) + Len(t) :
        /\ i - Len(s) \in 1 .. Len(t)
        /\ u[i] \in Range(t) /\ u[i] = t[i - Len(s)]
  <2> SUFFICES ASSUME NEW i \in Len(s) + 1 .. Len(s) + Len(t)
               PROVE  /\ i - Len(s) \in 1 .. Len(t)
                      /\ u[i] \in Range(t) /\ u[i] = t[i - Len(s)]
    OBVIOUS
  <2>1. i - Len(s) \in 1 .. Len(t)
    BY <1>1
  <2>2. u[i] = t[i - Len(s)]
    BY <1>1 DEF u
  <2> QED BY <1>1, <2>1, <2>2 DEF Range
<1>4. \A x \in Range(s) : x \in Range(u)
  <2> SUFFICES ASSUME NEW x \in Range(s) PROVE x \in Range(u)
    OBVIOUS
  <2>1. PICK i \in 1 .. Len(s) : s[i] = x
    BY <1>1 DEF Range
  <2>2. i \in DOMAIN u /\ u[i] = x
    BY <1>1, <1>2, <2>1 DEF u
  <2> QED BY <2>2 DEF Range
<1>5. \A x \in Range(t) : x \in Range(u)
  <2> SUFFICES ASSUME NEW x \in Range(t) PROVE x \in Range(u)
    OBVIOUS
  <2>1. PICK i \in 1 .. Len(t) : t[i] = x
    BY <1>1 DEF Range
  <2>2. /\ i + Len(s) \in Len(s) + 1 .. Len(s) + Len(t)
        /\ i + Len(s) \in DOMAIN u /\ i + Len(s) - Len(s) = i
    BY <1>1 DEF u
  <2>3. u[i + Len(s)] = x
    BY <1>3, <2>1, <2>2
  <2> QED BY <2>2, <2>3 DEF Range
<1>6. \A x \in Range(u) : x \in Range(s) \cup Range(t)
  <2> SUFFICES ASSUME NEW i \in DOMAIN u PROVE u[i] \in Range(s) \cup Range(t)
    BY DEF Range
  <2>1. i \in 1 .. Len(s) \/ i \in Len(s) + 1 .. Len(s) + Len(t)
    BY <1>1 DEF u
  <2> QED BY <1>2, <1>3, <2>1
<1>7. NoRepeat(u)
  <2> SUFFICES ASSUME NEW i \in 1 .. Len(s) + Len(t), NEW j \in 1 .. Len(s) + Len(t),
                      u[i] = u[j]
               PROVE  i = j
    BY <1>1 DEF NoRepeat, u
  <2>1. CASE i \in 1 .. Len(s) /\ j \in 1 .. Len(s)
    BY <1>2, <2>1 DEF NoRepeat
  <2>2. CASE i \notin 1 .. Len(s) /\ j \notin 1 .. Len(s)
    <3>1. /\ i \in Len(s) + 1 .. Len(s) + Len(t)
          /\ j \in Len(s) + 1 .. Len(s) + Len(t)
      BY <1>1, <2>2
    <3>2. /\ t[i - Len(s)] = t[j - Len(s)]
          /\ i - Len(s) \in 1 .. Len(t) /\ j - Len(s) \in 1 .. Len(t)
      BY <1>3, <3>1
    <3>3. i - Len(s) = j - Len(s)
      BY <3>2 DEF NoRepeat
    <3> QED BY <1>1, <3>3
  <2>3. CASE i \in 1 .. Len(s) /\ j \notin 1 .. Len(s)
    <3>1. j \in Len(s) + 1 .. Len(s) + Len(t)
      BY <1>1, <2>3
    <3> QED BY <1>2, <1>3, <2>3, <3>1
  <2>4. CASE i \notin 1 .. Len(s) /\ j \in 1 .. Len(s)
    <3>1. i \in Len(s) + 1 .. Len(s) + Len(t)
      BY <1>1, <2>4
    <3> QED BY <1>2, <1>3, <2>4, <3>1
  <2> QED BY <2>1, <2>2, <2>3, <2>4
<1> QED BY <1>4, <1>5, <1>6, <1>7 DEF u

--------------------------------------------------------------------------------
(* Where a task is *)

\* Task `task' is in place `of' of the kind `where'.
At(task, where, of) ==
    \/ where = "fresh" /\ of = None /\ task \in fresh
    \/ where = "done" /\ of = None /\ task \in done
    \/ where = "lost" /\ of = None /\ task \in lost
    \/ /\ where = "buffer" /\ of \in Threads
       /\ buffer[of] # None /\ buffer[of].task = task
    \/ where = "queue" /\ of \in Places /\ task \in Range(queue[of])
    \/ where = "transit" /\ of \in Workers /\ task \in Range(transit[of])
    \/ where = "hand" /\ of \in Workers /\ cur[of] = task

OnlyAt(task, where, of) ==
    \A where1, of1 : At(task, where1, of1) <=> where1 = where /\ of1 = of

\* A task is in exactly one place ...
Alone == \A task \in Tasks : \E where, of : OnlyAt(task, where, of)

\* ... and at one position of it.
NoneTwice ==
    /\ \A p \in Places : NoRepeat(queue[p])
    /\ \A w \in Workers : NoRepeat(transit[w])

\* The converse of HandIsFull: elsewhere hand and batch are empty.
HandIsKnown ==
    \A w \in Workers :
        /\ cur[w] # None =>
             pc[w] \in {"migrate", "run", "found", "foundLeft"} \cup PushPcs
        /\ transit[w] # <<>> => pc[w] = "migrate"

PlaceInv == HandIsKnown /\ NoneTwice /\ Alone

\* A step that moves no task, closes nothing and ends or replaces no worker.
Quiet ==
    /\ UNCHANGED <<queue, buffer, cur, transit, fresh, done, lost, shutdown>>
    /\ In({"exited"})' = In({"exited"}) /\ In({"register"})' = In({"register"})

\* Most of the steps are quiet.
LEMMA StepKinds ==
    ASSUME TypeOK, [Next]_vars
    PROVE  \/ \E t \in Threads : Push(t) \/ Flush(t)
           \/ \E w \in Workers :
                \/ PopOwn(w) \/ Steal(w) \/ Migrate(w)
                \/ Register(w) \/ Finish(w) \/ Panic(w)
                \/ pc[w] = "quitLeft" /\ Leave(w)
           \/ SetShutdown
           \/ Quiet
<1>a. /\ pc \in [Threads -> WorkerPcs \cup PushPcs \cup {"idle"}]
      /\ Workers \subseteq Threads
  BY DEF TypeOK, Threads
<1> USE <1>a DEF vars, allButPc, storeVars, scanVars, counterVars, closeVars,
                 taskVars, Goto, Quiet, In
<1>1. ASSUME NEW t \in Threads, PushStep(t), ~Push(t), ~Flush(t) PROVE Quiet
  <2>1. CASE PushFence(t)
    BY <2>1 DEF PushFence
  <2>2. CASE LoadParked(t)
    BY <2>2 DEF LoadParked
  <2>3. CASE LoadNotified(t)
    BY <2>3 DEF LoadNotified, Home
  <2>4. CASE Notify(t)
    <3>1. /\ UNCHANGED <<queue, buffer, cur, transit, fresh, done, lost, shutdown>>
          /\ pc[t] = "notify" /\ Home(t) \in {"run", "idle"}
      BY <2>4 DEF Notify, Home
    <3>2. \/ pc' = [pc EXCEPT ![t] = Home(t)]
          \/ \E w \in Workers : /\ pc[w] = "asleep"
                                /\ pc' = [pc EXCEPT ![t] = Home(t),
                                                    ![w] = "woken"]
      BY <2>4 DEF Notify, NotifyOne, Asleep
    <3>3. \A v \in Workers :
             \/ pc'[v] = pc[v]
             \/ /\ pc[v] \notin {"exited", "register"}
                /\ pc'[v] \notin {"exited", "register"}
      BY <3>1, <3>2
    <3> QED BY <3>1, <3>3
  <2> QED BY <1>1, <2>1, <2>2, <2>3, <2>4 DEF PushStep
<1>2. ASSUME NEW w \in Workers, ScanStep(w), ~PopOwn(w), ~Steal(w), ~Migrate(w)
      PROVE  Quiet
  <2>1. CASE BeginPass(w)
    BY <2>1 DEF BeginPass
  <2>2. CASE SkipVictim(w)
    BY <2>2 DEF SkipVictim
  <2>3. CASE Retry(w)
    BY <2>3 DEF Retry
  <2>4. CASE WalkAgain(w)
    BY <2>4 DEF WalkAgain, PassOver
  <2>5. CASE SpinOrArm(w)
    BY <2>5 DEF SpinOrArm, PassOver
  <2>6. CASE StrictEmpty(w)
    BY <2>6 DEF StrictEmpty, PassOver
  <2> QED BY <1>2, <2>1, <2>2, <2>3, <2>4, <2>5, <2>6 DEF ScanStep
<1>3. ASSUME NEW w \in Workers, ParkStep(w), ~(pc[w] = "quitLeft" /\ Leave(w))
      PROVE  Quiet
  <2>1. CASE Arm(w)
    BY <2>1 DEF Arm
  <2>2. CASE ArmFence(w)
    BY <2>2 DEF ArmFence
  <2>3. CASE LoadShutdown(w)
    BY <2>3 DEF LoadShutdown
  <2>4. CASE Wait(w)
    BY <2>4 DEF Wait
  <2>5. CASE Reacquire(w)
    BY <2>5 DEF Reacquire
  <2>6. CASE ForgetSignal(w)
    BY <2>6 DEF ForgetSignal, LeavePcs, Left
  <2>7. CASE Leave(w)
    BY <1>3, <2>7 DEF Leave
  <2> QED BY <1>3, <2>1, <2>2, <2>3, <2>4, <2>5, <2>6, <2>7 DEF ParkStep
<1>4. CASE NotifyAll
  BY <1>4 DEF NotifyAll, Asleep
<1>5. CASE UNCHANGED vars
  BY <1>5
<1>6. CASE \E t \in Threads : PushStep(t)
  BY <1>1, <1>6
<1>7. CASE \E w \in Workers : ScanStep(w) \/ ParkStep(w) \/ LoopStep(w)
  BY <1>2, <1>3, <1>7 DEF LoopStep
<1> HIDE DEF vars, Quiet, In
<1> QED BY <1>4, <1>5, <1>6, <1>7 DEF Next, Joined

\* Pops and steals fill a hand on the way to run; Finish empties it, and
\* a batch is published before anything else is done.
LEMMA HandKnownStep ==
    ASSUME TypeOK, HandIsKnown, [Next]_vars
    PROVE  HandIsKnown'
<1>a. /\ pc \in [Threads -> WorkerPcs \cup PushPcs \cup {"idle"}]
      /\ \A v \in Workers : pc[v] # "idle"
      /\ cur \in [Workers -> Tasks \cup {None}]
      /\ transit \in [Workers -> Seq(Tasks)]
  BY DEF TypeOK
<1> USE <1>a DEF HandIsKnown, vars, allButPc, storeVars, scanVars,
          counterVars, closeVars, taskVars, Goto,
          WorkerPcs, PushPcs, LeavePcs, LeftPcs, Left, Home, Threads
<1>1. ASSUME NEW t \in Threads, PushStep(t)
      PROVE  HandIsKnown'
  <2>1. CASE Push(t)
    BY <2>1 DEF Push
  <2>2. CASE Flush(t)
    BY <2>2 DEF Flush
  <2>3. CASE PushFence(t)
    BY <2>3 DEF PushFence
  <2>4. CASE LoadParked(t)
    BY <2>4 DEF LoadParked
  <2>5. CASE LoadNotified(t)
    BY <2>5 DEF LoadNotified
  <2>6. CASE Notify(t)
    <3>1. \/ pc' = [pc EXCEPT ![t] = Home(t)]
          \/ \E w \in Workers : /\ pc[w] = "asleep"
                                /\ pc' = [pc EXCEPT ![t] = Home(t),
                                                    ![w] = "woken"]
      BY <2>6 DEF Notify, NotifyOne, Asleep, In
    <3>2. cur' = cur /\ transit' = transit
      BY <2>6 DEF Notify
    <3>3. CASE pc' = [pc EXCEPT ![t] = Home(t)]
      BY <2>6, <3>2, <3>3 DEF Notify
    <3>4. ASSUME NEW w \in Workers, pc[w] = "asleep",
                 pc' = [pc EXCEPT ![t] = Home(t), ![w] = "woken"]
          PROVE  HandIsKnown'
      BY <2>6, <3>2, <3>4 DEF Notify
    <3> QED BY <3>1, <3>3, <3>4
  <2> QED BY <1>1, <2>1, <2>2, <2>3, <2>4, <2>5, <2>6 DEF PushStep
<1>2. ASSUME NEW w \in Workers, ScanStep(w)
      PROVE  HandIsKnown'
  <2>1. CASE PopOwn(w)
    BY <2>1 DEF PopOwn, Holding
  <2>2. CASE BeginPass(w)
    BY <2>2 DEF BeginPass
  <2>3. CASE SkipVictim(w)
    BY <2>3 DEF SkipVictim, Visiting
  <2>4. CASE Retry(w)
    BY <2>4 DEF Retry, Visiting
  <2>5. CASE Steal(w)
    <3> DEFINE q == queue[Victim(w)]
    <3>1. PICK n \in 1 .. Len(q) :
            /\ cur' = [cur EXCEPT ![w] = Head(q)]
            /\ transit' = [transit EXCEPT ![w] = SubSeq(q, 2, n)]
            /\ pc' = [pc EXCEPT ![w] = IF n = 1 THEN Holding(w) ELSE "migrate"]
      BY <2>5 DEF Steal
    <3>2. q \in Seq(Tasks)
      <4>1. Victim(w) \in Places
        BY <2>5 DEF TypeOK, Steal, Visiting, Victim
      <4> QED BY <4>1 DEF TypeOK
    <3> HIDE DEF q
    <3>3. n = 1 => SubSeq(q, 2, n) = <<>>
      BY <3>2, SubSeqProperties
    <3>4. Holding(w) \in {"run", "found"}
      BY DEF Holding
    <3> QED BY <3>1, <3>3, <3>4
  <2>6. CASE Migrate(w)
    BY <2>6 DEF Migrate, Holding
  <2>7. CASE WalkAgain(w)
    BY <2>7 DEF WalkAgain, PassOver
  <2>8. CASE SpinOrArm(w)
    BY <2>8 DEF SpinOrArm, PassOver
  <2>9. CASE StrictEmpty(w)
    BY <2>9 DEF StrictEmpty, PassOver
  <2> QED BY <1>2, <2>1, <2>2, <2>3, <2>4, <2>5, <2>6, <2>7, <2>8, <2>9
          DEF ScanStep
<1>3. ASSUME NEW w \in Workers, ParkStep(w)
      PROVE  HandIsKnown'
  <2>1. CASE Arm(w)
    BY <2>1 DEF Arm
  <2>2. CASE ArmFence(w)
    BY <2>2 DEF ArmFence
  <2>3. CASE LoadShutdown(w)
    BY <2>3 DEF LoadShutdown
  <2>4. CASE Wait(w)
    BY <2>4 DEF Wait
  <2>5. CASE Reacquire(w)
    BY <2>5 DEF Reacquire
  <2>6. CASE ForgetSignal(w)
    BY <2>6 DEF ForgetSignal
  <2>7. CASE Leave(w)
    BY <2>7 DEF Leave
  <2> QED BY <1>3, <2>1, <2>2, <2>3, <2>4, <2>5, <2>6, <2>7 DEF ParkStep
<1>4. ASSUME NEW w \in Workers, LoopStep(w)
      PROVE  HandIsKnown'
  <2>1. CASE Register(w)
    BY <2>1 DEF Register
  <2>2. CASE Finish(w)
    BY <2>2 DEF Finish
  <2>3. CASE Panic(w)
    BY <2>3 DEF Panic
  <2> QED BY <1>4, <2>1, <2>2, <2>3 DEF LoopStep
<1>5. CASE SetShutdown
  BY <1>5 DEF SetShutdown
<1>6. CASE NotifyAll
  BY <1>6 DEF NotifyAll, Asleep, In
<1>7. CASE UNCHANGED vars
  BY <1>7
<1> QED BY <1>1, <1>2, <1>3, <1>4, <1>5, <1>6, <1>7 DEF Next, Joined

--------------------------------------------------------------------------------
(* A task stays in one place *)

\* Where a task is seen, it is and nowhere else.
LEMMA WhereIs ==
    ASSUME Alone, NEW task \in Tasks, NEW where, NEW of, At(task, where, of)
    PROVE  OnlyAt(task, where, of)
<1>1. PICK where1, of1 : OnlyAt(task, where1, of1)
  BY DEF Alone
<1> QED BY <1>1 DEF OnlyAt

\* A step leaves every task alone if each stays where it was or has one new place.
LEMMA MovedAlone ==
    ASSUME Alone,
           \A task \in Tasks :
              \/ \A where, of : At(task, where, of)' <=> At(task, where, of)
              \/ \E where, of : OnlyAt(task, where, of)'
    PROVE  Alone'
<1> SUFFICES ASSUME NEW task \in Tasks
             PROVE  \E where, of : OnlyAt(task, where, of)'
  BY DEF Alone
<1>1. PICK where, of : OnlyAt(task, where, of)
  BY DEF Alone
<1>2. CASE \A where1, of1 : At(task, where1, of1)' <=> At(task, where1, of1)
  BY <1>1, <1>2 DEF OnlyAt
<1> QED BY <1>2

\* The types of what the places are read from.
Stores ==
    /\ queue \in [Places -> Seq(Tasks)]
    /\ buffer \in [Threads -> [to : Places, task : Tasks] \cup {None}]
    /\ cur \in [Workers -> Tasks \cup {None}]
    /\ transit \in [Workers -> Seq(Tasks)]
    /\ fresh \subseteq Tasks /\ done \subseteq Tasks /\ lost \subseteq Tasks
    /\ \A w \in Workers : Deque(w) \in Places
    /\ Workers \subseteq Threads
    /\ None \notin Tasks
    /\ None \notin [to : Places, task : Tasks]

\* Type correctness and the assumptions on None give them.
LEMMA StoresHold == TypeOK => Stores
BY QueueAssumption DEF TypeOK, Stores, Places, Deques, Threads

\* Push: from the tasks not pushed yet to the buffer, which was empty.
LEMMA PushMoves ==
    ASSUME TypeOK, BufferIsLocal, Alone, NEW t \in Threads, Push(t)
    PROVE  Alone'
<1>1. PICK task \in fresh, to \in Places :
          /\ buffer' = [buffer EXCEPT ![t] = [to |-> to, task |-> task]]
          /\ fresh' = fresh \ {task}
  <2>1. PICK task \in fresh,
             to \in IF t \in Workers THEN {Deque(t)} ELSE Injectors :
               /\ buffer' = [buffer EXCEPT ![t] = [to |-> to, task |-> task]]
               /\ fresh' = fresh \ {task}
    BY DEF Push
  <2>2. to \in Places
    BY DEF Places, Deques
  <2> QED BY <2>1, <2>2
<1>2. /\ UNCHANGED <<queue, cur, transit, done, lost>>
      /\ buffer[t] = None
  BY DEF Push, storeVars, BufferIsLocal, Home
<1>3. Stores
  BY StoresHold
<1>4. OnlyAt(task, "fresh", None)
  BY <1>3, WhereIs DEF At, Stores
<1>5. buffer'[t] # None /\ buffer'[t].task = task
  BY <1>1, <1>3 DEF Stores
<1>6. \A u \in Threads : u # t => buffer'[u] = buffer[u]
  BY <1>1, <1>3 DEF Stores
<1>7. ASSUME NEW x \in Tasks \ {task}, NEW where, NEW of
      PROVE  At(x, where, of)' <=> At(x, where, of)
  BY <1>1, <1>2, <1>5, <1>6 DEF At
<1>8. OnlyAt(task, "buffer", t)'
  <2> SUFFICES ASSUME NEW where, NEW of
               PROVE  At(task, where, of)' <=> where = "buffer" /\ of = t
    BY DEF OnlyAt
  <2>1. where = "buffer" /\ of = t => At(task, where, of)'
    BY <1>5 DEF At
  <2>2. At(task, where, of)' => At(task, where, of) \/ (where = "buffer" /\ of = t)
    BY <1>1, <1>2, <1>6 DEF At
  <2>3. At(task, where, of) => where = "fresh" /\ of = None
    BY <1>4 DEF OnlyAt
  <2>4. ~At(task, "fresh", None)'
    BY <1>1 DEF At
  <2> QED BY <2>1, <2>2, <2>3, <2>4
<1> QED BY <1>7, <1>8, MovedAlone

\* Flush: from the buffer to the queue it is bound for.
LEMMA FlushMoves ==
    ASSUME TypeOK, NoneTwice, Alone, NEW t \in Threads, Flush(t)
    PROVE  NoneTwice' /\ Alone'
<1>1. Stores
  BY StoresHold
<1>2. PICK p \in Places, task \in Tasks :
      /\ buffer[t] # None /\ buffer[t].to = p /\ buffer[t].task = task
      /\ queue' = [queue EXCEPT ![p] = Append(@, task)]
      /\ buffer' = [buffer EXCEPT ![t] = None]
      /\ UNCHANGED <<cur, transit, fresh, done, lost>>
  BY <1>1 DEF Flush, taskVars, Stores
<1>3. OnlyAt(task, "buffer", t)
  BY <1>2, WhereIs DEF At
<1>4. task \notin Range(queue[p])
  <2>1. ~At(task, "queue", p)
    BY <1>3 DEF OnlyAt
  <2> QED BY <1>2, <2>1 DEF At
<1>5. /\ queue[p] \in Seq(Tasks) /\ NoRepeat(queue[p])
      /\ queue'[p] = Append(queue[p], task)
      /\ \A r \in Places : r # p => queue'[r] = queue[r]
  BY <1>1, <1>2 DEF Stores, NoneTwice
<1>6. Range(queue'[p]) = Range(queue[p]) \cup {task} /\ NoRepeat(queue'[p])
  BY <1>2, <1>4, <1>5, AppendAdds
<1>7. NoneTwice'
  BY <1>2, <1>5, <1>6 DEF NoneTwice
<1>8. /\ buffer'[t] = None
      /\ \A u \in Threads : u # t => buffer'[u] = buffer[u]
  BY <1>1, <1>2 DEF Stores
<1>9. ASSUME NEW x \in Tasks \ {task}, NEW where, NEW of
      PROVE  At(x, where, of)' <=> At(x, where, of)
  <2>1. x \in Range(queue'[p]) <=> x \in Range(queue[p])
    BY <1>6
  <2>2. ~At(x, "buffer", t)
    BY <1>2 DEF At
  <2> QED BY <1>2, <1>5, <1>8, <2>1, <2>2 DEF At
<1>10. OnlyAt(task, "queue", p)'
  <2> SUFFICES ASSUME NEW where, NEW of
               PROVE  At(task, where, of)' <=> where = "queue" /\ of = p
    BY DEF OnlyAt
  <2>1. where = "queue" /\ of = p => At(task, where, of)'
    BY <1>2, <1>6 DEF At
  <2>2. At(task, where, of)' => At(task, where, of) \/ (where = "queue" /\ of = p)
    BY <1>2, <1>5, <1>8 DEF At
  <2>3. At(task, where, of) => where = "buffer" /\ of = t
    BY <1>3 DEF OnlyAt
  <2>4. ~At(task, "buffer", t)'
    BY <1>8 DEF At
  <2> QED BY <2>1, <2>2, <2>3, <2>4
<1> QED BY <1>7, <1>9, <1>10, MovedAlone

\* PopOwn: from the worker's own deque to its hand, which was empty.
LEMMA PopMoves ==
    ASSUME TypeOK, HandIsKnown, NoneTwice, Alone, NEW w \in Workers, PopOwn(w)
    PROVE  NoneTwice' /\ Alone'
<1>1. Stores
  BY StoresHold
<1>2. PICK q \in Seq(Tasks), p \in Places :
        /\ p = Deque(w) /\ queue[p] = q /\ q # <<>>
        /\ cur' = [cur EXCEPT ![w] = Head(q)]
        /\ queue' = [queue EXCEPT ![p] = Tail(q)]
        /\ UNCHANGED <<buffer, transit, fresh, done, lost>>
  BY <1>1 DEF PopOwn, taskVars, Stores
<1>3. cur[w] = None
  BY DEF PopOwn, HandIsKnown, PushPcs
<1>4. /\ Head(q) \in Range(q) /\ Range(Tail(q)) = Range(q) \ {Head(q)}
      /\ NoRepeat(Tail(q))
  BY <1>2, TailTakes DEF NoneTwice
<1>5. PICK task \in Tasks : task = Head(q)
  BY <1>2
<1>6. OnlyAt(task, "queue", p)
  BY <1>2, <1>4, <1>5, WhereIs DEF At
<1>7. /\ queue'[p] = Tail(q)
      /\ \A r \in Places : r # p => queue'[r] = queue[r]
      /\ cur'[w] = task
      /\ \A v \in Workers : v # w => cur'[v] = cur[v]
  BY <1>1, <1>2, <1>5 DEF Stores
<1>8. NoneTwice'
  BY <1>2, <1>4, <1>7 DEF NoneTwice
<1>9. ASSUME NEW x \in Tasks \ {task}, NEW where, NEW of
      PROVE  At(x, where, of)' <=> At(x, where, of)
  <2>1. x \in Range(queue'[p]) <=> x \in Range(queue[p])
    BY <1>2, <1>4, <1>5, <1>7
  <2>2. x # None
    BY <1>1 DEF Stores
  <2> QED BY <1>2, <1>3, <1>7, <2>1, <2>2 DEF At
<1>10. OnlyAt(task, "hand", w)'
  <2> SUFFICES ASSUME NEW where, NEW of
               PROVE  At(task, where, of)' <=> where = "hand" /\ of = w
    BY DEF OnlyAt
  <2>1. where = "hand" /\ of = w => At(task, where, of)'
    BY <1>7 DEF At
  <2>2. task \in Range(queue'[p]) => task \in Range(queue[p])
    BY <1>2, <1>4, <1>7
  <2>3. At(task, where, of)' => At(task, where, of) \/ (where = "hand" /\ of = w)
    BY <1>2, <1>7, <2>2 DEF At
  <2>4. At(task, where, of) => where = "queue" /\ of = p
    BY <1>6 DEF OnlyAt
  <2>5. ~At(task, "queue", p)'
    BY <1>4, <1>5, <1>7 DEF At
  <2> QED BY <2>1, <2>3, <2>4, <2>5
<1> QED BY <1>8, <1>9, <1>10, MovedAlone

\* Steal: one from the victim's queue to the thief's hand, the others of the batch
\* to its transit, both of which were empty.
LEMMA StealMoves ==
    ASSUME TypeOK, HandIsKnown, NoneTwice, Alone, NEW w \in Workers, Steal(w)
    PROVE  NoneTwice' /\ Alone'
<1>1. Stores
  BY StoresHold
<1>a. Victim(w) \in Places /\ pc[w] = "probe"
  BY DEF TypeOK, Steal, Visiting, Victim
<1>2. PICK q \in Seq(Tasks), p \in Places, n \in Nat :
        /\ queue[p] = q /\ n \in 1 .. Len(q)
        /\ cur' = [cur EXCEPT ![w] = Head(q)]
        /\ transit' = [transit EXCEPT ![w] = SubSeq(q, 2, n)]
        /\ queue' = [queue EXCEPT ![p] = SubSeq(q, n + 1, Len(q))]
        /\ UNCHANGED <<buffer, fresh, done, lost>>
  <2> DEFINE v == queue[Victim(w)]
  <2>1. v \in Seq(Tasks) /\ v = queue[Victim(w)]
    BY <1>1, <1>a DEF Stores
  <2>2. PICK n \in 1 .. Len(v) :
          /\ cur' = [cur EXCEPT ![w] = Head(v)]
          /\ transit' = [transit EXCEPT ![w] = SubSeq(v, 2, n)]
          /\ queue' = [queue EXCEPT ![Victim(w)] = SubSeq(v, n + 1, Len(v))]
    BY DEF Steal
  <2>3. UNCHANGED <<buffer, fresh, done, lost>>
    BY DEF Steal, taskVars
  <2> HIDE DEF v
  <2>4. n \in Nat
    BY <2>1, <2>2
  <2> QED BY <1>a, <2>1, <2>2, <2>3, <2>4
<1>3. cur[w] = None /\ transit[w] = <<>>
  BY <1>a DEF HandIsKnown, PushPcs
<1> DEFINE B == Range(SubSeq(q, 2, n))
           R == Range(SubSeq(q, n + 1, Len(q)))
<1>4. /\ Head(q) \in Tasks /\ Head(q) \in Range(q)
      /\ B \subseteq Range(q) \ {Head(q)}
      /\ R = (Range(q) \ {Head(q)}) \ B
      /\ NoRepeat(SubSeq(q, 2, n)) /\ NoRepeat(SubSeq(q, n + 1, Len(q)))
  BY <1>2, StealDivides DEF NoneTwice
<1>5. PICK task \in Tasks : task = Head(q)
  BY <1>4
<1>6. \A x \in Tasks : x \in Range(q) => OnlyAt(x, "queue", p)
  BY <1>2, WhereIs DEF At
<1>7. /\ queue'[p] = SubSeq(q, n + 1, Len(q))
      /\ \A r \in Places : r # p => queue'[r] = queue[r]
      /\ cur'[w] = task
      /\ \A v \in Workers : v # w => cur'[v] = cur[v]
      /\ transit'[w] = SubSeq(q, 2, n)
      /\ \A v \in Workers : v # w => transit'[v] = transit[v]
  BY <1>1, <1>2, <1>5 DEF Stores
<1>8. NoneTwice'
  BY <1>4, <1>7 DEF NoneTwice
<1>b. Range(queue'[p]) = R /\ Range(transit'[w]) = B /\ Range(transit[w]) = {}
  BY <1>3, <1>7 DEF Range
<1> HIDE DEF B, R
<1>9. ASSUME NEW x \in Tasks, x # task, x \notin B, NEW where, NEW of
      PROVE  At(x, where, of)' <=> At(x, where, of)
  <2>1. x \in Range(queue'[p]) <=> x \in Range(queue[p])
    BY <1>2, <1>4, <1>5, <1>9, <1>b
  <2>2. x # None /\ x \notin Range(transit'[w]) /\ x \notin Range(transit[w])
    BY <1>1, <1>9, <1>b DEF Stores
  <2> QED BY <1>2, <1>3, <1>7, <1>9, <2>1, <2>2 DEF At
<1>10. OnlyAt(task, "hand", w)'
  <2> SUFFICES ASSUME NEW where, NEW of
               PROVE  At(task, where, of)' <=> where = "hand" /\ of = w
    BY DEF OnlyAt
  <2>1. where = "hand" /\ of = w => At(task, where, of)'
    BY <1>7 DEF At
  <2>2. task \notin Range(queue'[p]) /\ task \notin Range(transit'[w])
    BY <1>4, <1>5, <1>b
  <2>3. At(task, where, of)' => At(task, where, of) \/ (where = "hand" /\ of = w)
    BY <1>2, <1>7, <2>2 DEF At
  <2>4. At(task, where, of) => where = "queue" /\ of = p
    BY <1>4, <1>5, <1>6 DEF OnlyAt
  <2>5. ~At(task, "queue", p)'
    BY <2>2 DEF At
  <2> QED BY <2>1, <2>3, <2>4, <2>5
<1>11. ASSUME NEW x \in Tasks, x \in B
       PROVE  OnlyAt(x, "transit", w)'
  <2> SUFFICES ASSUME NEW where, NEW of
               PROVE  At(x, where, of)' <=> where = "transit" /\ of = w
    BY DEF OnlyAt
  <2>1. where = "transit" /\ of = w => At(x, where, of)'
    BY <1>11, <1>b DEF At
  <2>2. x # task /\ x \in Range(q) /\ x \notin Range(queue'[p])
    BY <1>4, <1>5, <1>11, <1>b
  <2>3. At(x, where, of)' => At(x, where, of) \/ (where = "transit" /\ of = w)
    BY <1>2, <1>7, <2>2 DEF At
  <2>4. At(x, where, of) => where = "queue" /\ of = p
    BY <1>6, <2>2 DEF OnlyAt
  <2>5. ~At(x, "queue", p)'
    BY <2>2 DEF At
  <2> QED BY <2>1, <2>3, <2>4, <2>5
<1> QED BY <1>8, <1>9, <1>10, <1>11, MovedAlone

\* Migrate: the batch from transit to the thief's deque.
LEMMA MigrateMoves ==
    ASSUME TypeOK, NoneTwice, Alone, NEW w \in Workers, Migrate(w)
    PROVE  NoneTwice' /\ Alone'
<1>1. Stores
  BY StoresHold
<1>2. PICK q \in Seq(Tasks), b \in Seq(Tasks), p \in Places :
        /\ p = Deque(w) /\ queue[p] = q /\ transit[w] = b
        /\ queue' = [queue EXCEPT ![p] = q \o b]
        /\ transit' = [transit EXCEPT ![w] = <<>>]
        /\ UNCHANGED <<buffer, cur, fresh, done, lost>>
  BY <1>1 DEF Migrate, taskVars, Stores
<1>3. \A x \in Tasks : x \in Range(b) => OnlyAt(x, "transit", w)
  BY <1>2, WhereIs DEF At
<1>4. Range(q) \subseteq Tasks /\ Range(b) \subseteq Tasks
  BY DEF Range
<1>5. Range(q) \cap Range(b) = {}
  <2> SUFFICES ASSUME NEW x \in Tasks, x \in Range(q), x \in Range(b)
               PROVE  FALSE
    BY <1>4
  <2>1. At(x, "queue", p)
    BY <1>2 DEF At
  <2> QED BY <1>3, <2>1 DEF OnlyAt
<1>6. Range(q \o b) = Range(q) \cup Range(b) /\ NoRepeat(q \o b)
  BY <1>2, <1>5, ConcatJoins DEF NoneTwice
<1>7. /\ queue'[p] = q \o b
      /\ \A r \in Places : r # p => queue'[r] = queue[r]
      /\ transit'[w] = <<>> /\ Range(transit'[w]) = {}
      /\ \A v \in Workers : v # w => transit'[v] = transit[v]
  BY <1>1, <1>2 DEF Stores, Range
<1>8. NoneTwice'
  <2>1. NoRepeat(<<>>)
    BY DEF NoRepeat
  <2> QED BY <1>6, <1>7, <2>1 DEF NoneTwice
<1>9. ASSUME NEW x \in Tasks, x \notin Range(b), NEW where, NEW of
      PROVE  At(x, where, of)' <=> At(x, where, of)
  <2>1. x \in Range(queue'[p]) <=> x \in Range(queue[p])
    BY <1>2, <1>6, <1>7, <1>9
  <2>2. x \notin Range(transit'[w]) /\ x \notin Range(transit[w])
    BY <1>2, <1>7, <1>9
  <2> QED BY <1>2, <1>7, <2>1, <2>2 DEF At
<1>10. ASSUME NEW x \in Tasks, x \in Range(b)
       PROVE  OnlyAt(x, "queue", p)'
  <2> SUFFICES ASSUME NEW where, NEW of
               PROVE  At(x, where, of)' <=> where = "queue" /\ of = p
    BY DEF OnlyAt
  <2>1. where = "queue" /\ of = p => At(x, where, of)'
    BY <1>6, <1>7, <1>10 DEF At
  <2>2. At(x, where, of)' => At(x, where, of) \/ (where = "queue" /\ of = p)
    BY <1>2, <1>7 DEF At
  <2>3. At(x, where, of) => where = "transit" /\ of = w
    BY <1>3, <1>10 DEF OnlyAt
  <2>4. ~At(x, "transit", w)'
    BY <1>7 DEF At
  <2> QED BY <2>1, <2>2, <2>3, <2>4
<1> QED BY <1>8, <1>9, <1>10, MovedAlone

\* Register: what the overwritten deque still held is dropped.
LEMMA RegisterMoves ==
    ASSUME TypeOK, NoneTwice, Alone, NEW w \in Workers, Register(w)
    PROVE  NoneTwice' /\ Alone'
<1>1. Stores
  BY StoresHold
<1>2. PICK q \in Seq(Tasks), p \in Places :
        /\ p = Deque(w) /\ queue[p] = q
        /\ queue' = [queue EXCEPT ![p] = <<>>]
        /\ lost' = lost \cup Range(q)
        /\ UNCHANGED <<buffer, cur, transit, fresh, done>>
  BY <1>1 DEF Register, Stores
<1>3. \A x \in Tasks : x \in Range(q) => OnlyAt(x, "queue", p)
  BY <1>2, WhereIs DEF At
<1>4. /\ queue'[p] = <<>> /\ Range(queue'[p]) = {}
      /\ \A r \in Places : r # p => queue'[r] = queue[r]
  BY <1>1, <1>2 DEF Stores, Range
<1>5. NoneTwice'
  <2>1. NoRepeat(<<>>)
    BY DEF NoRepeat
  <2> QED BY <1>2, <1>4, <2>1 DEF NoneTwice
<1>6. ASSUME NEW x \in Tasks, x \notin Range(q), NEW where, NEW of
      PROVE  At(x, where, of)' <=> At(x, where, of)
  <2>1. x \notin Range(queue'[p]) /\ x \notin Range(queue[p])
    BY <1>2, <1>4, <1>6
  <2> QED BY <1>2, <1>4, <1>6, <2>1 DEF At
<1>7. ASSUME NEW x \in Tasks, x \in Range(q)
      PROVE  OnlyAt(x, "lost", None)'
  <2> SUFFICES ASSUME NEW where, NEW of
               PROVE  At(x, where, of)' <=> where = "lost" /\ of = None
    BY DEF OnlyAt
  <2>1. where = "lost" /\ of = None => At(x, where, of)'
    BY <1>2, <1>7 DEF At
  <2>2. At(x, where, of)' => At(x, where, of) \/ (where = "lost" /\ of = None)
    BY <1>2, <1>4 DEF At
  <2>3. At(x, where, of) => where = "queue" /\ of = p
    BY <1>3, <1>7 DEF OnlyAt
  <2>4. ~At(x, "queue", p)'
    BY <1>4 DEF At
  <2> QED BY <2>1, <2>2, <2>3, <2>4
<1> QED BY <1>5, <1>6, <1>7, MovedAlone

\* Finish: what was in hand has run.
LEMMA FinishMoves ==
    ASSUME TypeOK, HandIsFull, Alone, NEW w \in Workers, Finish(w)
    PROVE  Alone'
<1>1. Stores
  BY StoresHold
<1>2. PICK task \in Tasks :
        /\ cur[w] = task
        /\ cur' = [cur EXCEPT ![w] = None]
        /\ done' = done \cup {task}
        /\ UNCHANGED <<queue, buffer, transit, fresh, lost>>
  <2>1. cur[w] \in Tasks
    BY <1>1 DEF Finish, HandIsFull, Stores
  <2> QED BY <2>1 DEF Finish
<1>3. OnlyAt(task, "hand", w)
  BY <1>2, WhereIs DEF At
<1>4. /\ cur'[w] = None /\ None \notin Tasks
      /\ \A v \in Workers : v # w => cur'[v] = cur[v]
  BY <1>1, <1>2 DEF Stores
<1>5. ASSUME NEW x \in Tasks \ {task}, NEW where, NEW of
      PROVE  At(x, where, of)' <=> At(x, where, of)
  BY <1>2, <1>4 DEF At
<1>6. OnlyAt(task, "done", None)'
  <2> SUFFICES ASSUME NEW where, NEW of
               PROVE  At(task, where, of)' <=> where = "done" /\ of = None
    BY DEF OnlyAt
  <2>1. where = "done" /\ of = None => At(task, where, of)'
    BY <1>2 DEF At
  <2>2. At(task, where, of)' => At(task, where, of) \/ (where = "done" /\ of = None)
    BY <1>2, <1>4 DEF At
  <2>3. At(task, where, of) => where = "hand" /\ of = w
    BY <1>3 DEF OnlyAt
  <2>4. ~At(task, "hand", w)'
    BY <1>4 DEF At
  <2> QED BY <2>1, <2>2, <2>3, <2>4
<1> QED BY <1>5, <1>6, MovedAlone

\* Every step keeps each task in one place.
LEMMA PlaceStep ==
    IInv /\ PlaceInv /\ [Next]_vars => PlaceInv'
<1> SUFFICES ASSUME IInv, PlaceInv, [Next]_vars PROVE PlaceInv'
  OBVIOUS
<1>1. /\ TypeOK /\ HandIsFull /\ BufferIsLocal
      /\ HandIsKnown /\ NoneTwice /\ Alone
  BY DEF IInv, ControlInv, PlaceInv
<1>2. HandIsKnown'
  BY <1>1, HandKnownStep
<1>3. CASE UNCHANGED <<queue, buffer, cur, transit, fresh, done, lost>>
  <2>1. NoneTwice'
    BY <1>1, <1>3 DEF NoneTwice
  <2>2. \A task \in Tasks : \A where, of : At(task, where, of)' <=> At(task, where, of)
    BY <1>3 DEF At
  <2> QED BY <1>1, <1>2, <2>1, <2>2, MovedAlone DEF PlaceInv
<1>4. ASSUME NEW t \in Threads, Push(t) PROVE PlaceInv'
  <2>1. NoneTwice'
    BY <1>1, <1>4 DEF NoneTwice, Push
  <2> QED BY <1>1, <1>2, <1>4, <2>1, PushMoves DEF PlaceInv
<1>5. ASSUME NEW t \in Threads, Flush(t) PROVE PlaceInv'
  BY <1>1, <1>2, <1>5, FlushMoves DEF PlaceInv
<1>6. ASSUME NEW w \in Workers, PopOwn(w) \/ Steal(w) \/ Migrate(w) \/ Register(w)
      PROVE  PlaceInv'
  BY <1>1, <1>2, <1>6, PopMoves, StealMoves, MigrateMoves, RegisterMoves
     DEF PlaceInv
<1>7. ASSUME NEW w \in Workers, Finish(w) PROVE PlaceInv'
  <2>1. NoneTwice'
    BY <1>1, <1>7 DEF NoneTwice, Finish
  <2> QED BY <1>1, <1>2, <1>7, <2>1, FinishMoves DEF PlaceInv
<1>8. ASSUME NEW w \in Workers, Leave(w) \/ Panic(w) PROVE PlaceInv'
  BY <1>3, <1>8 DEF Leave, Panic, storeVars, taskVars
<1>9. CASE SetShutdown
  BY <1>3, <1>9 DEF SetShutdown, storeVars, taskVars
<1>10. CASE Quiet
  BY <1>3, <1>10 DEF Quiet
<1> QED BY <1>1, <1>4, <1>5, <1>6, <1>7, <1>8, <1>9, <1>10, StepKinds

\* At first no task has been pushed.
LEMMA PlaceInit ==
    Init => PlaceInv
<1> SUFFICES ASSUME Init PROVE PlaceInv
  OBVIOUS
<1>1. /\ \A p \in Places : queue[p] = <<>>
      /\ \A w \in Workers : transit[w] = <<>> /\ cur[w] = None
      /\ \A t \in Threads : buffer[t] = None
      /\ fresh = Tasks /\ done = {} /\ lost = {}
  BY DEF Init
<1>2. NoRepeat(<<>>) /\ \A x : x \notin Range(<<>>)
  BY DEF NoRepeat, Range
<1>3. HandIsKnown /\ NoneTwice
  BY <1>1, <1>2 DEF HandIsKnown, NoneTwice
<1>4. None \notin Tasks
  BY QueueAssumption
<1>5. \A task \in Tasks : OnlyAt(task, "fresh", None)
  BY <1>1, <1>2, <1>4 DEF OnlyAt, At
<1> QED BY <1>3, <1>5 DEF PlaceInv, Alone

--------------------------------------------------------------------------------
(* The refinement *)

\* The tasks that wait in the abstract pool.
Enqueued == Tasks \ (fresh \cup done \cup lost \cup InHand)

\* They are those in a buffer, a queue or a batch.
LEMMA EnqueuedIs ==
    ASSUME TypeOK, Alone, NEW task \in Tasks
    PROVE  task \in Enqueued <=>
             \/ \E t \in Threads : At(task, "buffer", t)
             \/ \E p \in Places : At(task, "queue", p)
             \/ \E w \in Workers : At(task, "transit", w)
<1>1. PICK where, of : OnlyAt(task, where, of)
  BY DEF Alone
<1>2. At(task, where, of)
  BY <1>1 DEF OnlyAt
<1>3. task # None
  BY StoresHold DEF Stores
<1>4. /\ task \in fresh <=> At(task, "fresh", None)
      /\ task \in done <=> At(task, "done", None)
      /\ task \in lost <=> At(task, "lost", None)
      /\ task \in InHand <=> \E w \in Workers : At(task, "hand", w)
  BY <1>3 DEF At, InHand
<1>5. \/ where \in {"fresh", "done", "lost"} /\ of = None
      \/ where = "hand" /\ of \in Workers
      \/ where = "buffer" /\ of \in Threads
      \/ where = "queue" /\ of \in Places
      \/ where = "transit" /\ of \in Workers
  BY <1>2 DEF At
<1>6. ASSUME task \in Enqueued
      PROVE  \/ \E t \in Threads : At(task, "buffer", t)
             \/ \E p \in Places : At(task, "queue", p)
             \/ \E w \in Workers : At(task, "transit", w)
  BY <1>2, <1>4, <1>5, <1>6 DEF Enqueued
<1>7. ASSUME NEW where1 \in {"buffer", "queue", "transit"}, NEW of1,
             At(task, where1, of1)
      PROVE  task \in Enqueued
  BY <1>1, <1>4, <1>7 DEF OnlyAt, Enqueued
<1> QED BY <1>6, <1>7

\* Push submits.
LEMMA PushSubmits ==
    ASSUME TypeOK, Alone, NEW t \in Threads, Push(t)
    PROVE  Pool!Submit
<1>1. PICK task \in fresh : fresh' = fresh \ {task}
  BY DEF Push
<1>2. Stores /\ UNCHANGED <<cur, done, lost, shutdown>> /\ ~shutdown
  BY StoresHold DEF Push, closeVars
<1>3. OnlyAt(task, "fresh", None)
  BY <1>1, <1>2, WhereIs DEF At, Stores
<1>4. task \in Tasks /\ task \notin done \cup lost \cup InHand
  <2>1. /\ ~At(task, "done", None) /\ ~At(task, "lost", None)
        /\ \A w \in Workers : ~At(task, "hand", w)
    BY <1>3 DEF OnlyAt
  <2> QED BY <1>2, <2>1 DEF At, InHand, Stores
<1>5. InHand' = InHand
  BY <1>2 DEF InHand
<1>6. Enqueued' = Enqueued \cup {task} /\ task \notin Enqueued
  BY <1>1, <1>2, <1>4, <1>5 DEF Enqueued, Stores
<1>7. In({"exited"})' = In({"exited"}) /\ In({"register"})' = In({"register"})
  <2>1. pc \in [Threads -> WorkerPcs \cup PushPcs \cup {"idle"}] /\ Workers \subseteq Threads
    BY DEF TypeOK, Threads
  <2> QED BY <2>1 DEF Push, Goto, In, Home
<1> QED BY <1>2, <1>4, <1>6, <1>7 DEF Pool!Submit, Pool!Known, Pool!Taken,
       Enqueued, InHand

\* A pop or a steal takes.
LEMMA TakeTakes ==
    ASSUME TypeOK, PlaceInv, NEW w \in Workers, PopOwn(w) \/ Steal(w)
    PROVE  Pool!Take(w)
<1>1. PICK p \in Places, task \in Tasks :
         task \in Range(queue[p]) /\ cur' = [cur EXCEPT ![w] = task]
  <2>1. ASSUME NEW q \in Seq(Tasks), q # <<>>
        PROVE  Head(q) \in Tasks /\ Head(q) \in Range(q)
    BY <2>1 DEF Range
  <2>2. CASE PopOwn(w)
    BY <2>1, <2>2, StoresHold DEF PopOwn, Stores
  <2>3. CASE Steal(w)
    <3>1. Victim(w) \in Places /\ queue[Victim(w)] # <<>>
      BY <2>3 DEF TypeOK, Steal, Visiting, Victim, Stealable
    <3>2. queue[Victim(w)] \in Seq(Tasks)
      BY <3>1 DEF TypeOK
    <3>3. cur' = [cur EXCEPT ![w] = Head(queue[Victim(w)])]
      BY <2>3 DEF Steal
    <3> QED BY <2>1, <3>1, <3>2, <3>3
  <2> QED BY <2>2, <2>3
<1>2. /\ UNCHANGED <<done, lost, fresh, shutdown>>
      /\ pc[w] \in {"scan", "probe"}
      /\ \E label \in {"run", "found", "migrate"} : pc' = [pc EXCEPT ![w] = label]
  BY DEF PopOwn, Steal, Visiting, Holding, Goto, taskVars, closeVars
<1>3. Stores
  BY StoresHold
<1>4. cur[w] = None
  BY <1>2 DEF PlaceInv, HandIsKnown, PushPcs
<1>5. task \in Enqueued
  BY <1>1, <1>3, EnqueuedIs DEF PlaceInv, At
<1>6. InHand' = InHand \cup {task}
  <2>1. cur'[w] = task /\ task # None
    BY <1>1, <1>3 DEF Stores
  <2>2. \A v \in Workers : v # w => cur'[v] = cur[v]
    BY <1>1, <1>3 DEF Stores
  <2> QED BY <1>4, <2>1, <2>2 DEF InHand
<1>7. Enqueued' = Enqueued \ {task}
  BY <1>2, <1>6 DEF Enqueued
<1>8. /\ In({"exited"})' = In({"exited"}) /\ In({"register"})' = In({"register"})
      /\ w \notin In({"exited"}) \cup In({"register"})
  <2>1. pc \in [Threads -> WorkerPcs \cup PushPcs \cup {"idle"}] /\ Workers \subseteq Threads
    BY DEF TypeOK, Threads
  <2> QED BY <1>2, <2>1 DEF In
<1> QED BY <1>1, <1>2, <1>4, <1>5, <1>7, <1>8 DEF Pool!Take, Enqueued

\* A worker that unwinds has nothing in hand.
LEMMA PanicDies ==
    ASSUME TypeOK, HandIsKnown, NEW w \in Workers, Panic(w)
    PROVE  Pool!Die(w)
<1>1. /\ UNCHANGED <<cur, fresh, done, lost, shutdown>>
      /\ pc[w] = "scan" /\ pc' = [pc EXCEPT ![w] = "register"]
  BY DEF Panic, Goto, storeVars, closeVars
<1>2. cur[w] = None
  BY <1>1 DEF HandIsKnown, PushPcs
<1>3. /\ In({"register"})' = In({"register"}) \cup {w}
      /\ In({"exited"})' = In({"exited"})
      /\ w \notin In({"register"}) \cup In({"exited"})
  <2>1. pc \in [Threads -> WorkerPcs \cup PushPcs \cup {"idle"}] /\ Workers \subseteq Threads
    BY DEF TypeOK, Threads
  <2> QED BY <1>1, <2>1 DEF In
<1> QED BY <1>1, <1>2, <1>3 DEF Pool!Die, InHand

\* The runnable returns.
LEMMA FinishFinishes ==
    ASSUME TypeOK, HandIsFull, NEW w \in Workers, Finish(w)
    PROVE  Pool!Finish(w)
<1>1. /\ cur' = [cur EXCEPT ![w] = None] /\ done' = done \cup {cur[w]}
      /\ UNCHANGED <<fresh, lost, shutdown>>
      /\ pc[w] = "run"
      /\ pc' = [pc EXCEPT ![w] = "scan"]
  BY DEF Finish, Goto, closeVars
<1>2. Stores /\ cur[w] # None
  BY <1>1, StoresHold DEF HandIsFull
<1>3. InHand' \cup {cur[w]} = InHand /\ InHand' \subseteq InHand
  <2>1. cur'[w] = None /\ \A v \in Workers : v # w => cur'[v] = cur[v]
    BY <1>1, <1>2 DEF Stores
  <2> QED BY <1>2, <2>1 DEF InHand
<1>4. Enqueued' = Enqueued
  BY <1>1, <1>3 DEF Enqueued
<1>5. /\ In({"exited"})' = In({"exited"})
      /\ In({"register"})' = In({"register"})
  <2>1. pc \in [Threads -> WorkerPcs \cup PushPcs \cup {"idle"}] /\ Workers \subseteq Threads
    BY DEF TypeOK, Threads
  <2> QED BY <1>1, <2>1 DEF In
<1> QED BY <1>1, <1>2, <1>4, <1>5 DEF Pool!Finish, Enqueued

\* A replacement overwrites the slot of the dead worker.
LEMMA RegisterReplaces ==
    ASSUME TypeOK, Alone, NEW w \in Workers, Register(w)
    PROVE  Pool!Replace(w)
<1> DEFINE gone == Range(queue[Deque(w)])
<1>1. /\ lost' = lost \cup gone
      /\ UNCHANGED <<cur, fresh, done, shutdown>>
      /\ pc[w] = "register" /\ pc' = [pc EXCEPT ![w] = "scan"]
  BY DEF Register, Goto, closeVars
<1>2. gone \subseteq Enqueued
  <2>1. Stores
    BY StoresHold
  <2>2. gone \subseteq Tasks
    BY <2>1 DEF Stores, Range
  <2>3. \A x \in gone : At(x, "queue", Deque(w))
    BY <2>1 DEF At, Stores
  <2> QED BY <2>1, <2>2, <2>3, EnqueuedIs DEF Stores
<1> HIDE DEF gone
<1>3. Enqueued' = Enqueued \ gone
  BY <1>1 DEF Enqueued, InHand
<1>4. /\ In({"exited"})' = In({"exited"})
      /\ w \in In({"register"}) /\ In({"register"})' = In({"register"}) \ {w}
  <2>1. pc \in [Threads -> WorkerPcs \cup PushPcs \cup {"idle"}] /\ Workers \subseteq Threads
    BY DEF TypeOK, Threads
  <2> QED BY <1>1, <2>1 DEF In
<1> QED BY <1>1, <1>2, <1>3, <1>4 DEF Pool!Replace, Enqueued

\* A worker exits; if it is the last one, nothing waits.
LEMMA LeaveRetires ==
    ASSUME IInv, IInv', PlaceInv,
           NEW w \in Workers, pc[w] = "quitLeft", Leave(w)
    PROVE  Pool!Retire(w)
<1>1. TypeOK /\ ShutdownIsLate /\ BufferIsLocal
  BY DEF IInv, ControlInv
<1>2. /\ UNCHANGED <<queue, buffer, cur, transit, fresh, done, lost, shutdown>>
      /\ pc' = [pc EXCEPT ![w] = "exited"]
  BY DEF Leave, Goto, storeVars, taskVars, closeVars
<1>3. /\ pc \in [Threads -> WorkerPcs \cup PushPcs \cup {"idle"}]
      /\ Workers \subseteq Threads
  BY <1>1 DEF TypeOK, Threads
<1>4. shutdown
  BY <1>1 DEF ShutdownIsLate, In
<1>5. cur[w] = None
  BY DEF PlaceInv, HandIsKnown, PushPcs
<1>6. Enqueued' = Enqueued
  BY <1>2 DEF Enqueued, InHand
<1>7. /\ In({"exited"})' = In({"exited"}) \cup {w}
      /\ In({"register"})' = In({"register"})
      /\ w \notin In({"exited"}) \cup In({"register"})
  BY <1>2, <1>3 DEF In
<1>8. ASSUME In({"exited"})' = Workers PROVE Enqueued = {}
  <2>1. \A v \in Workers : pc'[v] = "exited"
    BY <1>8 DEF In
  <2>2. \A t \in Threads : pc[t] \notin PushPcs /\ pc'[t] \notin PushPcs
    BY <1>1, <1>2, <1>3, <1>4 DEF ShutdownIsLate, PushPcs
  <2>3. Idle'
    BY <2>1, <2>2 DEF Idle
  <2>4. \A p \in Places : queue[p] = <<>>
    <3>1. NoLostWakeup'
      BY NothingMissed, PTL
    <3> QED BY <1>2, <2>3, <3>1 DEF NoLostWakeup
  <2>5. \A v \in Workers : transit[v] = <<>>
    <3>1. \A v \in Workers : pc[v] \in {"exited", "quitLeft"}
      BY <1>2, <1>3, <2>1
    <3> QED BY <3>1 DEF PlaceInv, HandIsKnown
  <2>6. \A t \in Threads : buffer[t] = None
    BY <1>1, <2>2 DEF BufferIsLocal, PushPcs
  <2>7. \A x : x \notin Range(<<>>)
    BY DEF Range
  <2>8. \A x \in Tasks : x \notin Enqueued
    BY <1>1, <2>4, <2>5, <2>6, <2>7, EnqueuedIs DEF PlaceInv, At
  <2> QED BY <2>8 DEF Enqueued
<1> QED BY <1>2, <1>4, <1>5, <1>6, <1>7, <1>8 DEF Pool!Retire, Enqueued

\* Every step is a step of the abstract pool or changes nothing in it.
LEMMA PoolStep ==
    IInv /\ IInv' /\ PlaceInv /\ [Next]_vars => [Pool!Next]_(Pool!vars)
<1> SUFFICES ASSUME IInv, IInv', PlaceInv, [Next]_vars
             PROVE  Pool!Next \/ UNCHANGED Pool!vars
  OBVIOUS
<1>1. TypeOK /\ HandIsFull /\ HandIsKnown /\ Alone
  BY DEF IInv, ControlInv, PlaceInv
<1>2. ASSUME NEW t \in Threads, Push(t) PROVE Pool!Next
  BY <1>1, <1>2, PushSubmits DEF Pool!Next
<1>3. ASSUME NEW t \in Threads, Flush(t) PROVE UNCHANGED Pool!vars
  BY <1>3 DEF Flush, closeVars, taskVars, Pool!vars, InHand, In
<1>4. ASSUME NEW w \in Workers, PopOwn(w) \/ Steal(w) PROVE Pool!Next
  BY <1>1, <1>4, TakeTakes DEF Pool!Next
<1>5. ASSUME NEW w \in Workers, Migrate(w) PROVE UNCHANGED Pool!vars
  <2>1. UNCHANGED <<cur, fresh, done, lost, shutdown>>
    BY <1>5 DEF Migrate, closeVars, taskVars
  <2>2. In({"exited"})' = In({"exited"}) /\ In({"register"})' = In({"register"})
    <3>1. pc \in [Threads -> WorkerPcs \cup PushPcs \cup {"idle"}] /\ Workers \subseteq Threads
      BY <1>1 DEF TypeOK, Threads
    <3> QED BY <1>5, <3>1 DEF Migrate, Goto, Holding, In
  <2> QED BY <2>1, <2>2 DEF Pool!vars, InHand
<1>6. ASSUME NEW w \in Workers, Register(w) PROVE Pool!Next
  BY <1>1, <1>6, RegisterReplaces DEF Pool!Next
<1>7. ASSUME NEW w \in Workers, Finish(w) \/ Panic(w) PROVE Pool!Next
  BY <1>1, <1>7, FinishFinishes, PanicDies DEF Pool!Next
<1>8. ASSUME NEW w \in Workers, pc[w] = "quitLeft", Leave(w) PROVE Pool!Next
  BY <1>8, LeaveRetires DEF Pool!Next
<1>9. CASE SetShutdown
  <2>1. Pool!Close
    BY <1>9 DEF SetShutdown, storeVars, taskVars, Pool!Close, InHand, In
  <2> QED BY <2>1 DEF Pool!Next
<1>10. CASE Quiet
  BY <1>10 DEF Quiet, Pool!vars, InHand
<1> QED BY <1>1, <1>2, <1>3, <1>4, <1>5, <1>6, <1>7, <1>8, <1>9, <1>10, StepKinds

\* Nothing is submitted, taken or retired at first.
LEMMA PoolInit ==
    Init => Pool!Init
<1> SUFFICES ASSUME Init PROVE Pool!Init
  OBVIOUS
<1>1. /\ cur = [w \in Workers |-> None]
      /\ fresh = Tasks /\ done = {} /\ lost = {} /\ shutdown = FALSE
      /\ \A w \in Workers : pc[w] = "register"
  BY DEF Init, Threads
<1>2. In({"exited"}) = {} /\ In({"register"}) \subseteq Workers
  BY <1>1 DEF In
<1> QED BY <1>1, <1>2 DEF Pool!Init

\* Queue implements TaskPool: each pushed runnable is taken by one worker, once,
\* and run, it is lost only with the deque of a dead worker, and the last worker
\* of a dropped pool exits only when nothing is queued or in flight.
THEOREM ImplementsPool == Spec => ImplementsTaskPool
<1>1. Spec => []PlaceInv
  BY Invariance, PlaceInit, PlaceStep, PTL DEF Spec
<1> QED BY Invariance, <1>1, PoolInit, PoolStep, PTL
        DEF Spec, ImplementsTaskPool, Pool!Spec

================================================================================

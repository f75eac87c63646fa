---------------------------- MODULE TaskLifeProofs ----------------------------
(***************************************************************************)
(* TaskLife's properties for every number of calls, callers, workers and   *)
(* lost runnables: IInv is inductive, so a SpawnFuture's closure is over   *)
(* before its future is and no waker is lost; and every step of TaskLife   *)
(* is one of CallContract or a stutter.  That drops return and awaited     *)
(* calls are woken is liveness and left to TLC.                            *)
(***************************************************************************)
EXTENDS TaskLife, TLAPS

\* The steps of a thread that is inside the library with a call, and those of a
\* worker that has a runnable: both have a call to work on.
LEMMA AtCall ==
    ASSUME TypeOK
    PROVE  /\ \A t \in Callers : pc[t] # "idle" => at[t] \in Calls
           /\ \A w \in Workers : work[w] # "idle" => hand[w] \in Calls
BY DEF TypeOK

\* A waker that is called leaves the types alone; a thread's token stays or is
\* set, a task that is still pending was so before and is not the one woken.
LEMMA WokenBy ==
    ASSUME TypeOK, NEW c \in Calls, NEW who, Woken(c, who)
    PROVE  /\ awaited' \in [Calls -> {"fresh", "pending", "woken"}]
           /\ token' \in [Callers -> BOOLEAN]
           /\ \A t \in Callers : token[t] \/ t = who => token'[t]
           /\ \A d \in Calls : awaited'[d] = "pending" =>
                 awaited[d] = "pending" /\ ~(d = c /\ who = "task")
BY DEF TypeOK, Woken

\* The same of set_canceled, which calls the registered waker or does nothing.
LEMMA NotifiedBy ==
    ASSUME TypeOK, NEW c \in Calls, NotifyIfOpen(c)
    PROVE  /\ awaiter' \in [Calls -> {"nobody", "task"} \cup Callers]
           /\ awaited' \in [Calls -> {"fresh", "pending", "woken"}]
           /\ token' \in [Callers -> BOOLEAN]
           /\ \A t \in Callers :
                 token[t] \/ (t = awaiter[c] /\ ~Over(c)) => token'[t]
           /\ \A d \in Calls : awaited'[d] = "pending" =>
                 /\ awaited[d] = "pending"
                 /\ ~(d = c /\ awaiter[c] = "task" /\ ~Over(c))
           /\ \A d \in Calls : awaiter'[d] = awaiter[d] \/ (d = c /\ ~Over(c))
<1>1. CASE Over(c)
  BY <1>1 DEF NotifyIfOpen, TypeOK
<1>2. CASE ~Over(c)
  <2>1. Woken(c, awaiter[c]) /\ awaiter' = [awaiter EXCEPT ![c] = "nobody"]
    BY <1>2 DEF NotifyIfOpen, Notify
  <2> QED BY <1>2, <2>1, WokenBy DEF TypeOK
<1> QED BY <1>1, <1>2

--------------------------------------------------------------------------------
(* Types *)

\* Every step of callers and workers keeps the types.
LEMMA TypeStep ==
    ASSUME TypeOK, [Next]_vars
    PROVE  TypeOK'
<1> USE TaskLifeAssumption
    DEF TypeOK, headerVars, callVars, threadVars, poolVars, Outcomes
<1>1. ASSUME NEW c \in Calls, Spawn(c)
      PROVE  TypeOK'
  BY <1>1 DEF Spawn
<1>2. ASSUME NEW c \in Calls, SpawnLocal(c)
      PROVE  TypeOK'
  BY <1>2 DEF SpawnLocal
<1>3. ASSUME NEW c \in Calls, Lose(c)
      PROVE  TypeOK'
  BY <1>3 DEF Lose, Notify, Woken
<1>4. ASSUME NEW t \in Callers, NEW c \in Calls, BeginPoll(t, c)
      PROVE  TypeOK'
  BY <1>4 DEF BeginPoll, Enter
<1>5. ASSUME NEW t \in Callers, PollPending(t)
      PROVE  TypeOK'
  BY <1>5, AtCall DEF PollPending, Return
<1>6. ASSUME NEW t \in Callers, PollReady(t)
      PROVE  TypeOK'
  BY <1>6, AtCall DEF PollReady, CloseWith, Return
<1>7. ASSUME NEW t \in Callers, PollLost(t)
      PROVE  TypeOK'
  BY <1>7, AtCall DEF PollLost, Return, Enter
<1>8. ASSUME NEW t \in Callers, NEW c \in Calls, DropUnpolled(t, c)
      PROVE  TypeOK'
  BY <1>8 DEF DropUnpolled
<1>9. ASSUME NEW t \in Callers, NEW c \in Calls, DropJoinHandle(t, c)
      PROVE  TypeOK'
  BY <1>9, NotifiedBy DEF DropJoinHandle, CloseWith
<1>10. ASSUME NEW t \in Callers, NEW c \in Calls, DropSpawnFuture(t, c)
       PROVE  TypeOK'
  BY <1>10 DEF DropSpawnFuture, Enter
<1>11. ASSUME NEW t \in Callers, SetCanceled(t)
       PROVE  TypeOK'
  BY <1>11, AtCall, NotifiedBy DEF SetCanceled
<1>12. ASSUME NEW t \in Callers, CancelPending(t)
       PROVE  TypeOK'
  BY <1>12, AtCall DEF CancelPending
<1>13. ASSUME NEW t \in Callers, CancelReady(t)
       PROVE  TypeOK'
  BY <1>13, AtCall DEF CancelReady, CloseWith, Woken, Return
<1>14. ASSUME NEW t \in Callers, Unpark(t) \/ SpuriousUnpark(t)
       PROVE  TypeOK'
  <2>1. CASE Unpark(t)
    BY <2>1 DEF Unpark
  <2>2. CASE SpuriousUnpark(t)
    BY <2>2 DEF SpuriousUnpark
  <2> QED BY <1>14, <2>1, <2>2
<1>15. ASSUME NEW w \in Workers, NEW c \in Calls, Take(w, c)
       PROVE  TypeOK'
  BY <1>15 DEF Take
<1>16. ASSUME NEW w \in Workers, RunClosed(w)
       PROVE  TypeOK'
  BY <1>16, AtCall DEF RunClosed, TakeWaker
<1>17. ASSUME NEW w \in Workers, RunStart(w)
       PROVE  TypeOK'
  BY <1>17, AtCall DEF RunStart
<1>18. ASSUME NEW w \in Workers, RunEnd(w)
       PROVE  TypeOK'
  BY <1>18, AtCall DEF RunEnd
<1>19. ASSUME NEW w \in Workers, Wake(w)
       PROVE  TypeOK'
  BY <1>19, AtCall DEF Wake, Woken
<1>20. ASSUME NEW w \in Workers, Settle(w)
       PROVE  TypeOK'
  BY <1>20, AtCall DEF Settle, TakeWaker
<1>21. CASE UNCHANGED vars
  BY <1>21 DEF vars
<1> QED BY <1>1, <1>2, <1>3, <1>4, <1>5, <1>6, <1>7, <1>8, <1>9, <1>10, <1>11,
           <1>12, <1>13, <1>14, <1>15, <1>16, <1>17, <1>18, <1>19, <1>20, <1>21
        DEF Next, PollStep, CancelStep, CallStep, WorkStep, AllGone

--------------------------------------------------------------------------------
(* Where the runnable is *)

\* A runnable's place and its task's phase change together.
LEMMA RunnableStep ==
    ASSUME TypeOK, RunnableMatches, HandMatches, InLibrary, [Next]_vars
    PROVE  RunnableMatches'
<1>a. /\ phase \in [Calls -> {"new", "scheduled", "running", "completed", "dropped"}]
      /\ future \in [Calls -> {"none", "unpolled", "live", "answered", "dropped"}]
      /\ runnable \in [Calls -> {"none", "held", "queued", "taken", "gone"}]
  BY DEF TypeOK
<1>b. /\ \A t \in Callers : pc[t] # "idle" => at[t] \in Calls
      /\ \A w \in Workers : work[w] # "idle" => hand[w] \in Calls
  BY AtCall
<1> USE <1>a, <1>b DEF RunnableMatches, Over, headerVars, callVars, threadVars, poolVars
<1>1. ASSUME NEW c \in Calls, Spawn(c)
      PROVE  RunnableMatches'
  BY <1>1 DEF Spawn
<1>2. ASSUME NEW c \in Calls, SpawnLocal(c)
      PROVE  RunnableMatches'
  BY <1>2 DEF SpawnLocal
<1>3. ASSUME NEW c \in Calls, Lose(c)
      PROVE  RunnableMatches'
  BY <1>3 DEF Lose
<1>4. ASSUME NEW t \in Callers, NEW c \in Calls, BeginPoll(t, c)
      PROVE  RunnableMatches'
  BY <1>4 DEF BeginPoll
<1>5. ASSUME NEW t \in Callers, PollReady(t)
      PROVE  RunnableMatches'
  BY <1>5 DEF PollReady, InLibrary
<1>6. ASSUME NEW t \in Callers, PollLost(t)
      PROVE  RunnableMatches'
  BY <1>6 DEF PollLost, InLibrary
<1>7. ASSUME NEW t \in Callers, NEW c \in Calls, DropUnpolled(t, c)
      PROVE  RunnableMatches'
  BY <1>7 DEF DropUnpolled
<1>8. ASSUME NEW t \in Callers, NEW c \in Calls, DropJoinHandle(t, c)
      PROVE  RunnableMatches'
  BY <1>8 DEF DropJoinHandle
<1>9. ASSUME NEW t \in Callers, CancelReady(t)
      PROVE  RunnableMatches'
  BY <1>9 DEF CancelReady, InLibrary
<1>10. ASSUME NEW w \in Workers, NEW c \in Calls, Take(w, c)
       PROVE  RunnableMatches'
  BY <1>10 DEF Take
<1>11. ASSUME NEW w \in Workers, RunClosed(w) \/ RunEnd(w)
       PROVE  RunnableMatches'
  BY <1>11 DEF RunClosed, RunEnd, TakeWaker, HandMatches, Busy
<1>12. ASSUME NEW w \in Workers, RunStart(w)
       PROVE  RunnableMatches'
  BY <1>12 DEF RunStart, HandMatches, Busy
<1>13. CASE UNCHANGED <<runnable, future, phase>>
  BY <1>13
<1> QED BY <1>1, <1>2, <1>3, <1>4, <1>5, <1>6, <1>7, <1>8, <1>9, <1>10, <1>11,
           <1>12, <1>13
        DEF Next, PollStep, CancelStep, CallStep, WorkStep, AllGone, PollPending,
            DropSpawnFuture, SetCanceled, CancelPending, Unpark, SpuriousUnpark,
            Settle, TakeWaker, Wake, vars

\* A worker gets a queued runnable to itself and keeps it until it has stopped.
LEMMA HandStep ==
    ASSUME TypeOK, RunnableMatches, HandMatches, [Next]_vars
    PROVE  HandMatches'
<1>a. /\ phase \in [Calls -> {"new", "scheduled", "running", "completed", "dropped"}]
      /\ runnable \in [Calls -> {"none", "held", "queued", "taken", "gone"}]
      /\ work \in [Workers -> {"idle", "run", "closure", "settle", "wake"}]
      /\ hand \in [Workers -> Calls \cup {None}]
      /\ \A w \in Workers : work[w] # "idle" => hand[w] \in Calls
  BY AtCall DEF TypeOK
<1> USE <1>a DEF HandMatches, Busy, headerVars, callVars, threadVars, poolVars
<1>1. ASSUME NEW c \in Calls, Spawn(c) \/ SpawnLocal(c)
      PROVE  HandMatches'
  BY <1>1 DEF Spawn, SpawnLocal, RunnableMatches
<1>2. ASSUME NEW c \in Calls, Lose(c)
      PROVE  HandMatches'
  BY <1>2 DEF Lose, RunnableMatches
<1>3. ASSUME NEW t \in Callers, NEW c \in Calls, BeginPoll(t, c)
      PROVE  HandMatches'
  BY <1>3 DEF BeginPoll, RunnableMatches
<1>4. ASSUME NEW t \in Callers, NEW c \in Calls, DropUnpolled(t, c)
      PROVE  HandMatches'
  BY <1>4 DEF DropUnpolled, RunnableMatches
<1>5. ASSUME NEW w \in Workers, NEW c \in Calls, Take(w, c)
      PROVE  HandMatches'
  BY <1>5 DEF Take, RunnableMatches
<1>6. ASSUME NEW w \in Workers, RunClosed(w) \/ RunEnd(w)
      PROVE  HandMatches'
  BY <1>6 DEF RunClosed, RunEnd, TakeWaker
<1>7. ASSUME NEW w \in Workers, RunStart(w)
      PROVE  HandMatches'
  BY <1>7 DEF RunStart
<1>8. ASSUME NEW w \in Workers, Wake(w)
      PROVE  HandMatches'
  BY <1>8 DEF Wake
<1>9. ASSUME NEW w \in Workers, Settle(w)
      PROVE  HandMatches'
  BY <1>9 DEF Settle, TakeWaker
<1>10. CASE UNCHANGED <<runnable, phase, work, hand>>
  BY <1>10
<1> QED BY <1>1, <1>2, <1>3, <1>4, <1>5, <1>6, <1>7, <1>8, <1>9, <1>10
        DEF Next, PollStep, CancelStep, CallStep, WorkStep, AllGone, PollPending,
            PollReady, PollLost, DropJoinHandle, DropSpawnFuture, SetCanceled,
            CancelPending, CancelReady, Unpark, SpuriousUnpark, vars, headerVars,
            callVars, threadVars, poolVars

\* A call has one thread in the library, and the future stays until it leaves.
LEMMA LibraryStep ==
    ASSUME TypeOK, InLibrary, [Next]_vars
    PROVE  InLibrary'
<1>a. /\ future \in [Calls -> {"none", "unpolled", "live", "answered", "dropped"}]
      /\ pc \in [Callers -> {"idle", "poll", "setCanceled", "pollCancel", "park"}]
      /\ at \in [Callers -> Calls \cup {None}]
      /\ \A t \in Callers : at[t] = None <=> pc[t] = "idle"
  BY DEF TypeOK
<1> USE <1>a, TaskLifeAssumption
    DEF InLibrary, CancelPcs, Enter, Return, headerVars, callVars, threadVars, poolVars
<1>1. ASSUME NEW c \in Calls, Spawn(c) \/ SpawnLocal(c)
      PROVE  InLibrary'
  BY <1>1 DEF Spawn, SpawnLocal
<1>2. ASSUME NEW t \in Callers, NEW c \in Calls, BeginPoll(t, c)
      PROVE  InLibrary'
  BY <1>2 DEF BeginPoll, Free
<1>3. ASSUME NEW t \in Callers, PollPending(t)
      PROVE  InLibrary'
  BY <1>3 DEF PollPending
<1>4. ASSUME NEW t \in Callers, PollReady(t)
      PROVE  InLibrary'
  BY <1>4 DEF PollReady
<1>5. ASSUME NEW t \in Callers, PollLost(t)
      PROVE  InLibrary'
  BY <1>5 DEF PollLost
<1>6. ASSUME NEW t \in Callers, NEW c \in Calls, DropUnpolled(t, c) \/ DropJoinHandle(t, c)
      PROVE  InLibrary'
  BY <1>6 DEF DropUnpolled, DropJoinHandle, Free
<1>7. ASSUME NEW t \in Callers, NEW c \in Calls, DropSpawnFuture(t, c)
      PROVE  InLibrary'
  BY <1>7 DEF DropSpawnFuture, Free
<1>8. ASSUME NEW t \in Callers, SetCanceled(t) \/ CancelPending(t)
      PROVE  InLibrary'
  BY <1>8 DEF SetCanceled, CancelPending
<1>9. ASSUME NEW t \in Callers, CancelReady(t)
      PROVE  InLibrary'
  BY <1>9 DEF CancelReady
<1>10. ASSUME NEW t \in Callers, Unpark(t) \/ SpuriousUnpark(t)
       PROVE  InLibrary'
  BY <1>10 DEF Unpark, SpuriousUnpark
<1>11. CASE UNCHANGED <<future, pc, at, local>>
  BY <1>11
<1> QED BY <1>1, <1>2, <1>3, <1>4, <1>5, <1>6, <1>7, <1>8, <1>9, <1>10, <1>11
        DEF Next, PollStep, CancelStep, CallStep, WorkStep, AllGone, Lose, Take,
            RunClosed, RunStart, RunEnd, Settle, Wake, vars

--------------------------------------------------------------------------------
(* The closure ends before its future *)

\* A future that is answered or dropped, and borrows, has a closure that is
\* over: it was found over, or the runnable was never queued.
LEMMA BorrowStep ==
    ASSUME TypeOK, RunnableMatches, RunnableMatches', HandMatches, ClosureEndsFirst,
           [Next]_vars
    PROVE  ClosureEndsFirst'
<1>a. /\ phase \in [Calls -> {"new", "scheduled", "running", "completed", "dropped"}]
      /\ future \in [Calls -> {"none", "unpolled", "live", "answered", "dropped"}]
      /\ \A t \in Callers : pc[t] # "idle" => at[t] \in Calls
      /\ \A w \in Workers : work[w] # "idle" => hand[w] \in Calls
      /\ local \subseteq Calls
  BY AtCall DEF TypeOK
<1> SUFFICES \A c \in local' : future'[c] \in {"answered", "dropped"} => Over(c)'
  <2>1. local' \subseteq Calls
    BY TypeStep DEF TypeOK
  <2> QED BY <2>1 DEF ClosureEndsFirst, RunnableMatches
<1> USE <1>a DEF ClosureEndsFirst, Over, headerVars, callVars, threadVars, poolVars
<1>1. ASSUME NEW c \in Calls, Spawn(c) \/ SpawnLocal(c)
      PROVE  \A d \in local' : future'[d] \in {"answered", "dropped"} => Over(d)'
  BY <1>1 DEF Spawn, SpawnLocal
<1>2. ASSUME NEW c \in Calls, Lose(c)
      PROVE  \A d \in local' : future'[d] \in {"answered", "dropped"} => Over(d)'
  BY <1>2 DEF Lose
<1>3. ASSUME NEW t \in Callers, NEW c \in Calls, BeginPoll(t, c)
      PROVE  \A d \in local' : future'[d] \in {"answered", "dropped"} => Over(d)'
  BY <1>3 DEF BeginPoll
<1>4. ASSUME NEW t \in Callers, PollReady(t) \/ PollLost(t)
      PROVE  \A d \in local' : future'[d] \in {"answered", "dropped"} => Over(d)'
  BY <1>4 DEF PollReady, PollLost
<1>5. ASSUME NEW t \in Callers, NEW c \in Calls, DropUnpolled(t, c) \/ DropJoinHandle(t, c)
      PROVE  \A d \in local' : future'[d] \in {"answered", "dropped"} => Over(d)'
  BY <1>5 DEF DropUnpolled, DropJoinHandle
<1>6. ASSUME NEW t \in Callers, CancelReady(t)
      PROVE  \A d \in local' : future'[d] \in {"answered", "dropped"} => Over(d)'
  BY <1>6 DEF CancelReady
<1>7. ASSUME NEW w \in Workers, RunClosed(w) \/ RunEnd(w)
      PROVE  \A d \in local' : future'[d] \in {"answered", "dropped"} => Over(d)'
  BY <1>7 DEF RunClosed, RunEnd, TakeWaker
<1>8. ASSUME NEW w \in Workers, RunStart(w)
      PROVE  \A d \in local' : future'[d] \in {"answered", "dropped"} => Over(d)'
  BY <1>8 DEF RunStart, HandMatches, Busy
<1>9. CASE UNCHANGED <<future, phase, local>>
  BY <1>9
<1> QED BY <1>1, <1>2, <1>3, <1>4, <1>5, <1>6, <1>7, <1>8, <1>9
        DEF Next, PollStep, CancelStep, CallStep, WorkStep, AllGone, PollPending,
            DropSpawnFuture, SetCanceled, CancelPending, Unpark, SpuriousUnpark,
            Take, Settle, Wake, vars

--------------------------------------------------------------------------------
(* The answer *)

\* The task stays open until its future is through or a thread cancels it, so
\* that a poll finds the closure's own outcome.
LEMMA AnswerStep ==
    ASSUME TypeOK, RunnableMatches, HandMatches, InLibrary, AnswerMatches, [Next]_vars
    PROVE  AnswerMatches'
<1>a. /\ phase \in [Calls -> {"new", "scheduled", "running", "completed", "dropped"}]
      /\ closed \in [Calls -> BOOLEAN]
      /\ output \in [Calls -> Outcomes \cup {None}]
      /\ outcome \in [Calls -> Outcomes \cup {None}]
      /\ future \in [Calls -> {"none", "unpolled", "live", "answered", "dropped"}]
      /\ answer \in [Calls -> Outcomes \cup {"lost", None}]
      /\ pc \in [Callers -> {"idle", "poll", "setCanceled", "pollCancel", "park"}]
      /\ at \in [Callers -> Calls \cup {None}]
      /\ \A t \in Callers : at[t] = None <=> pc[t] = "idle"
      /\ \A t \in Callers : pc[t] # "idle" => at[t] \in Calls
      /\ \A w \in Workers : work[w] # "idle" => hand[w] \in Calls
  BY AtCall DEF TypeOK
<1> USE <1>a, TaskLifeAssumption
    DEF AnswerMatches, Cancelling, CancelPcs, headerVars, callVars, threadVars, poolVars
<1>1. ASSUME NEW c \in Calls, Spawn(c) \/ SpawnLocal(c)
      PROVE  AnswerMatches'
  BY <1>1 DEF Spawn, SpawnLocal, RunnableMatches
<1>2. ASSUME NEW c \in Calls, Lose(c)
      PROVE  AnswerMatches'
  BY <1>2 DEF Lose, RunnableMatches
<1>3. ASSUME NEW t \in Callers, NEW c \in Calls, BeginPoll(t, c)
      PROVE  AnswerMatches'
  BY <1>3 DEF BeginPoll, Free, Enter
<1>4. ASSUME NEW t \in Callers, PollPending(t)
      PROVE  AnswerMatches'
  BY <1>4 DEF PollPending, Return
<1>5. ASSUME NEW t \in Callers, PollReady(t)
      PROVE  AnswerMatches'
  BY <1>5 DEF PollReady, CloseWith, Return
<1>6. ASSUME NEW t \in Callers, PollLost(t)
      PROVE  AnswerMatches'
  BY <1>6 DEF PollLost, Return, Enter
<1>7. ASSUME NEW t \in Callers, NEW c \in Calls, DropUnpolled(t, c)
      PROVE  AnswerMatches'
  BY <1>7 DEF DropUnpolled
<1>8. ASSUME NEW t \in Callers, NEW c \in Calls, DropJoinHandle(t, c)
      PROVE  AnswerMatches'
  BY <1>8 DEF DropJoinHandle, CloseWith
<1>9. ASSUME NEW t \in Callers, NEW c \in Calls, DropSpawnFuture(t, c)
      PROVE  AnswerMatches'
  BY <1>9 DEF DropSpawnFuture, Free, Enter
<1>10. ASSUME NEW t \in Callers, SetCanceled(t)
       PROVE  AnswerMatches'
  BY <1>10 DEF SetCanceled, NotifyIfOpen, Over
<1>11. ASSUME NEW t \in Callers, CancelPending(t)
       PROVE  AnswerMatches'
  BY <1>11 DEF CancelPending
<1>12. ASSUME NEW t \in Callers, CancelReady(t)
       PROVE  AnswerMatches'
  BY <1>12 DEF CancelReady, CloseWith, Return
<1>13. ASSUME NEW t \in Callers, Unpark(t) \/ SpuriousUnpark(t)
       PROVE  AnswerMatches'
  BY <1>13 DEF Unpark, SpuriousUnpark
<1>14. ASSUME NEW w \in Workers, RunClosed(w)
       PROVE  AnswerMatches'
  BY <1>14 DEF RunClosed, TakeWaker
<1>15. ASSUME NEW w \in Workers, RunStart(w)
       PROVE  AnswerMatches'
  BY <1>15 DEF RunStart, HandMatches, Busy
<1>16. ASSUME NEW w \in Workers, RunEnd(w)
       PROVE  AnswerMatches'
  BY <1>16 DEF RunEnd, HandMatches, Busy, Outcomes
<1>17. ASSUME NEW w \in Workers, Settle(w)
       PROVE  AnswerMatches'
  BY <1>17 DEF Settle
<1>18. CASE UNCHANGED <<phase, closed, output, outcome, future, answer, pc, at>>
  BY <1>18
<1> QED BY <1>1, <1>2, <1>3, <1>4, <1>5, <1>6, <1>7, <1>8, <1>9, <1>10, <1>11,
           <1>12, <1>13, <1>14, <1>15, <1>16, <1>17, <1>18
        DEF Next, PollStep, CancelStep, CallStep, WorkStep, AllGone, Take, Wake, vars

--------------------------------------------------------------------------------
(* Wakers *)

\* A pending poll leaves its waker in the header, a parked thread its own.
LEMMA WakerStep ==
    ASSUME TypeOK, RunnableMatches, HandMatches, InLibrary, WakerIsThere, [Next]_vars
    PROVE  WakerIsThere'
<1>a. /\ phase \in [Calls -> {"new", "scheduled", "running", "completed", "dropped"}]
      /\ awaiter \in [Calls -> {"nobody", "task"} \cup Callers]
      /\ awaited \in [Calls -> {"fresh", "pending", "woken"}]
      /\ future \in [Calls -> {"none", "unpolled", "live", "answered", "dropped"}]
      /\ pc \in [Callers -> {"idle", "poll", "setCanceled", "pollCancel", "park"}]
      /\ at \in [Callers -> Calls \cup {None}]
      /\ \A t \in Callers : at[t] = None <=> pc[t] = "idle"
      /\ \A t \in Callers : pc[t] # "idle" => at[t] \in Calls
      /\ \A w \in Workers : work[w] # "idle" => hand[w] \in Calls
  BY AtCall DEF TypeOK
<1> USE <1>a, TaskLifeAssumption
    DEF WakerIsThere, Over, headerVars, callVars, threadVars, poolVars
<1>1. ASSUME NEW c \in Calls, Spawn(c) \/ SpawnLocal(c)
      PROVE  WakerIsThere'
  BY <1>1 DEF Spawn, SpawnLocal, InLibrary
<1>2. ASSUME NEW c \in Calls, Lose(c)
      PROVE  WakerIsThere'
  BY <1>2, WokenBy DEF Lose, Notify
<1>3. ASSUME NEW t \in Callers, NEW c \in Calls, BeginPoll(t, c)
      PROVE  WakerIsThere'
  BY <1>3 DEF BeginPoll, Free, Enter
<1>4. ASSUME NEW t \in Callers, PollPending(t)
      PROVE  WakerIsThere'
  BY <1>4 DEF PollPending, Return, InLibrary
<1>5. ASSUME NEW t \in Callers, PollReady(t) \/ PollLost(t)
      PROVE  WakerIsThere'
  BY <1>5 DEF PollReady, PollLost, Return, Enter, InLibrary
<1>6. ASSUME NEW t \in Callers, NEW c \in Calls, DropUnpolled(t, c)
      PROVE  WakerIsThere'
  BY <1>6 DEF DropUnpolled, Free
<1>7. ASSUME NEW t \in Callers, NEW c \in Calls, DropJoinHandle(t, c)
      PROVE  WakerIsThere'
  BY <1>7, NotifiedBy DEF DropJoinHandle, Free
<1>8. ASSUME NEW t \in Callers, NEW c \in Calls, DropSpawnFuture(t, c)
      PROVE  WakerIsThere'
  BY <1>8 DEF DropSpawnFuture, Free, Enter
<1>9. ASSUME NEW t \in Callers, SetCanceled(t)
      PROVE  WakerIsThere'
  BY <1>9, NotifiedBy DEF SetCanceled, InLibrary
<1>10. ASSUME NEW t \in Callers, CancelPending(t)
       PROVE  WakerIsThere'
  BY <1>10 DEF CancelPending, InLibrary
<1>11. ASSUME NEW t \in Callers, CancelReady(t)
       PROVE  WakerIsThere'
  BY <1>11, WokenBy DEF CancelReady, Return
<1>12. ASSUME NEW t \in Callers, Unpark(t) \/ SpuriousUnpark(t)
       PROVE  WakerIsThere'
  BY <1>12 DEF Unpark, SpuriousUnpark
<1>13. ASSUME NEW w \in Workers, RunClosed(w) \/ RunEnd(w)
       PROVE  WakerIsThere'
  BY <1>13 DEF RunClosed, RunEnd, TakeWaker
<1>14. ASSUME NEW w \in Workers, RunStart(w)
       PROVE  WakerIsThere'
  BY <1>14 DEF RunStart, HandMatches, Busy
<1>15. ASSUME NEW w \in Workers, Wake(w)
       PROVE  WakerIsThere'
  BY <1>15 DEF Wake, Woken
<1>16. ASSUME NEW w \in Workers, Settle(w)
       PROVE  WakerIsThere'
  BY <1>16 DEF Settle, TakeWaker, HandMatches
<1>17. CASE UNCHANGED <<phase, awaiter, awaited, future, pc, at>>
  BY <1>17
<1> QED BY <1>1, <1>2, <1>3, <1>4, <1>5, <1>6, <1>7, <1>8, <1>9, <1>10, <1>11,
           <1>12, <1>13, <1>14, <1>15, <1>16, <1>17
        DEF Next, PollStep, CancelStep, CallStep, WorkStep, AllGone, Take, vars

\* When the closure stops, the waker is called, or a worker has it in hand.
LEMMA AwaiterStep ==
    ASSUME TypeOK, RunnableMatches, HandMatches, InLibrary, WakerIsThere,
           AwaiterIsWoken, [Next]_vars
    PROVE  AwaiterIsWoken'
<1>a. /\ phase \in [Calls -> {"new", "scheduled", "running", "completed", "dropped"}]
      /\ awaiter \in [Calls -> {"nobody", "task"} \cup Callers]
      /\ awaited \in [Calls -> {"fresh", "pending", "woken"}]
      /\ future \in [Calls -> {"none", "unpolled", "live", "answered", "dropped"}]
      /\ pc \in [Callers -> {"idle", "poll", "setCanceled", "pollCancel", "park"}]
      /\ at \in [Callers -> Calls \cup {None}]
      /\ token \in [Callers -> BOOLEAN]
      /\ work \in [Workers -> {"idle", "run", "closure", "settle", "wake"}]
      /\ hand \in [Workers -> Calls \cup {None}]
      /\ waking \in [Workers -> {"nobody", "task"} \cup Callers]
      /\ \A t \in Callers : at[t] = None <=> pc[t] = "idle"
      /\ \A w \in Workers : hand[w] = None <=> work[w] = "idle"
      /\ \A t \in Callers : pc[t] # "idle" => at[t] \in Calls
      /\ \A w \in Workers : work[w] # "idle" => hand[w] \in Calls
  BY AtCall DEF TypeOK
<1> USE <1>a, TaskLifeAssumption
    DEF AwaiterIsWoken, Waking, Over, headerVars, callVars, threadVars, poolVars
<1>1. ASSUME NEW c \in Calls, Spawn(c) \/ SpawnLocal(c)
      PROVE  AwaiterIsWoken'
  BY <1>1 DEF Spawn, SpawnLocal, WakerIsThere
<1>2. ASSUME NEW c \in Calls, Lose(c)
      PROVE  AwaiterIsWoken'
  <2>1. /\ phase[c] = "scheduled" /\ phase' = [phase EXCEPT ![c] = "dropped"]
        /\ \A d \in Calls : awaited'[d] = "pending" =>
              awaited[d] = "pending" /\ ~(d = c /\ awaiter[c] = "task")
        /\ \A t \in Callers : token[t] \/ t = awaiter[c] => token'[t]
        /\ \A d \in Calls \ {c} : awaiter'[d] = awaiter[d]
        /\ UNCHANGED <<future, pc, at, work, hand, waking>>
    BY <1>2, WokenBy DEF Lose, Notify, RunnableMatches
  <2>2. ASSUME NEW d \in Calls, future'[d] = "live", awaited'[d] = "pending", Over(d)'
        PROVE  Waking(d, "task")' \/ \E t \in Callers : at'[t] = d
    <3>1. CASE d = c
      BY <2>1, <2>2, <3>1 DEF WakerIsThere
    <3>2. CASE d # c
      BY <2>1, <2>2, <3>2
    <3> QED BY <3>1, <3>2
  <2>3. ASSUME NEW t \in Callers, pc'[t] = "park", Over(at[t])'
        PROVE  token'[t] \/ Waking(at[t], t)'
    <3>1. CASE at[t] = c
      BY <2>1, <2>3, <3>1 DEF WakerIsThere
    <3>2. CASE at[t] # c
      BY <2>1, <2>3, <3>2
    <3> QED BY <3>1, <3>2
  <2> QED BY <2>1, <2>2, <2>3
<1>3. ASSUME NEW t \in Callers, NEW c \in Calls, BeginPoll(t, c)
      PROVE  AwaiterIsWoken'
  BY <1>3 DEF BeginPoll, Free, Enter
<1>4. ASSUME NEW t \in Callers, PollPending(t)
      PROVE  AwaiterIsWoken'
  BY <1>4 DEF PollPending, Return
<1>5. ASSUME NEW t \in Callers, PollReady(t) \/ PollLost(t)
      PROVE  AwaiterIsWoken'
  BY <1>5 DEF PollReady, PollLost, Return, Enter, InLibrary
<1>6. ASSUME NEW t \in Callers, NEW c \in Calls, DropUnpolled(t, c)
      PROVE  AwaiterIsWoken'
  BY <1>6 DEF DropUnpolled, Free
<1>7. ASSUME NEW t \in Callers, NEW c \in Calls, DropJoinHandle(t, c)
      PROVE  AwaiterIsWoken'
  BY <1>7, NotifiedBy DEF DropJoinHandle, Free, InLibrary
<1>8. ASSUME NEW t \in Callers, NEW c \in Calls, DropSpawnFuture(t, c)
      PROVE  AwaiterIsWoken'
  BY <1>8 DEF DropSpawnFuture, Free, Enter
<1>9. ASSUME NEW t \in Callers, SetCanceled(t)
      PROVE  AwaiterIsWoken'
  BY <1>9, NotifiedBy DEF SetCanceled, InLibrary
<1>10. ASSUME NEW t \in Callers, CancelPending(t)
       PROVE  AwaiterIsWoken'
  BY <1>10 DEF CancelPending
<1>11. ASSUME NEW t \in Callers, CancelReady(t)
       PROVE  AwaiterIsWoken'
  BY <1>11, WokenBy DEF CancelReady, Return, InLibrary
<1>12. ASSUME NEW t \in Callers, Unpark(t) \/ SpuriousUnpark(t)
       PROVE  AwaiterIsWoken'
  BY <1>12 DEF Unpark, SpuriousUnpark
<1>13. ASSUME NEW w \in Workers, NEW c \in Calls, Take(w, c)
       PROVE  AwaiterIsWoken'
  BY <1>13 DEF Take
<1>14. ASSUME NEW w \in Workers, RunClosed(w) \/ RunEnd(w)
       PROVE  AwaiterIsWoken'
  BY <1>14 DEF RunClosed, RunEnd, TakeWaker, WakerIsThere, HandMatches, Busy
<1>15. ASSUME NEW w \in Workers, RunStart(w)
       PROVE  AwaiterIsWoken'
  BY <1>15 DEF RunStart
<1>16. ASSUME NEW w \in Workers, Wake(w)
       PROVE  AwaiterIsWoken'
  <2>1. /\ work[w] = "wake" /\ hand[w] \in Calls
        /\ \A d \in Calls : awaited'[d] = "pending" =>
              awaited[d] = "pending" /\ ~(d = hand[w] /\ waking[w] = "task")
        /\ \A t \in Callers : token[t] \/ t = waking[w] => token'[t]
        /\ \A v \in Workers \ {w} :
              hand'[v] = hand[v] /\ waking'[v] = waking[v] /\ work'[v] = work[v]
        /\ UNCHANGED <<phase, awaiter, future, pc, at>>
    BY <1>16, WokenBy DEF Wake
  <2>2. ASSUME NEW d \in Calls, future'[d] = "live", awaited'[d] = "pending", Over(d)'
        PROVE  Waking(d, "task")' \/ \E t \in Callers : at'[t] = d
    <3>1. ~(hand[w] = d /\ waking[w] = "task")
      BY <2>1, <2>2
    <3> QED BY <2>1, <2>2, <3>1
  <2>3. ASSUME NEW t \in Callers, pc'[t] = "park", Over(at[t])'
        PROVE  token'[t] \/ Waking(at[t], t)'
    <3>1. token[t] \/ Waking(at[t], t)
      BY <2>1, <2>3
    <3>2. CASE ~token'[t]
      BY <2>1, <3>1, <3>2
    <3> QED BY <3>2
  <2> QED BY <2>1, <2>2, <2>3
<1>17. ASSUME NEW w \in Workers, Settle(w)
       PROVE  AwaiterIsWoken'
  BY <1>17 DEF Settle, TakeWaker
<1>18. CASE UNCHANGED vars
  BY <1>18 DEF vars
<1> QED BY <1>1, <1>2, <1>3, <1>4, <1>5, <1>6, <1>7, <1>8, <1>9, <1>10, <1>11,
           <1>12, <1>13, <1>14, <1>15, <1>16, <1>17, <1>18
        DEF Next, PollStep, CancelStep, CallStep, WorkStep, AllGone

--------------------------------------------------------------------------------
(* The invariant *)

\* Before the first call IInv holds,
LEMMA IInvInit ==
    Init => IInv
<1> SUFFICES ASSUME Init PROVE IInv
  OBVIOUS
<1>1. TypeOK
  BY TaskLifeAssumption DEF Init, TypeOK
<1> QED BY <1>1, TaskLifeAssumption
    DEF Init, IInv, RunnableMatches, HandMatches, Busy, InLibrary, CancelPcs,
        ClosureEndsFirst, AnswerMatches, Cancelling, WakerIsThere,
        AwaiterIsWoken, Waking, Over

\* and every step of callers and workers keeps it:
LEMMA IInvStep ==
    IInv /\ [Next]_vars => IInv'
BY TypeStep, RunnableStep, HandStep, LibraryStep, BorrowStep, AnswerStep,
   WakerStep, AwaiterStep
   DEF IInv

\* it holds in every reachable state.
LEMMA Invariance == Spec => []IInv
BY IInvInit, IInvStep, PTL DEF Spec

\* The variables keep their types, and a thread is at a call exactly while it is
\* inside the library.
THEOREM TypeCorrect == Spec => []TypeOK
<1>1. IInv => TypeOK
  BY DEF IInv
<1> QED BY Invariance, <1>1, PTL

\* The drop-blocking contract of spawn_local, for the closure: no SpawnFuture is
\* gone while its closure may still run, whoever polls, drops, runs or loses
\* what, and however many do.  The destructor of its output may (OutputEndsFirst).
THEOREM ClosureFirst == Spec => []ClosureEndsFirst
<1>1. IInv => ClosureEndsFirst
  BY DEF IInv
<1> QED BY Invariance, <1>1, PTL

\* No waker is lost, of an awaiting task or of a thread parked in a drop.
THEOREM AwaiterWoken == Spec => []AwaiterIsWoken
<1>1. IInv => AwaiterIsWoken
  BY DEF IInv
<1> QED BY Invariance, <1>1, PTL

--------------------------------------------------------------------------------
(* The refinement *)

\* The abstract call of c does what the step's two values say; the others stay.
LEMMA OneHandle ==
    ASSUME NEW c \in Calls, NEW value, Handle(c)' = value,
           \A d \in Calls \ {c} : Handle(d)' = Handle(d)
    PROVE  HandleOf' = [HandleOf EXCEPT ![c] = value]
BY DEF HandleOf

\* A step that changes one call's closure, and no other's, is an EXCEPT.
LEMMA OneClosure ==
    ASSUME NEW c \in Calls, NEW value, Closure(c)' = value,
           \A d \in Calls \ {c} : Closure(d)' = Closure(d)
    PROVE  ClosureOf' = [ClosureOf EXCEPT ![c] = value]
BY DEF ClosureOf

\* A step that changes no call's handle leaves the abstract variable alone;
LEMMA SameHandles ==
    ASSUME \A c \in Calls : Handle(c)' = Handle(c)
    PROVE  HandleOf' = HandleOf
BY DEF HandleOf

\* the same for closures.
LEMMA SameClosures ==
    ASSUME \A c \in Calls : Closure(c)' = Closure(c)
    PROVE  ClosureOf' = ClosureOf
BY DEF ClosureOf

\* What the abstract variables say of a call.
LEMMA AbstractValue ==
    ASSUME NEW c \in Calls
    PROVE  HandleOf[c] = Handle(c) /\ ClosureOf[c] = Closure(c)
BY DEF HandleOf, ClosureOf

\* Every step of TaskLife is a step of the abstract call, or none.
LEMMA ContractStep ==
    IInv /\ [Next]_vars => [Contract!Next]_(Contract!vars)
<1> SUFFICES ASSUME IInv, [Next]_vars
             PROVE  Contract!Next \/ UNCHANGED Contract!vars
  OBVIOUS
<1>a. /\ phase \in [Calls -> {"new", "scheduled", "running", "completed", "dropped"}]
      /\ closed \in [Calls -> BOOLEAN]
      /\ output \in [Calls -> Outcomes \cup {None}]
      /\ outcome \in [Calls -> Outcomes \cup {None}]
      /\ future \in [Calls -> {"none", "unpolled", "live", "answered", "dropped"}]
      /\ answer \in [Calls -> Outcomes \cup {"lost", None}]
      /\ runnable \in [Calls -> {"none", "held", "queued", "taken", "gone"}]
      /\ \A t \in Callers : at[t] = None <=> pc[t] = "idle"
      /\ \A t \in Callers : pc[t] # "idle" => at[t] \in Calls
      /\ \A w \in Workers : work[w] # "idle" => hand[w] \in Calls
  BY AtCall DEF TypeOK, IInv
<1>b. RunnableMatches /\ HandMatches /\ InLibrary /\ AnswerMatches
  BY DEF IInv
<1> USE <1>a, TaskLifeAssumption
    DEF Handle, Closure, headerVars, callVars, threadVars, poolVars
<1>1. ASSUME NEW c \in Calls, Spawn(c)
      PROVE  Contract!Next
  <2>1. /\ Handle(c) = "none" /\ Handle(c)' = "held"
        /\ Closure(c)' = "asked"
        /\ \A d \in Calls \ {c} : Handle(d)' = Handle(d) /\ Closure(d)' = Closure(d)
        /\ UNCHANGED <<local, outcome, answer>>
    BY <1>1, <1>b DEF Spawn, RunnableMatches, AnswerMatches, Cancelling, InLibrary, CancelPcs
  <2>2. Contract!Call(c)
    BY <2>1, OneHandle, OneClosure, AbstractValue DEF Contract!Call
  <2> QED BY <2>2 DEF Contract!Next
<1>2. ASSUME NEW c \in Calls, SpawnLocal(c)
      PROVE  Contract!Next
  <2>1. /\ Handle(c) = "none" /\ Handle(c)' = "held"
        /\ local' = local \cup {c}
        /\ \A d \in Calls \ {c} : Handle(d)' = Handle(d)
        /\ \A d \in Calls : Closure(d)' = Closure(d)
        /\ UNCHANGED <<outcome, answer>>
    BY <1>2, <1>b DEF SpawnLocal, RunnableMatches, AnswerMatches, Cancelling, InLibrary, CancelPcs
  <2>2. Contract!Call(c)
    BY <2>1, OneHandle, SameClosures, AbstractValue DEF Contract!Call
  <2> QED BY <2>2 DEF Contract!Next
<1>3. ASSUME NEW c \in Calls, Lose(c)
      PROVE  Contract!Next
  <2>1. /\ Closure(c) = "asked" /\ Closure(c)' = "never"
        /\ \A d \in Calls \ {c} : Closure(d)' = Closure(d)
        /\ \A d \in Calls : Handle(d)' = Handle(d)
        /\ UNCHANGED <<local, outcome, answer>>
    BY <1>3, <1>b DEF Lose, RunnableMatches
  <2>2. Contract!Cancel(c)
    BY <2>1, OneClosure, SameHandles, AbstractValue DEF Contract!Cancel
  <2> QED BY <2>2 DEF Contract!Next
<1>4. ASSUME NEW t \in Callers, NEW c \in Calls, BeginPoll(t, c)
      PROVE  Contract!Next \/ UNCHANGED Contract!vars
  <2>0. /\ \A d \in Calls : Handle(d)' = Handle(d)
        /\ UNCHANGED <<local, outcome, answer>>
    BY <1>4 DEF BeginPoll
  <2>1. CASE future[c] = "unpolled"
    <3>1. /\ Handle(c) = "held"
          /\ Closure(c) = "unasked" /\ Closure(c)' = "asked"
          /\ \A d \in Calls \ {c} : Closure(d)' = Closure(d)
      BY <1>4, <1>b, <2>1
         DEF BeginPoll, Free, RunnableMatches, AnswerMatches, Cancelling
    <3>2. Contract!Ask(c)
      BY <2>0, <3>1, OneClosure, SameHandles, AbstractValue DEF Contract!Ask
    <3> QED BY <3>2 DEF Contract!Next
  <2>2. CASE future[c] # "unpolled"
    <3>1. \A d \in Calls : Closure(d)' = Closure(d)
      BY <1>4, <2>2 DEF BeginPoll
    <3> QED BY <2>0, <3>1, SameHandles, SameClosures DEF Contract!vars
  <2> QED BY <2>1, <2>2
<1>5. ASSUME NEW t \in Callers, PollReady(t) \/ PollLost(t)
      PROVE  Contract!Next
  <2>0. PICK c \in Calls : c = at[t]
    BY <1>5 DEF PollReady, PollLost
  <2>1. /\ c \in Calls /\ pc[t] = "poll" /\ future[c] = "live" /\ ~Cancelling(c)
        /\ answer[c] = None /\ (closed[c] => phase[c] = "dropped")
    BY <2>0, <1>5, <1>b DEF PollReady, PollLost, InLibrary, AnswerMatches, Cancelling, CancelPcs
  <2>2. /\ \A d \in Calls : Closure(d)' = Closure(d)
        /\ UNCHANGED <<local, outcome>>
    BY <2>0, <1>5 DEF PollReady, PollLost
  <2>3. /\ \A d \in Calls \ {c} : Handle(d)' = Handle(d)
        /\ Handle(c) = "held" /\ Handle(c)' = "answered"
        /\ Closure(c) \in {"ended", "never"}
        /\ answer' = [answer EXCEPT ![c] =
                        IF Closure(c) = "ended" THEN outcome[c] ELSE "lost"]
    <3>1. CASE PollReady(t)
      BY <2>0, <1>b, <2>1, <3>1 DEF PollReady, AnswerMatches
    <3>2. CASE PollLost(t)
      <4>1. /\ answer' = [answer EXCEPT ![c] = "lost"]
            /\ \A d \in Calls \ {c} : future'[d] = future[d]
            /\ phase[c] = "dropped"
        BY <2>0, <2>1, <3>2 DEF PollLost
      <4> QED BY <2>1, <4>1
    <3> QED BY <2>0, <1>5, <3>1, <3>2
  <2>4. /\ HandleOf' = [HandleOf EXCEPT ![c] = "answered"]
        /\ ClosureOf' = ClosureOf
        /\ HandleOf[c] = "held" /\ ClosureOf[c] = Closure(c)
    BY <2>2, <2>3, OneHandle, SameClosures, AbstractValue
  <2>5. Contract!Answer(c)
    BY <2>2, <2>3, <2>4 DEF Contract!Answer, Contract!Over
  <2> QED BY <2>5 DEF Contract!Next
<1>6. ASSUME NEW t \in Callers, NEW c \in Calls, DropUnpolled(t, c)
      PROVE  Contract!Next
  <2>1. /\ Handle(c) = "held" /\ Handle(c)' = "dropped"
        /\ Closure(c) = "unasked" /\ Closure(c)' = "never"
        /\ \A d \in Calls \ {c} : Handle(d)' = Handle(d) /\ Closure(d)' = Closure(d)
        /\ UNCHANGED <<local, outcome, answer>>
    BY <1>6, <1>b DEF DropUnpolled, Free, RunnableMatches, AnswerMatches, Cancelling
  <2>2. Contract!Drop(c)
    BY <2>1, OneHandle, OneClosure, AbstractValue DEF Contract!Drop
  <2> QED BY <2>2 DEF Contract!Next
<1>7. ASSUME NEW t \in Callers, NEW c \in Calls, DropJoinHandle(t, c)
      PROVE  Contract!Next
  <2>1. /\ Handle(c) = "held" /\ Handle(c)' = "dropped" /\ c \notin local
        /\ \A d \in Calls \ {c} : Handle(d)' = Handle(d)
        /\ \A d \in Calls : Closure(d)' = Closure(d)
        /\ UNCHANGED <<local, outcome, answer>>
    BY <1>7, <1>b DEF DropJoinHandle, Free, AnswerMatches, Cancelling
  <2>2. Contract!Drop(c)
    BY <2>1, OneHandle, SameClosures, AbstractValue DEF Contract!Drop
  <2> QED BY <2>2 DEF Contract!Next
<1>8. ASSUME NEW t \in Callers, CancelReady(t)
      PROVE  Contract!Next \/ UNCHANGED Contract!vars
  <2>0. PICK c \in Calls : c = at[t]
    BY <1>8 DEF CancelReady
  <2>1. /\ c \in Calls /\ future[c] = "live"
        /\ Closure(c) \in {"ended", "never"}
        /\ \A d \in Calls \ {c} : Handle(d)' = Handle(d)
        /\ \A d \in Calls : Closure(d)' = Closure(d)
        /\ UNCHANGED <<local, outcome, answer>>
    BY <2>0, <1>8, <1>b DEF CancelReady, Over, InLibrary
  <2>2. CASE answer[c] = None
    <3>1. Handle(c) = "held" /\ Handle(c)' = "dropped"
      BY <2>0, <1>8, <2>1, <2>2 DEF CancelReady
    <3>2. Contract!Drop(c)
      BY <2>1, <3>1, OneHandle, SameClosures, AbstractValue
         DEF Contract!Drop, Contract!Over
    <3> QED BY <2>1, <3>2 DEF Contract!Next
  <2>3. CASE answer[c] # None
    <3>1. \A d \in Calls : Handle(d)' = Handle(d)
      BY <2>1, <2>3
    <3> QED BY <2>1, <3>1, SameHandles, SameClosures DEF Contract!vars
  <2> QED BY <2>2, <2>3
<1>9. ASSUME NEW w \in Workers, RunClosed(w)
      PROVE  Contract!Next
  <2>0. PICK c \in Calls : c = hand[w]
    BY <1>9 DEF RunClosed
  <2>1. /\ c \in Calls
        /\ Closure(c) = "asked" /\ Closure(c)' = "never"
        /\ \A d \in Calls \ {c} : Closure(d)' = Closure(d)
        /\ \A d \in Calls : Handle(d)' = Handle(d)
        /\ UNCHANGED <<local, outcome, answer>>
    BY <2>0, <1>9, <1>b DEF RunClosed, TakeWaker, HandMatches, Busy
  <2>2. Contract!Cancel(c)
    BY <2>1, OneClosure, SameHandles, AbstractValue DEF Contract!Cancel
  <2> QED BY <2>1, <2>2 DEF Contract!Next
<1>10. ASSUME NEW w \in Workers, RunStart(w)
       PROVE  Contract!Next
  <2>0. PICK c \in Calls : c = hand[w]
    BY <1>10 DEF RunStart
  <2>1. /\ c \in Calls /\ ~closed[c] /\ runnable[c] = "taken" /\ phase[c] = "scheduled"
    BY <2>0, <1>10, <1>b DEF RunStart, HandMatches, Busy
  <2>2. future[c] = "live" /\ answer[c] = None
    BY <2>0, <1>b, <2>1 DEF RunnableMatches, AnswerMatches
  <2>3. /\ Handle(c) = "held"
        /\ Closure(c) = "asked" /\ Closure(c)' = "running"
        /\ \A d \in Calls \ {c} : Closure(d)' = Closure(d)
        /\ \A d \in Calls : Handle(d)' = Handle(d)
        /\ UNCHANGED <<local, outcome, answer>>
    BY <2>0, <1>10, <2>1, <2>2 DEF RunStart
  <2>4. Contract!Start(c)
    BY <2>1, <2>3, OneClosure, SameHandles, AbstractValue DEF Contract!Start
  <2> QED BY <2>1, <2>4 DEF Contract!Next
<1>11. ASSUME NEW w \in Workers, RunEnd(w)
       PROVE  Contract!Next
  <2>0. PICK c \in Calls : c = hand[w]
    BY <1>11 DEF RunEnd
  <2>1. /\ c \in Calls
        /\ Closure(c) = "running" /\ Closure(c)' = "ended"
        /\ \A d \in Calls \ {c} : Closure(d)' = Closure(d)
        /\ \A d \in Calls : Handle(d)' = Handle(d)
        /\ \E how \in Outcomes : outcome' = [outcome EXCEPT ![c] = how]
        /\ UNCHANGED <<local, answer>>
    BY <2>0, <1>11, <1>b DEF RunEnd, HandMatches, Busy
  <2>2. Contract!End(c)
    BY <2>1, OneClosure, SameHandles, AbstractValue
       DEF Contract!End, Contract!Outcomes, Outcomes
  <2> QED BY <2>1, <2>2 DEF Contract!Next
<1>12. ASSUME NEW w \in Workers, NEW c \in Calls, Take(w, c)
       PROVE  UNCHANGED Contract!vars
  <2>1. /\ \A d \in Calls : Handle(d)' = Handle(d) /\ Closure(d)' = Closure(d)
        /\ UNCHANGED <<local, outcome, answer>>
    BY <1>12 DEF Take
  <2> QED BY <2>1, SameHandles, SameClosures DEF Contract!vars
<1>13. CASE UNCHANGED <<phase, runnable, future, answer, local, outcome>>
  <2>1. \A d \in Calls : Handle(d)' = Handle(d) /\ Closure(d)' = Closure(d)
    BY <1>13
  <2> QED BY <1>13, <2>1, SameHandles, SameClosures DEF Contract!vars
<1> QED BY <1>1, <1>2, <1>3, <1>4, <1>5, <1>6, <1>7, <1>8, <1>9, <1>10, <1>11,
           <1>12, <1>13
        DEF Next, PollStep, CancelStep, CallStep, WorkStep, AllGone, PollPending,
            DropSpawnFuture, SetCanceled, CancelPending, Unpark, SpuriousUnpark,
            Settle, Wake, vars

\* TaskLife implements CallContract for every number of calls, threads, workers
\* and lost runnables: a closure runs at most once and not once its handle has
\* gone, the answer is its own outcome, and a borrowed one ends before its
\* future.
THEOREM Implements == Spec => ImplementsContract
<1>1. Init => Contract!Init
  <2> SUFFICES ASSUME Init PROVE Contract!Init
    OBVIOUS
  <2>1. /\ \A c \in Calls : Handle(c) = "none" /\ Closure(c) = "unasked"
    BY DEF Init, Handle, Closure
  <2>2. /\ HandleOf = [c \in Calls |-> "none"]
        /\ ClosureOf = [c \in Calls |-> "unasked"]
    BY <2>1 DEF HandleOf, ClosureOf
  <2> QED BY <2>2 DEF Init, Contract!Init
<1> QED BY Invariance, ContractStep, <1>1, PTL
        DEF Spec, ImplementsContract, Contract!Spec
================================================================================

---------------------------- MODULE LifecycleProofs ----------------------------
(***************************************************************************)
(* Lifecycle's invariants for every number of workers, unwinds and refused *)
(* threads: IInv is inductive.  A worker that unwinds hands its index to   *)
(* exactly one replacement, so that an open pool stays full and no slot    *)
(* has two workers; every living thread's handle is somewhere; thread_count*)
(* covers the threads alive.  Of its slots Queue sees what WorkerSlots     *)
(* says.  That drop returns is liveness, left to TLC.                      *)
(***************************************************************************)
EXTENDS Lifecycle, SequenceTheorems, FiniteSetTheorems, TLAPS

--------------------------------------------------------------------------------
(* Sequences of handles *)

\* What push, taking all and taking the first do to the set of the handles.
LEMMA RangeAppend ==
    ASSUME NEW S, NEW s \in Seq(S), NEW e \in S
    PROVE  Range(Append(s, e)) = Range(s) \cup {e}
<1>1. /\ Len(Append(s, e)) = Len(s) + 1
      /\ \A i \in 1 .. Len(s) : Append(s, e)[i] = s[i]
      /\ Append(s, e)[Len(s) + 1] = e
      /\ DOMAIN Append(s, e) = 1 .. Len(s) + 1
      /\ DOMAIN s = 1 .. Len(s) /\ Len(s) \in Nat
  OBVIOUS
<1> QED BY <1>1 DEF Range

\* A thread that has been joined is the only one that leaves the list.
LEMMA RangeTail ==
    ASSUME NEW S, NEW s \in Seq(S), s # <<>>
    PROVE  Range(s) = {Head(s)} \cup Range(Tail(s))
<1>1. /\ Len(s) \in Nat \ {0} /\ DOMAIN s = 1 .. Len(s)
      /\ Len(Tail(s)) = Len(s) - 1 /\ DOMAIN Tail(s) = 1 .. Len(s) - 1
      /\ \A i \in 1 .. Len(s) - 1 : Tail(s)[i] = s[i + 1]
      /\ Head(s) = s[1]
  OBVIOUS
<1>2. \A i \in 1 .. Len(s) : i = 1 \/ (i - 1 \in 1 .. Len(s) - 1 /\ s[i] = Tail(s)[i - 1])
  BY <1>1
<1>3. \A i \in 1 .. Len(s) - 1 : i + 1 \in 1 .. Len(s) /\ Tail(s)[i] = s[i + 1]
  BY <1>1
<1>4. ASSUME NEW x \in Range(s) PROVE x \in {Head(s)} \cup Range(Tail(s))
  <2>1. PICK i \in 1 .. Len(s) : s[i] = x
    BY <1>1 DEF Range
  <2> QED BY <1>1, <1>2, <2>1 DEF Range
<1>5. Head(s) \in Range(s)
  BY <1>1 DEF Range
<1>6. ASSUME NEW x \in Range(Tail(s)) PROVE x \in Range(s)
  <2>1. PICK i \in 1 .. Len(s) - 1 : Tail(s)[i] = x
    BY <1>1 DEF Range
  <2> QED BY <1>1, <1>3, <2>1 DEF Range
<1> QED BY <1>4, <1>5, <1>6

--------------------------------------------------------------------------------
(* Types, and who is in spin_up *)

\* Types are kept as long as whoever is in spin_up is known.
LEMMA TypeStep ==
    ASSUME TypeOK, SpinMatches, [Next]_vars
    PROVE  TypeOK'
<1>a. /\ thread \in [Threads -> {"unborn", "started", "registered", "unwinding", "ended"}]
      /\ index \in [Threads -> Indices]
      /\ spin \in [Callers -> {"no", "spawn", "store"}]
      /\ slot \in [Callers -> 0 .. NumWorkers]
      /\ built \in [Callers -> Threads \cup {NoThread}]
      /\ owner \in {"building", "open", "drain", "join", "dropped", "freed"}
      /\ shutdown = (owner \notin {"building", "open"})
      /\ threadCount \in Nat
      /\ handles \in Seq(Threads) /\ joining \in Seq(Threads)
      /\ panics \in 0 .. MaxPanics /\ failures \in 0 .. MaxFailures
      /\ Owner \notin Threads /\ Callers = Threads \cup {Owner}
      /\ NumWorkers \in Nat \ {0} /\ MaxPanics \in Nat /\ MaxFailures \in Nat
  BY LifecycleAssumption DEF TypeOK, Callers, Threads
<1> USE <1>a DEF SpinMatches, TypeOK, Indices, spinVars, ownerVars
<1>1. ASSUME NEW c \in Callers, SpawnThread(c)
      PROVE  TypeOK'
  <2>1. slot[c] \in Indices
    <3>1. CASE c = Owner
      BY <1>1, <3>1 DEF SpawnThread
    <3>2. CASE c # Owner
      BY <1>1, <3>2 DEF SpawnThread
    <3> QED BY <3>1, <3>2
  <2> QED BY <1>1, <2>1 DEF SpawnThread
<1>2. ASSUME NEW c \in Callers, StoreHandle(c)
      PROVE  TypeOK'
  <2>1. built[c] \in Threads /\ handles' = Append(handles, built[c])
    BY <1>2 DEF StoreHandle
  <2>2. handles' \in Seq(Threads)
    BY <2>1
  <2>3. CASE c = Owner
    <3>1. slot[Owner] + 1 \in 0 .. NumWorkers
      BY <1>2, <2>3 DEF StoreHandle
    <3> QED BY <1>2, <2>2, <2>3, <3>1 DEF StoreHandle, EndSpin
  <2>4. CASE c # Owner
    BY <1>2, <2>2, <2>4 DEF StoreHandle, EndSpin
  <2> QED BY <2>3, <2>4
<1>3. ASSUME NEW c \in Callers, SpawnFails(c)
      PROVE  TypeOK'
  BY <1>3 DEF SpawnFails
<1>4. ASSUME NEW t \in Threads, Register(t) \/ Exit(t)
      PROVE  TypeOK'
  BY <1>4 DEF Register, Exit
<1>5. ASSUME NEW t \in Threads, SentryDrop(t)
      PROVE  TypeOK'
  <2>1. CASE DataAlive
    <3>1. /\ index[t] \in 0 .. NumWorkers /\ t \in Callers
          /\ threadCount' = threadCount + 1
          /\ spin' = [spin EXCEPT ![t] = "spawn"]
          /\ slot' = [slot EXCEPT ![t] = index[t]]
          /\ UNCHANGED <<thread, index, built, owner, shutdown, joining, handles,
                         panics, failures>>
      BY <1>5, <2>1 DEF SentryDrop, BeginSpin
    <3> QED BY <3>1
  <2>2. CASE ~DataAlive
    BY <1>5, <2>2 DEF SentryDrop
  <2> QED BY <2>1, <2>2
<1>6. ASSUME NEW t \in Threads, Panic(t)
      PROVE  TypeOK'
  BY <1>6 DEF Panic
<1>7. CASE Build
  BY <1>7 DEF Build, BeginSpin
<1>8. CASE Shutdown
  BY <1>8 DEF Shutdown
<1>9. CASE Drain
  BY <1>9 DEF Drain
<1>10. CASE Join
  BY <1>10 DEF Join
<1>11. CASE ResetCount
  BY <1>11 DEF ResetCount
<1>12. CASE Free
  BY <1>12 DEF Free
<1>13. CASE UNCHANGED vars
  BY <1>13 DEF vars
<1> QED BY <1>1, <1>2, <1>3, <1>4, <1>5, <1>6, <1>7, <1>8, <1>9, <1>10, <1>11,
           <1>12, <1>13
        DEF Next, SpinStep, ThreadStep, DropStep, Gone

\* spin_up is entered by the builder for one index after the other, and by a
\* worker that unwinds for its own.
LEMMA SpinStays ==
    ASSUME TypeOK, SpinMatches, [Next]_vars
    PROVE  SpinMatches'
<1>a. /\ thread \in [Threads -> {"unborn", "started", "registered", "unwinding", "ended"}]
      /\ index \in [Threads -> Indices]
      /\ spin \in [Callers -> {"no", "spawn", "store"}]
      /\ slot \in [Callers -> 0 .. NumWorkers]
      /\ built \in [Callers -> Threads \cup {NoThread}]
      /\ owner \in {"building", "open", "drain", "join", "dropped", "freed"}
      /\ Owner \in Callers /\ Owner \notin Threads /\ Callers = Threads \cup {Owner}
      /\ NumWorkers \in Nat \ {0} /\ NoThread \notin Threads
  BY LifecycleAssumption DEF TypeOK, Callers, Threads, NoThread
<1> USE <1>a DEF SpinMatches, Indices, spinVars, ownerVars
<1>1. ASSUME NEW c \in Callers, SpawnThread(c)
      PROVE  SpinMatches'
  BY <1>1 DEF SpawnThread
<1>2. ASSUME NEW c \in Callers, StoreHandle(c)
      PROVE  SpinMatches'
  <2>1. CASE c = Owner
    <3>1. owner = "building" /\ slot[Owner] \in 0 .. NumWorkers - 1
      BY <1>2, <2>1 DEF StoreHandle
    <3>2. slot'[Owner] = NumWorkers <=> owner' # "building"
      BY <1>2, <2>1, <3>1 DEF StoreHandle, EndSpin
    <3> QED BY <1>2, <2>1, <3>2 DEF StoreHandle, EndSpin
  <2>2. CASE c # Owner
    BY <1>2, <2>2 DEF StoreHandle, EndSpin
  <2> QED BY <2>1, <2>2
<1>3. ASSUME NEW t \in Threads, SentryDrop(t)
      PROVE  SpinMatches'
  BY <1>3 DEF SentryDrop, BeginSpin
<1>4. ASSUME NEW t \in Threads, Register(t) \/ Exit(t) \/ Panic(t)
      PROVE  SpinMatches'
  BY <1>4 DEF Register, Exit, Panic
<1>5. CASE Build
  BY <1>5 DEF Build, BeginSpin
<1>6. CASE Shutdown \/ Drain \/ ResetCount \/ Free
  BY <1>6 DEF Shutdown, Drain, ResetCount, Free
<1>7. CASE UNCHANGED <<thread, index, spin, slot, built, owner>>
  BY <1>7
<1> QED BY <1>1, <1>2, <1>3, <1>4, <1>5, <1>6, <1>7
        DEF Next, SpinStep, ThreadStep, DropStep, Gone, SpawnFails, Join, vars

--------------------------------------------------------------------------------
(* One claim per index *)

\* A worker that unwinds gives its index up when its replacement is there; an
\* index comes into use with the builder's thread.
LEMMA ClaimsStep ==
    ASSUME TypeOK, SpinMatches, ClaimsMatch, [Next]_vars
    PROVE  ClaimsMatch'
<1>a. /\ thread \in [Threads -> {"unborn", "started", "registered", "unwinding", "ended"}]
      /\ index \in [Threads -> Indices]
      /\ spin \in [Callers -> {"no", "spawn", "store"}]
      /\ slot \in [Callers -> 0 .. NumWorkers]
      /\ owner \in {"building", "open", "drain", "join", "dropped", "freed"}
      /\ shutdown = (owner \notin {"building", "open"})
      /\ Owner \notin Threads /\ Callers = Threads \cup {Owner}
      /\ NumWorkers \in Nat \ {0} /\ Indices = 0 .. NumWorkers - 1
  BY LifecycleAssumption DEF TypeOK, Callers, Threads, Indices
<1>b. SpinMatches /\ ClaimsMatch
  OBVIOUS
<1> USE <1>a DEF spinVars, ownerVars
<1>1. ASSUME NEW c \in Callers, SpawnThread(c)
      PROVE  ClaimsMatch'
  <2>1. PICK t \in Threads :
          /\ thread[t] = "unborn"
          /\ thread' = [thread EXCEPT ![t] = "started"]
          /\ index' = [index EXCEPT ![t] = slot[c]]
    BY <1>1 DEF SpawnThread
  <2>2. /\ spin[c] = "spawn" /\ spin' = [spin EXCEPT ![c] = "store"]
        /\ UNCHANGED <<slot, shutdown>>
    BY <1>1 DEF SpawnThread
  <2>3. /\ ~Claims(t) /\ Claims(t)' /\ index'[t] = slot[c]
        /\ \A u \in Threads \ {t, c} :
             (Claims(u)' <=> Claims(u)) /\ index'[u] = index[u]
    BY <1>b, <2>1, <2>2 DEF Claims, SpinMatches
  <2>4. CASE c = Owner
    <3>1. /\ \A i \in Indices : InUse(i) <=> i < slot[Owner]
          /\ \A i \in Indices : InUse(i)' <=> i < slot[Owner] \/ i = slot[Owner]
          /\ slot[Owner] \in Indices
      BY <1>b, <2>2, <2>4 DEF InUse, SpinMatches
    <3>2. \A u \in Threads \ {t} : (Claims(u)' <=> Claims(u)) /\ index'[u] = index[u]
      BY <2>3, <2>4
    <3>3. \A u \in Threads : Claims(u) => index[u] < slot[Owner]
      BY <1>b, <3>1 DEF ClaimsMatch
    <3>4. \A u \in Threads : Claims(u)' => InUse(index[u])'
      BY <2>1, <2>3, <2>4, <3>1, <3>2, <3>3
    <3>5. ASSUME NEW u \in Threads, NEW v \in Threads,
                 Claims(u)', Claims(v)', index'[u] = index'[v]
          PROVE  u = v
      <4>1. CASE u # t /\ v # t
        BY <1>b, <3>2, <3>5, <4>1 DEF ClaimsMatch
      <4>2. CASE u = t \/ v = t
        BY <2>3, <2>4, <3>2, <3>3, <3>5, <4>2
      <4> QED BY <4>1, <4>2
    <3>6. ASSUME ~shutdown, NEW i \in Indices, InUse(i)'
          PROVE  \E u \in Threads : Claims(u)' /\ index'[u] = i
      <4>1. CASE i = slot[Owner]
        BY <2>3, <2>4, <4>1
      <4>2. CASE i # slot[Owner]
        <5>1. PICK u \in Threads : Claims(u) /\ index[u] = i
          BY <1>b, <3>1, <3>6, <4>2 DEF ClaimsMatch
        <5> QED BY <2>3, <3>2, <5>1
      <4> QED BY <4>1, <4>2
    <3> QED BY <2>2, <3>4, <3>5, <3>6 DEF ClaimsMatch
  <2>5. CASE c # Owner
    <3>1. /\ c \in Threads /\ c # t
          /\ Claims(c) /\ ~Claims(c)' /\ slot[c] = index[c]
      BY <1>b, <2>1, <2>2, <2>5 DEF Claims, SpinMatches
    <3>2. \A i \in Indices : InUse(i)' <=> InUse(i)
      BY <2>2, <2>5 DEF InUse
    <3>3. \A u \in Threads : Claims(u)' => InUse(index[u])'
      BY <1>b, <2>1, <2>3, <3>1, <3>2 DEF ClaimsMatch
    <3>4. \A u, v \in Threads : Claims(u)' /\ Claims(v)' /\ index'[u] = index'[v] => u = v
      BY <1>b, <2>3, <3>1 DEF ClaimsMatch
    <3>5. ASSUME ~shutdown, NEW i \in Indices, InUse(i)'
          PROVE  \E u \in Threads : Claims(u)' /\ index'[u] = i
      <4>1. PICK u \in Threads : Claims(u) /\ index[u] = i
        BY <1>b, <3>2, <3>5 DEF ClaimsMatch
      <4> QED BY <2>3, <3>1, <4>1
    <3> QED BY <2>2, <3>3, <3>4, <3>5 DEF ClaimsMatch
  <2> QED BY <2>4, <2>5
<1>2. ASSUME NEW c \in Callers, StoreHandle(c)
      PROVE  ClaimsMatch'
  <2>1. /\ spin[c] = "store" /\ spin' = [spin EXCEPT ![c] = "no"]
        /\ UNCHANGED <<index, shutdown>>
    BY <1>2 DEF StoreHandle, EndSpin
  <2>2. \A t \in Threads : Claims(t)' <=> Claims(t)
    <3>1. CASE c = Owner
      BY <1>2, <2>1, <3>1 DEF StoreHandle, EndSpin, Claims
    <3>2. CASE c # Owner
      <4>1. thread' = [thread EXCEPT ![c] = "ended"] /\ thread[c] = "unwinding"
        BY <1>2, <1>b, <3>2 DEF StoreHandle, EndSpin, SpinMatches
      <4> QED BY <2>1, <3>2, <4>1 DEF Claims
    <3> QED BY <3>1, <3>2
  <2>3. \A i \in Indices : InUse(i)' <=> InUse(i)
    <3>1. CASE c = Owner
      <4>1. slot' = [slot EXCEPT ![Owner] = @ + 1]
        BY <1>2, <3>1 DEF StoreHandle, EndSpin
      <4> QED BY <2>1, <3>1, <4>1 DEF InUse
    <3>2. CASE c # Owner
      BY <1>2, <2>1, <3>2 DEF StoreHandle, EndSpin, InUse
    <3> QED BY <3>1, <3>2
  <2> QED BY <1>b, <2>1, <2>2, <2>3 DEF ClaimsMatch
<1>3. ASSUME NEW t \in Threads, Exit(t)
      PROVE  ClaimsMatch'
  <2>1. /\ shutdown /\ shutdown' /\ index' = index
        /\ \A u \in Threads : Claims(u)' => Claims(u)
        /\ \A i \in Indices : InUse(i)' <=> InUse(i)
    BY <1>3 DEF Exit, Claims, InUse
  <2> QED BY <1>b, <2>1 DEF ClaimsMatch
<1>4. ASSUME NEW t \in Threads, Register(t) \/ Panic(t)
      PROVE  ClaimsMatch'
  <2>1. /\ UNCHANGED <<index, shutdown>>
        /\ \A u \in Threads : Claims(u)' <=> Claims(u)
        /\ \A i \in Indices : InUse(i)' <=> InUse(i)
    BY <1>b, <1>4 DEF Register, Panic, Claims, InUse, SpinMatches
  <2> QED BY <1>b, <2>1 DEF ClaimsMatch
<1>5. ASSUME NEW t \in Threads, SentryDrop(t)
      PROVE  ClaimsMatch'
  <2>1. CASE DataAlive
    <3>1. /\ UNCHANGED <<index, shutdown>>
          /\ \A u \in Threads : Claims(u)' <=> Claims(u)
          /\ \A i \in Indices : InUse(i)' <=> InUse(i)
      BY <1>5, <2>1 DEF SentryDrop, BeginSpin, Claims, InUse
    <3> QED BY <1>b, <3>1 DEF ClaimsMatch
  <2>2. CASE ~DataAlive
    <3>1. /\ shutdown /\ shutdown' /\ index' = index
          /\ \A u \in Threads : Claims(u)' => Claims(u)
          /\ \A i \in Indices : InUse(i)' <=> InUse(i)
      BY <1>5, <2>2 DEF SentryDrop, DataAlive, Claims, InUse
    <3> QED BY <1>b, <3>1 DEF ClaimsMatch
  <2> QED BY <2>1, <2>2
<1>6. CASE Build
  <2>1. /\ UNCHANGED <<index, shutdown>>
        /\ \A u \in Threads : Claims(u)' <=> Claims(u)
        /\ \A i \in Indices : InUse(i)' <=> InUse(i)
    BY <1>6 DEF Build, BeginSpin, Claims, InUse
  <2> QED BY <1>b, <2>1 DEF ClaimsMatch
<1>7. CASE Shutdown
  <2>1. /\ shutdown' /\ UNCHANGED <<thread, index, spin, slot>>
    BY <1>7 DEF Shutdown
  <2> QED BY <1>b, <2>1 DEF ClaimsMatch, Claims, InUse
<1>8. CASE UNCHANGED <<thread, index, spin, slot, shutdown>>
  BY <1>b, <1>8 DEF ClaimsMatch, Claims, InUse
<1> QED BY <1>1, <1>2, <1>3, <1>4, <1>5, <1>6, <1>7, <1>8
        DEF Next, SpinStep, ThreadStep, DropStep, Gone, SpawnFails, Drain, Join,
            ResetCount, Free, vars

--------------------------------------------------------------------------------
(* Handles *)

\* A thread's handle goes from its creator to the list, and from there to drop,
\* which forgets it only when the thread has ended.
LEMMA HandlesStep ==
    ASSUME TypeOK, SpinMatches, HandlesMatch, [Next]_vars
    PROVE  HandlesMatch'
<1>a. /\ thread \in [Threads -> {"unborn", "started", "registered", "unwinding", "ended"}]
      /\ spin \in [Callers -> {"no", "spawn", "store"}]
      /\ built \in [Callers -> Threads \cup {NoThread}]
      /\ owner \in {"building", "open", "drain", "join", "dropped", "freed"}
      /\ handles \in Seq(Threads) /\ joining \in Seq(Threads)
      /\ Owner \notin Threads /\ Callers = Threads \cup {Owner}
      /\ NoThread \notin Threads
  BY LifecycleAssumption DEF TypeOK, Callers, Threads, NoThread
<1>b. SpinMatches /\ HandlesMatch
  OBVIOUS
<1> USE <1>a DEF spinVars, ownerVars
<1>1. ASSUME NEW c \in Callers, SpawnThread(c)
      PROVE  HandlesMatch'
  <2>1. PICK t \in Threads :
          /\ thread' = [thread EXCEPT ![t] = "started"]
          /\ built' = [built EXCEPT ![c] = t]
    BY <1>1 DEF SpawnThread
  <2>2. built[c] = NoThread /\ UNCHANGED <<owner, handles, joining>>
    BY <1>b, <1>1 DEF SpawnThread, SpinMatches
  <2>3. \A u \in Threads \ {t} : Live(u)' = Live(u)
    BY <2>1 DEF Live
  <2>4. ASSUME NEW u \in Threads, \E d \in Callers : built[d] = u
        PROVE  \E d \in Callers : built'[d] = u
    <3>1. PICK d \in Callers : built[d] = u
      BY <2>4
    <3>2. d # c
      BY <2>2, <3>1
    <3> QED BY <2>1, <3>1, <3>2
  <2> QED BY <1>b, <2>1, <2>2, <2>3, <2>4 DEF HandlesMatch
<1>2. ASSUME NEW c \in Callers, StoreHandle(c)
      PROVE  HandlesMatch'
  <2>1. /\ built[c] \in Threads /\ built' = [built EXCEPT ![c] = NoThread]
        /\ handles' = Append(handles, built[c]) /\ joining' = joining
    BY <1>b, <1>2 DEF StoreHandle, EndSpin, SpinMatches
  <2>2. Range(handles') = Range(handles) \cup {built[c]}
    BY <2>1, RangeAppend
  <2>3. /\ \A u \in Threads : Live(u)' => Live(u)
        /\ owner' # "join" <=> owner # "join"
    <3>1. CASE c = Owner
      <4>1. owner = "building" /\ owner' \in {"building", "open"} /\ thread' = thread
        BY <1>b, <1>2, <3>1 DEF StoreHandle, EndSpin, SpinMatches
      <4> QED BY <4>1 DEF Live
    <3>2. CASE c # Owner
      BY <1>2, <3>2 DEF StoreHandle, EndSpin, Live
    <3> QED BY <3>1, <3>2
  <2>4. ASSUME NEW u \in Threads, NEW d \in Callers, built[d] = u
        PROVE  u \in Range(handles') \/ \E e \in Callers : built'[e] = u
    <3>1. CASE d = c
      BY <2>2, <2>4, <3>1
    <3>2. CASE d # c
      BY <2>1, <2>4, <3>2
    <3> QED BY <3>1, <3>2
  <2> QED BY <1>b, <2>1, <2>2, <2>3, <2>4 DEF HandlesMatch
<1>3. CASE Drain
  BY <1>b, <1>3 DEF Drain, HandlesMatch, Live, Range
<1>4. CASE Join
  <2>1. /\ joining # <<>> /\ joining' = Tail(joining) /\ ~Live(Head(joining))
        /\ UNCHANGED <<thread, built, handles, owner>> /\ owner = "join"
    BY <1>4 DEF Join, Live
  <2>2. Range(joining) = {Head(joining)} \cup Range(joining')
    BY <2>1, RangeTail
  <2> QED BY <1>b, <2>1, <2>2 DEF HandlesMatch, Live
<1>5. ASSUME UNCHANGED <<built, handles, joining>>,
             \A t \in Threads : Live(t)' => Live(t),
             owner' # "join" => joining = <<>>
      PROVE  HandlesMatch'
  BY <1>b, <1>5 DEF HandlesMatch
<1>6. CASE Shutdown \/ ResetCount \/ Free
  BY <1>b, <1>5, <1>6 DEF Shutdown, ResetCount, Free, HandlesMatch, Live
<1>7. ASSUME NEW t \in Threads, Register(t) \/ Exit(t) \/ Panic(t) \/ SentryDrop(t)
      PROVE  HandlesMatch'
  <2>1. /\ UNCHANGED <<built, handles, joining, owner>>
        /\ \A u \in Threads : Live(u)' => Live(u)
    BY <1>7 DEF Register, Exit, Panic, SentryDrop, BeginSpin, Live
  <2> QED BY <1>b, <1>5, <2>1 DEF HandlesMatch
<1>8. CASE UNCHANGED <<thread, built, handles, joining, owner>>
  BY <1>b, <1>5, <1>8 DEF HandlesMatch, Live
<1> QED BY <1>1, <1>2, <1>3, <1>4, <1>6, <1>7, <1>8
        DEF Next, SpinStep, ThreadStep, DropStep, Gone, SpawnFails, Build,
            BeginSpin, vars

--------------------------------------------------------------------------------
(* Counting *)

LiveThreads == {t \in Threads : Live(t)}

\* There are finitely many threads, so that they can be counted.
LEMMA SetsFinite ==
    /\ IsFiniteSet(LiveThreads) /\ IsFiniteSet(LiveThreads')
    /\ IsFiniteSet(Spinning) /\ IsFiniteSet(Spinning')
<1>1. IsFiniteSet(Threads)
  BY LifecycleAssumption, FS_Interval DEF Threads
<1>2. IsFiniteSet(Callers)
  BY <1>1, FS_AddElement DEF Callers
<1>3. LiveThreads \in SUBSET Threads /\ LiveThreads' \in SUBSET Threads
  BY DEF LiveThreads, Threads
<1>4. Spinning \in SUBSET Callers /\ Spinning' \in SUBSET Callers
  BY DEF Spinning, Callers, Threads
<1> QED BY <1>1, <1>2, <1>3, <1>4, FS_Subset

\* A thread is counted before it is created, and its creator no more after.
LEMMA CountStep ==
    ASSUME TypeOK, SpinMatches, CountMatches, [Next]_vars
    PROVE  CountMatches'
<1>a. /\ thread \in [Threads -> {"unborn", "started", "registered", "unwinding", "ended"}]
      /\ spin \in [Callers -> {"no", "spawn", "store"}]
      /\ owner \in {"building", "open", "drain", "join", "dropped", "freed"}
      /\ threadCount \in Nat
      /\ Owner \notin Threads /\ Callers = Threads \cup {Owner}
  BY LifecycleAssumption DEF TypeOK, Callers, Threads
<1>b. /\ Cardinality(LiveThreads) \in Nat /\ Cardinality(LiveThreads') \in Nat
      /\ Cardinality(Spinning) \in Nat /\ Cardinality(Spinning') \in Nat
  BY SetsFinite, FS_CardinalityType
<1>c. owner \notin {"dropped", "freed"} =>
        threadCount >= Cardinality(LiveThreads) + Cardinality(Spinning)
  BY DEF CountMatches, LiveThreads
<1> SUFFICES ASSUME owner' \notin {"dropped", "freed"}
             PROVE  threadCount' >= Cardinality(LiveThreads') + Cardinality(Spinning')
  BY DEF CountMatches, LiveThreads
<1> USE <1>a DEF spinVars, ownerVars
<1>1. ASSUME owner \notin {"dropped", "freed"},
             LiveThreads' \subseteq LiveThreads, Spinning' \subseteq Spinning,
             threadCount' \in Nat, threadCount' >= threadCount
      PROVE  threadCount' >= Cardinality(LiveThreads') + Cardinality(Spinning')
  <2>1. /\ Cardinality(LiveThreads') <= Cardinality(LiveThreads)
        /\ Cardinality(Spinning') <= Cardinality(Spinning)
    BY <1>1, SetsFinite, FS_Subset
  <2> QED BY <1>1, <1>b, <1>c, <2>1
<1>2. ASSUME NEW c \in Callers, SpawnThread(c)
      PROVE  threadCount' >= Cardinality(LiveThreads') + Cardinality(Spinning')
  <2>1. PICK t \in Threads :
          thread[t] = "unborn" /\ thread' = [thread EXCEPT ![t] = "started"]
    BY <1>2 DEF SpawnThread
  <2>2. LiveThreads' = LiveThreads \cup {t} /\ t \notin LiveThreads
    BY <2>1 DEF LiveThreads, Live
  <2>3. Spinning' = Spinning \ {c} /\ c \in Spinning
    BY <1>2 DEF SpawnThread, Spinning
  <2>4. /\ Cardinality(LiveThreads') = Cardinality(LiveThreads) + 1
        /\ Cardinality(Spinning') = Cardinality(Spinning) - 1
    BY <2>2, <2>3, SetsFinite, FS_AddElement, FS_RemoveElement
  <2>5. threadCount' = threadCount /\ owner' = owner
    BY <1>2 DEF SpawnThread
  <2> QED BY <1>b, <1>c, <2>4, <2>5
<1>3. ASSUME NEW c \in Callers, spin[c] = "no", spin' = [spin EXCEPT ![c] = "spawn"],
             threadCount' = threadCount + 1, UNCHANGED <<thread, owner>>
      PROVE  threadCount' >= Cardinality(LiveThreads') + Cardinality(Spinning')
  <2>1. LiveThreads' = LiveThreads
    BY <1>3 DEF LiveThreads, Live
  <2>2. Spinning' = Spinning \cup {c} /\ c \notin Spinning
    BY <1>3 DEF Spinning
  <2>3. Cardinality(Spinning') = Cardinality(Spinning) + 1
    BY <2>2, SetsFinite, FS_AddElement
  <2> QED BY <1>3, <1>b, <1>c, <2>1, <2>3
<1>4. ASSUME NEW t \in Threads, SentryDrop(t)
      PROVE  threadCount' >= Cardinality(LiveThreads') + Cardinality(Spinning')
  <2>1. DataAlive
    BY <1>4 DEF SentryDrop, DataAlive
  <2> QED BY <1>3, <1>4, <2>1 DEF SentryDrop, BeginSpin
<1>5. CASE Build
  BY <1>3, <1>5 DEF Build, BeginSpin
<1>6. ASSUME NEW c \in Callers, SpawnFails(c)
      PROVE  threadCount' >= Cardinality(LiveThreads') + Cardinality(Spinning')
  <2>1. LiveThreads' = LiveThreads /\ Spinning' = Spinning
    BY <1>6 DEF SpawnFails, LiveThreads, Live, Spinning
  <2> QED BY <1>1, <1>6, <2>1 DEF SpawnFails
<1>7. ASSUME NEW c \in Callers, StoreHandle(c)
      PROVE  threadCount' >= Cardinality(LiveThreads') + Cardinality(Spinning')
  <2>1. Spinning' = Spinning /\ threadCount' = threadCount
    BY <1>7 DEF StoreHandle, EndSpin, Spinning
  <2>2. LiveThreads' \subseteq LiveThreads /\ owner \notin {"dropped", "freed"}
    <3>1. CASE c = Owner
      BY <1>7, <3>1 DEF StoreHandle, EndSpin, LiveThreads, Live, SpinMatches
    <3>2. CASE c # Owner
      BY <1>7, <3>2 DEF StoreHandle, EndSpin, LiveThreads, Live
    <3> QED BY <3>1, <3>2
  <2> QED BY <1>1, <2>1, <2>2
<1>8. ASSUME NEW t \in Threads, Register(t) \/ Exit(t) \/ Panic(t)
      PROVE  threadCount' >= Cardinality(LiveThreads') + Cardinality(Spinning')
  <2>1. /\ LiveThreads' \subseteq LiveThreads /\ Spinning' = Spinning
        /\ threadCount' = threadCount /\ owner' = owner
    BY <1>8 DEF Register, Exit, Panic, LiveThreads, Live, Spinning
  <2> QED BY <1>1, <2>1
<1>9. CASE UNCHANGED <<thread, spin, threadCount>> /\ owner \notin {"dropped", "freed"}
  <2>1. LiveThreads' = LiveThreads /\ Spinning' = Spinning
    BY <1>9 DEF LiveThreads, Live, Spinning
  <2> QED BY <1>1, <1>9, <2>1
<1>10. CASE Shutdown \/ Drain \/ Join \/ ResetCount \/ Free \/ UNCHANGED vars
  BY <1>9, <1>10 DEF Shutdown, Drain, Join, ResetCount, Free, vars
<1> QED BY <1>2, <1>4, <1>5, <1>6, <1>7, <1>8, <1>10
        DEF Next, SpinStep, ThreadStep, DropStep, Gone

--------------------------------------------------------------------------------
(* The invariant *)

\* Before the first worker is created IInv holds,
LEMMA IInvInit ==
    Init => IInv
<1> SUFFICES ASSUME Init PROVE IInv
  OBVIOUS
<1>a. /\ Owner \notin Threads /\ Callers = Threads \cup {Owner}
      /\ NumWorkers \in Nat \ {0} /\ MaxPanics \in Nat /\ MaxFailures \in Nat
      /\ NoThread \notin Threads
  BY LifecycleAssumption DEF Threads, Callers, NoThread
<1>1. TypeOK
  <2>1. 0 \in Indices /\ 0 \in 0 .. NumWorkers
    BY <1>a DEF Indices
  <2>2. <<>> \in Seq(Threads)
    OBVIOUS
  <2>3. 0 \in 0 .. MaxPanics /\ 0 \in 0 .. MaxFailures
    BY <1>a
  <2> QED BY <2>1, <2>2, <2>3 DEF Init, TypeOK
<1>2. SpinMatches
  BY <1>a DEF Init, SpinMatches
<1>3. \A t \in Threads : ~Claims(t) /\ ~Live(t)
  BY DEF Init, Claims, Live
<1>4. \A i \in Indices : ~InUse(i)
  BY <1>a DEF Init, InUse, Indices
<1>5. ClaimsMatch /\ HandlesMatch
  BY <1>3, <1>4 DEF Init, ClaimsMatch, HandlesMatch
<1>6. {t \in Threads : Live(t)} = {}
  BY <1>3
<1>7. Spinning = {}
  BY <1>a DEF Init, Spinning
<1>8. CountMatches
  <2>1. Cardinality({t \in Threads : Live(t)}) = 0
    BY <1>6, FS_EmptySet
  <2>2. Cardinality(Spinning) = 0
    BY <1>7, FS_EmptySet
  <2>3. threadCount = 0
    BY DEF Init
  <2> QED BY <2>1, <2>2, <2>3 DEF CountMatches
<1> QED BY <1>1, <1>2, <1>5, <1>8 DEF IInv

\* and every step of the owner and of the threads keeps it:
LEMMA IInvStep ==
    IInv /\ [Next]_vars => IInv'
BY TypeStep, SpinStays, ClaimsStep, HandlesStep, CountStep DEF IInv

\* it holds in every reachable state.
LEMMA Invariance == Spec => []IInv
BY IInvInit, IInvStep, PTL DEF Spec

\* The variables keep their types.
THEOREM TypeCorrect == Spec => []TypeOK
<1>1. IInv => TypeOK
  BY DEF IInv
<1> QED BY Invariance, <1>1, PTL

\* However many workers unwind and thread creations fail, no two threads are
\* ever registered on one slot of the queue.
THEOREM SlotsExclusive == Spec => []SlotsAreExclusive
<1>1. IInv => SlotsAreExclusive
  BY DEF IInv, ClaimsMatch, Claims, SlotsAreExclusive
<1> QED BY Invariance, <1>1, PTL

\* An open pool has a thread for every index.
THEOREM PoolFull == Spec => []PoolIsFull
<1>1. IInv => PoolIsFull
  <2> SUFFICES ASSUME IInv, owner = "open", NEW i \in Indices
               PROVE  \E t \in Threads : Live(t) /\ index[t] = i
    BY DEF PoolIsFull
  <2>1. slot[Owner] = NumWorkers /\ ~shutdown
    BY DEF IInv, SpinMatches, TypeOK
  <2>2. InUse(i)
    BY <2>1, LifecycleAssumption DEF InUse, Indices
  <2>3. PICK t \in Threads : Claims(t) /\ index[t] = i
    BY <2>1, <2>2 DEF IInv, ClaimsMatch
  <2> QED BY <2>3 DEF Claims, Live
<1> QED BY Invariance, <1>1, PTL

\* thread_count() covers the threads alive until drop is through.
THEOREM CountCovers == Spec => []CountCoversLive
<1>1. IInv => CountCoversLive
  <2> SUFFICES ASSUME IInv, owner \notin {"dropped", "freed"}
               PROVE  threadCount >= Cardinality({t \in Threads : Live(t)})
    BY DEF CountCoversLive
  <2>1. /\ Cardinality(LiveThreads) \in Nat /\ Cardinality(Spinning) \in Nat
    BY SetsFinite, FS_CardinalityType
  <2>2. threadCount >= Cardinality(LiveThreads) + Cardinality(Spinning)
    BY DEF IInv, CountMatches, LiveThreads
  <2>3. threadCount \in Nat
    BY DEF IInv, TypeOK
  <2> QED BY <2>1, <2>2, <2>3 DEF LiveThreads
<1> QED BY Invariance, <1>1, PTL

\* The only threads drop may leave behind are those whose handles were stored too
\* late for it, or have yet to be, whenever they were started.
THEOREM OnlyLateOutlive == Spec => []OnlyLateReplacementsOutlive
<1>1. IInv => OnlyLateReplacementsOutlive
  <2> SUFFICES ASSUME IInv, owner \in {"dropped", "freed"},
                      NEW t \in Threads, Live(t)
               PROVE  t \in Range(handles) \/ \E c \in Threads : built[c] = t
    BY DEF OnlyLateReplacementsOutlive
  <2>1. joining = <<>>
    BY DEF IInv, HandlesMatch
  <2>2. built[Owner] # t
    <3>1. spin[Owner] = "no" /\ Owner \in Callers /\ NoThread \notin Threads
      BY LifecycleAssumption
         DEF IInv, TypeOK, SpinMatches, Callers, Threads, NoThread
    <3> QED BY <3>1 DEF IInv, SpinMatches
  <2>3. t \in Range(handles) \/ \E c \in Callers : built[c] = t
    BY <2>1 DEF IInv, HandlesMatch, Range
  <2> QED BY <2>2, <2>3 DEF Callers
<1> QED BY Invariance, <1>1, PTL

--------------------------------------------------------------------------------
(* The slots, as Queue sees them *)

\* Who works where: a thread that is registered is the only one that claims its
\* slot, so it is all of the slot's workers, and the slot is not given up.
LEMMA SoleWorker ==
    ASSUME IInv, NEW t \in Threads, Claims(t)
    PROVE  /\ index[t] \in Indices \ GivenUp
           /\ WorkersOf(index[t]) = IF thread[t] = "registered" THEN {t} ELSE {}
<1>1. index[t] \in Indices /\ index[t] \notin GivenUp
  BY DEF IInv, TypeOK, GivenUp
<1>2. \A u \in Threads : thread[u] = "registered" /\ index[u] = index[t] => u = t
  BY DEF IInv, ClaimsMatch, Claims
<1>3. WorkersOf(index[t]) = IF thread[t] = "registered" THEN {t} ELSE {}
  BY <1>2 DEF WorkersOf
<1> QED BY <1>1, <1>3

\* Steps that leave claims, indices and the registered threads alone are not seen.
LEMMA SlotsUnseen ==
    ASSUME shutdown' = shutdown,
           \A u \in Threads : /\ Claims(u)' <=> Claims(u)
                              /\ thread'[u] = "registered" <=> thread[u] = "registered"
                              /\ Claims(u) => index'[u] = index[u],
           \A i \in Indices : InUse(i)' <=> InUse(i)
    PROVE  UNCHANGED Slot!vars
<1>1. \A u \in Threads : thread[u] = "registered" => Claims(u)
  BY DEF Claims
<1>2. \A i \in Indices : WorkersOf(i)' = WorkersOf(i)
  BY <1>1 DEF WorkersOf
<1>3. GivenUp' = GivenUp
  BY DEF GivenUp
<1>4. [i \in Indices |-> WorkersOf(i)]' = [i \in Indices |-> WorkersOf(i)]
  BY <1>2
<1> QED BY <1>3, <1>4 DEF Slot!vars

\* The creation of a thread passes the claim of the worker it replaces on to it,
\* or brings the builder's next slot into use.
LEMMA SpawnUnseen ==
    ASSUME IInv, NEW c \in Callers, SpawnThread(c)
    PROVE  UNCHANGED Slot!vars
<1>a. /\ thread \in [Threads -> {"unborn", "started", "registered", "unwinding", "ended"}]
      /\ index \in [Threads -> Indices]
      /\ spin \in [Callers -> {"no", "spawn", "store"}]
      /\ slot \in [Callers -> 0 .. NumWorkers]
      /\ Owner \notin Threads /\ Callers = Threads \cup {Owner}
      /\ NumWorkers \in Nat \ {0} /\ Indices = 0 .. NumWorkers - 1
  BY LifecycleAssumption DEF IInv, TypeOK, Callers, Threads, Indices
<1>b. SpinMatches /\ ClaimsMatch
  BY DEF IInv
<1>1. PICK t \in Threads :
        /\ thread[t] = "unborn"
        /\ thread' = [thread EXCEPT ![t] = "started"]
        /\ index' = [index EXCEPT ![t] = slot[c]]
  BY DEF SpawnThread
<1>2. /\ spin[c] = "spawn" /\ spin' = [spin EXCEPT ![c] = "store"]
      /\ slot' = slot /\ shutdown' = shutdown
  BY DEF SpawnThread, ownerVars
<1>3. /\ ~Claims(t) /\ Claims(t)' /\ index'[t] = slot[c]
      /\ \A u \in Threads \ {t, c} :
           (Claims(u)' <=> Claims(u)) /\ index'[u] = index[u]
  BY <1>a, <1>b, <1>1, <1>2 DEF Claims, SpinMatches
<1>4. \A i \in Indices : WorkersOf(i)' = WorkersOf(i)
  <2>1. \A u \in Threads : /\ thread'[u] = "registered" <=> thread[u] = "registered"
                           /\ thread[u] = "registered" => index'[u] = index[u]
    BY <1>a, <1>1
  <2> QED BY <2>1 DEF WorkersOf
<1>5. ASSUME NEW i \in Indices PROVE i \in GivenUp' <=> i \in GivenUp
  <2>1. CASE c = Owner
    <3>1. /\ InUse(i) <=> i < slot[Owner]
          /\ InUse(i)' <=> i < slot[Owner] \/ i = slot[Owner]
      BY <1>a, <1>2, <2>1 DEF InUse
    <3>2. \A u \in Threads \ {t} : (Claims(u)' <=> Claims(u)) /\ index'[u] = index[u]
      BY <1>a, <1>3, <2>1
    <3>3. CASE i = slot[Owner]
      BY <1>a, <1>3, <2>1, <3>1, <3>3 DEF GivenUp
    <3>4. CASE i # slot[Owner]
      BY <1>3, <2>1, <3>1, <3>2, <3>4 DEF GivenUp
    <3> QED BY <3>3, <3>4
  <2>2. CASE c # Owner
    <3>1. /\ c \in Threads /\ c # t
          /\ Claims(c) /\ ~Claims(c)' /\ slot[c] = index[c]
      BY <1>a, <1>b, <1>1, <1>2, <2>2 DEF Claims, SpinMatches
    <3>2. InUse(i)' <=> InUse(i)
      BY <1>a, <1>2, <2>2 DEF InUse
    <3>3. (\E u \in Threads : Claims(u)' /\ index'[u] = i)
            <=> \E u \in Threads : Claims(u) /\ index[u] = i
      <4>1. ASSUME NEW u \in Threads, Claims(u)', index'[u] = i
            PROVE  \E v \in Threads : Claims(v) /\ index[v] = i
        BY <1>3, <3>1, <4>1
      <4>2. ASSUME NEW u \in Threads, Claims(u), index[u] = i
            PROVE  \E v \in Threads : Claims(v)' /\ index'[v] = i
        BY <1>3, <3>1, <4>2
      <4> QED BY <4>1, <4>2
    <3> QED BY <3>2, <3>3 DEF GivenUp
  <2> QED BY <2>1, <2>2
<1>6. GivenUp' = GivenUp
  BY <1>5 DEF GivenUp
<1>7. [i \in Indices |-> WorkersOf(i)]' = [i \in Indices |-> WorkersOf(i)]
  BY <1>4
<1> QED BY <1>2, <1>6, <1>7 DEF Slot!vars

\* What a thread may do to its slot alone.
LEMMA OwnSlot ==
    ASSUME IInv, NEW t \in Threads, Claims(t), index' = index,
           \A u \in Threads \ {t} : /\ Claims(u)' <=> Claims(u)
                                    /\ thread'[u] = thread[u],
           \A i \in Indices : InUse(i)' <=> InUse(i)
    PROVE  /\ \A i \in Indices \ {index[t]} : WorkersOf(i)' = WorkersOf(i)
           /\ WorkersOf(index[t])' = IF thread'[t] = "registered" THEN {t} ELSE {}
           /\ GivenUp' = IF Claims(t)' THEN GivenUp ELSE GivenUp \cup {index[t]}
<1>1. \A i \in Indices \ {index[t]} : WorkersOf(i)' = WorkersOf(i)
  BY DEF WorkersOf
<1>2. \A u \in Threads \ {t} : Claims(u) => index[u] # index[t]
  BY DEF IInv, ClaimsMatch
<1>3. \A u \in Threads \ {t} : thread'[u] = "registered" => index'[u] # index[t]
  BY <1>2 DEF Claims
<1>4. WorkersOf(index[t])' = IF thread'[t] = "registered" THEN {t} ELSE {}
  BY <1>3 DEF WorkersOf
<1>5. InUse(index[t])' /\ index[t] \in Indices
  BY DEF IInv, TypeOK, ClaimsMatch
<1>6. GivenUp' = IF Claims(t)' THEN GivenUp ELSE GivenUp \cup {index[t]}
  <2>1. ASSUME NEW i \in Indices, i # index[t]
        PROVE  i \in GivenUp' <=> i \in GivenUp
    BY <2>1 DEF GivenUp
  <2>2. index[t] \in GivenUp' <=> ~Claims(t)'
    BY <1>2, <1>5 DEF GivenUp
  <2>3. index[t] \notin GivenUp
    BY DEF GivenUp
  <2>4. GivenUp \subseteq Indices /\ GivenUp' \subseteq Indices
    BY DEF GivenUp
  <2> QED BY <1>5, <2>1, <2>2, <2>3, <2>4
<1> QED BY <1>1, <1>4, <1>6


\* Every step of the life cycle is one that WorkerSlots allows, or is not seen.
LEMMA SlotStep ==
    IInv /\ [Next]_vars => [Slot!Next]_(Slot!vars)
<1> SUFFICES ASSUME IInv, [Next]_vars
             PROVE  Slot!Next \/ UNCHANGED Slot!vars
  OBVIOUS
<1>a. /\ thread \in [Threads -> {"unborn", "started", "registered", "unwinding", "ended"}]
      /\ index \in [Threads -> Indices]
      /\ spin \in [Callers -> {"no", "spawn", "store"}]
      /\ slot \in [Callers -> 0 .. NumWorkers]
      /\ Owner \notin Threads /\ Callers = Threads \cup {Owner}
  BY LifecycleAssumption DEF IInv, TypeOK, Callers, Threads
<1>b. SpinMatches /\ ClaimsMatch
  BY DEF IInv
<1> DEFINE works == [i \in Indices |-> WorkersOf(i)]
<1>1. ASSUME NEW c \in Callers, StoreHandle(c) PROVE UNCHANGED Slot!vars
  <2>1. /\ spin[c] = "store" /\ spin' = [spin EXCEPT ![c] = "no"]
        /\ UNCHANGED <<index, shutdown>>
    BY <1>1 DEF StoreHandle, EndSpin
  <2>2. CASE c = Owner
    <3>1. slot' = [slot EXCEPT ![Owner] = @ + 1] /\ thread' = thread
      BY <1>1, <2>2 DEF StoreHandle, EndSpin
    <3>2. \A t \in Threads : Claims(t)' <=> Claims(t)
      BY <1>a, <2>1, <2>2, <3>1 DEF Claims
    <3>3. \A i \in Indices : InUse(i)' <=> InUse(i)
      BY <1>a, <2>1, <2>2, <3>1 DEF InUse, Indices
    <3> QED BY <2>1, <3>1, <3>2, <3>3, SlotsUnseen
  <2>3. CASE c # Owner
    <3>1. thread' = [thread EXCEPT ![c] = "ended"] /\ thread[c] = "unwinding" /\ slot' = slot
      BY <1>1, <1>a, <1>b, <2>1, <2>3 DEF StoreHandle, EndSpin, SpinMatches
    <3>2. \A t \in Threads : Claims(t)' <=> Claims(t)
      BY <1>a, <2>1, <2>3, <3>1 DEF Claims
    <3>3. \A i \in Indices : InUse(i)' <=> InUse(i)
      BY <1>a, <2>1, <2>3, <3>1 DEF InUse
    <3>4. \A t \in Threads : thread'[t] = "registered" <=> thread[t] = "registered"
      BY <1>a, <2>3, <3>1
    <3> QED BY <2>1, <3>2, <3>3, <3>4, SlotsUnseen
  <2> QED BY <2>2, <2>3
<1>2. ASSUME NEW t \in Threads, Register(t) PROVE Slot!Enter(index[t])
  <2>1. /\ thread[t] = "started" /\ thread' = [thread EXCEPT ![t] = "registered"]
        /\ UNCHANGED <<index, spin, slot, shutdown>>
    BY <1>2 DEF Register, spinVars, ownerVars
  <2>2. /\ Claims(t) /\ Claims(t)' /\ index[t] \in Indices /\ thread'[t] = "registered"
        /\ \A u \in Threads \ {t} : (Claims(u)' <=> Claims(u)) /\ thread'[u] = thread[u]
        /\ \A i \in Indices : InUse(i)' <=> InUse(i)
    BY <1>a, <2>1 DEF Claims, InUse
  <2>3. /\ index[t] \notin GivenUp /\ WorkersOf(index[t]) = {}
    BY <2>1, <2>2, SoleWorker
  <2>4. /\ \A i \in Indices \ {index[t]} : WorkersOf(i)' = WorkersOf(i)
        /\ WorkersOf(index[t])' = {t} /\ GivenUp' = GivenUp
    BY <2>1, <2>2, OwnSlot
  <2>5. works' = [works EXCEPT ![index[t]] = {t}]
    BY <2>1, <2>2, <2>4
  <2> QED BY <2>1, <2>2, <2>3, <2>4, <2>5 DEF Slot!Enter
<1>3. ASSUME NEW t \in Threads, Panic(t) PROVE Slot!Vacate(index[t])
  <2>1. /\ thread[t] = "registered" /\ thread' = [thread EXCEPT ![t] = "unwinding"]
        /\ UNCHANGED <<index, spin, slot, shutdown>>
    BY <1>3 DEF Panic, spinVars, ownerVars
  <2>2. /\ Claims(t) /\ Claims(t)' /\ index[t] \in Indices /\ thread'[t] = "unwinding"
        /\ \A u \in Threads \ {t} : (Claims(u)' <=> Claims(u)) /\ thread'[u] = thread[u]
        /\ \A i \in Indices : InUse(i)' <=> InUse(i)
    BY <1>a, <1>b, <2>1 DEF Claims, InUse, SpinMatches
  <2>3. WorkersOf(index[t]) = {t}
    BY <2>1, <2>2, SoleWorker
  <2>4. /\ \A i \in Indices \ {index[t]} : WorkersOf(i)' = WorkersOf(i)
        /\ WorkersOf(index[t])' = {} /\ GivenUp' = GivenUp
    BY <2>1, <2>2, OwnSlot
  <2>5. works' = [works EXCEPT ![index[t]] = {}]
    BY <2>1, <2>2, <2>4
  <2> QED BY <2>1, <2>2, <2>3, <2>4, <2>5 DEF Slot!Vacate
<1>4. ASSUME NEW t \in Threads, thread[t] \in {"registered", "unwinding"}, spin[t] = "no",
             shutdown, thread' = [thread EXCEPT ![t] = "ended"],
             UNCHANGED <<index, spin, slot, shutdown>>
      PROVE  Slot!Leave(index[t])
  <2>1. /\ Claims(t) /\ ~Claims(t)' /\ index[t] \in Indices /\ thread'[t] = "ended"
        /\ \A u \in Threads \ {t} : (Claims(u)' <=> Claims(u)) /\ thread'[u] = thread[u]
        /\ \A i \in Indices : InUse(i)' <=> InUse(i)
    BY <1>a, <1>4 DEF Claims, InUse
  <2>2. index[t] \notin GivenUp
    BY <2>1, SoleWorker
  <2>3. /\ \A i \in Indices \ {index[t]} : WorkersOf(i)' = WorkersOf(i)
        /\ WorkersOf(index[t])' = {} /\ GivenUp' = GivenUp \cup {index[t]}
    BY <1>4, <2>1, OwnSlot
  <2>4. works' = [works EXCEPT ![index[t]] = {}]
    BY <1>4, <2>1, <2>3
  <2> QED BY <1>4, <2>1, <2>2, <2>3, <2>4 DEF Slot!Leave
<1>5. ASSUME NEW t \in Threads, Exit(t) PROVE Slot!Leave(index[t])
  BY <1>4, <1>5 DEF Exit, spinVars, ownerVars
<1>6. ASSUME NEW t \in Threads, SentryDrop(t), ~DataAlive PROVE Slot!Leave(index[t])
  <2>1. /\ thread[t] = "unwinding" /\ spin[t] = "no"
        /\ thread' = [thread EXCEPT ![t] = "ended"]
        /\ UNCHANGED <<index, spin, slot, shutdown>>
    BY <1>6 DEF SentryDrop, spinVars, ownerVars
  <2>2. shutdown
    BY <1>6 DEF DataAlive, IInv, TypeOK
  <2> QED BY <1>4, <2>1, <2>2
<1>7. ASSUME NEW t \in Threads, SentryDrop(t), DataAlive PROVE UNCHANGED Slot!vars
  <2>1. /\ thread[t] = "unwinding" /\ spin[t] = "no" /\ thread' = thread
        /\ spin' = [spin EXCEPT ![t] = "spawn"] /\ slot' = [slot EXCEPT ![t] = index[t]]
        /\ UNCHANGED <<index, shutdown>>
    BY <1>7 DEF SentryDrop, BeginSpin, ownerVars
  <2>2. /\ \A u \in Threads : Claims(u)' <=> Claims(u)
        /\ \A i \in Indices : InUse(i)' <=> InUse(i)
    BY <1>a, <2>1 DEF Claims, InUse
  <2> QED BY <2>1, <2>2, SlotsUnseen
<1>8. CASE Build
  <2>1. /\ spin[Owner] = "no" /\ UNCHANGED <<thread, index, shutdown>>
        /\ spin' = [spin EXCEPT ![Owner] = "spawn"]
        /\ slot' = [slot EXCEPT ![Owner] = slot[Owner]]
    BY <1>8 DEF Build, BeginSpin, ownerVars
  <2>2. /\ \A u \in Threads : Claims(u)' <=> Claims(u)
        /\ \A i \in Indices : InUse(i)' <=> InUse(i)
    BY <1>a, <2>1 DEF Claims, InUse
  <2> QED BY <2>1, <2>2, SlotsUnseen
<1>9. CASE Shutdown
  <2>1. shutdown' = TRUE /\ UNCHANGED <<thread, index, spin, slot>>
    BY <1>9 DEF Shutdown, spinVars
  <2>2. GivenUp' = GivenUp /\ works' = works
    BY <2>1 DEF GivenUp, WorkersOf, Claims, InUse
  <2>3. Slot!Close
    BY <2>1, <2>2 DEF Slot!Close
  <2> QED BY <2>3 DEF Slot!Next
<1>10. CASE UNCHANGED <<thread, index, spin, slot, shutdown>>
  BY <1>10 DEF Slot!vars, GivenUp, WorkersOf, Claims, InUse
<1>11. \A t \in Threads : index[t] \in Indices
  BY <1>a
<1>12. ASSUME NEW t \in Threads, Register(t) \/ Panic(t) \/ Exit(t) \/ SentryDrop(t)
       PROVE  Slot!Next \/ UNCHANGED Slot!vars
  <2>1. CASE Register(t)
    BY <1>2, <1>11, <2>1 DEF Slot!Next
  <2>2. CASE Panic(t)
    BY <1>3, <1>11, <2>2 DEF Slot!Next
  <2>3. CASE Exit(t)
    BY <1>5, <1>11, <2>3 DEF Slot!Next
  <2>4. CASE SentryDrop(t)
    BY <1>6, <1>7, <1>11, <2>4 DEF Slot!Next
  <2> QED BY <1>12, <2>1, <2>2, <2>3, <2>4
<1> QED BY <1>1, <1>8, <1>9, <1>10, <1>12, SpawnUnseen
        DEF Next, SpinStep, ThreadStep, DropStep, Gone, SpawnFails, Drain, Join,
            ResetCount, Free, vars, spinVars, ownerVars

\* Lifecycle implements WorkerSlots: whatever unwinds, is refused or comes too
\* late, the queue sees slots that have one worker at a time and are given up only
\* when the pool is dropped.
THEOREM ImplementsSlots == Spec => ImplementsWorkerSlots
<1>1. Init => Slot!Init
  <2> SUFFICES ASSUME Init PROVE Slot!Init
    OBVIOUS
  <2>1. \A i \in Indices : ~InUse(i) /\ WorkersOf(i) = {}
    BY LifecycleAssumption DEF Init, InUse, WorkersOf, Indices, Callers
  <2>2. GivenUp = {} /\ shutdown = FALSE
    BY <2>1 DEF GivenUp, Init
  <2>3. [i \in Indices |-> WorkersOf(i)] = [i \in Indices |-> {}]
    BY <2>1
  <2> QED BY <2>2, <2>3 DEF Slot!Init
<1> QED BY <1>1, Invariance, SlotStep, PTL DEF Spec, ImplementsWorkerSlots, Slot!Spec

================================================================================

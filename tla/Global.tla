--------------------------------- MODULE Global ---------------------------------
(***************************************************************************)
(* The process-wide pool (src/src/global.rs, lib.rs): several threads may  *)
(* call build_global, each with a pool of its own, while others call the   *)
(* free functions spawn and spawn_local, which look at the cell when they  *)
(* are first polled.  OnceLock is external: get and get_or_init are atomic.*)
(***************************************************************************)
EXTENDS TLAPS

CONSTANTS
    Pools,    \* each is built by a thread of its own and passed to build_global
    Calls     \* calls of the free spawn and spawn_local

VARIABLES
    cell,     \* THREADPOOL: the pools it holds, none or one
    build,    \* build[q]: "idle", "checked", then what build_global returned
    alive,    \* pools that have not been dropped
    ran       \* ran[c]: where call c's closure goes: "nowhere", "inline", "pool"

vars == <<cell, build, alive, ran>>

Init ==
    /\ cell = {}
    /\ build = [q \in Pools |-> "idle"]
    /\ alive = Pools
    /\ ran = [c \in Calls |-> "nowhere"]

\* The test of build_global: the pool is dropped with the call if it fails.
Check(q) ==
    /\ build[q] = "idle"
    /\ IF cell = {}
         THEN build' = [build EXCEPT ![q] = "checked"] /\ UNCHANGED alive
         ELSE /\ build' = [build EXCEPT ![q] = "exists"]
              /\ alive' = alive \ {q}
    /\ UNCHANGED <<cell, ran>>

\* get_or_init: the closure that has taken the pool is dropped with it if
\* another thread has been faster.  Either way build_global returns Ok.
GetOrInit(q) ==
    /\ build[q] = "checked"
    /\ build' = [build EXCEPT ![q] = "ok"]
    /\ IF cell = {}
         THEN cell' = {q} /\ UNCHANGED alive
         ELSE alive' = alive \ {q} /\ UNCHANGED cell
    /\ UNCHANGED ran

\* The free functions: a closure runs at once, on the thread that polls, when
\* there is no global pool.
FreeSpawn(c) ==
    /\ ran[c] = "nowhere"
    /\ ran' = [ran EXCEPT ![c] = IF cell = {} THEN "inline" ELSE "pool"]
    /\ UNCHANGED <<cell, build, alive>>

Next ==
    \/ \E q \in Pools : Check(q) \/ GetOrInit(q)
    \/ \E c \in Calls : FreeSpawn(c)

Spec == Init /\ [][Next]_vars

--------------------------------------------------------------------------------
(* Properties *)

\* The type of every variable; the cell holds one pool at most.
TypeOK ==
    /\ cell \subseteq Pools
    /\ \A p, q \in cell : p = q
    /\ build \in [Pools -> {"idle", "checked", "exists", "ok"}]
    /\ alive \subseteq Pools
    /\ ran \in [Calls -> {"nowhere", "inline", "pool"}]

\* The global pool is never dropped: a caller of the free functions that has
\* found it in the cell can use it, whoever else calls build_global.
GlobalStays == cell \subseteq alive

\* Whatever build_global has returned, Ok or Err, there is a global pool then.
ReturnsWithGlobal == (\E q \in Pools : build[q] \in {"exists", "ok"}) => cell # {}

\* The cell is written once, by build_global only; and the free functions change
\* their mind once: no closure runs inline after one that went to the pool.
WrittenOnlyOnce ==
    /\ cell # {} => cell' = cell
    /\ \A c \in Calls :
         ran'[c] = "inline" /\ ran[c] = "nowhere" =>
             \A d \in Calls : ran[d] # "pool"

CellIsForGood == [][WrittenOnlyOnce]_vars

\* "Global threadpool was created successfully.": a build_global that returns
\* Ok has made its own pool the global one.
OkMeansGlobal == \A q \in Pools : build[q] = "ok" => q \in cell

--------------------------------------------------------------------------------
(* Proofs *)

\* Inductive: also, a pool that is still with its builder has not been dropped,
\* and a call that went to the pool has found it.
IInv ==
    /\ TypeOK /\ GlobalStays /\ ReturnsWithGlobal
    /\ \A q \in Pools : build[q] \in {"idle", "checked"} => q \in alive \ cell
    /\ \A c \in Calls : ran[c] = "pool" => cell # {}

\* Neither half of build_global, nor a free spawn in between, breaks IInv.
LEMMA IInvHolds == Spec => []IInv
<1>1. Init => IInv
  BY DEF Init, IInv, TypeOK, GlobalStays, ReturnsWithGlobal
<1>2. IInv /\ [Next]_vars => IInv'
  <2> SUFFICES ASSUME IInv, [Next]_vars PROVE IInv'
    OBVIOUS
  <2> USE DEF IInv, TypeOK, GlobalStays, ReturnsWithGlobal
  <2>1. ASSUME NEW q \in Pools, Check(q)
        PROVE  IInv'
    <3>1. CASE cell = {}
      BY <2>1, <3>1 DEF Check
    <3>2. CASE cell # {}
      BY <2>1, <3>2 DEF Check
    <3> QED BY <3>1, <3>2
  <2>2. ASSUME NEW q \in Pools, GetOrInit(q)
        PROVE  IInv'
    <3>1. CASE cell = {}
      BY <2>2, <3>1 DEF GetOrInit
    <3>2. CASE cell # {}
      BY <2>2, <3>2 DEF GetOrInit
    <3> QED BY <3>1, <3>2
  <2>3. ASSUME NEW c \in Calls, FreeSpawn(c)
        PROVE  IInv'
    BY <2>3 DEF FreeSpawn
  <2>4. CASE UNCHANGED vars
    BY <2>4 DEF vars
  <2> QED BY <2>1, <2>2, <2>3, <2>4 DEF Next
<1> QED BY <1>1, <1>2, PTL DEF Spec

\* However many threads call build_global, the global pool outlives them all and
\* is there for whoever has seen one of them return.
THEOREM GlobalIsThere == Spec => [](GlobalStays /\ ReturnsWithGlobal)
<1>1. IInv => GlobalStays /\ ReturnsWithGlobal
  BY DEF IInv
<1> QED BY IInvHolds, <1>1, PTL

\* The cell is written once, and no free spawn runs inline after one that did
\* not.
THEOREM WrittenOnce == Spec => CellIsForGood
<1>1. IInv /\ [Next]_vars => [WrittenOnlyOnce]_vars
  <2> SUFFICES ASSUME IInv, [Next]_vars PROVE [WrittenOnlyOnce]_vars
    OBVIOUS
  <2>1. ASSUME NEW q \in Pools, Check(q) \/ GetOrInit(q)
        PROVE  (cell # {} => cell' = cell) /\ ran' = ran
    BY <2>1 DEF Check, GetOrInit
  <2>2. ASSUME NEW c \in Calls, FreeSpawn(c)
        PROVE  /\ cell' = cell
               /\ \A d \in Calls \ {c} : ran'[d] = ran[d]
               /\ cell # {} => ran'[c] # "inline"
    BY <2>2 DEF FreeSpawn, IInv, TypeOK
  <2> QED BY <2>1, <2>2 DEF Next, IInv, WrittenOnlyOnce
<1> QED BY IInvHolds, <1>1, PTL DEF CellIsForGood, Spec
================================================================================

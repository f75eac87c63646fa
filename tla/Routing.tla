-------------------------------- MODULE Routing --------------------------------
(***************************************************************************)
(* route_shard (src/src/cpu.rs): which injector a thread outside the pool  *)
(* pushes to.  The route is cached per thread, for all the pools it uses:  *)
(* a preferred shard from a hash of the thread's id, and a count of the    *)
(* consecutive pushes to it; past SpillThreshold of them the pushes rotate *)
(* over the shards.                                                        *)
(*                                                                         *)
(* Pools are built while producers run, with as many shards as their       *)
(* settings give them (Sizing).  Queue needs none of this (its Push picks  *)
(* any shard): here is how the choice is made.  `visited' is a history     *)
(* variable.                                                               *)
(***************************************************************************)
EXTENDS Sizing

CONSTANTS
    Producers,
    Pools,
    BuiltWith,       \* BuiltWith[q]: settings that pool q may be built with
    SpillThreshold,  \* SPILL_THRESHOLD
    CountMax,        \* u32::MAX
    Hints,           \* values of hash_thread_id()
    None

ASSUME RoutingAssumption ==
    /\ \A q \in Pools : BuiltWith[q] \subseteq Settings(Nat)
    /\ SpillThreshold \in Nat \ {0} /\ CountMax \in Nat
    /\ SpillThreshold < CountMax
    /\ Hints \subseteq Nat

VARIABLES
    settings, \* settings[q]: what pool q was built with, None before
    route,    \* route[p]: the thread-local ROUTE of thread p
    visited   \* visited[p][q]: shards of q that p's current rotation has reached,
              \* if p has used no other pool meanwhile

vars == <<settings, route, visited>>

Built == {q \in Pools : settings[q] # None}
ShardsOf(q) == NumShards(settings[q])
Shards(q) == 0 .. ShardsOf(q) - 1

NoRoute == [hint |-> None, preferred |-> None, consecutive |-> 0]

Init ==
    /\ settings = [q \in Pools |-> None]
    /\ route = [p \in Producers |-> NoRoute]
    /\ visited = [p \in Producers |-> [q \in Pools |-> {}]]

\* Builder::build, of which this keeps the size of the queue.
Build(q) ==
    /\ settings[q] = None
    /\ \E s \in BuiltWith[q] : settings' = [settings EXCEPT ![q] = s]
    /\ UNCHANGED <<route, visited>>

Preferred(r, q) == r.hint % ShardsOf(q)

\* Mutant of Counted: the counter wraps.
MutWraps(r, q) ==
    IF r.preferred = Preferred(r, q) THEN (r.consecutive + 1) % (CountMax + 1) ELSE 1

\* saturating_add: the number of consecutive pushes with this one.
Counted(r, q) ==
    IF r.preferred # Preferred(r, q) THEN 1
    ELSE IF r.consecutive = CountMax THEN CountMax
    ELSE r.consecutive + 1

\* The route after a push to q by a thread with route r, hashed on first use.
Advanced(r, q) ==
    [r EXCEPT !.preferred = Preferred(r, q), !.consecutive = Counted(r, q)]

Spills(r) == r.consecutive > SpillThreshold

\* Mutant of Routed: the rotation takes the mask for the number of shards.
MutMissesLast(r, q) ==
    IF Spills(r) /\ ShardsOf(q) > 1
      THEN (r.preferred + (r.consecutive - SpillThreshold)) % (ShardsOf(q) - 1)
      ELSE r.preferred

\* The shard that push goes to.
Routed(r, q) ==
    IF Spills(r)
      THEN (r.preferred + (r.consecutive - SpillThreshold)) % ShardsOf(q)
      ELSE r.preferred

\* One push by thread p to pool q.
RouteShard(p, q) ==
    /\ q \in Built
    /\ \E hint \in IF route[p] = NoRoute THEN Hints ELSE {route[p].hint} :
         LET r == Advanced([route[p] EXCEPT !.hint = hint], q)
             reached == visited[p][q] \cup {Routed(r, q)}
         IN
         /\ route' = [route EXCEPT ![p] = r]
         /\ visited' = [visited EXCEPT ![p] = [s \in Pools |->
                          IF s = q /\ Spills(r) /\ reached # Shards(q) THEN reached
                          ELSE {}]]
    /\ UNCHANGED settings

Next ==
    \/ \E q \in Pools : Build(q)
    \/ \E p \in Producers, q \in Pools : RouteShard(p, q)

Spec == Init /\ [][Next]_vars

--------------------------------------------------------------------------------
(* Properties *)

\* The counter is an unsigned integer that saturates, and a thread that has
\* pushed has a hint.
TypeOK ==
    /\ settings \in [Pools -> Settings(Nat) \cup {None}]
    /\ \A q \in Built : settings[q] \in BuiltWith[q]
    /\ route \in [Producers -> {NoRoute} \cup
                    [hint : Hints, preferred : UNION {Shards(q) : q \in Built},
                     consecutive : 1 .. CountMax]]
    /\ visited \in [Producers -> [Pools -> SUBSET Nat]]
    /\ \A p \in Producers, q \in Pools :
         visited[p][q] \subseteq IF q \in Built THEN Shards(q) ELSE {}

\* Queue::new and Builder::build clamp and round in the right order: every pool
\* is sized as the docs of worker_threads and shards promise, for the numbers at
\* the edges of the type too.
ShardCounts == \A q \in Built : SizedAsDocumented(settings[q])

\* A spilling thread that stays with one pool reaches every shard of it before
\* any shard twice, for as long as its counter has not saturated: single-producer
\* fan-out is distributed evenly.  The counter need not have started on that
\* pool: pushes to another pool with the same preferred shard count, too.
SpillIsEven ==
    [][\A p \in Producers, q \in Pools :
         RouteShard(p, q) /\ Spills(route'[p]) /\ route[p].consecutive < CountMax
           => Routed(route'[p], q) \notin visited[p][q]]_vars
================================================================================

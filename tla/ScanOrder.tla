------------------------------- MODULE ScanOrder -------------------------------
(***************************************************************************)
(* The places a runnable can be queued in, and the order in which one pass *)
(* of Queue::scan visits them (src/src/queue.rs).  Pure operators: Queue   *)
(* uses them step by step.                                                 *)
(*                                                                         *)
(* Workers are numbered 0 .. NumWorkers-1 as in the code.  The number of   *)
(* shards is a power of two there, because routing is a bitmask;           *)
(* `x & mask' is therefore `x % NumShards', and nothing below needs more   *)
(* than NumShards >= 1.                                                    *)
(***************************************************************************)
EXTENDS Integers, Sequences

CONSTANTS
    NumWorkers,         \* stealers.len()
    NumShards,          \* injectors.len(), i.e. mask + 1
    CheapScanVictims    \* CHEAP_SCAN_VICTIMS

ASSUME SizesAssumption ==
    /\ NumWorkers \in Nat \ {0}
    /\ NumShards \in Nat \ {0}
    /\ CheapScanVictims \in Nat

Workers == 0 .. NumWorkers - 1
Shards  == 0 .. NumShards - 1

\* A place that holds runnables: a shard's injector or a worker's deque.
Injector(i) == [kind |-> "injector", at |-> i]
Deque(w)    == [kind |-> "deque", at |-> w]

Injectors == {Injector(i) : i \in Shards}
Deques    == {Deque(w) : w \in Workers}
Places    == Injectors \cup Deques

\* enum Probe: how hard a pass tries.
Probes == {"cheap", "strict"}

MyShard(w) == w % NumShards

\* Where a pass may start among `span' victims: the image of fast_reduce,
\* which maps a 32-bit draw of the worker's rng onto 0 .. span-1.
Starts(span) == 0 .. span - 1

\* Mutant of ProbeLimit: the strict scan is bounded like the cheap ones.
MutAlwaysBounded(span, probe) ==
    IF span <= CheapScanVictims THEN span ELSE CheapScanVictims

\* Cheap scans stop after CheapScanVictims victims, strict ones do not.
ProbeLimit(span, probe) ==
    IF probe = "strict" \/ span <= CheapScanVictims THEN span ELSE CheapScanVictims

\* The k-th victim (from 0) of a rotation of `span' that begins at `start'.
Rotated(span, start, k) ==
    IF start + k >= span THEN start + k - span ELSE start + k

OtherShard(w, rot) == (MyShard(w) + 1 + rot) % NumShards

OtherWorker(w, rot) ==
    IF w + 1 + rot >= NumWorkers THEN w + 1 + rot - NumWorkers ELSE w + 1 + rot

\* The other injectors, then the other workers, as a pass with this start
\* visits them.
ShardPass(w, probe, start) ==
    [k \in 1 .. ProbeLimit(NumShards - 1, probe) |->
        Injector(OtherShard(w, Rotated(NumShards - 1, start, k - 1)))]

PeerPass(w, probe, start) ==
    [k \in 1 .. ProbeLimit(NumWorkers - 1, probe) |->
        Deque(OtherWorker(w, Rotated(NumWorkers - 1, start, k - 1)))]

\* Every order in which one pass of worker w may visit its victims, its own
\* deque aside: preferred injector, other injectors, other workers.  A step
\* with one victim or none draws no start.
ShardPasses(w, probe) ==
    IF NumShards = 1 THEN {<<>>}
    ELSE {ShardPass(w, probe, start) : start \in Starts(NumShards - 1)}

PeerPasses(w, probe) ==
    IF NumWorkers = 1 THEN {<<>>}
    ELSE {PeerPass(w, probe, start) : start \in Starts(NumWorkers - 1)}

VictimOrders(w, probe) ==
    {<<Injector(MyShard(w))>> \o s \o p :
        s \in ShardPasses(w, probe), p \in PeerPasses(w, probe)}
================================================================================

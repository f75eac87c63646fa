---------------------------- MODULE ScanOrderProofs ----------------------------
(***************************************************************************)
(* For every number of workers and shards and every bound on cheap scans:  *)
(* a pass stays within the queue's places, and a strict pass visits every  *)
(* place but the worker's own deque, each one once.                        *)
(***************************************************************************)
EXTENDS ScanOrder, TLAPS

\* A value and a value plus less than one whole turn meet in one wrap.
LEMMA ModStep ==
    ASSUME NEW n \in Nat \ {0}, NEW x \in 0 .. 2 * n - 1
    PROVE  x % n = IF x >= n THEN x - n ELSE x
<1>1. CASE x < n
  BY <1>1, SMT
<1>2. CASE x >= n
  BY <1>2, SMT
<1> QED BY <1>1, <1>2

\* A remainder lies between zero and its divisor.
LEMMA ModRange ==
    ASSUME NEW n \in Nat \ {0}, NEW x \in Nat
    PROVE  x % n \in 0 .. n - 1
BY SMT

\* What a rotation does: it maps the steps 0 .. span-1 onto the victims
\* 0 .. span-1, and no two steps onto the same victim.
LEMMA RotatedRange ==
    ASSUME NEW span \in Nat, NEW start \in Starts(span), NEW k \in 0 .. span - 1
    PROVE  Rotated(span, start, k) \in 0 .. span - 1
BY DEF Rotated, Starts

\* Every victim is the image of some step of the rotation, so a full rotation
\* skips nobody.
LEMMA RotatedOnto ==
    ASSUME NEW span \in Nat, NEW start \in Starts(span), NEW v \in 0 .. span - 1
    PROVE  \E k \in 0 .. span - 1 : Rotated(span, start, k) = v
<1> DEFINE k == IF v >= start THEN v - start ELSE v + span - start
<1>1. k \in 0 .. span - 1
  BY DEF Starts
<1>2. Rotated(span, start, k) = v
  BY DEF Rotated, Starts
<1> QED BY <1>1, <1>2

\* Two steps of a rotation never meet in the same victim.
LEMMA RotatedOnce ==
    ASSUME NEW span \in Nat, NEW start \in Starts(span),
           NEW k \in 0 .. span - 1, NEW l \in 0 .. span - 1,
           Rotated(span, start, k) = Rotated(span, start, l)
    PROVE  k = l
BY DEF Rotated, Starts

\* A worker's preferred shard (index & mask) is a shard of the pool.
LEMMA MyShardRange ==
    ASSUME NEW w \in Workers
    PROVE  MyShard(w) \in Shards
BY SizesAssumption, ModRange DEF MyShard, Shards, Workers

\* The victim rot steps after the preferred shard, without the bitmask.
LEMMA OtherShardIs ==
    ASSUME NEW w \in Workers, NEW rot \in 0 .. NumShards - 2
    PROVE  LET x == MyShard(w) + 1 + rot IN
           OtherShard(w, rot) = IF x >= NumShards THEN x - NumShards ELSE x
<1> DEFINE x == MyShard(w) + 1 + rot
<1>1. MyShard(w) \in 0 .. NumShards - 1
  BY MyShardRange DEF Shards
<1>2. x \in 0 .. 2 * NumShards - 1
  BY <1>1, SizesAssumption
<1>3. x % NumShards = IF x >= NumShards THEN x - NumShards ELSE x
  <2> HIDE DEF x
  <2> QED BY <1>2, SizesAssumption, ModStep
<1> QED BY <1>3 DEF OtherShard

\* A step of the shard leg leads to a shard other than the preferred one.
LEMMA OtherShardRange ==
    ASSUME NEW w \in Workers, NEW rot \in 0 .. NumShards - 2
    PROVE  OtherShard(w, rot) \in Shards \ {MyShard(w)}
<1>1. MyShard(w) \in 0 .. NumShards - 1
  BY MyShardRange DEF Shards
<1> QED BY <1>1, OtherShardIs, SizesAssumption DEF Shards

\* Different steps of the shard leg lead to different shards.
LEMMA OtherShardOnce ==
    ASSUME NEW w \in Workers, NEW r \in 0 .. NumShards - 2,
           NEW q \in 0 .. NumShards - 2, OtherShard(w, r) = OtherShard(w, q)
    PROVE  r = q
<1>1. MyShard(w) \in 0 .. NumShards - 1
  BY MyShardRange DEF Shards
<1>2. \A rot \in 0 .. NumShards - 2 :
        LET x == MyShard(w) + 1 + rot IN
        OtherShard(w, rot) = IF x >= NumShards THEN x - NumShards ELSE x
  BY OtherShardIs
<1> QED BY <1>1, <1>2, SizesAssumption

\* Every shard but the preferred one is reached by a step of the shard leg.
LEMMA OtherShardOnto ==
    ASSUME NEW w \in Workers, NEW i \in Shards \ {MyShard(w)}
    PROVE  \E rot \in 0 .. NumShards - 2 : OtherShard(w, rot) = i
<1> DEFINE m == MyShard(w)
           rot == IF i > m THEN i - m - 1 ELSE i + NumShards - m - 1
<1>1. m \in 0 .. NumShards - 1 /\ i \in 0 .. NumShards - 1 /\ i # m
  BY MyShardRange DEF Shards
<1>2. rot \in 0 .. NumShards - 2
  BY <1>1, SizesAssumption
<1>3. OtherShard(w, rot) = i
  BY <1>1, <1>2, OtherShardIs, SizesAssumption
<1> QED BY <1>2, <1>3

\* A step of the peer leg leads to another worker: a thief never probes itself.
LEMMA OtherWorkerRange ==
    ASSUME NEW w \in Workers, NEW rot \in 0 .. NumWorkers - 2
    PROVE  OtherWorker(w, rot) \in Workers \ {w}
BY SizesAssumption DEF OtherWorker, Workers

\* Every other worker is reached by a step of the peer leg.
LEMMA OtherWorkerOnto ==
    ASSUME NEW w \in Workers, NEW v \in Workers \ {w}
    PROVE  \E rot \in 0 .. NumWorkers - 2 : OtherWorker(w, rot) = v
<1> DEFINE rot == IF v > w THEN v - w - 1 ELSE v + NumWorkers - w - 1
<1>1. rot \in 0 .. NumWorkers - 2 /\ OtherWorker(w, rot) = v
  BY SizesAssumption DEF OtherWorker, Workers
<1> QED BY <1>1

\* probe_limit never exceeds the number of victims, and a strict pass has no
\* other limit.
LEMMA ProbeLimitRange ==
    ASSUME NEW span \in Nat, NEW probe \in Probes
    PROVE  /\ ProbeLimit(span, probe) \in 0 .. span
           /\ probe = "strict" => ProbeLimit(span, probe) = span
BY SizesAssumption DEF ProbeLimit

\* The victims of the two legs, and what makes a leg good: it repeats none and
\* leaves none out.
OtherInjectors(w) == Injectors \ {Injector(MyShard(w))}
OtherDeques(w) == Deques \ {Deque(w)}
NoRepeat(s) == \A j, k \in 1 .. Len(s) : s[j] = s[k] => j = k
Covers(s, S) == \A x \in S : \E j \in 1 .. Len(s) : s[j] = x

\* The two legs of a pass: sequences of other injectors and of other deques
\* without repetition, complete when the pass is strict.
LEMMA ShardLeg ==
    ASSUME NEW w \in Workers, NEW probe \in Probes,
           NEW s \in ShardPasses(w, probe)
    PROVE  /\ s \in Seq(OtherInjectors(w))
           /\ NoRepeat(s)
           /\ probe = "strict" => Covers(s, OtherInjectors(w))
<1>1. CASE NumShards = 1
  <2>1. s = <<>> /\ Shards = {MyShard(w)}
    BY <1>1, MyShardRange DEF ShardPasses, Shards
  <2>2. OtherInjectors(w) = {}
    BY <2>1 DEF OtherInjectors, Injectors
  <2> QED BY <2>1, <2>2 DEF NoRepeat, Covers
<1>2. CASE NumShards # 1
  <2> DEFINE span == NumShards - 1
             limit == ProbeLimit(span, probe)
  <2>1. PICK start \in Starts(span) : s = ShardPass(w, probe, start)
    BY <1>2 DEF ShardPasses
  <2>2. span \in Nat /\ limit \in 0 .. span /\ (probe = "strict" => limit = span)
    <3>1. span \in Nat
      BY SizesAssumption
    <3> HIDE DEF span
    <3> QED BY <3>1, ProbeLimitRange
  <2> DEFINE rot(k) == Rotated(span, start, k - 1)
  <2>3. \A k \in 1 .. limit : rot(k) \in 0 .. NumShards - 2
    <3> HIDE DEF limit
    <3> SUFFICES ASSUME NEW k \in 1 .. limit
                 PROVE  rot(k) \in 0 .. span - 1
      BY SizesAssumption
    <3>1. k - 1 \in 0 .. span - 1
      BY <2>2, SizesAssumption
    <3> QED BY <2>1, <2>2, <3>1, RotatedRange
  <2>4. s = [k \in 1 .. limit |-> Injector(OtherShard(w, rot(k)))]
    BY <2>1 DEF ShardPass
  <2>5. Len(s) = limit /\ s \in Seq(Injectors \ {Injector(MyShard(w))})
    <3> HIDE DEF rot, limit
    <3>1. \A k \in 1 .. limit :
            Injector(OtherShard(w, rot(k))) \in Injectors \ {Injector(MyShard(w))}
      <4> SUFFICES ASSUME NEW k \in 1 .. limit
                   PROVE  Injector(OtherShard(w, rot(k)))
                            \in Injectors \ {Injector(MyShard(w))}
        OBVIOUS
      <4>1. OtherShard(w, rot(k)) \in Shards \ {MyShard(w)}
        BY <2>3, OtherShardRange
      <4> QED BY <4>1 DEF Injectors, Injector
    <3> QED BY <2>2, <2>4, <3>1
  <2>6. \A j, k \in 1 .. Len(s) : s[j] = s[k] => j = k
    <3> SUFFICES ASSUME NEW j \in 1 .. limit, NEW k \in 1 .. limit, s[j] = s[k]
                 PROVE  j = k
      BY <2>5
    <3>1. OtherShard(w, rot(j)) = OtherShard(w, rot(k))
      BY <2>4 DEF Injector
    <3>2. rot(j) = rot(k)
      <4> HIDE DEF rot
      <4>1. rot(j) \in 0 .. NumShards - 2 /\ rot(k) \in 0 .. NumShards - 2
        BY <2>3
      <4> QED BY <3>1, <4>1, OtherShardOnce
    <3> QED BY <2>1, <2>2, <3>2, RotatedOnce
  <2>7. ASSUME probe = "strict", NEW i \in Shards \ {MyShard(w)}
        PROVE  \E j \in 1 .. Len(s) : s[j] = Injector(i)
    <3>1. PICK r \in 0 .. NumShards - 2 : OtherShard(w, r) = i
      BY OtherShardOnto
    <3>2. PICK k \in 0 .. span - 1 : Rotated(span, start, k) = r
      <4>1. r \in 0 .. span - 1
        BY SizesAssumption
      <4> QED BY <2>1, <2>2, <4>1, RotatedOnto
    <3>3. k + 1 \in 1 .. limit /\ rot(k + 1) = r
      <4>0. limit = span
        BY <2>2, <2>7
      <4>1. k + 1 \in 1 .. limit
        BY <4>0, SizesAssumption
      <4>2. k + 1 - 1 = k
        OBVIOUS
      <4> QED BY <3>2, <4>1, <4>2
    <3> QED BY <2>4, <2>5, <3>1, <3>3
  <2>8. probe = "strict" => Covers(s, OtherInjectors(w))
    BY <2>7 DEF Covers, OtherInjectors, Injectors
  <2>9. s \in Seq(OtherInjectors(w))
    BY <2>5 DEF OtherInjectors
  <2> QED BY <2>6, <2>8, <2>9 DEF NoRepeat
<1> QED BY <1>1, <1>2

\* The leg over the peers: other deques only, none twice, all of them if strict.
LEMMA PeerLeg ==
    ASSUME NEW w \in Workers, NEW probe \in Probes,
           NEW s \in PeerPasses(w, probe)
    PROVE  /\ s \in Seq(OtherDeques(w))
           /\ NoRepeat(s)
           /\ probe = "strict" => Covers(s, OtherDeques(w))
<1>1. CASE NumWorkers = 1
  <2>1. s = <<>> /\ Workers = {w}
    BY <1>1 DEF PeerPasses, Workers
  <2>2. OtherDeques(w) = {}
    BY <2>1 DEF OtherDeques, Deques
  <2> QED BY <2>1, <2>2 DEF NoRepeat, Covers
<1>2. CASE NumWorkers # 1
  <2> DEFINE span == NumWorkers - 1
             limit == ProbeLimit(span, probe)
  <2>1. PICK start \in Starts(span) : s = PeerPass(w, probe, start)
    BY <1>2 DEF PeerPasses
  <2>2. span \in Nat /\ limit \in 0 .. span /\ (probe = "strict" => limit = span)
    <3>1. span \in Nat
      BY SizesAssumption
    <3> HIDE DEF span
    <3> QED BY <3>1, ProbeLimitRange
  <2> DEFINE rot(k) == Rotated(span, start, k - 1)
  <2>3. \A k \in 1 .. limit : rot(k) \in 0 .. NumWorkers - 2
    <3> HIDE DEF limit
    <3> SUFFICES ASSUME NEW k \in 1 .. limit
                 PROVE  rot(k) \in 0 .. span - 1
      BY SizesAssumption
    <3>1. k - 1 \in 0 .. span - 1
      BY <2>2, SizesAssumption
    <3> QED BY <2>1, <2>2, <3>1, RotatedRange
  <2>4. s = [k \in 1 .. limit |-> Deque(OtherWorker(w, rot(k)))]
    BY <2>1 DEF PeerPass
  <2>5. Len(s) = limit /\ s \in Seq(Deques \ {Deque(w)})
    <3> HIDE DEF rot, limit
    <3>1. \A k \in 1 .. limit :
            Deque(OtherWorker(w, rot(k))) \in Deques \ {Deque(w)}
      <4> SUFFICES ASSUME NEW k \in 1 .. limit
                   PROVE  Deque(OtherWorker(w, rot(k))) \in Deques \ {Deque(w)}
        OBVIOUS
      <4>1. OtherWorker(w, rot(k)) \in Workers \ {w}
        BY <2>3, OtherWorkerRange
      <4> QED BY <4>1 DEF Deques, Deque
    <3> QED BY <2>2, <2>4, <3>1
  <2>6. \A j, k \in 1 .. Len(s) : s[j] = s[k] => j = k
    <3> SUFFICES ASSUME NEW j \in 1 .. limit, NEW k \in 1 .. limit, s[j] = s[k]
                 PROVE  j = k
      BY <2>5
    <3>1. OtherWorker(w, rot(j)) = OtherWorker(w, rot(k))
      BY <2>4 DEF Deque
    <3>2. rot(j) = rot(k)
      <4> HIDE DEF rot
      <4>1. rot(j) \in 0 .. NumWorkers - 2 /\ rot(k) \in 0 .. NumWorkers - 2
        BY <2>3
      <4> QED BY <3>1, <4>1, SizesAssumption DEF OtherWorker, Workers
    <3> QED BY <2>1, <2>2, <3>2, RotatedOnce
  <2>7. ASSUME probe = "strict", NEW v \in Workers \ {w}
        PROVE  \E j \in 1 .. Len(s) : s[j] = Deque(v)
    <3>1. PICK r \in 0 .. NumWorkers - 2 : OtherWorker(w, r) = v
      BY OtherWorkerOnto
    <3>2. PICK k \in 0 .. span - 1 : Rotated(span, start, k) = r
      <4>1. r \in 0 .. span - 1
        BY SizesAssumption
      <4> QED BY <2>1, <2>2, <4>1, RotatedOnto
    <3>3. k + 1 \in 1 .. limit /\ rot(k + 1) = r
      <4>0. limit = span
        BY <2>2, <2>7
      <4>1. k + 1 \in 1 .. limit
        BY <4>0, SizesAssumption
      <4>2. k + 1 - 1 = k
        OBVIOUS
      <4> QED BY <3>2, <4>1, <4>2
    <3> QED BY <2>4, <2>5, <3>1, <3>3
  <2>8. probe = "strict" => Covers(s, OtherDeques(w))
    BY <2>7 DEF Covers, OtherDeques, Deques
  <2>9. s \in Seq(OtherDeques(w))
    BY <2>5 DEF OtherDeques
  <2> QED BY <2>6, <2>8, <2>9 DEF NoRepeat
<1> QED BY <1>1, <1>2

\* An order, leg by leg.
LEMMA ThreeParts ==
    ASSUME NEW S, NEW x \in S, NEW s \in Seq(S), NEW p \in Seq(S),
           NEW o, o = <<x>> \o s \o p
    PROVE  /\ o \in Seq(S)
           /\ Len(o) = 1 + Len(s) + Len(p)
           /\ o[1] = x
           /\ \A a \in 1 .. Len(s) : o[1 + a] = s[a]
           /\ \A a \in 1 .. Len(p) : o[1 + Len(s) + a] = p[a]
<1>1. <<x>> \in Seq(S) /\ Len(<<x>>) = 1 /\ <<x>>[1] = x
  OBVIOUS
<1> DEFINE xs == <<x>> \o s
<1>2. xs \in Seq(S) /\ Len(xs) = 1 + Len(s)
  BY <1>1
<1>3. xs[1] = x
  BY <1>1
<1>4. \A a \in 1 .. Len(s) : xs[1 + a] = s[a]
  BY <1>1
<1>5. o = xs \o p
  OBVIOUS
<1> HIDE DEF xs
<1>6. o \in Seq(S) /\ Len(o) = 1 + Len(s) + Len(p)
  BY <1>2, <1>5
<1>7. \A a \in 1 .. Len(xs) : o[a] = xs[a]
  BY <1>2, <1>5
<1>8. \A a \in 1 .. Len(p) : o[Len(xs) + a] = p[a]
  BY <1>2, <1>5
<1> QED BY <1>2, <1>3, <1>4, <1>6, <1>7, <1>8

\* An order a pass may follow, position by position: the preferred injector, a
\* leg over the other injectors, a leg over the other deques.
LEMMA OrderParts ==
    ASSUME NEW w \in Workers, NEW probe \in Probes,
           NEW order \in VictimOrders(w, probe)
    PROVE  \E s \in ShardPasses(w, probe), p \in PeerPasses(w, probe) :
             /\ order \in Seq(Places \ {Deque(w)})
             /\ Len(order) = 1 + Len(s) + Len(p)
             /\ order[1] = Injector(MyShard(w))
             /\ \A a \in 1 .. Len(s) : order[1 + a] = s[a]
             /\ \A a \in 1 .. Len(p) : order[1 + Len(s) + a] = p[a]
<1>1. PICK s \in ShardPasses(w, probe), p \in PeerPasses(w, probe) :
        order = <<Injector(MyShard(w))>> \o s \o p
  BY DEF VictimOrders
<1>2. \A i : Injector(i) # Deque(w)
  BY DEF Injector, Deque
<1>3. Injectors \subseteq Places \ {Deque(w)}
  BY <1>2 DEF Places, Injectors
<1>4. Injector(MyShard(w)) \in Places \ {Deque(w)}
  BY <1>3, MyShardRange DEF Injectors
<1>5. s \in Seq(Places \ {Deque(w)})
  <2>1. OtherInjectors(w) \subseteq Places \ {Deque(w)}
    BY <1>3 DEF OtherInjectors
  <2> QED BY <2>1, ShardLeg
<1>6. p \in Seq(Places \ {Deque(w)})
  <2>1. OtherDeques(w) \subseteq Places \ {Deque(w)}
    BY DEF OtherDeques, Places
  <2> QED BY <2>1, PeerLeg
<1> DEFINE S == Places \ {Deque(w)}
           first == Injector(MyShard(w))
<1>7. first \in S /\ s \in Seq(S) /\ p \in Seq(S) /\ order = <<first>> \o s \o p
  BY <1>1, <1>4, <1>5, <1>6
<1>8. /\ order \in Seq(S) /\ Len(order) = 1 + Len(s) + Len(p)
      /\ order[1] = first
      /\ \A a \in 1 .. Len(s) : order[1 + a] = s[a]
      /\ \A a \in 1 .. Len(p) : order[1 + Len(s) + a] = p[a]
  <2> HIDE DEF S, first
  <2> QED BY <1>7, ThreeParts
<1> QED BY <1>8

\* The places an order visits are other places than the worker's own deque.
LEMMA OrderType ==
    ASSUME NEW w \in Workers, NEW probe \in Probes,
           NEW order \in VictimOrders(w, probe)
    PROVE  order \in Seq(Places \ {Deque(w)})
BY OrderParts

\* A strict order visits every place but the own deque of the worker that scans:
\* each is the preferred injector or on one of two complete legs.
LEMMA CompleteWhenStrict ==
    ASSUME NEW w \in Workers, NEW probe \in Probes,
           NEW order \in VictimOrders(w, probe),
           NEW place \in Places \ {Deque(w)}
    PROVE  probe = "strict" => \E k \in 1 .. Len(order) : order[k] = place
<1>1. PICK s \in ShardPasses(w, probe), p \in PeerPasses(w, probe) :
        /\ order \in Seq(Places \ {Deque(w)})
        /\ Len(order) = 1 + Len(s) + Len(p)
        /\ order[1] = Injector(MyShard(w))
        /\ \A a \in 1 .. Len(s) : order[1 + a] = s[a]
        /\ \A a \in 1 .. Len(p) : order[1 + Len(s) + a] = p[a]
  BY OrderParts
<1>2. /\ s \in Seq(OtherInjectors(w)) /\ p \in Seq(OtherDeques(w))
      /\ probe = "strict" => Covers(s, OtherInjectors(w)) /\ Covers(p, OtherDeques(w))
  BY ShardLeg, PeerLeg
<1>3. Len(s) \in Nat /\ Len(p) \in Nat
  BY <1>2
<1> SUFFICES ASSUME probe = "strict"
             PROVE  \E k \in 1 .. Len(order) : order[k] = place
  OBVIOUS
<1>4. CASE place = Injector(MyShard(w))
  <2>1. 1 \in 1 .. Len(order)
    BY <1>1, <1>3
  <2> QED BY <1>1, <1>4, <2>1
<1>5. CASE place \in OtherInjectors(w)
  <2>1. PICK j \in 1 .. Len(s) : s[j] = place
    BY <1>2, <1>5 DEF Covers
  <2>2. 1 + j \in 1 .. Len(order) /\ order[1 + j] = s[j]
    BY <1>1, <1>3
  <2> QED BY <2>1, <2>2
<1>6. CASE place \in OtherDeques(w)
  <2>1. PICK j \in 1 .. Len(p) : p[j] = place
    BY <1>2, <1>6 DEF Covers
  <2>2. 1 + Len(s) + j \in 1 .. Len(order) /\ order[1 + Len(s) + j] = p[j]
    BY <1>1, <1>3
  <2> QED BY <2>1, <2>2
<1> QED BY <1>4, <1>5, <1>6 DEF Places, OtherInjectors, OtherDeques

\* What Queue::scan relies on under the park lock: a strict pass leaves no
\* injector and no other worker's deque out.
THEOREM StrictVisitsAll ==
    ASSUME NEW w \in Workers, NEW order \in VictimOrders(w, "strict"),
           NEW place \in Places \ {Deque(w)}
    PROVE  \E k \in 1 .. Len(order) : order[k] = place
<1>1. "strict" \in Probes
  BY DEF Probes
<1> QED BY <1>1, CompleteWhenStrict

\* "Start at a per-worker random rotation, every one visited once": no pass,
\* cheap or strict, tries a place twice.
THEOREM NoPlaceTwice ==
    ASSUME NEW w \in Workers, NEW probe \in Probes,
           NEW order \in VictimOrders(w, probe),
           NEW j \in 1 .. Len(order), NEW k \in 1 .. Len(order),
           order[j] = order[k]
    PROVE  j = k
<1> DEFINE first == Injector(MyShard(w))
<1>1. PICK s \in ShardPasses(w, probe), p \in PeerPasses(w, probe) :
        /\ Len(order) = 1 + Len(s) + Len(p)
        /\ order[1] = first
        /\ \A a \in 1 .. Len(s) : order[1 + a] = s[a]
        /\ \A a \in 1 .. Len(p) : order[1 + Len(s) + a] = p[a]
  BY OrderParts
<1>2. /\ s \in Seq(OtherInjectors(w)) /\ NoRepeat(s)
      /\ p \in Seq(OtherDeques(w)) /\ NoRepeat(p)
  BY ShardLeg, PeerLeg
<1>3. \A x \in Injectors : x.kind = "injector"
  BY DEF Injectors, Injector
<1>4. \A x \in Deques : x.kind = "deque"
  BY DEF Deques, Deque
<1>5. first.kind = "injector"
  BY DEF Injector
<1>5a. first \notin OtherInjectors(w) /\ OtherInjectors(w) \subseteq Injectors
       /\ OtherDeques(w) \subseteq Deques
  BY DEF OtherInjectors, OtherDeques
<1> HIDE DEF first
<1>6. Len(s) \in Nat /\ Len(p) \in Nat
  BY <1>2
<1>7. \A a \in 1 .. Len(s) : s[a] # first /\ s[a].kind = "injector"
  BY <1>2, <1>3, <1>5a
<1>8. \A a \in 1 .. Len(p) : p[a].kind = "deque"
  BY <1>2, <1>4, <1>5a
<1>9. \A a \in 1 .. Len(order) :
        \/ a = 1
        \/ a - 1 \in 1 .. Len(s) /\ order[a] = s[a - 1]
        \/ a - 1 - Len(s) \in 1 .. Len(p) /\ order[a] = p[a - 1 - Len(s)]
  <2> SUFFICES ASSUME NEW a \in 1 .. Len(order), a # 1
               PROVE  \/ a - 1 \in 1 .. Len(s) /\ order[a] = s[a - 1]
                      \/ /\ a - 1 - Len(s) \in 1 .. Len(p)
                         /\ order[a] = p[a - 1 - Len(s)]
    OBVIOUS
  <2>1. CASE a - 1 <= Len(s)
    <3>1. a - 1 \in 1 .. Len(s) /\ 1 + (a - 1) = a
      BY <1>1, <1>6, <2>1
    <3> QED BY <1>1, <3>1
  <2>2. CASE ~(a - 1 <= Len(s))
    <3>1. a - 1 - Len(s) \in 1 .. Len(p) /\ 1 + Len(s) + (a - 1 - Len(s)) = a
      BY <1>1, <1>6, <2>2
    <3> QED BY <1>1, <3>1
  <2> QED BY <2>1, <2>2
<1>10. \A a \in 1 .. Len(order) : order[a] = first => a = 1
  BY <1>5, <1>7, <1>8, <1>9
<1>11. CASE j = 1 \/ k = 1
  BY <1>1, <1>10, <1>11
<1>12. CASE j # 1 /\ k # 1
  <2>1. CASE j - 1 \in 1 .. Len(s) /\ order[j] = s[j - 1]
    <3>1. k - 1 \in 1 .. Len(s) /\ order[k] = s[k - 1]
      BY <1>7, <1>8, <1>9, <1>12, <2>1
    <3>2. j - 1 = k - 1
      BY <1>2, <2>1, <3>1 DEF NoRepeat
    <3> QED BY <3>2
  <2>2. CASE j - 1 - Len(s) \in 1 .. Len(p) /\ order[j] = p[j - 1 - Len(s)]
    <3>1. k - 1 - Len(s) \in 1 .. Len(p) /\ order[k] = p[k - 1 - Len(s)]
      BY <1>7, <1>8, <1>9, <1>12, <2>2
    <3>2. j - 1 - Len(s) = k - 1 - Len(s)
      BY <1>2, <2>2, <3>1 DEF NoRepeat
    <3> QED BY <1>6, <3>2
  <2> QED BY <1>9, <1>12, <2>1, <2>2
<1> QED BY <1>11, <1>12
================================================================================

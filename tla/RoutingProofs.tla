----------------------------- MODULE RoutingProofs -----------------------------
(***************************************************************************)
(* For every pool a Builder can build, on a machine of any word size:      *)
(* every pool is sized as documented, every producer's push goes to a      *)
(* shard that exists, and a spilling producer reaches every shard of its   *)
(* pool before any shard twice.                                            *)
(***************************************************************************)
EXTENDS Routing, WellFoundedInduction, TLAPS

--------------------------------------------------------------------------------
(* The sizes of a pool *)

\* A set of naturals that is not empty has a least element.
LEMMA LeastNat ==
    ASSUME NEW S \in SUBSET Nat, S # {}
    PROVE  \E x \in S : \A y \in S : x <= y
<1>1. PICK x \in S : \A y \in S : <<y, x>> \notin OpToRel(<, Nat)
  BY NatLessThanWellFounded, WFMin
<1>2. \A y \in S : ~(y < x)
  BY <1>1 DEF OpToRel
<1> QED BY <1>2

\* One is a power of two, and half of any other is one, too.
LEMMA HalfIsPower ==
    ASSUME NEW p \in PowersOfTwo
    PROVE  p = 1 \/ \E r \in PowersOfTwo : p = 2 * r
<1>1. PICK k \in 0 .. Width - 1 : p = 2 ^ k
  BY DEF PowersOfTwo
<1>2. CASE k = 0
  BY <1>1, <1>2, SMT
<1>3. CASE k # 0
  <2>1. k - 1 \in 0 .. Width - 1 /\ (k - 1) + 1 = k
    BY <1>3, SizingAssumption
  <2>2. 2 ^ ((k - 1) + 1) = 2 * 2 ^ (k - 1)
    BY <2>1, ExponentAssumption
  <2>3. 2 ^ k = 2 * 2 ^ (k - 1)
    BY <2>1, <2>2
  <2>4. 2 ^ (k - 1) \in PowersOfTwo
    BY <2>1 DEF PowersOfTwo
  <2> QED BY <1>1, <2>3, <2>4
<1> QED BY <1>2, <1>3

\* Powers of two are positive.
LEMMA PowersAreNat == PowersOfTwo \subseteq Nat \ {0}
<1>1. PowersOfTwo \subseteq Nat
  BY ExponentAssumption DEF PowersOfTwo
<1>2. 0 \notin PowersOfTwo
  <2> DEFINE Zeros == {k \in 0 .. Width - 1 : 2 ^ k = 0}
  <2> SUFFICES ASSUME Zeros # {} PROVE FALSE
    BY DEF PowersOfTwo
  <2>1. Zeros \in SUBSET Nat
    OBVIOUS
  <2>2. PICK k \in Zeros : \A l \in Zeros : k <= l
    <3> HIDE DEF Zeros
    <3> QED BY <2>1, LeastNat
  <2>3. k \in 0 .. Width - 1 /\ 2 ^ k = 0
    OBVIOUS
  <2>4. k # 0
    <3>1. 2 ^ 0 = 1
      BY SMT
    <3>2. k = 0 => 2 ^ k = 2 ^ 0
      BY Zenon
    <3>3. k = 0 => 0 = 1
      BY <2>3, <3>1, <3>2, Zenon
    <3> QED BY <3>3
  <2>5. k - 1 \in 0 .. Width - 1 /\ (k - 1) + 1 = k
    BY <2>3, <2>4, SizingAssumption
  <2>6. 2 ^ ((k - 1) + 1) = 2 * 2 ^ (k - 1) /\ 2 ^ (k - 1) \in Nat
    BY <2>5, ExponentAssumption
  <2>7. 2 ^ (k - 1) = 0
    BY <2>3, <2>5, <2>6
  <2>8. k - 1 \in Zeros
    BY <2>5, <2>7
  <2> QED BY <2>2, <2>3, <2>8
<1> QED BY <1>1, <1>2

\* The rounding: where there is a power at all that is large enough, the result
\* is one, it is large enough, and less than twice what was asked for.
LEMMA RoundedUp ==
    ASSUME NEW n \in Nat \ {0}, NEW big \in PowersOfTwo, n <= big
    PROVE  /\ NextPowerOfTwo(n) \in PowersOfTwo
           /\ n <= NextPowerOfTwo(n) /\ NextPowerOfTwo(n) < 2 * n
           /\ NextPowerOfTwo(n) <= big
<1> DEFINE S == {p \in PowersOfTwo : p >= n}
           Least(p) == p >= n /\ \A r \in PowersOfTwo : r >= n => p <= r
<1>1. PICK p \in PowersOfTwo : Least(p)
  <2>1. S \in SUBSET Nat /\ S # {}
    BY PowersAreNat
  <2>2. PICK p \in S : \A y \in S : p <= y
    <3> HIDE DEF S
    <3> QED BY <2>1, LeastNat
  <2> QED BY <2>2
<1>2. NextPowerOfTwo(n) = CHOOSE q \in PowersOfTwo : Least(q)
  <2>1. ~ \A r \in PowersOfTwo : r < n
    BY PowersAreNat
  <2> QED BY <2>1 DEF NextPowerOfTwo
<1>3. NextPowerOfTwo(n) \in PowersOfTwo /\ Least(NextPowerOfTwo(n))
  <2> HIDE DEF Least
  <2> QED BY <1>1, <1>2
<1> DEFINE q == NextPowerOfTwo(n)
<1>4. q < 2 * n
  <2> HIDE DEF q
  <2>1. q \in PowersOfTwo /\ Least(q)
    BY <1>3 DEF q
  <2>2. CASE q = 1
    BY <2>2
  <2>3. CASE q # 1
    <3>1. PICK r \in PowersOfTwo : q = 2 * r
      BY <2>1, <2>3, HalfIsPower
    <3>2. r \in Nat \ {0} /\ q \in Nat
      BY <2>1, PowersAreNat
    <3>3. ~(r >= n)
      BY <2>1, <3>1, <3>2
    <3> QED BY <3>1, <3>2, <3>3
  <2> QED BY <2>2, <2>3
<1> QED BY <1>3, <1>4

\* There is a power of two above every number of threads that is allowed.
LEMMA LargePower ==
    \E big \in PowersOfTwo : MaxThreads <= big
<1>1. Width - 1 \in 0 .. Width - 1 /\ (Width - 1) + 1 = Width
  BY SizingAssumption
<1>2. 2 ^ ((Width - 1) + 1) = 2 * 2 ^ (Width - 1) /\ 2 ^ (Width - 1) \in Nat
  BY <1>1, ExponentAssumption
<1>3. 2 ^ Width = 2 * 2 ^ (Width - 1)
  BY <1>1, <1>2
<1>4. MaxThreads <= 2 ^ (Width - 1)
  BY <1>2, <1>3, SizingAssumption
<1> QED BY <1>1, <1>4 DEF PowersOfTwo

\* Every pool is sized as documented, whatever was passed to its Builder.
THEOREM SizesAreDocumented ==
    ASSUME NEW s \in Settings(Nat)
    PROVE  SizedAsDocumented(s)
<1> DEFINE workers == NumThreads(s)
           shards == NumShards(s)
<1>1. /\ MaxThreads \in Nat \ {0, 1} /\ Cpus \in Nat
      /\ MaxShards \in PowersOfTwo /\ MaxShards \in Nat \ {0}
  BY SizingAssumption, PowersAreNat
<1>2. /\ s.numThreads \in Nat \cup {Unset} /\ s.shards \in Nat \cup {Unset}
      /\ Unset = -1
  BY DEF Settings, Unset
<1>3. workers \in 1 .. MaxThreads
  BY <1>1, <1>2 DEF NumThreads, Clamp
<1> HIDE DEF workers
<1>4. PICK big \in PowersOfTwo : MaxThreads <= big
  BY LargePower
<1>5. workers \in Nat \ {0} /\ workers <= big /\ big \in Nat \ {0}
  BY <1>1, <1>3, <1>4, PowersAreNat
<1>6. CASE s.shards = Unset
  <2> DEFINE up == NextPowerOfTwo(workers)
             asked == Clamp(workers, 1, MaxShards)
  <2>1. up \in PowersOfTwo /\ up \in Nat \ {0} /\ workers <= up /\ up < 2 * workers
    BY <1>5, RoundedUp, PowersAreNat
  <2>2. workers <= MaxShards => up <= MaxShards
    BY <1>1, <1>5, RoundedUp
  <2>3. shards = Clamp(up, 1, MaxShards)
    BY <1>6 DEF NumShards, workers
  <2> HIDE DEF up
  <2>4. shards \in PowersOfTwo /\ asked <= shards /\ shards < 2 * asked
    BY <1>1, <1>5, <2>1, <2>2, <2>3 DEF Clamp
  <2> QED BY <1>3, <1>6, <2>4 DEF SizedAsDocumented, workers
<1>7. CASE s.shards # Unset
  <2> DEFINE asked == Clamp(s.shards, 1, workers)
  <2>1. asked \in Nat \ {0} /\ asked <= big
    BY <1>2, <1>5, <1>7 DEF Clamp
  <2>2. shards = NextPowerOfTwo(asked)
    BY <1>7 DEF NumShards, workers
  <2> HIDE DEF asked
  <2>3. shards \in PowersOfTwo /\ asked <= shards /\ shards < 2 * asked
    BY <2>1, <2>2, RoundedUp
  <2> QED BY <1>3, <1>7, <2>3 DEF SizedAsDocumented, workers, asked
<1> QED BY <1>6, <1>7

--------------------------------------------------------------------------------
(* Remainders *)

\* Of a multiple of n and less than n more, the remainder is what is more.
LEMMA Remainder ==
    ASSUME NEW n \in Nat \ {0}, NEW q \in Nat, NEW r \in 0 .. n - 1
    PROVE  (n * q + r) % n = r
BY SMT

\* A number is its quotient times the divisor and its remainder.
LEMMA Quotient ==
    ASSUME NEW n \in Nat \ {0}, NEW x \in Nat
    PROVE  \E q \in Nat, r \in 0 .. n - 1 : x = n * q + r /\ x % n = r
<1> DEFINE q == x \div n
           r == x - n * q
<1>1. q \in Nat /\ n * q <= x /\ x < n * q + n
  BY SMT
<1> HIDE DEF q
<1>2. r \in 0 .. n - 1 /\ x = n * q + r
  BY <1>1
<1> HIDE DEF r
<1>3. x % n = r
  BY <1>1, <1>2, Remainder
<1> QED BY <1>1, <1>2, <1>3, Zenon

\* A turn of d shards on from x, for less than a whole turn.
LEMMA Turn ==
    ASSUME NEW n \in Nat \ {0}, NEW x \in Nat, NEW d \in 0 .. n - 1
    PROVE  (x + d) % n = IF (x % n) + d >= n THEN (x % n) + d - n ELSE (x % n) + d
<1>1. PICK q \in Nat, r \in 0 .. n - 1 : x = n * q + r /\ x % n = r
  BY Quotient
<1>2. r \in 0 .. n - 1 /\ x = n * q + r
  BY <1>1
<1>3. CASE r + d < n
  <2>1. x + d = n * q + (r + d) /\ r + d \in 0 .. n - 1
    BY <1>2, <1>3
  <2> QED BY <1>3, <2>1, Remainder, <1>1
<1>4. CASE r + d >= n
  <2>1. x + d = n * (q + 1) + (r + d - n) /\ r + d - n \in 0 .. n - 1 /\ q + 1 \in Nat
    BY <1>2, <1>4
  <2>2. (x + d) % n = r + d - n
    BY <2>1, Remainder
  <2> QED BY <1>4, <2>2, <1>1
<1> QED BY <1>2, <1>3, <1>4

\* From a shard, fewer steps than there are shards lead to another one.
LEMMA NotBackYet ==
    ASSUME NEW n \in Nat \ {0}, NEW x \in Nat, NEW d \in 1 .. n - 1
    PROVE  (x + d) % n # x % n
<1>1. (x + d) % n = IF (x % n) + d >= n THEN (x % n) + d - n ELSE (x % n) + d
  <2>1. d \in 0 .. n - 1
    OBVIOUS
  <2> QED BY <2>1, Turn
<1>2. PICK q \in Nat, r \in 0 .. n - 1 : x = n * q + r /\ x % n = r
  BY Quotient
<1> QED BY <1>1, <1>2

\* And of a whole turn that ends in `last' every shard is a step.
LEMMA WholeTurn ==
    ASSUME NEW n \in Nat \ {0}, NEW last \in Nat, last >= n - 1, NEW v \in 0 .. n - 1
    PROVE  \E i \in 0 .. n - 1 : (last - i) % n = v
<1>1. PICK q \in Nat, r \in 0 .. n - 1 : last = n * q + r /\ last % n = r
  BY Quotient
<1>2. CASE v <= r
  <2>1. last - (r - v) = n * q + v /\ r - v \in 0 .. n - 1
    BY <1>1, <1>2
  <2> QED BY <2>1, Remainder
<1>3. CASE v > r
  <2>1. q >= 1
    <3>1. q = 0 => last = r
      BY <1>1
    <3> QED BY <3>1, <1>1, <1>3
  <2>2. /\ last - (r - v + n) = n * (q - 1) + v
        /\ r - v + n \in 0 .. n - 1 /\ q - 1 \in Nat
    BY <1>1, <1>3, <2>1
  <2>3. (last - (r - v + n)) % n = v
    BY <2>2, Remainder
  <2> QED BY <2>2, <2>3
<1> QED BY <1>1, <1>2, <1>3

--------------------------------------------------------------------------------
(* The routes *)

\* A pool that is built has shards, and its number of them is natural.
LEMMA HasShards ==
    ASSUME TypeOK, NEW q \in Built
    PROVE  settings[q] \in Settings(Nat) /\ ShardsOf(q) \in Nat \ {0}
<1>1. settings[q] \in Settings(Nat)
  BY RoutingAssumption DEF TypeOK, Built
<1>2. SizedAsDocumented(settings[q])
  BY <1>1, SizesAreDocumented
<1> QED BY <1>1, <1>2, PowersAreNat DEF SizedAsDocumented, ShardsOf

\* What a push makes of a thread's route: one with a hint, with the preferred
\* shard of this pool, and with a count that has started.
LEMMA AdvancedRange ==
    ASSUME TypeOK, NEW p \in Producers, NEW q \in Built,
           NEW hint \in IF route[p] = NoRoute THEN Hints ELSE {route[p].hint}
    PROVE  LET r0 == [route[p] EXCEPT !.hint = hint]
               r == Advanced(r0, q)
           IN  /\ r = [hint |-> hint, preferred |-> Preferred(r, q),
                       consecutive |-> Counted(r0, q)]
               /\ hint \in Hints /\ r.preferred \in Shards(q)
               /\ r.consecutive \in 1 .. CountMax
               /\ Routed(r, q) \in Shards(q)
<1> DEFINE r0 == [route[p] EXCEPT !.hint = hint]
           r == Advanced(r0, q)
           n == ShardsOf(q)
<1>1. route[p] \in {NoRoute} \cup [hint : Hints, preferred : UNION {Shards(k) : k \in Built},
                                   consecutive : 1 .. CountMax]
  BY DEF TypeOK
<1>2. hint \in Hints /\ hint \in Nat
  BY <1>1, RoutingAssumption
<1>3. /\ r0.hint = hint
      /\ r0 = [hint |-> hint, preferred |-> route[p].preferred,
               consecutive |-> route[p].consecutive]
      /\ route[p].consecutive \in 0 .. CountMax
  BY <1>1, RoutingAssumption DEF NoRoute
<1>4. Preferred(r0, q) = hint % n /\ hint % n \in 0 .. n - 1 /\ n \in Nat \ {0}
  <2>1. n \in Nat \ {0}
    BY HasShards
  <2> HIDE DEF n
  <2>2. hint % n \in 0 .. n - 1
    BY <1>2, <2>1, Quotient
  <2> QED BY <1>3, <2>1, <2>2 DEF Preferred, n
<1>5. Counted(r0, q) \in 1 .. CountMax
  BY <1>3, RoutingAssumption DEF Counted
<1>6. /\ r = [hint |-> hint, preferred |-> hint % n, consecutive |-> Counted(r0, q)]
      /\ Preferred(r, q) = hint % n
  <2>1. r = [r0 EXCEPT !.preferred = Preferred(r0, q), !.consecutive = Counted(r0, q)]
    BY DEF Advanced
  <2> HIDE DEF r, r0
  <2>2. r = [hint |-> hint, preferred |-> Preferred(r0, q), consecutive |-> Counted(r0, q)]
    BY <1>3, <2>1
  <2>3. Preferred(r, q) = r.hint % n /\ r.hint = hint
    BY <2>2 DEF Preferred
  <2> QED BY <1>4, <2>2, <2>3
<1>7. Routed(r, q) \in 0 .. n - 1
  <2>1. CASE Spills(r)
    <3> DEFINE x == r.preferred + (r.consecutive - SpillThreshold)
    <3>1. x \in Nat
      BY <1>4, <1>5, <1>6, <2>1, RoutingAssumption DEF Spills
    <3>2. Routed(r, q) = x % n
      BY <2>1 DEF Routed
    <3> HIDE DEF x, n
    <3>3. x % n \in 0 .. n - 1
      BY <1>4, <3>1, Quotient
    <3> QED BY <3>2, <3>3
  <2>2. CASE ~Spills(r)
    BY <1>4, <1>6, <2>2 DEF Routed
  <2> QED BY <2>1, <2>2
<1> QED BY <1>2, <1>4, <1>5, <1>6, <1>7 DEF Shards

\* Every step keeps the types.
LEMMA TypeStep == TypeOK /\ [Next]_vars => TypeOK'
<1> SUFFICES ASSUME TypeOK, [Next]_vars PROVE TypeOK'
  OBVIOUS
<1>1. ASSUME NEW q \in Pools, Build(q)
      PROVE  TypeOK'
  <2>1. PICK s \in BuiltWith[q] : settings' = [settings EXCEPT ![q] = s]
    BY <1>1 DEF Build
  <2>2. settings[q] = None /\ UNCHANGED <<route, visited>>
    BY <1>1 DEF Build
  <2>3. /\ settings' \in [Pools -> Settings(Nat) \cup {None}]
        /\ \A k \in Built' : settings'[k] \in BuiltWith[k]
    BY <2>1, RoutingAssumption DEF TypeOK, Built
  <2>4. \A k \in Built : k \in Built' /\ Shards(k)' = Shards(k)
    BY <2>1, <2>2 DEF TypeOK, Built, Shards, ShardsOf
  <2>5. UNION {Shards(k) : k \in Built} \subseteq UNION {Shards(k)' : k \in Built'}
    BY <2>4
  <2>6. route' \in [Producers -> {NoRoute} \cup
                      [hint : Hints, preferred : UNION {Shards(k)' : k \in Built'},
                       consecutive : 1 .. CountMax]]
    BY <2>2, <2>5 DEF TypeOK
  <2>7. \A p \in Producers, k \in Pools :
          visited'[p][k] \subseteq IF k \in Built' THEN Shards(k)' ELSE {}
    BY <2>2, <2>4 DEF TypeOK
  <2> QED BY <2>2, <2>3, <2>6, <2>7 DEF TypeOK, NoRoute
<1>2. ASSUME NEW p \in Producers, NEW q \in Pools, RouteShard(p, q)
      PROVE  TypeOK'
  <2>1. q \in Built /\ settings' = settings
    BY <1>2 DEF RouteShard
  <2>2. PICK hint \in IF route[p] = NoRoute THEN Hints ELSE {route[p].hint} :
          LET r == Advanced([route[p] EXCEPT !.hint = hint], q)
              reached == visited[p][q] \cup {Routed(r, q)}
          IN
          /\ route' = [route EXCEPT ![p] = r]
          /\ visited' = [visited EXCEPT ![p] = [s \in Pools |->
                           IF s = q /\ Spills(r) /\ reached # Shards(q) THEN reached
                           ELSE {}]]
    BY <1>2 DEF RouteShard
  <2> DEFINE r0 == [route[p] EXCEPT !.hint = hint]
             r == Advanced(r0, q)
             reached == visited[p][q] \cup {Routed(r, q)}
  <2>3. /\ r = [hint |-> hint, preferred |-> Preferred(r, q),
                consecutive |-> Counted(r0, q)]
        /\ hint \in Hints /\ r.preferred \in Shards(q)
        /\ r.consecutive \in 1 .. CountMax
        /\ Routed(r, q) \in Shards(q)
    BY <2>1, AdvancedRange
  <2>4. r \in [hint : Hints, preferred : UNION {Shards(k) : k \in Built},
               consecutive : 1 .. CountMax]
    <3> HIDE DEF r, r0
    <3>1. /\ r = [hint |-> hint, preferred |-> r.preferred, consecutive |-> r.consecutive]
      BY <2>3
    <3>2. r.preferred \in UNION {Shards(k) : k \in Built}
      BY <2>1, <2>3
    <3> QED BY <2>3, <3>1, <3>2
  <2>5. route' = [route EXCEPT ![p] = r]
    BY <2>2
  <2>6. visited' = [visited EXCEPT ![p] = [s \in Pools |->
                     IF s = q /\ Spills(r) /\ reached # Shards(q) THEN reached ELSE {}]]
    BY <2>2
  <2>7. reached \subseteq Shards(q) /\ Shards(q) \subseteq Nat
    <3>1. Shards(q) \subseteq Nat
      BY <2>1, HasShards DEF Shards
    <3> QED BY <2>1, <2>3, <3>1 DEF TypeOK
  <2> HIDE DEF r, r0, reached
  <2>8. route' \in [Producers -> {NoRoute} \cup
                      [hint : Hints, preferred : UNION {Shards(k) : k \in Built},
                       consecutive : 1 .. CountMax]]
    BY <2>4, <2>5 DEF TypeOK
  <2>9. visited' \in [Producers -> [Pools -> SUBSET Nat]]
    BY <2>6, <2>7 DEF TypeOK
  <2>10. \A x \in Producers, k \in Pools :
           visited'[x][k] \subseteq IF k \in Built THEN Shards(k) ELSE {}
    BY <2>1, <2>6, <2>7 DEF TypeOK
  <2>11. Built' = Built /\ \A k \in Pools : Shards(k)' = Shards(k)
    BY <2>1 DEF Built, Shards, ShardsOf
  <2> QED BY <2>1, <2>8, <2>9, <2>10, <2>11 DEF TypeOK, NoRoute, Built
<1>3. CASE UNCHANGED vars
  BY <1>3 DEF vars, TypeOK, Built, Shards, ShardsOf
<1> QED BY <1>1, <1>2, <1>3 DEF Next

\* The counter of a thread saturates and never wraps, a thread that has pushed
\* has a hint, and what it prefers and has reached are shards that exist.
THEOREM TypeCorrect == Spec => []TypeOK
<1>1. Init => TypeOK
  BY DEF Init, TypeOK, Built
<1> QED BY <1>1, TypeStep, PTL DEF Spec

\* Every pool is sized as the docs of worker_threads and shards promise.
THEOREM PoolsAreSized == Spec => []ShardCounts
<1>1. TypeOK => ShardCounts
  BY HasShards, SizesAreDocumented DEF ShardCounts
<1> QED BY <1>1, TypeCorrect, PTL

--------------------------------------------------------------------------------
(* The rotation of a spilling thread *)

\* Where the turn of a spilling route has got to, before it is wrapped, and the
\* shards, of n, that the last m steps of a turn which got to `last' are.
Turned(r) == r.preferred + (r.consecutive - SpillThreshold)
LastOf(last, n, m) == {(last - i) % n : i \in 0 .. m - 1}

\* The shards that a thread's rotation has reached are those of its last pushes,
\* and fewer than all: this is why `visited' cannot hold the next one.
RotationOf(p, q) ==
    /\ q \in Built
    /\ Spills(route[p]) /\ route[p].preferred = Preferred(route[p], q)
    /\ \E m \in 1 .. ShardsOf(q) - 1 :
         /\ m <= route[p].consecutive - SpillThreshold
         /\ visited[p][q] = LastOf(Turned(route[p]), ShardsOf(q), m)
RotationInv == \A p \in Producers, q \in Pools : visited[p][q] # {} => RotationOf(p, q)

\* One more push: the shards of the last m pushes are those of the last m + 1,
\* which is a set of all shards if m + 1 is their number.
LEMMA OneMore ==
    ASSUME NEW n \in Nat \ {0}, NEW m \in Nat, NEW x \in Nat, m <= x
    PROVE  /\ LastOf(x + 1, n, m + 1) = LastOf(x, n, m) \cup {(x + 1) % n}
           /\ m < n => (x + 1) % n \notin LastOf(x, n, m)
           /\ m + 1 = n => 0 .. n - 1 \subseteq LastOf(x + 1, n, m + 1)
<1> DEFINE old == {(x - i) % n : i \in 0 .. m - 1}
           new == {(x + 1 - i) % n : i \in 0 .. m}
<1>0. old = LastOf(x, n, m) /\ new = LastOf(x + 1, n, m + 1)
  <2>1. (m + 1) - 1 = m
    OBVIOUS
  <2>2. new = LastOf(x + 1, n, m + 1)
    BY <2>1 DEF LastOf
  <2> QED BY <2>2 DEF LastOf
<1>1. ASSUME NEW v \in new PROVE v \in old \cup {(x + 1) % n}
  <2>1. PICK i \in 0 .. m : v = (x + 1 - i) % n
    BY <1>1
  <2>2. CASE i = 0
    BY <2>1, <2>2
  <2>3. CASE i # 0
    <3>1. i - 1 \in 0 .. m - 1 /\ x + 1 - i = x - (i - 1)
      BY <2>3
    <3> QED BY <2>1, <3>1
  <2> QED BY <2>2, <2>3
<1>2. ASSUME NEW v \in old \cup {(x + 1) % n} PROVE v \in new
  <2>1. CASE v \in old
    <3>1. PICK i \in 0 .. m - 1 : v = (x - i) % n
      BY <2>1
    <3>2. i + 1 \in 0 .. m /\ x - i = x + 1 - (i + 1)
      OBVIOUS
    <3> QED BY <3>1, <3>2
  <2>2. CASE v = (x + 1) % n
    <3>1. 0 \in 0 .. m /\ x + 1 = x + 1 - 0
      OBVIOUS
    <3> QED BY <2>2, <3>1
  <2> QED BY <1>2, <2>1, <2>2
<1>3. ASSUME m < n, NEW i \in 0 .. m - 1 PROVE (x + 1) % n # (x - i) % n
  <2>1. x - i \in Nat /\ i + 1 \in 1 .. n - 1 /\ x + 1 = (x - i) + (i + 1)
    BY <1>3
  <2> QED BY <2>1, NotBackYet
<1>4. ASSUME m + 1 = n, NEW v \in 0 .. n - 1 PROVE v \in new
  <2>1. PICK y \in Nat : y = x + 1 /\ y >= n - 1
    BY <1>4
  <2>2. PICK i \in 0 .. n - 1 : (y - i) % n = v
    BY <2>1, WholeTurn
  <2>3. i \in 0 .. m
    BY <1>4
  <2> QED BY <2>1, <2>2, <2>3
<1>5. new = old \cup {(x + 1) % n}
  <2> HIDE DEF new, old
  <2> QED BY <1>1, <1>2
<1> QED BY <1>0, <1>3, <1>4, <1>5

\* What a push leaves.  A thread that stays with a pool keeps its hint and
\* counts on.
LEMMA AfterPush ==
    ASSUME TypeOK, NEW p \in Producers, NEW q \in Pools, RouteShard(p, q)
    PROVE  LET r == route'[p]
               reached == visited[p][q] \cup {Routed(r, q)}
           IN  /\ q \in Built /\ settings' = settings
               /\ r \in [hint : Hints, preferred : Shards(q), consecutive : 1 .. CountMax]
               /\ r.preferred = Preferred(r, q) /\ Routed(r, q) \in Shards(q)
               /\ visited'[p][q] = IF Spills(r) /\ reached # Shards(q) THEN reached ELSE {}
               /\ \A k \in Pools \ {q} : visited'[p][k] = {}
               /\ \A x \in Producers \ {p} :
                    route'[x] = route[x] /\ visited'[x] = visited[x]
               /\ route[p] # NoRoute /\ route[p].preferred = Preferred(route[p], q) =>
                    /\ r.preferred = route[p].preferred
                    /\ r.hint = route[p].hint
                    /\ r.consecutive = IF route[p].consecutive = CountMax THEN CountMax
                                       ELSE route[p].consecutive + 1
<1>1. q \in Built /\ settings' = settings
  BY DEF RouteShard
<1>2. PICK hint \in IF route[p] = NoRoute THEN Hints ELSE {route[p].hint} :
        LET r == Advanced([route[p] EXCEPT !.hint = hint], q)
            reached == visited[p][q] \cup {Routed(r, q)}
        IN
        /\ route' = [route EXCEPT ![p] = r]
        /\ visited' = [visited EXCEPT ![p] = [s \in Pools |->
                         IF s = q /\ Spills(r) /\ reached # Shards(q) THEN reached
                         ELSE {}]]
  BY DEF RouteShard
<1> DEFINE r0 == [route[p] EXCEPT !.hint = hint]
           r == Advanced(r0, q)
           reached == visited[p][q] \cup {Routed(r, q)}
<1>3. /\ r = [hint |-> hint, preferred |-> Preferred(r, q),
              consecutive |-> Counted(r0, q)]
      /\ hint \in Hints /\ r.preferred \in Shards(q)
      /\ r.consecutive \in 1 .. CountMax
      /\ Routed(r, q) \in Shards(q)
  BY <1>1, AdvancedRange
<1>4. ASSUME route[p] # NoRoute, route[p].preferred = Preferred(route[p], q)
      PROVE  /\ r.preferred = route[p].preferred
             /\ r.hint = route[p].hint
             /\ r.consecutive = IF route[p].consecutive = CountMax THEN CountMax
                                ELSE route[p].consecutive + 1
  <2>1. hint = route[p].hint
    BY <1>4
  <2>2. route[p] \in [hint : Hints, preferred : UNION {Shards(k) : k \in Built},
                      consecutive : 1 .. CountMax]
    BY <1>4 DEF TypeOK
  <2>3. r0 = route[p]
    BY <2>1, <2>2
  <2>4. r.hint = route[p].hint
    BY <1>3, <2>1
  <2>5. r.preferred = route[p].preferred
    <3>1. r.preferred = Preferred(r, q)
      BY <1>3
    <3> HIDE DEF r
    <3> QED BY <1>4, <2>4, <3>1 DEF Preferred
  <2>6. r.consecutive = Counted(r0, q)
    BY <1>3
  <2>7. Counted(r0, q) = IF route[p].consecutive = CountMax THEN CountMax
                         ELSE route[p].consecutive + 1
    BY <1>4, <2>3 DEF Counted
  <2> QED BY <2>4, <2>5, <2>6, <2>7
<1>5. route' = [route EXCEPT ![p] = r]
  BY <1>2
<1>6. visited' = [visited EXCEPT ![p] = [s \in Pools |->
                   IF s = q /\ Spills(r) /\ reached # Shards(q) THEN reached ELSE {}]]
  BY <1>2
<1>7. route'[p] = r /\ \A x \in Producers \ {p} : route'[x] = route[x]
  BY <1>5 DEF TypeOK
<1>8. /\ visited'[p][q] = IF Spills(r) /\ reached # Shards(q) THEN reached ELSE {}
      /\ \A k \in Pools \ {q} : visited'[p][k] = {}
      /\ \A x \in Producers \ {p} : visited'[x] = visited[x]
  <2> HIDE DEF r, reached
  <2> QED BY <1>6 DEF TypeOK
<1>9. r \in [hint : Hints, preferred : Shards(q), consecutive : 1 .. CountMax]
  <2> HIDE DEF r, r0
  <2>1. r = [hint |-> hint, preferred |-> r.preferred, consecutive |-> r.consecutive]
    BY <1>3
  <2> QED BY <1>3, <2>1
<1>10. r.preferred = Preferred(r, q)
  BY <1>3
<1> HIDE DEF r
<1> QED BY <1>1, <1>3, <1>4, <1>7, <1>8, <1>9, <1>10

\* A thread whose rotation has reached shards counts on when it pushes to that
\* pool again: its turn moves by one shard, until the counter has saturated.
LEMMA TurnsOn ==
    ASSUME TypeOK, RotationInv, NEW p \in Producers, NEW q \in Pools,
           RouteShard(p, q), visited[p][q] # {}
    PROVE  LET n == ShardsOf(q)
           IN  /\ n \in Nat \ {0} /\ Turned(route[p]) \in Nat
               /\ Routed(route'[p], q) = Turned(route'[p]) % n
               /\ Turned(route'[p]) = IF route[p].consecutive = CountMax
                                        THEN Turned(route[p]) ELSE Turned(route[p]) + 1
               /\ route'[p].consecutive >= route[p].consecutive
               /\ route[p].consecutive < CountMax =>
                    route'[p].consecutive = route[p].consecutive + 1
               /\ \E m \in 1 .. n - 1 :
                    /\ m <= route[p].consecutive - SpillThreshold
                    /\ m <= Turned(route[p])
                    /\ visited[p][q] = LastOf(Turned(route[p]), n, m)
<1> DEFINE n == ShardsOf(q)
<1>1. RotationOf(p, q)
  BY DEF RotationInv
<1>2. n \in Nat \ {0}
  BY <1>1, HasShards DEF RotationOf
<1>3. route[p] # NoRoute
  BY <1>1, RoutingAssumption DEF RotationOf, Spills, NoRoute
<1>4. route[p] \in [hint : Hints, preferred : UNION {Shards(k) : k \in Built},
                    consecutive : 1 .. CountMax]
  BY <1>3 DEF TypeOK
<1>5. route[p].preferred \in Nat
  <2>1. \A k \in Built : Shards(k) \subseteq Nat
    BY HasShards DEF Shards
  <2> QED BY <1>4, <2>1
<1>6. route[p].consecutive \in 1 .. CountMax /\ route[p].consecutive > SpillThreshold
  BY <1>1, <1>4 DEF RotationOf, Spills
<1>7. /\ route'[p].preferred = route[p].preferred
      /\ route'[p].consecutive = IF route[p].consecutive = CountMax THEN CountMax
                                 ELSE route[p].consecutive + 1
  BY <1>1, <1>3, AfterPush DEF RotationOf
<1>8. /\ route'[p].consecutive >= route[p].consecutive
      /\ route[p].consecutive < CountMax =>
           route'[p].consecutive = route[p].consecutive + 1
  BY <1>6, <1>7, RoutingAssumption
<1>9. Turned(route'[p]) = IF route[p].consecutive = CountMax THEN Turned(route[p])
                          ELSE Turned(route[p]) + 1
  BY <1>5, <1>6, <1>7, RoutingAssumption DEF Turned
<1>10. Routed(route'[p], q) = Turned(route'[p]) % n
  <2>1. Spills(route'[p])
    BY <1>6, <1>8, <1>7, RoutingAssumption DEF Spills
  <2> QED BY <2>1 DEF Routed, Turned
<1>11. /\ Turned(route[p]) \in Nat
       /\ route[p].consecutive - SpillThreshold <= Turned(route[p])
  BY <1>5, <1>6, RoutingAssumption DEF Turned
<1>12. PICK m \in 1 .. n - 1 : /\ m <= route[p].consecutive - SpillThreshold
                               /\ visited[p][q] = LastOf(Turned(route[p]), n, m)
  BY <1>1 DEF RotationOf
<1>13. m <= Turned(route[p])
  BY <1>2, <1>6, <1>11, <1>12, RoutingAssumption
<1> QED BY <1>2, <1>8, <1>9, <1>10, <1>11, <1>12, <1>13

\* The next shard of a rotation is none that it has reached.
LEMMA NextIsNew ==
    ASSUME TypeOK, RotationInv, NEW p \in Producers, NEW q \in Pools,
           RouteShard(p, q), route[p].consecutive < CountMax
    PROVE  Routed(route'[p], q) \notin visited[p][q]
<1> SUFFICES ASSUME visited[p][q] # {} PROVE Routed(route'[p], q) \notin visited[p][q]
  OBVIOUS
<1> DEFINE n == ShardsOf(q)
           x == Turned(route[p])
<1>1. /\ n \in Nat \ {0} /\ x \in Nat
      /\ Routed(route'[p], q) = Turned(route'[p]) % n /\ Turned(route'[p]) = x + 1
  BY TurnsOn, RoutingAssumption
<1>2. PICK m \in 1 .. n - 1 : m <= x /\ visited[p][q] = LastOf(x, n, m)
  BY TurnsOn
<1> HIDE DEF n, x
<1>3. m \in Nat /\ m < n
  BY <1>1, <1>2
<1>4. (x + 1) % n \notin LastOf(x, n, m)
  BY <1>1, <1>2, <1>3, OneMore
<1> QED BY <1>1, <1>2, <1>4

\* What a push leaves of its own rotation.
LEMMA RotationGoesOn ==
    ASSUME TypeOK, RotationInv, NEW p \in Producers, NEW q \in Pools,
           RouteShard(p, q), visited'[p][q] # {}
    PROVE  /\ Spills(route'[p])
           /\ \E m \in 1 .. ShardsOf(q) - 1 :
                /\ m <= route'[p].consecutive - SpillThreshold
                /\ visited'[p][q] = LastOf(Turned(route'[p]), ShardsOf(q), m)
<1> DEFINE n == ShardsOf(q)
           r == route'[p]
           reached == visited[p][q] \cup {Routed(r, q)}
<1>1. /\ q \in Built /\ r.consecutive \in 1 .. CountMax /\ Routed(r, q) \in Shards(q)
      /\ visited'[p][q] = IF Spills(r) /\ reached # Shards(q) THEN reached ELSE {}
  BY AfterPush
<1>2. /\ Spills(r) /\ reached # Shards(q) /\ visited'[p][q] = reached
      /\ r.consecutive > SpillThreshold
  <2> HIDE DEF reached, r
  <2> QED BY <1>1 DEF Spills
<1>3. n \in Nat \ {0} /\ Shards(q) = 0 .. n - 1 /\ reached \subseteq Shards(q)
  BY <1>1, HasShards DEF TypeOK, Shards
<1>4. Routed(r, q) = Turned(r) % n
  BY <1>2 DEF Routed, Turned
<1>5. CASE visited[p][q] = {}
  <2>1. reached = {Turned(r) % n}
    BY <1>4, <1>5
  <2>2. LastOf(Turned(r), n, 1) = {(Turned(r) - i) % n : i \in {0}}
    <3>1. 0 .. 1 - 1 = {0}
      OBVIOUS
    <3> QED BY <3>1 DEF LastOf
  <2>3. Turned(r) - 0 = Turned(r)
    <3>1. Turned(r) \in Int
      <4>1. r.preferred \in Shards(q)
        BY AfterPush
      <4> QED BY <1>1, <1>3, <4>1, RoutingAssumption DEF Turned
    <3> HIDE DEF r
    <3> QED BY <3>1
  <2>4. LastOf(Turned(r), n, 1) = {Turned(r) % n}
    BY <2>2, <2>3, Zenon
  <2>5. n # 1
    <3> HIDE DEF n, reached
    <3>1. n = 1 => Shards(q) = {0}
      BY <1>3
    <3>2. Routed(r, q) \in reached
      BY DEF reached
    <3> QED BY <1>2, <1>3, <3>1, <3>2
  <2>6. 1 \in 1 .. n - 1 /\ 1 <= r.consecutive - SpillThreshold
    BY <1>1, <1>2, <1>3, <2>5, RoutingAssumption
  <2> QED BY <1>2, <2>1, <2>4, <2>6
<1>6. CASE visited[p][q] # {}
  <2> DEFINE x == Turned(route[p])
             c == route[p].consecutive
  <2>1. PICK m \in 1 .. n - 1 :
          m <= c - SpillThreshold /\ m <= x /\ visited[p][q] = LastOf(x, n, m)
    BY <1>6, TurnsOn
  <2>2. /\ x \in Nat /\ r.consecutive >= c
        /\ Turned(r) = IF c = CountMax THEN x ELSE x + 1
        /\ c < CountMax => r.consecutive = c + 1
    BY <1>6, TurnsOn
  <2>3. c \in 0 .. CountMax
    BY RoutingAssumption DEF TypeOK, NoRoute
  <2>4. CASE c = CountMax
    <3>1. Turned(r) = x /\ LastOf(Turned(r), n, m) = visited[p][q]
      BY <2>1, <2>2, <2>4
    <3>2. x % n \in visited[p][q]
      <4>1. 0 \in 0 .. m - 1 /\ x - 0 = x
        BY <2>1, <2>2
      <4> HIDE DEF n, x
      <4> QED BY <2>1, <4>1 DEF LastOf
    <3>3. reached = visited[p][q]
      BY <1>4, <3>1, <3>2
    <3>4. m <= r.consecutive - SpillThreshold
      BY <1>1, <2>1, <2>2, <2>3, RoutingAssumption
    <3> QED BY <1>2, <2>1, <3>1, <3>3, <3>4
  <2>5. CASE c # CountMax
    <3>1. Turned(r) = x + 1 /\ r.consecutive = c + 1
      BY <2>2, <2>3, <2>5, RoutingAssumption
    <3>2. m \in Nat
      BY <1>3, <2>1
    <3> DEFINE new == LastOf(x + 1, n, m + 1)
    <3>3. /\ new = LastOf(x, n, m) \cup {(x + 1) % n}
          /\ m + 1 = n => 0 .. n - 1 \subseteq new
      <4> HIDE DEF n, x
      <4> QED BY <1>3, <2>1, <2>2, <3>2, OneMore
    <3>4. reached = new
      BY <1>4, <2>1, <3>1, <3>3
    <3>5. LastOf(Turned(r), n, m + 1) = new
      BY <3>1
    <3>6. m + 1 # n
      BY <1>2, <1>3, <3>3, <3>4
    <3>7. m + 1 \in 1 .. n - 1 /\ m + 1 <= r.consecutive - SpillThreshold
      <4> HIDE DEF n, r
      <4> QED BY <1>3, <2>1, <2>3, <3>1, <3>2, <3>6, RoutingAssumption
    <3> QED BY <1>2, <3>4, <3>5, <3>7
  <2> QED BY <2>4, <2>5
<1> QED BY <1>2, <1>5, <1>6

\* Every step keeps it.
LEMMA RotationStep == TypeOK /\ RotationInv /\ [Next]_vars => RotationInv'
<1> SUFFICES ASSUME TypeOK, RotationInv, [Next]_vars PROVE RotationInv'
  OBVIOUS
<1>1. ASSUME NEW q \in Pools, Build(q)
      PROVE  RotationInv'
  <2>1. /\ \E s \in BuiltWith[q] : settings' = [settings EXCEPT ![q] = s]
        /\ settings[q] = None /\ route' = route /\ visited' = visited
    BY <1>1 DEF Build
  <2>2. \A k \in Built : k \in Built' /\ settings'[k] = settings[k]
    BY <2>1 DEF TypeOK, Built
  <2>3. ASSUME NEW p \in Producers, NEW k \in Pools, RotationOf(p, k)
        PROVE  RotationOf(p, k)'
    BY <2>1, <2>2, <2>3 DEF RotationOf, ShardsOf, Preferred, Spills, LastOf, Turned
  <2> QED BY <2>1, <2>3 DEF RotationInv
<1>2. ASSUME NEW p \in Producers, NEW q \in Pools, RouteShard(p, q)
      PROVE  RotationInv'
  <2>1. /\ q \in Built /\ settings' = settings
        /\ route'[p].preferred = Preferred(route'[p], q)
        /\ \A k \in Pools \ {q} : visited'[p][k] = {}
        /\ \A x \in Producers \ {p} : route'[x] = route[x] /\ visited'[x] = visited[x]
    BY <1>2, AfterPush
  <2>2. Built' = Built /\ \A k \in Pools : ShardsOf(k)' = ShardsOf(k)
    BY <2>1 DEF Built, ShardsOf
  <2>3. ASSUME NEW x \in Producers \ {p}, NEW k \in Pools, visited'[x][k] # {}
        PROVE  RotationOf(x, k)'
    <3>1. RotationOf(x, k)
      BY <2>1, <2>3 DEF RotationInv
    <3> QED BY <2>1, <2>2, <3>1 DEF RotationOf, Preferred, Spills, LastOf, Turned
  <2>4. ASSUME visited'[p][q] # {} PROVE RotationOf(p, q)'
    <3>1. /\ Spills(route'[p])
          /\ \E m \in 1 .. ShardsOf(q) - 1 :
               /\ m <= route'[p].consecutive - SpillThreshold
               /\ visited'[p][q] = LastOf(Turned(route'[p]), ShardsOf(q), m)
      BY <1>2, <2>4, RotationGoesOn
    <3> QED BY <2>1, <2>2, <3>1 DEF RotationOf, Preferred, Spills, LastOf, Turned
  <2>5. ASSUME NEW x \in Producers, NEW k \in Pools, visited'[x][k] # {}
        PROVE  RotationOf(x, k)'
    <3>1. CASE x # p
      BY <2>3, <2>5, <3>1
    <3>2. CASE x = p
      <4>1. k = q
        BY <2>1, <2>5, <3>2
      <4> QED BY <2>4, <2>5, <3>2, <4>1
    <3> QED BY <3>1, <3>2
  <2> QED BY <2>5 DEF RotationInv
<1>3. CASE UNCHANGED vars
  BY <1>3 DEF vars, RotationInv, RotationOf, Built, ShardsOf, Preferred, Spills,
              LastOf, Turned
<1> QED BY <1>1, <1>2, <1>3 DEF Next

\* Spilled pushes are distributed evenly: a thread that stays with a pool
\* reaches every shard of it before any shard twice, for as long as its counter
\* has not saturated.
THEOREM SpillsEvenly == Spec => SpillIsEven
<1>1. Init => RotationInv
  BY DEF Init, RotationInv
<1>2. TypeOK /\ RotationInv /\ [Next]_vars =>
        [\A p \in Producers, q \in Pools :
           RouteShard(p, q) /\ Spills(route'[p]) /\ route[p].consecutive < CountMax
             => Routed(route'[p], q) \notin visited[p][q]]_vars
  BY NextIsNew
<1> QED BY <1>1, <1>2, TypeCorrect, RotationStep, PTL DEF Spec, SpillIsEven
================================================================================

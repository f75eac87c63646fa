--------------------------------- MODULE Sizing ---------------------------------
(***************************************************************************)
(* How many workers and shards a pool gets from the settings of its        *)
(* Builder: Builder::build and Queue::new (src/src/builder.rs, queue.rs).  *)
(* Pure operators; a setting that was not made is Unset.                   *)
(***************************************************************************)
EXTENDS Integers

CONSTANTS
    MaxThreads,   \* MAX_THREADS
    MaxShards,    \* MAX_SHARDS
    Cpus,         \* num_cpus::get()
    Width         \* width of usize, in bits

\* The powers of two that a usize holds.
PowersOfTwo == {2 ^ k : k \in 0 .. Width - 1}

\* 512 and 8 in the code; the default number of workers is 2.
ASSUME SizingAssumption ==
    /\ Width \in Nat \ {0} /\ Cpus \in Nat
    /\ MaxThreads \in Nat \ {0, 1} /\ 2 * MaxThreads <= 2 ^ Width
    /\ MaxShards \in PowersOfTwo

\* What exponentiation is: a law of arithmetic that the provers do not know.
ASSUME ExponentAssumption ==
    \A k \in 0 .. Width - 1 : 2 ^ k \in Nat /\ 2 ^ (k + 1) = 2 * 2 ^ k

Unset == -1

\* What a Builder's setters leave: worker_threads, thread_per_core, shards.
Settings(numbers) ==
    [numThreads : numbers \cup {Unset}, perCore : BOOLEAN, shards : numbers \cup {Unset}]

Clamp(n, low, high) ==
    IF n < low THEN low ELSE IF n > high THEN high ELSE n

\* usize::next_power_of_two: 0 if that is more than the type holds.
NextPowerOfTwo(n) ==
    IF \A p \in PowersOfTwo : p < n THEN 0
    ELSE CHOOSE p \in PowersOfTwo :
           p >= n /\ \A r \in PowersOfTwo : r >= n => p <= r

\* Builder::build; Threadpool::new(n) is a builder with n threads.
NumThreads(settings) ==
    IF settings.numThreads # Unset THEN Clamp(settings.numThreads, 1, MaxThreads)
    ELSE IF settings.perCore THEN Clamp(Cpus, 1, MaxThreads)
    ELSE 2

\* Mutant of NumShards: the override is rounded up before it is clamped.
MutRoundFirst(settings) ==
    IF settings.shards = Unset
      THEN Clamp(NextPowerOfTwo(NumThreads(settings)), 1, MaxShards)
      ELSE Clamp(NextPowerOfTwo(settings.shards), 1, NumThreads(settings))

\* Queue::new: the shards are 0 .. NumShards - 1.  The mask is NumShards - 1,
\* and `x & mask' is x % NumShards because the number is a power of two.
NumShards(settings) ==
    IF settings.shards = Unset
      THEN Clamp(NextPowerOfTwo(NumThreads(settings)), 1, MaxShards)
      ELSE NextPowerOfTwo(Clamp(settings.shards, 1, NumThreads(settings)))

\* What the docs of the builder and of queue.rs say of a pool's settings,
\* whatever the caller has passed: the mask is that of a power of two, the
\* shards are at least the workers' share of what was asked for and fewer than
\* twice the workers, and the default is one per worker, rounded up, capped.
SizedAsDocumented(settings) ==
    LET workers == NumThreads(settings)
        shards == NumShards(settings)
        asked == IF settings.shards = Unset THEN Clamp(workers, 1, MaxShards)
                 ELSE Clamp(settings.shards, 1, workers)
    IN  /\ workers \in 1 .. MaxThreads
        /\ shards \in PowersOfTwo
        /\ asked <= shards /\ shards < 2 * asked
================================================================================

---------------------------- MODULE PerKeyLimiter ----------------------------
(***************************************************************************)
(* internal/flowcontrol/limiter.go: the per-user token bucket that guards  *)
(* every LLM request.  A call to Allow runs under l.mu from its first line *)
(* to its last and reads the clock under that mutex, so it is one atomic   *)
(* step at one instant.                                                    *)
(*                                                                         *)
(* Time is counted in the unit of Window.  A token is counted as Window    *)
(* units, so that the float64 rate Limit/Window becomes Limit units per    *)
(* tick and the arithmetic is exact; the rounding of float64 is the one    *)
(* thing of the algorithm this leaves out.                                 *)
(***************************************************************************)
EXTENDS Integers, FiniteSets

CONSTANTS
    Keys,           \* the keys that may call (user ids)
    Limit,          \* l.Limit: tokens in a full bucket
    Window,         \* l.Window: ticks in which an empty bucket fills
    PruneInterval,  \* l.PruneInterval
    MaxKeys,        \* l.MaxKeys
    MaxClock        \* bound: the last instant of the model

\* llm.Limits.withDefaults replaces every value that is not positive.
ASSUME LimiterAssumption ==
    /\ Limit \in Nat \ {0}
    /\ Window \in Nat \ {0}
    /\ PruneInterval \in Nat \ {0}
    /\ MaxKeys \in Nat \ {0}
    /\ MaxClock \in Nat

VARIABLES
    buckets,    \* l.buckets: a function from the tracked keys to buckets
    lastPrune,  \* l.lastPrune
    now         \* what l.nowLocked() returns

vars == <<buckets, lastPrune, now>>

Cap  == Limit * Window
Cost == Window

Bucket == [tokens : 0 .. Cap, lastRefill : 0 .. MaxClock]

\* The zero time.Time lies far enough back for the first call to prune.
ZeroTime == 0 - PruneInterval

Tracked == DOMAIN buckets

Init ==
    /\ buckets = [k \in {} |-> [tokens |-> Cap, lastRefill |-> 0]]
    /\ lastPrune = ZeroTime
    /\ now = 0

-----------------------------------------------------------------------------
Capped(t) == IF t < Cap THEN t ELSE Cap

\* min(Limit, tokens + elapsed*rate) for a tracked bucket.
Accrued(k) == Capped(buckets[k].tokens + (now - buckets[k].lastRefill) * Limit)

\* refillLocked: the tokens of k, a full bucket if k is not tracked.
Refilled(k, tracked) == IF k \in tracked THEN Accrued(k) ELSE Cap

\* Mutant of Expired: a shorter time than a full refill takes.
ExpiredEarly(k) == now - buckets[k].lastRefill >= Window - 1

Expired(k) == now - buckets[k].lastRefill >= Window

\* Mutant of PruneDue: the sweep runs only when the map is full.
PruneDueWhenFull == Cardinality(Tracked) >= MaxKeys

PruneDue ==
    \/ now - lastPrune >= PruneInterval
    \/ Cardinality(Tracked) >= MaxKeys

\* expireLocked, when Allow calls it.
Unswept == IF PruneDue THEN {k \in Tracked : ~Expired(k)} ELSE Tracked

Before(j, k) == buckets[j].lastRefill < buckets[k].lastRefill

\* Mutant of Oldest: After in the place of Before.
OldestByAfter(S) == {k \in S : \A j \in S : ~Before(k, j)}

\* Where the scan of evictOldestLocked may end: at a bucket that no other one is
\* Before. Map order decides among equals.
Oldest(S) == {k \in S : \A j \in S : ~Before(j, k)}

\* n passes of evictOldestLocked, each of which deletes an oldest of the buckets
\* that are left to it.
Passes(n, S) ==
    {out \in [1 .. n -> S] :
        \A i \in 1 .. n : out[i] \in Oldest(S \ {out[j] : j \in 1 .. i - 1})}

\* Mutant of Survivors: len - MaxKeys passes, without the + 1.
SurvivorsOffByOne(S) ==
    LET n == Cardinality(S) - MaxKeys
    IN  {S \ {out[i] : i \in 1 .. n} : out \in Passes(n, S)}

\* What evictOldestLocked(len - MaxKeys + 1) may leave; below MaxKeys there is no
\* pass.
Survivors(S) ==
    LET n == Cardinality(S) - MaxKeys + 1
    IN  {S \ {out[i] : i \in 1 .. n} : out \in Passes(n, S)}

\* Mutant of Allow: lastRefill keeps its value, so that the same elapsed time is
\* refilled again by each call.
AllowKeepsLastRefill(k, granted, kept) ==
    LET tokens == Refilled(k, kept)
        left   == IF granted THEN tokens - Cost ELSE tokens
    IN  /\ kept \in Survivors(Unswept)
        /\ granted = (tokens >= Cost)
        /\ buckets' = [j \in kept \union {k} |->
                          IF j = k
                          THEN [tokens |-> left,
                                lastRefill |-> IF k \in kept THEN buckets[k].lastRefill ELSE now]
                          ELSE buckets[j]]
        /\ lastPrune' = IF PruneDue THEN now ELSE lastPrune
        /\ UNCHANGED now

\* Mutant of Allow: "tokens <= 0" refuses, so that part of a token is enough.
AllowPartOfAToken(k, granted, kept) ==
    LET tokens == Refilled(k, kept)
        left   == IF granted THEN tokens - Cost ELSE tokens
    IN  /\ kept \in Survivors(Unswept)
        /\ granted = (tokens > 0)
        /\ buckets' = [j \in kept \union {k} |->
                          IF j = k
                          THEN [tokens |-> left, lastRefill |-> now]
                          ELSE buckets[j]]
        /\ lastPrune' = IF PruneDue THEN now ELSE lastPrune
        /\ UNCHANGED now

\* Allow(k) returns `granted`; `kept` are the keys no sweep or eviction removed.
\* A refused call stores its refilled bucket too.
Allow(k, granted, kept) ==
    LET tokens == Refilled(k, kept)
        left   == IF granted THEN tokens - Cost ELSE tokens
    IN  /\ kept \in Survivors(Unswept)
        /\ granted = (tokens >= Cost)
        /\ buckets' = [j \in kept \union {k} |->
                          IF j = k
                          THEN [tokens |-> left, lastRefill |-> now]
                          ELSE buckets[j]]
        /\ lastPrune' = IF PruneDue THEN now ELSE lastPrune
        /\ UNCHANGED now

\* The clock is monotonic.
Tick ==
    /\ now < MaxClock
    /\ now' = now + 1
    /\ UNCHANGED <<buckets, lastPrune>>

Next ==
    \/ \E k \in Keys, granted \in BOOLEAN, kept \in SUBSET Tracked : Allow(k, granted, kept)
    \/ Tick

Spec == Init /\ [][Next]_vars

-----------------------------------------------------------------------------
\* Type invariant: every stored bucket holds between nothing and a full bucket
\* and was refilled at a past instant; lastPrune is a past instant or zero.
TypeOK ==
    /\ Tracked \subseteq Keys
    /\ buckets \in [Tracked -> Bucket]
    /\ now \in 0 .. MaxClock
    /\ lastPrune \in {ZeroTime} \union 0 .. now
    /\ \A k \in Tracked : buckets[k].lastRefill <= now

\* The map never outgrows MaxKeys ("It also bounds its own memory",
\* limiter.go:9): a call evicts before it inserts.
TrackedBound ==
    /\ IsFiniteSet(Tracked)
    /\ Cardinality(Tracked) <= MaxKeys

\* PruneInterval bounds how long a stale entry outlives its window
\* (limiter.go:15): right after any call no bucket is older than
\* Window + PruneInterval, whatever calls came before.
SweepBound ==
    [][now' = now =>
          \A k \in DOMAIN buckets' :
             now - buckets'[k].lastRefill < Window + PruneInterval]_vars

\* What makes SweepBound inductive: a sweep leaves only buckets of its window.
SweptAtPrune ==
    \A k \in Tracked : lastPrune - buckets[k].lastRefill < Window

\* What the limiter's comment says of eviction (limiter.go:10-11): an unexpired
\* bucket goes only "if distinct keys still exceed MaxKeys" after the sweep,
\* counting the caller's.
EvictsOnlyOverMaxKeys ==
    [][(\E out \in Tracked \ DOMAIN buckets' : ~Expired(out))
          => Cardinality(Unswept \union DOMAIN buckets') > MaxKeys]_vars

\* What k's bucket would hold if it were refilled now.
Level == [k \in Keys |-> Refilled(k, Tracked)]
=============================================================================

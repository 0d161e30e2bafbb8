---------------------------- MODULE LimiterProofs ----------------------------
(***************************************************************************)
(* For every set of keys, limit, window, sweep interval and map size: the  *)
(* limiter's types, its memory bound, how long stale buckets live and which *)
(* buckets an eviction may take; the rate limit over every interval,        *)
(* evictions included; and that PerKeyLimiter implements the token bucket.  *)
(***************************************************************************)
EXTENDS RateAudit, FiniteSetTheorems, TLAPS

\* The inductive invariant.
Inv == TypeOK /\ TrackedBound /\ SweptAtPrune

\* A full bucket is a natural number of units, and holds a token.
LEMMA CapFacts == Cap \in Nat /\ Cost \in Nat /\ Cost <= Cap
<1>1. Limit \in Nat /\ Window \in Nat /\ Limit >= 1 /\ Window >= 1
  BY LimiterAssumption
<1>2. Limit * Window \in Nat
  BY <1>1
<1>3. Window <= Limit * Window
  BY <1>1, SMT
<1> QED BY <1>1, <1>2, <1>3 DEF Cap, Cost

\* A refill never takes a token away, and never overfills the bucket.
LEMMA AccruedFacts ==
  ASSUME TypeOK, NEW k \in Tracked
  PROVE  /\ Accrued(k) \in 0 .. Cap
         /\ buckets[k].tokens <= Accrued(k)
<1>1. Cap \in Nat
  BY CapFacts
<1>2. buckets[k].tokens \in 0 .. Cap
  BY DEF TypeOK, Bucket
<1>3. buckets[k].lastRefill \in Int /\ now \in Int /\ buckets[k].lastRefill <= now
  BY LimiterAssumption DEF TypeOK, Bucket
<1>4. now - buckets[k].lastRefill \in Nat
  BY <1>3
<1>5. (now - buckets[k].lastRefill) * Limit \in Nat
  BY <1>4, LimiterAssumption
<1> QED BY <1>1, <1>2, <1>5 DEF Accrued, Capped

LEMMA RefilledFacts ==
  ASSUME TypeOK, NEW S, S \subseteq Tracked, NEW k
  PROVE  Refilled(k, S) \in 0 .. Cap
BY AccruedFacts, CapFacts DEF Refilled

\* The buckets that stay after a sweep are a finite number, and no more than
\* there were.
LEMMA UnsweptFacts ==
  ASSUME TrackedBound
  PROVE  /\ Unswept \subseteq Tracked
         /\ IsFiniteSet(Unswept)
         /\ Cardinality(Unswept) \in Nat
         /\ Cardinality(Unswept) <= MaxKeys
<1>1. Unswept \subseteq Tracked
  BY DEF Unswept
<1>2. IsFiniteSet(Tracked) /\ Cardinality(Tracked) \in Nat /\ Cardinality(Tracked) <= MaxKeys
  BY FS_CardinalityType DEF TrackedBound
<1>3. IsFiniteSet(Unswept) /\ Cardinality(Unswept) <= Cardinality(Tracked)
  BY <1>1, <1>2, FS_Subset
<1>4. Cardinality(Unswept) \in Nat
  BY <1>3, FS_CardinalityType
<1> QED BY <1>1, <1>2, <1>3, <1>4, LimiterAssumption

\* The loop of evictOldestLocked: while the map is within its bound there is at
\* most one pass, which deletes a bucket that no other is older than.
LEMMA EvictionPass ==
  ASSUME TrackedBound, NEW kept \in Survivors(Unswept)
  PROVE  \/ Cardinality(Unswept) < MaxKeys /\ kept = Unswept
         \/ /\ Cardinality(Unswept) = MaxKeys
            /\ \E out \in Oldest(Unswept) : kept = Unswept \ {out}
<1> DEFINE n == Cardinality(Unswept) - MaxKeys + 1
<1>1. Cardinality(Unswept) \in Nat /\ Cardinality(Unswept) <= MaxKeys /\ MaxKeys \in Nat
  BY UnsweptFacts, LimiterAssumption
<1>2. PICK out \in Passes(n, Unswept) : kept = Unswept \ {out[i] : i \in 1 .. n}
  BY DEF Survivors
<1>3. CASE Cardinality(Unswept) < MaxKeys
  <2>1. 1 .. n = {}
    BY <1>1, <1>3
  <2> QED BY <1>2, <1>3, <2>1
<1>4. CASE Cardinality(Unswept) = MaxKeys
  <2>1. n = 1
    BY <1>1, <1>4
  <2> HIDE DEF n
  <2>2. 1 .. n = {1} /\ 1 .. 1 - 1 = {}
    BY <2>1
  <2>3. out[1] \in Oldest(Unswept \ {out[j] : j \in 1 .. 1 - 1})
    BY <1>2, <2>2 DEF Passes
  <2>4. Unswept \ {out[j] : j \in 1 .. 1 - 1} = Unswept
    BY <2>2
  <2>5. out[1] \in Oldest(Unswept)
    BY <2>3, <2>4
  <2>6. kept = Unswept \ {out[1]}
    BY <1>2, <2>2
  <2> QED BY <1>4, <2>5, <2>6
<1> QED BY <1>1, <1>3, <1>4

\* What the sweep and the eviction leave: tracked keys, at most MaxKeys - 1.
LEMMA KeptFacts ==
  ASSUME TrackedBound, NEW kept \in Survivors(Unswept)
  PROVE  /\ kept \subseteq Unswept
         /\ Unswept \subseteq Tracked
         /\ IsFiniteSet(kept)
         /\ Cardinality(kept) <= MaxKeys - 1
         /\ Unswept \ kept # {} => Cardinality(kept) = MaxKeys - 1
<1>1. /\ Unswept \subseteq Tracked /\ IsFiniteSet(Unswept)
      /\ Cardinality(Unswept) \in Nat /\ MaxKeys \in Nat
  BY UnsweptFacts, LimiterAssumption
<1>2. CASE Cardinality(Unswept) < MaxKeys /\ kept = Unswept
  BY <1>1, <1>2
<1>3. CASE /\ Cardinality(Unswept) = MaxKeys
           /\ \E out \in Oldest(Unswept) : kept = Unswept \ {out}
  <2>1. PICK out \in Unswept : kept = Unswept \ {out}
    BY <1>3 DEF Oldest
  <2>2. IsFiniteSet(kept) /\ Cardinality(kept) = Cardinality(Unswept) - 1
    BY <1>1, <2>1, FS_RemoveElement
  <2> QED BY <1>1, <1>3, <2>1, <2>2
<1> QED BY <1>2, <1>3, EvictionPass

LEMMA InitInv == Init => Inv
<1> SUFFICES ASSUME Init PROVE Inv
  OBVIOUS
<1>1. Tracked = {}
  BY DEF Init, Tracked
<1>2. TypeOK
  BY <1>1, LimiterAssumption DEF Init, TypeOK, Tracked
<1>3. TrackedBound
  BY <1>1, FS_EmptySet, LimiterAssumption DEF TrackedBound
<1>4. SweptAtPrune
  BY <1>1 DEF SweptAtPrune
<1> QED BY <1>2, <1>3, <1>4 DEF Inv

\* The tracked keys after a call, and its own bucket.
LEMMA AllowShape ==
  ASSUME Inv, NEW k \in Keys, NEW granted \in BOOLEAN, NEW kept, Allow(k, granted, kept)
  PROVE  /\ kept \in Survivors(Unswept)
         /\ kept \subseteq Unswept
         /\ kept \subseteq Tracked
         /\ Tracked' = kept \union {k}
         /\ buckets'[k].tokens \in 0 .. Cap
         /\ buckets'[k].lastRefill = now
         /\ \A j \in kept \ {k} : buckets'[j] = buckets[j]
         /\ buckets' = [j \in Tracked' |-> buckets'[j]]
         /\ buckets'[k] \in [tokens : 0 .. Cap, lastRefill : {now}]
<1>1. kept \in Survivors(Unswept)
  BY DEF Allow
<1>2. kept \subseteq Unswept /\ kept \subseteq Tracked
  BY <1>1, KeptFacts DEF Inv
<1>3. Refilled(k, kept) \in 0 .. Cap
  BY <1>2, RefilledFacts DEF Inv
<1> DEFINE left == IF granted THEN Refilled(k, kept) - Cost ELSE Refilled(k, kept)
<1>4. left \in 0 .. Cap
  <2>1. granted => Refilled(k, kept) >= Cost
    BY DEF Allow
  <2>2. CASE granted
    BY <1>3, <2>1, <2>2, CapFacts
  <2>3. CASE ~granted
    BY <1>3, <2>3, CapFacts
  <2> QED BY <2>2, <2>3
<1> HIDE DEF left
<1>5. buckets' = [j \in kept \union {k} |->
                    IF j = k THEN [tokens |-> left, lastRefill |-> now] ELSE buckets[j]]
  BY DEF Allow, left
<1>6. Tracked' = kept \union {k}
  BY <1>5 DEF Tracked
<1>7. buckets'[k] = [tokens |-> left, lastRefill |-> now]
  BY <1>5
<1>8. \A j \in kept \ {k} : buckets'[j] = buckets[j]
  BY <1>5
<1>9. buckets' = [j \in Tracked' |-> buckets'[j]]
  BY <1>5, <1>6
<1>10. /\ buckets'[k].tokens = left
       /\ buckets'[k].lastRefill = now
       /\ buckets'[k] \in [tokens : 0 .. Cap, lastRefill : {now}]
  BY <1>4, <1>7
<1> QED BY <1>1, <1>2, <1>4, <1>6, <1>8, <1>9, <1>10

LEMMA AllowInv ==
  ASSUME Inv, NEW k \in Keys, NEW granted \in BOOLEAN, NEW kept, Allow(k, granted, kept)
  PROVE  Inv'
<1>s. /\ kept \in Survivors(Unswept)
      /\ kept \subseteq Unswept
      /\ kept \subseteq Tracked
      /\ Tracked' = kept \union {k}
      /\ buckets'[k].tokens \in 0 .. Cap
      /\ buckets'[k].lastRefill = now
      /\ \A j \in kept \ {k} : buckets'[j] = buckets[j]
      /\ buckets' = [j \in Tracked' |-> buckets'[j]]
      /\ buckets'[k] \in [tokens : 0 .. Cap, lastRefill : {now}]
  BY AllowShape
<1>a. now' = now /\ lastPrune' = IF PruneDue THEN now ELSE lastPrune
  BY DEF Allow
<1>b. now \in 0 .. MaxClock /\ lastPrune \in {ZeroTime} \union 0 .. now
  BY DEF Inv, TypeOK
<1>1. TypeOK'
  <2>1. Tracked' \subseteq Keys
    BY <1>s DEF Inv, TypeOK
  <2>2. \A j \in Tracked' : buckets'[j] \in Bucket
    <3> SUFFICES ASSUME NEW j \in Tracked' PROVE buckets'[j] \in Bucket
      OBVIOUS
    <3>1. CASE j = k
      BY <3>1, <1>b, <1>s DEF Bucket
    <3>2. CASE j # k
      <4>1. j \in kept \ {k} /\ j \in Tracked
        BY <3>2, <1>s
      <4> QED BY <4>1, <1>s DEF Inv, TypeOK
    <3> QED BY <3>1, <3>2
  <2>3. buckets' \in [Tracked' -> Bucket]
    BY <2>2, <1>s
  <2>4. \A j \in Tracked' : buckets'[j].lastRefill <= now'
    <3> SUFFICES ASSUME NEW j \in Tracked' PROVE buckets'[j].lastRefill <= now'
      OBVIOUS
    <3>1. CASE j = k
      BY <3>1, <1>a, <1>b, <1>s, LimiterAssumption
    <3>2. CASE j # k
      <4>1. j \in kept \ {k} /\ j \in Tracked
        BY <3>2, <1>s
      <4> QED BY <4>1, <1>a, <1>s DEF Inv, TypeOK
    <3> QED BY <3>1, <3>2
  <2>5. now' \in 0 .. MaxClock /\ lastPrune' \in {ZeroTime} \union 0 .. now'
    BY <1>a, <1>b, LimiterAssumption
  <2>6. ZeroTime' = ZeroTime
    BY DEF ZeroTime
  <2> QED BY <2>1, <2>3, <2>4, <2>5, <2>6 DEF TypeOK
<1>2. TrackedBound'
  <2>1. IsFiniteSet(kept) /\ Cardinality(kept) <= MaxKeys - 1
    BY <1>s, KeptFacts DEF Inv
  <2>2. /\ IsFiniteSet(kept \union {k})
        /\ Cardinality(kept \union {k}) \in {Cardinality(kept), Cardinality(kept) + 1}
    <3>1. CASE k \in kept
      <4>1. kept \union {k} = kept
        BY <3>1
      <4> QED BY <2>1, <4>1
    <3>2. CASE k \notin kept
      BY <2>1, <3>2, FS_AddElement
    <3> QED BY <3>1, <3>2
  <2>3. Cardinality(kept) \in Nat
    BY <2>1, FS_CardinalityType
  <2> QED BY <1>s, <2>1, <2>2, <2>3, LimiterAssumption DEF TrackedBound
<1>3. SweptAtPrune'
  <2> SUFFICES ASSUME NEW j \in Tracked'
               PROVE  lastPrune' - buckets'[j].lastRefill < Window
    BY DEF SweptAtPrune
  <2>1. lastPrune' <= now /\ lastPrune' \in Int /\ now \in Int
    BY <1>a, <1>b, LimiterAssumption DEF ZeroTime
  <2>2. CASE j = k
    BY <1>s, <2>1, <2>2, LimiterAssumption
  <2>3. CASE j # k
    <3>1. j \in kept /\ j \in Unswept /\ j \in Tracked /\ buckets'[j] = buckets[j]
      BY <2>3, <1>s
    <3>2. buckets[j].lastRefill \in Int
      BY <3>1 DEF Inv, TypeOK, Bucket
    <3>3. CASE PruneDue
      <4>1. ~Expired(j)
        BY <3>1, <3>3 DEF Unswept
      <4> QED BY <4>1, <3>1, <3>2, <3>3, <1>a, <2>1, LimiterAssumption DEF Expired
    <3>4. CASE ~PruneDue
      BY <3>1, <3>4, <1>a DEF Inv, SweptAtPrune
    <3> QED BY <3>3, <3>4
  <2> QED BY <2>2, <2>3
<1> QED BY <1>1, <1>2, <1>3 DEF Inv

LEMMA TickInv == Inv /\ Tick => Inv'
<1> SUFFICES ASSUME Inv, Tick PROVE Inv'
  OBVIOUS
<1>1. buckets' = buckets /\ lastPrune' = lastPrune /\ now' = now + 1 /\ now < MaxClock
  BY DEF Tick
<1>2. Tracked' = Tracked
  BY <1>1 DEF Tracked
<1>3. TypeOK'
  <2>1. now \in Nat /\ MaxClock \in Nat /\ now' \in 0 .. MaxClock
    BY <1>1, LimiterAssumption DEF Inv, TypeOK
  <2>2. lastPrune' \in {ZeroTime} \union 0 .. now'
    BY <1>1, <2>1 DEF Inv, TypeOK
  <2>3. \A k \in Tracked : buckets[k].lastRefill \in Nat
    BY LimiterAssumption DEF Inv, TypeOK, Bucket
  <2> QED BY <1>1, <1>2, <2>1, <2>2, <2>3 DEF Inv, TypeOK, ZeroTime
<1>4. TrackedBound' /\ SweptAtPrune'
  BY <1>1, <1>2 DEF Inv, TrackedBound, SweptAtPrune
<1> QED BY <1>3, <1>4 DEF Inv

LEMMA StepInv == Inv /\ [Next]_vars => Inv'
<1> SUFFICES ASSUME Inv, [Next]_vars PROVE Inv'
  OBVIOUS
<1>1. ASSUME NEW k \in Keys, NEW granted \in BOOLEAN, NEW kept \in SUBSET Tracked,
             Allow(k, granted, kept)
      PROVE  Inv'
  BY <1>1, AllowInv
<1>2. CASE Tick
  BY <1>2, TickInv
<1>3. CASE UNCHANGED vars
  BY <1>3 DEF vars, Inv, TypeOK, TrackedBound, SweptAtPrune, Tracked, ZeroTime
<1> QED BY <1>1, <1>2, <1>3 DEF Next

LEMMA Invariance == Spec => []Inv
<1> QED BY InitInv, StepInv, PTL DEF Spec

\* The types, for every value of the constants.
THEOREM LimiterTypes == Spec => []TypeOK
<1>1. Inv => TypeOK
  BY DEF Inv
<1> QED BY <1>1, Invariance, PTL

\* The map holds at most MaxKeys buckets (limiter.go:9-11).
THEOREM LimiterMemory == Spec => []TrackedBound
<1>1. Inv => TrackedBound
  BY DEF Inv
<1> QED BY <1>1, Invariance, PTL

\* The time since a refill is the time since the last sweep and the time before.
LEMMA AgeAtSweep ==
  ASSUME NEW instant \in Int, NEW sweep \in Int, NEW refill \in Int,
         instant - sweep < PruneInterval, sweep - refill < Window
  PROVE  instant - refill < Window + PruneInterval
BY LimiterAssumption

\* A stale bucket is gone, at the first call after that, once it outlives its
\* window by PruneInterval (limiter.go:15).
THEOREM LimiterSweep == Spec => SweepBound
<1> DEFINE Swept == \A k \in DOMAIN buckets' :
                       now - buckets'[k].lastRefill < Window + PruneInterval
<1>1. ASSUME Inv, [Next]_vars
      PROVE  [now' = now => Swept]_vars
  <2> SUFFICES ASSUME vars' # vars, now' = now, NEW j \in DOMAIN buckets'
               PROVE  now - buckets'[j].lastRefill < Window + PruneInterval
    OBVIOUS
  <2>1. now \in Int
    BY <1>1 DEF Inv, TypeOK
  <2>2. ~Tick
    BY <2>1 DEF Tick
  <2>3. PICK k \in Keys, granted \in BOOLEAN, kept \in SUBSET Tracked : Allow(k, granted, kept)
    BY <1>1, <2>2 DEF Next
  <2>4. Inv'
    BY <1>1, StepInv
  <2>5. lastPrune' - buckets'[j].lastRefill < Window
    BY <2>4 DEF Inv, SweptAtPrune, Tracked
  <2>6. buckets'[j].lastRefill \in Int
    BY <2>4 DEF Inv, TypeOK, Tracked, Bucket
  <2>7. lastPrune' = IF PruneDue THEN now ELSE lastPrune
    BY <2>3 DEF Allow
  <2>8. lastPrune \in Int
    BY <1>1, LimiterAssumption DEF Inv, TypeOK, ZeroTime
  <2>9. now - lastPrune' < PruneInterval /\ lastPrune' \in Int
    BY <2>1, <2>7, <2>8, LimiterAssumption DEF PruneDue
  <2> QED BY <2>1, <2>5, <2>6, <2>9, AgeAtSweep
<1> QED BY <1>1, Invariance, PTL DEF Spec, SweepBound

-----------------------------------------------------------------------------
(* What a step does to the level a bucket would show.                      *)

\* A bucket older than the window is full again: sweeping it changes nothing
\* (limiter.go:79-80).
LEMMA ExpiredIsFull ==
  ASSUME TypeOK, NEW k \in Tracked, Expired(k)
  PROVE  Accrued(k) = Cap
<1> DEFINE elapsed == now - buckets[k].lastRefill
<1>1. elapsed \in Nat /\ elapsed >= Window
  BY LimiterAssumption DEF TypeOK, Bucket, Expired
<1>2. Limit \in Nat /\ Window \in Nat
  BY LimiterAssumption
<1>3. buckets[k].tokens \in Nat
  BY CapFacts DEF TypeOK, Bucket
<1> HIDE DEF elapsed
<1>4. elapsed * Limit >= Limit * Window
  <2>1. PICK d \in Nat : elapsed = Window + d
    <3>1. elapsed - Window \in Nat /\ elapsed = Window + (elapsed - Window)
      BY <1>1, <1>2
    <3> QED BY <3>1
  <2>2. d * Limit \in Nat /\ (Window + d) * Limit = Limit * Window + d * Limit
    BY <1>2, <2>1
  <2>3. Limit * Window \in Nat
    BY <1>2
  <2> QED BY <2>1, <2>2, <2>3
<1>5. elapsed * Limit \in Nat /\ Limit * Window \in Nat
  BY <1>1, <1>2
<1>6. Accrued(k) = Capped(buckets[k].tokens + elapsed * Limit)
  BY DEF Accrued, elapsed
<1> QED BY <1>3, <1>4, <1>5, <1>6 DEF Capped, Cap

LEMMA LevelType ==
  ASSUME TypeOK
  PROVE  \A k \in Keys : Level[k] \in 0 .. Cap
BY RefilledFacts DEF Level

\* A call moves the caller's level by its token; an eviction refills a bucket;
\* a sweep, and the refill the caller stores, move nothing.
LEMMA LevelAfterAllow ==
  ASSUME Inv, NEW k \in Keys, NEW granted \in BOOLEAN, NEW kept, Allow(k, granted, kept)
  PROVE  LET before(j) == IF j \in Unswept \ kept THEN Cap ELSE Level[j]
         IN  /\ granted => Level'[k] = before(k) - Cost /\ before(k) >= Cost
             /\ ~granted => Level'[k] = before(k) /\ before(k) < Cost
             /\ \A j \in Keys \ {k} : Level'[j] = before(j)
<1> DEFINE before(j) == IF j \in Unswept \ kept THEN Cap ELSE Level[j]
<1>1. /\ kept \subseteq Unswept
      /\ kept \subseteq Tracked
      /\ Tracked' = kept \union {k}
      /\ \A j \in kept \ {k} : buckets'[j] = buckets[j]
  BY AllowShape
<1>2. now' = now /\ now \in Int
  BY DEF Allow, Inv, TypeOK
<1>3. \A j \in Keys : Refilled(j, kept) = before(j)
  <2> SUFFICES ASSUME NEW j \in Keys PROVE Refilled(j, kept) = before(j)
    OBVIOUS
  <2>1. CASE j \in kept
    BY <1>1, <2>1 DEF Refilled, Level
  <2>2. CASE j \notin kept /\ j \in Unswept
    BY <2>2 DEF Refilled
  <2>3. CASE j \notin kept /\ j \notin Unswept /\ j \in Tracked
    <3>1. Expired(j)
      BY <2>3 DEF Unswept
    <3>2. Accrued(j) = Cap
      BY <2>3, <3>1, ExpiredIsFull DEF Inv
    <3> QED BY <2>3, <3>2 DEF Refilled, Level
  <2>4. CASE j \notin kept /\ j \notin Tracked
    BY <2>4 DEF Refilled, Level, Unswept
  <2> QED BY <2>1, <2>2, <2>3, <2>4
<1>4. \A j \in Keys \ {k} : Level'[j] = Refilled(j, kept)
  <2> SUFFICES ASSUME NEW j \in Keys \ {k} PROVE Level'[j] = Refilled(j, kept)
    OBVIOUS
  <2>1. Level'[j] = IF j \in Tracked'
                    THEN Capped(buckets'[j].tokens + (now' - buckets'[j].lastRefill) * Limit)
                    ELSE Cap
    BY DEF Level, Refilled, Accrued, Capped, Cap
  <2> QED BY <1>1, <1>2, <2>1 DEF Refilled, Accrued
<1>5. Refilled(k, kept) \in 0 .. Cap
  BY <1>1, RefilledFacts DEF Inv
<1>6. Level'[k] = IF granted THEN Refilled(k, kept) - Cost ELSE Refilled(k, kept)
  <2> DEFINE left == IF granted THEN Refilled(k, kept) - Cost ELSE Refilled(k, kept)
  <2>1. buckets'[k] = [tokens |-> left, lastRefill |-> now]
    BY DEF Allow
  <2> HIDE DEF left
  <2>2. buckets'[k].tokens = left /\ buckets'[k].lastRefill = now
    BY <2>1
  <2>3. left \in 0 .. Cap
    BY <2>2, AllowShape
  <2>4. Level'[k] = Capped(left + (now - now) * Limit)
    BY <1>1, <1>2, <2>2 DEF Level, Refilled, Accrued, Capped, Cap
  <2>5. (now - now) * Limit = 0
    BY <1>2, LimiterAssumption
  <2>6. Capped(left + 0) = left
    BY <2>3, CapFacts DEF Capped
  <2> QED BY <2>4, <2>5, <2>6 DEF left
<1>7. (granted => Refilled(k, kept) >= Cost) /\ (~granted => ~(Refilled(k, kept) >= Cost))
  BY DEF Allow
<1>8. CASE granted
  BY <1>3, <1>4, <1>6, <1>7, <1>8
<1>9. CASE ~granted
  <2>1. Refilled(k, kept) < Cost
    BY <1>5, <1>7, <1>9, CapFacts
  <2> QED BY <1>3, <1>4, <1>6, <1>9, <2>1
<1> QED BY <1>8, <1>9

\* A tick adds Limit units to every level, up to a full bucket.
LEMMA LevelAfterTick ==
  ASSUME Inv, Tick, NEW k \in Keys
  PROVE  Level'[k] = IF Level[k] + Limit < Cap THEN Level[k] + Limit ELSE Cap
<1>1. buckets' = buckets /\ Tracked' = Tracked /\ now' = now + 1
  BY DEF Tick, Tracked
<1>2. Limit \in Nat /\ Cap \in Nat /\ now \in Int
  BY CapFacts, LimiterAssumption DEF Inv, TypeOK
<1>3. CASE k \in Tracked
  <2> DEFINE held == buckets[k].tokens
             elapsed == now - buckets[k].lastRefill
             x == held + elapsed * Limit
  <2>1. held \in Int /\ elapsed \in Int
    BY <1>2, <1>3, LimiterAssumption DEF Inv, TypeOK, Bucket
  <2>2. Level[k] = Capped(x)
    BY <1>3 DEF Level, Refilled, Accrued
  <2>3. Level'[k] = Capped(held + (now + 1 - buckets[k].lastRefill) * Limit)
    <3>1. Level'[k] = IF k \in Tracked'
                      THEN Capped(buckets'[k].tokens + (now' - buckets'[k].lastRefill) * Limit)
                      ELSE Cap
      BY DEF Level, Refilled, Accrued, Capped, Cap
    <3>2. now' - buckets'[k].lastRefill = now + 1 - buckets[k].lastRefill
      <4>1. buckets[k].lastRefill \in Int
        BY <1>3 DEF Inv, TypeOK, Bucket
      <4> QED BY <1>1, <1>2, <4>1
    <3>3. buckets'[k].tokens = held /\ k \in Tracked'
      BY <1>1, <1>3
    <3> QED BY <3>1, <3>2, <3>3, Zenon
  <2>4. now + 1 - buckets[k].lastRefill = elapsed + 1
    BY <1>2, <1>3, LimiterAssumption DEF Inv, TypeOK, Bucket
  <2> HIDE DEF held, elapsed
  <2>5. (elapsed + 1) * Limit = elapsed * Limit + Limit /\ elapsed * Limit \in Int
    BY <1>2, <2>1
  <2>6. x \in Int /\ Level'[k] = Capped(x + Limit)
    BY <1>2, <2>1, <2>3, <2>4, <2>5
  <2> HIDE DEF x
  <2> QED BY <1>2, <2>2, <2>6 DEF Capped
<1>4. CASE k \notin Tracked
  <2>1. Level[k] = Cap /\ Level'[k] = Cap
    BY <1>1, <1>4 DEF Level, Refilled, Cap
  <2> QED BY <1>2, <2>1
<1> QED BY <1>3, <1>4

-----------------------------------------------------------------------------
AuditInv == Inv /\ AuditTypeOK /\ RateBudget

LEMMA AuditInitInv == AuditInit => AuditInv
<1> SUFFICES ASSUME AuditInit PROVE AuditInv
  OBVIOUS
<1>1. Inv
  BY InitInv DEF AuditInit
<1>2. AuditTypeOK
  BY AuditAssumption DEF AuditInit, Init, AuditTypeOK
<1>3. RateBudget
  <2> SUFFICES ASSUME NEW k \in Keys
               PROVE  grants[k] * Cost + Level[k] <= (1 + evictions[k]) * Cap + (now - since) * Limit
    BY DEF RateBudget
  <2>1. Level[k] \in 0 .. Cap
    BY <1>1, LevelType DEF Inv
  <2>2. grants[k] = 0 /\ evictions[k] = 0 /\ now - since = 0
    BY DEF AuditInit, Init
  <2>3. 0 * Cost = 0 /\ (1 + 0) * Cap = Cap /\ 0 * Limit = 0
    BY CapFacts, LimiterAssumption
  <2> QED BY <2>1, <2>2, <2>3, CapFacts
<1> QED BY <1>1, <1>2, <1>3 DEF AuditInv

\* A call: what the caller spends it had, and an evicted bucket is counted.
LEMMA WatchBudget ==
  ASSUME AuditInv, NEW k \in Keys, NEW granted \in BOOLEAN, NEW kept,
         Watch(k, granted, kept)
  PROVE  RateBudget'
<1> DEFINE before(j) == IF j \in Unswept \ kept THEN Cap ELSE Level[j]
<1> SUFFICES ASSUME NEW j \in Keys
             PROVE  grants'[j] * Cost + Level'[j]
                       <= (1 + evictions'[j]) * Cap + (now' - since') * Limit
  BY DEF RateBudget, Cap, Cost, Level
<1>1. /\ granted => Level'[k] = before(k) - Cost /\ before(k) >= Cost
      /\ ~granted => Level'[k] = before(k) /\ before(k) < Cost
      /\ \A i \in Keys \ {k} : Level'[i] = before(i)
  BY LevelAfterAllow DEF Watch, AuditInv
<1>2. now' = now /\ since' = since
  BY DEF Watch, Allow
<1>3. /\ grants[j] \in Nat /\ evictions[j] \in Nat
      /\ Cap \in Nat /\ Cost \in Nat /\ Level[j] \in 0 .. Cap
  BY CapFacts, LevelType, AuditAssumption DEF AuditInv, Inv, AuditTypeOK
<1>4. (now - since) * Limit \in Int
  BY LimiterAssumption DEF AuditInv, Inv, TypeOK, AuditTypeOK
<1> DEFINE budget == (now - since) * Limit
           spent == grants[j] * Cost
           credit == (1 + evictions[j]) * Cap
<1>5. spent \in Nat /\ credit \in Nat /\ budget \in Int
  BY <1>3, <1>4
<1>6. spent + Level[j] <= credit + budget
  BY DEF AuditInv, RateBudget
<1>7. evictions'[j] = IF j \in Unswept \ kept THEN evictions[j] + 1 ELSE evictions[j]
  BY DEF Watch, Evicted
<1>8. (1 + (evictions[j] + 1)) * Cap = credit + Cap
  BY <1>3
<1>9. (1 + evictions'[j]) * Cap = IF j \in Unswept \ kept THEN credit + Cap ELSE credit
  BY <1>7, <1>8
<1>10. (grants[j] + 1) * Cost = spent + Cost
  BY <1>3
<1>11. grants'[j] * Cost = IF j = k /\ granted THEN spent + Cost ELSE spent
  <2>1. grants'[j] = IF j = k /\ granted THEN grants[j] + 1 ELSE grants[j]
    BY DEF Watch, AuditInv, AuditTypeOK
  <2> QED BY <1>10, <2>1
<1>12. before(j) \in 0 .. Cap
  BY <1>3
<1>13. spent + before(j) <= (1 + evictions'[j]) * Cap + budget
  <2>1. CASE j \in Unswept \ kept
    BY <2>1, <1>3, <1>5, <1>6, <1>9
  <2>2. CASE j \notin Unswept \ kept
    BY <2>2, <1>3, <1>5, <1>6, <1>9
  <2> QED BY <2>1, <2>2
<1>14. (1 + evictions'[j]) * Cap \in Int
  BY <1>3, <1>5, <1>9
<1> HIDE DEF before, budget, spent, credit
<1>15. (now' - since') * Limit = budget
  BY <1>2 DEF budget
<1>16. grants'[j] * Cost + Level'[j] = spent + before(j)
  <2>1. CASE j = k /\ granted
    <3>1. Level'[j] = before(j) - Cost /\ grants'[j] * Cost = spent + Cost
      BY <2>1, <1>1, <1>11
    <3> QED BY <3>1, <1>3, <1>5, <1>12
  <2>2. CASE ~(j = k /\ granted)
    <3>1. Level'[j] = before(j) /\ grants'[j] * Cost = spent
      BY <2>2, <1>1, <1>11
    <3> QED BY <3>1
  <2> QED BY <2>1, <2>2
<1> QED BY <1>5, <1>13, <1>14, <1>15, <1>16

\* A tick: no level grows by more than what the interval grants.
LEMMA TickBudget ==
  ASSUME AuditInv, Wait
  PROVE  RateBudget'
<1> SUFFICES ASSUME NEW j \in Keys
             PROVE  grants'[j] * Cost + Level'[j]
                       <= (1 + evictions'[j]) * Cap + (now' - since') * Limit
  BY DEF RateBudget, Cap, Cost, Level
<1>1. grants' = grants /\ evictions' = evictions /\ since' = since /\ now' = now + 1
  BY DEF Wait, Tick
<1>2. Level'[j] = IF Level[j] + Limit < Cap THEN Level[j] + Limit ELSE Cap
  BY LevelAfterTick DEF AuditInv, Wait
<1>3. /\ grants[j] \in Nat /\ evictions[j] \in Nat /\ Limit \in Nat
      /\ Cap \in Nat /\ Cost \in Nat /\ Level[j] \in 0 .. Cap
  BY CapFacts, LevelType, AuditAssumption, LimiterAssumption DEF AuditInv, Inv, AuditTypeOK
<1>4. now \in Int /\ since \in Int
  BY DEF AuditInv, Inv, TypeOK, AuditTypeOK
<1> DEFINE d == now - since
<1>5. (d + 1) * Limit = d * Limit + Limit /\ d * Limit \in Int
  BY <1>3, <1>4
<1>6. grants[j] * Cost \in Nat /\ (1 + evictions[j]) * Cap \in Nat
  BY <1>3
<1>7. grants[j] * Cost + Level[j] <= (1 + evictions[j]) * Cap + d * Limit
  BY DEF AuditInv, RateBudget
<1>8. Level'[j] \in Int /\ Level'[j] <= Level[j] + Limit
  BY <1>2, <1>3
<1>9. now' - since' = d + 1
  BY <1>1, <1>4
<1> HIDE DEF d
<1>10. (now' - since') * Limit = d * Limit + Limit
  BY <1>5, <1>9
<1> QED BY <1>1, <1>3, <1>5, <1>6, <1>7, <1>8, <1>10

LEMMA RestartBudget ==
  ASSUME AuditInv, Restart
  PROVE  AuditTypeOK' /\ RateBudget'
<1>1. /\ since' = now /\ now' = now /\ UNCHANGED vars
      /\ grants' = [k \in Keys |-> 0] /\ evictions' = [k \in Keys |-> 0]
  BY DEF Restart, vars
<1>2. now \in Nat
  BY DEF AuditInv, Inv, TypeOK
<1>3. AuditTypeOK'
  BY <1>1, <1>2, AuditAssumption DEF AuditTypeOK
<1>4. RateBudget'
  <2> SUFFICES ASSUME NEW k \in Keys
               PROVE  grants'[k] * Cost + Level'[k]
                         <= (1 + evictions'[k]) * Cap + (now' - since') * Limit
    BY DEF RateBudget, Cap, Cost, Level
  <2>1. Level'[k] = Level[k]
    BY <1>1 DEF vars, Level, Refilled, Accrued, Capped, Cap, Tracked
  <2>2. Level[k] \in 0 .. Cap
    BY LevelType DEF AuditInv, Inv
  <2>3. grants'[k] = 0 /\ evictions'[k] = 0 /\ now' - since' = 0
    BY <1>1, <1>2
  <2>4. 0 * Cost = 0 /\ (1 + 0) * Cap = Cap /\ 0 * Limit = 0
    BY CapFacts, LimiterAssumption
  <2> QED BY <2>1, <2>2, <2>3, <2>4, CapFacts
<1> QED BY <1>3, <1>4

LEMMA AuditStep == AuditInv /\ [AuditNext]_<<vars, audit>> => AuditInv'
<1> SUFFICES ASSUME AuditInv, [AuditNext]_<<vars, audit>> PROVE AuditInv'
  OBVIOUS
<1>1. ASSUME NEW k \in Keys, NEW granted \in BOOLEAN, NEW kept \in SUBSET Tracked,
             Watch(k, granted, kept)
      PROVE  AuditInv'
  <2>1. Inv'
    BY <1>1, AllowInv DEF Watch, AuditInv
  <2>2. AuditTypeOK'
    <3>1. since' = since /\ now' = now /\ since' \in 0 .. now'
      BY <1>1 DEF Watch, Allow, AuditInv, AuditTypeOK
    <3>2. grants' \in [Keys -> 0 .. MaxAudited]
      BY <1>1, AuditAssumption DEF Watch, AuditInv, AuditTypeOK
    <3>3. evictions' \in [Keys -> 0 .. MaxAudited]
      <4>1. \A j \in Evicted(kept) : evictions[j] < MaxAudited
        BY <1>1 DEF Watch
      <4>2. evictions' = [j \in Keys |-> IF j \in Evicted(kept) THEN evictions[j] + 1 ELSE evictions[j]]
        BY <1>1 DEF Watch
      <4>3. \A j \in Keys : evictions[j] \in 0 .. MaxAudited
        BY DEF AuditInv, AuditTypeOK
      <4> QED BY <4>1, <4>2, <4>3, AuditAssumption
    <3> QED BY <3>1, <3>2, <3>3 DEF AuditTypeOK
  <2>3. RateBudget'
    BY <1>1, WatchBudget
  <2> QED BY <2>1, <2>2, <2>3 DEF AuditInv
<1>2. CASE Wait
  <2>1. Inv'
    BY <1>2, TickInv DEF AuditInv, Wait
  <2>2. AuditTypeOK'
    BY <1>2 DEF Wait, Tick, AuditInv, Inv, TypeOK, AuditTypeOK
  <2>3. RateBudget'
    BY <1>2, TickBudget
  <2> QED BY <2>1, <2>2, <2>3 DEF AuditInv
<1>3. CASE Restart
  <2>1. Inv'
    BY <1>3, StepInv DEF AuditInv, Restart
  <2> QED BY <1>3, <2>1, RestartBudget DEF AuditInv
<1>4. CASE UNCHANGED <<vars, audit>>
  <2>1. Inv'
    BY <1>4, StepInv DEF AuditInv
  <2>2. AuditTypeOK' /\ RateBudget'
    BY <1>4 DEF vars, audit, AuditInv, AuditTypeOK, RateBudget, Level, Refilled, Accrued,
                Capped, Cap, Cost, Tracked
  <2> QED BY <2>1, <2>2 DEF AuditInv
<1> QED BY <1>1, <1>2, <1>3, <1>4 DEF AuditNext

\* In every interval a key is granted at most one full bucket of calls, what
\* refills in the interval, and one more bucket for each eviction of its entry.
THEOREM RateLimited == AuditSpec => []RateBound
<1>1. AuditInv => RateBound
  <2> SUFFICES ASSUME AuditInv, NEW k \in Keys
               PROVE  grants[k] * Cost <= (1 + evictions[k]) * Cap + (now - since) * Limit
    BY DEF RateBound
  <2>1. Level[k] \in Nat
    BY CapFacts, LevelType DEF AuditInv, Inv
  <2>2. /\ grants[k] \in Nat /\ evictions[k] \in Nat /\ Limit \in Nat
        /\ Cap \in Nat /\ Cost \in Nat /\ now - since \in Int
    BY CapFacts, AuditAssumption, LimiterAssumption DEF AuditInv, Inv, TypeOK, AuditTypeOK
  <2>3. grants[k] * Cost \in Nat /\ (1 + evictions[k]) * Cap \in Nat /\ (now - since) * Limit \in Int
    BY <2>2
  <2>4. grants[k] * Cost + Level[k] <= (1 + evictions[k]) * Cap + (now - since) * Limit
    BY DEF AuditInv, RateBudget
  <2> QED BY <2>1, <2>3, <2>4
<1> QED BY <1>1, AuditInitInv, AuditStep, PTL DEF AuditSpec

-----------------------------------------------------------------------------
\* The observer changes nothing that the limiter keeps.
LEMMA AuditKeepsInv == Inv /\ [AuditNext]_<<vars, audit>> => Inv'
BY StepInv DEF AuditNext, Watch, Wait, Restart, Next, vars

\* The last calls: what a call stores is its instant.
LEMMA LastCallStep ==
  ASSUME Inv, RefilledAtLastCall, [AuditNext]_<<vars, audit>>
  PROVE  RefilledAtLastCall'
<1>1. ASSUME NEW k \in Keys, NEW granted \in BOOLEAN, NEW kept \in SUBSET Tracked,
             Watch(k, granted, kept)
      PROVE  RefilledAtLastCall'
  <2>1. /\ Tracked' = kept \union {k} /\ kept \subseteq Tracked
        /\ buckets'[k].lastRefill = now
        /\ \A j \in kept \ {k} : buckets'[j] = buckets[j]
    BY <1>1, AllowShape DEF Watch
  <2>2. lastCall' = [j \in Callers \union {k} |-> IF j = k THEN now ELSE lastCall[j]]
    BY <1>1 DEF Watch
  <2>3. Callers' = Callers \union {k}
    BY <2>2 DEF Callers
  <2>4. IsFiniteSet(Callers \union {k})
    BY FS_AddElement DEF RefilledAtLastCall
  <2>5. lastCall' \in [Callers' -> 0 .. MaxClock]
    BY <2>2, <2>3 DEF RefilledAtLastCall, Inv, TypeOK
  <2>6. \A j \in Tracked' : j \in Callers' /\ lastCall'[j] = buckets'[j].lastRefill
    BY <2>1, <2>2, <2>3 DEF RefilledAtLastCall
  <2> QED BY <2>3, <2>4, <2>5, <2>6 DEF RefilledAtLastCall
<1>2. CASE Wait \/ Restart \/ UNCHANGED <<vars, audit>>
  <2>1. buckets' = buckets /\ lastCall' = lastCall
    BY <1>2 DEF Wait, Tick, Restart, vars, audit
  <2> QED BY <2>1 DEF RefilledAtLastCall, Callers, Tracked
<1> QED BY <1>1, <1>2 DEF AuditNext

LEMMA LastCalls == AuditSpec => [](Inv /\ RefilledAtLastCall)
<1>1. AuditInit => Inv /\ RefilledAtLastCall
  <2> SUFFICES ASSUME AuditInit PROVE Inv /\ RefilledAtLastCall
    OBVIOUS
  <2>1. Callers = {} /\ Tracked = {}
    BY DEF AuditInit, Init, Callers, Tracked
  <2>2. lastCall \in [Callers -> 0 .. MaxClock]
    BY DEF AuditInit, Callers
  <2> QED BY <2>1, <2>2, InitInv, FS_EmptySet DEF AuditInit, RefilledAtLastCall
<1>2. Inv /\ RefilledAtLastCall /\ [AuditNext]_<<vars, audit>> => (Inv /\ RefilledAtLastCall)'
  BY AuditKeepsInv, LastCallStep
<1> QED BY <1>1, <1>2, PTL DEF AuditSpec

\* Whoever is forgotten with an unexpired bucket, MaxKeys - 1 others have called
\* since its last call (limiter.go:89): the others in the map, each of which was
\* refilled by the last call of its key, and which the scan found no older.
THEOREM LimiterEviction == AuditSpec => ForgetsLeastActive
<1> DEFINE Busier(k) == Cardinality(CalledSince(k)) >= MaxKeys - 1
<1>1. ASSUME Inv, RefilledAtLastCall, [AuditNext]_<<vars, audit>>
      PROVE  [\A k \in Tracked \ DOMAIN buckets' : Expired(k) \/ Busier(k)]_<<vars, audit>>
  <2> SUFFICES ASSUME <<vars, audit>>' # <<vars, audit>>,
                      NEW k \in Tracked \ DOMAIN buckets', ~Expired(k)
               PROVE  Busier(k)
    OBVIOUS
  <2>1. ~Wait /\ ~Restart
    BY DEF Wait, Tick, Restart, vars, Tracked
  <2>2. PICK caller \in Keys, granted \in BOOLEAN, kept \in SUBSET Tracked :
             Watch(caller, granted, kept)
    BY <1>1, <2>1 DEF AuditNext
  <2>3. kept \in Survivors(Unswept) /\ Tracked' = kept \union {caller}
    BY <1>1, <2>2, AllowShape DEF Watch
  <2>4. k \in Unswept \ kept
    BY <2>3 DEF Unswept, Tracked
  <2>5. PICK out \in Oldest(Unswept) : kept = Unswept \ {out}
    BY <1>1, <2>3, <2>4, EvictionPass DEF Inv
  <2>6. k = out
    BY <2>4, <2>5
  <2>7. kept \subseteq Tracked /\ IsFiniteSet(kept) /\ Cardinality(kept) = MaxKeys - 1
    BY <1>1, <2>3, <2>4, KeptFacts DEF Inv
  <2>8. \A j \in kept : j # k /\ lastCall[j] >= lastCall[k]
    <3> SUFFICES ASSUME NEW j \in kept PROVE j # k /\ lastCall[j] >= lastCall[k]
      OBVIOUS
    <3>1. j \in Unswept /\ j # k /\ ~Before(j, k)
      BY <2>5, <2>6 DEF Oldest
    <3>2. lastCall[j] = buckets[j].lastRefill /\ lastCall[k] = buckets[k].lastRefill
      BY <1>1, <2>7 DEF RefilledAtLastCall
    <3>3. buckets[j].lastRefill \in Int /\ buckets[k].lastRefill \in Int
      BY <1>1, <2>7 DEF Inv, TypeOK, Bucket
    <3> QED BY <3>1, <3>2, <3>3 DEF Before
  <2>9. kept \subseteq CalledSince(k)
    BY <1>1, <2>7, <2>8 DEF RefilledAtLastCall, CalledSince
  <2>10. IsFiniteSet(CalledSince(k))
    BY <1>1, FS_Subset DEF RefilledAtLastCall, CalledSince
  <2>11. Cardinality(kept) <= Cardinality(CalledSince(k))
    BY <2>9, <2>10, FS_Subset
  <2>12. Cardinality(CalledSince(k)) \in Nat /\ MaxKeys \in Nat
    BY <2>10, FS_CardinalityType, LimiterAssumption
  <2> QED BY <2>7, <2>11, <2>12
<1> QED BY <1>1, LastCalls, PTL DEF AuditSpec, ForgetsLeastActive

-----------------------------------------------------------------------------
\* With room for every key the sweep leaves nothing to evict.
LEMMA NothingEvicted ==
  ASSUME Fits, Inv, NEW kept \in Survivors(Unswept)
  PROVE  Unswept \ kept = {}
<1>1. Unswept \subseteq Keys
  BY DEF Unswept, Inv, TypeOK
<1>2. Cardinality(Unswept) <= Cardinality(Keys)
  BY <1>1, FS_Subset DEF Fits
<1>3. Cardinality(Unswept) \in Nat /\ Cardinality(Keys) \in Nat
  BY <1>1, FS_Subset, FS_CardinalityType DEF Fits
<1>4. Cardinality(Unswept) < MaxKeys
  BY <1>2, <1>3, LimiterAssumption DEF Fits
<1> QED BY <1>3, <1>4, EvictionPass, LimiterAssumption DEF Inv

\* The map was within its bound before the call, so one eviction makes room.
LEMMA OneEvicted ==
  ASSUME Inv, NEW kept \in Survivors(Unswept), Unswept \ kept # {}
  PROVE  \E j \in Keys : Unswept \ kept = {j}
<1>1. Unswept \subseteq Keys
  BY DEF Unswept, Inv, TypeOK
<1>2. PICK out \in Oldest(Unswept) : kept = Unswept \ {out}
  BY EvictionPass DEF Inv
<1>3. out \in Keys /\ Unswept \ kept = {out}
  BY <1>1, <1>2 DEF Oldest
<1> QED BY <1>3

LEMMA InitRefines == AuditInit => Ideal!Init
<1> SUFFICES ASSUME AuditInit PROVE Ideal!Init
  OBVIOUS
<1>1. Tracked = {} /\ now = 0 /\ answer = NoAnswer
  BY DEF AuditInit, Init, Tracked
<1>2. Level = [k \in Keys |-> Limit * Window]
  BY <1>1 DEF Level, Refilled, Cap
<1> QED BY <1>1, <1>2 DEF Ideal!Init, Ideal!Full

\* A call is a grant or a refusal of the abstract bucket, and what it evicts is
\* what that forgets.
LEMMA CallRefines ==
  ASSUME Inv, NEW k \in Keys, NEW granted \in BOOLEAN, NEW kept,
         Watch(k, granted, kept)
  PROVE  Ideal!Next
<1> DEFINE out == Unswept \ kept
           before(j) == IF j \in out THEN Cap ELSE Level[j]
<1>1. Allow(k, granted, kept)
  BY DEF Watch
<1>2. kept \in Survivors(Unswept)
  BY <1>1, AllowShape
<1>3. out \in Ideal!Forgettable
  <2>1. Fits => out = {}
    BY <1>2, NothingEvicted
  <2>2. out = {} \/ \E j \in Keys : out = {j}
    BY <1>2, OneEvicted
  <2> HIDE DEF out
  <2> QED BY <2>1, <2>2 DEF Ideal!Forgettable
<1>4. /\ granted => Level'[k] = before(k) - Cost /\ before(k) >= Cost
      /\ ~granted => Level'[k] = before(k) /\ before(k) < Cost
      /\ \A j \in Keys \ {k} : Level'[j] = before(j)
  BY <1>1, LevelAfterAllow
<1>5. Level' = [j \in Keys |-> Level'[j]]
  BY DEF Level
<1>6. Ideal!Remembered(out) = [j \in Keys |-> before(j)]
  BY DEF Ideal!Remembered, Ideal!Full, Cap
<1>7. now' = now
  BY <1>1 DEF Allow
<1>8. answer' = [key |-> k, granted |-> granted]
  BY DEF Watch
<1> HIDE DEF out, before
<1>9. CASE granted
  <2>1. Level' = [Ideal!Remembered(out) EXCEPT ![k] = @ - Window]
    BY <1>4, <1>5, <1>6, <1>9 DEF Cost
  <2>2. Ideal!Grant(k, out)
    BY <1>4, <1>6, <1>7, <1>8, <1>9, <2>1 DEF Ideal!Grant, Cost
  <2> QED BY <1>3, <2>2 DEF Ideal!Next
<1>10. CASE ~granted
  <2>1. Level' = Ideal!Remembered(out)
    BY <1>4, <1>5, <1>6, <1>10
  <2>2. Ideal!Refuse(k, out)
    BY <1>4, <1>6, <1>7, <1>8, <1>10, <2>1 DEF Ideal!Refuse, Cost
  <2> QED BY <1>3, <2>2 DEF Ideal!Next
<1> QED BY <1>9, <1>10

LEMMA WaitRefines ==
  ASSUME Inv, Wait
  PROVE  Ideal!Next
<1>1. Tick /\ answer' = NoAnswer
  BY DEF Wait
<1>2. \A k \in Keys : Level'[k] = IF Level[k] + Limit < Cap THEN Level[k] + Limit ELSE Cap
  BY <1>1, LevelAfterTick
<1>3. Level' = [k \in Keys |-> IF Level[k] + Limit < Cap THEN Level[k] + Limit ELSE Cap]
  <2>1. Level' = [k \in Keys |-> Level'[k]]
    BY DEF Level
  <2> QED BY <1>2, <2>1
<1>4. now' = now + 1
  BY <1>1 DEF Tick
<1>5. Ideal!Pass
  BY <1>1, <1>3, <1>4 DEF Ideal!Pass, Ideal!Full, Cap
<1> QED BY <1>5 DEF Ideal!Next

\* The limiter with its map, its lazy refill and its sweeps is indistinguishable
\* from one self-filling bucket per key that, with more keys than room, forgets
\* at most one key per call.
THEOREM LimiterIsTokenBucket == AuditSpec => ImplementsTokenBucket
<1>1. AuditInit => AuditInv /\ Ideal!Init
  BY AuditInitInv, InitRefines
<1>2. AuditInv /\ [AuditNext]_<<vars, audit>> => [Ideal!Next]_<<Level, now, answer>>
  <2> SUFFICES ASSUME AuditInv, [AuditNext]_<<vars, audit>>
               PROVE  [Ideal!Next]_<<Level, now, answer>>
    OBVIOUS
  <2>1. ASSUME NEW k \in Keys, NEW granted \in BOOLEAN, NEW kept \in SUBSET Tracked,
               Watch(k, granted, kept)
        PROVE  Ideal!Next
    BY <2>1, CallRefines DEF AuditInv
  <2>2. CASE Wait
    BY <2>2, WaitRefines DEF AuditInv
  <2>3. CASE Restart \/ UNCHANGED <<vars, audit>>
    BY <2>3 DEF Restart, audit, vars, Level, Refilled, Accrued, Capped, Cap, Tracked
  <2> QED BY <2>1, <2>2, <2>3 DEF AuditNext
<1> QED BY <1>1, <1>2, AuditStep, PTL DEF AuditSpec, ImplementsTokenBucket, Ideal!Spec
=============================================================================

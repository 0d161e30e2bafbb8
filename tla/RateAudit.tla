------------------------------ MODULE RateAudit ------------------------------
(***************************************************************************)
(* PerKeyLimiter with the answers its callers see, and an observer that    *)
(* starts watching at any instant and counts, per key, the calls granted   *)
(* and the buckets evicted since; it also knows when each key called last. *)
(* All of that only watches; with it the module states what the limiter is *)
(* for: which abstract limiter its callers can tell it from, how many      *)
(* requests a user gets through in any interval, the memory bound and its  *)
(* evictions included, and whom an eviction may forget.                    *)
(***************************************************************************)
EXTENDS PerKeyLimiter

CONSTANTS
    NoAnswer,   \* no call was answered at this instant yet
    MaxAudited  \* bound: calls and evictions of a key the observer counts

ASSUME AuditAssumption == MaxAudited \in Nat

VARIABLES
    answer,    \* the key and the result of the last call of this instant
    since,     \* the instant the observer started
    grants,    \* per key, the calls granted since
    evictions, \* per key, the times its unexpired bucket was dropped since
    lastCall   \* a function from the keys that ever called to when they last did

audit == <<answer, since, grants, evictions, lastCall>>

Callers == DOMAIN lastCall

AuditInit ==
    /\ Init
    /\ answer = NoAnswer
    /\ since = 0
    /\ grants = [k \in Keys |-> 0]
    /\ evictions = [k \in Keys |-> 0]
    /\ lastCall = [k \in {} |-> 0]

Evicted(kept) == {j \in Unswept : j \notin kept}

Watch(k, granted, kept) ==
    /\ Allow(k, granted, kept)
    /\ answer' = [key |-> k, granted |-> granted]
    /\ grants[k] < MaxAudited
    /\ \A j \in Evicted(kept) : evictions[j] < MaxAudited
    /\ grants' = [grants EXCEPT ![k] = IF granted THEN @ + 1 ELSE @]
    /\ evictions' = [j \in Keys |-> IF j \in Evicted(kept) THEN evictions[j] + 1 ELSE evictions[j]]
    /\ lastCall' = [j \in Callers \union {k} |-> IF j = k THEN now ELSE lastCall[j]]
    /\ UNCHANGED since

\* Time passes.
Wait ==
    /\ Tick
    /\ answer' = NoAnswer
    /\ UNCHANGED <<since, grants, evictions, lastCall>>

Restart ==
    /\ since' = now
    /\ grants' = [k \in Keys |-> 0]
    /\ evictions' = [k \in Keys |-> 0]
    /\ UNCHANGED <<vars, answer, lastCall>>

AuditNext ==
    \/ \E k \in Keys, granted \in BOOLEAN, kept \in SUBSET Tracked : Watch(k, granted, kept)
    \/ Wait
    \/ Restart

AuditSpec == AuditInit /\ [][AuditNext]_<<vars, audit>>

-----------------------------------------------------------------------------
AuditTypeOK ==
    /\ since \in 0 .. now
    /\ grants \in [Keys -> 0 .. MaxAudited]
    /\ evictions \in [Keys -> 0 .. MaxAudited]

\* The rate limit, over every interval: a key is granted at most one bucket of
\* calls at once, plus what refills meanwhile, plus one bucket for each time
\* the memory bound dropped its entry (limiter.go:8-11).
RateBound ==
    \A k \in Keys :
       grants[k] * Cost <= (1 + evictions[k]) * Cap + (now - since) * Limit

\* What makes RateBound inductive: the tokens a key still holds are part of it.
RateBudget ==
    \A k \in Keys :
       grants[k] * Cost + Level[k] <= (1 + evictions[k]) * Cap + (now - since) * Limit

\* Who called at the last call of k or later, besides k.
CalledSince(k) == {j \in Callers \ {k} : lastCall[j] >= lastCall[k]}

\* A busy user is not forgotten before an idle one ("the n least-recently-refilled
\* buckets", limiter.go:89): whoever loses an unexpired bucket, at least
\* MaxKeys - 1 others have called since, refused calls included, however many
\* users were forgotten and came back meanwhile.
ForgetsLeastActive ==
    [][\A k \in Tracked \ DOMAIN buckets' :
          Expired(k) \/ Cardinality(CalledSince(k)) >= MaxKeys - 1]_<<vars, audit>>

\* A tracked bucket tells when its key called last.
RefilledAtLastCall ==
    /\ IsFiniteSet(Callers)
    /\ lastCall \in [Callers -> 0 .. MaxClock]
    /\ \A k \in Tracked : k \in Callers /\ lastCall[k] = buckets[k].lastRefill

\* There is room for every key, and the call of one more.
Fits == IsFiniteSet(Keys) /\ Cardinality(Keys) < MaxKeys

Ideal == INSTANCE TokenBucket WITH level <- Level, clock <- now, MayForget <- ~Fits

\* Callers cannot tell the map, its lazy refill, its sweeps ("identical to
\* starting fresh", limiter.go:79-80) and the refill that a refused call stores
\* from one self-filling bucket per key, except that with more keys than room a
\* call may forget one key: no sequence of refusals, sweeps and refills gains
\* or loses a fraction of a token.
ImplementsTokenBucket == Ideal!Spec
=============================================================================

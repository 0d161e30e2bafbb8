----------------------------- MODULE Leaderboard -----------------------------
(***************************************************************************)
(* internal/stats/stats.go, recordUser: the admins' table of the most      *)
(* active users, kept within maxTrackedUsers rows by the Space-Saving       *)
(* algorithm.  recordUser runs under s.mu, so a call is one step; a row's  *)
(* username is display text and is left out.                               *)
(*                                                                         *)
(* `recorded` is a history variable: how often each user was recorded,     *)
(* which the bot itself no longer knows once the table is full.            *)
(***************************************************************************)
EXTENDS Integers, FiniteSets, Sums

CONSTANTS
    Users,            \* users with an id; user 0 never gets this far (stats.go:223)
    MaxTrackedUsers,  \* maxTrackedUsers
    MaxRecords        \* bound: the calls of recordUser

ASSUME LeaderboardAssumption ==
    /\ IsFiniteSet(Users)
    /\ MaxTrackedUsers \in Nat \ {0}
    /\ MaxRecords \in Nat

VARIABLES
    perUser,       \* the counts of the tracked users
    trackedUsers,  \* the gauge that mirrors len(perUser)
    recorded

vars == <<perUser, trackedUsers, recorded>>

Tracked == DOMAIN perUser

Init ==
    /\ perUser = [u \in {} |-> 0]
    /\ trackedUsers = 0
    /\ recorded = [u \in Users |-> 0]

\* Mutant of Least: the comparison of minTrackedLocked the wrong way round.
LeastBackwards == {u \in Tracked : \A v \in Tracked : perUser[v] <= perUser[u]}

\* minTrackedLocked: a least active tracked user. Which one of several is up to
\* the iteration order of a Go map.
Least == {u \in Tracked : \A v \in Tracked : perUser[u] <= perUser[v]}

\* Mutant of Full: one row more than the table has.
FullOneLater == Cardinality(Tracked) > MaxTrackedUsers

Full == Cardinality(Tracked) >= MaxTrackedUsers

\* Mutant of Seed: the newcomer starts from nothing.
SeedFromZero(evicted) == 1

\* Mutant of Seed: the newcomer inherits the row but not this recording.
SeedWithoutOwn(evicted) == perUser[evicted]

\* What a newcomer's count starts from when it takes the row of `evicted`.
Seed(evicted) == perUser[evicted] + 1

Bump(user) ==
    /\ user \in Tracked
    /\ perUser' = [perUser EXCEPT ![user] = @ + 1]
    /\ UNCHANGED trackedUsers

Replace(user) ==
    /\ user \notin Tracked
    /\ Full
    /\ \E evicted \in Least :
          perUser' = [u \in (Tracked \ {evicted}) \union {user} |->
                         IF u = user THEN Seed(evicted) ELSE perUser[u]]
    /\ UNCHANGED trackedUsers

Add(user) ==
    /\ user \notin Tracked
    /\ ~Full
    /\ perUser' = [u \in Tracked \union {user} |-> IF u = user THEN 1 ELSE perUser[u]]
    /\ trackedUsers' = Cardinality(Tracked \union {user})

RecordUser(user) == Bump(user) \/ Replace(user) \/ Add(user)

Records == Sum(recorded)

Recording(user) ==
    /\ Records < MaxRecords
    /\ RecordUser(user)
    /\ recorded' = [recorded EXCEPT ![user] = @ + 1]

Next == \E user \in Users : Recording(user)

Spec == Init /\ [][Next]_vars

-----------------------------------------------------------------------------
TypeOK ==
    /\ Tracked \subseteq Users
    /\ perUser \in [Tracked -> Nat \ {0}]
    /\ Cardinality(Tracked) <= MaxTrackedUsers
    /\ trackedUsers = Cardinality(Tracked)
    /\ recorded \in [Users -> Nat]

\* "An overestimate, never an undercount" (stats.go:238-242): through any
\* sequence of evictions and returns, a tracked user's count is at least what
\* that user did.
NeverUndercounts == \A u \in Tracked : recorded[u] <= perUser[u]

\* The overestimate never exceeds the smallest count in the table, and a user
\* who fell out of the table did no more than that: the table misjudges nobody
\* by more than its last row, so the leaders are the leaders.
ErrorWithinLeast ==
    /\ \A u, v \in Tracked : perUser[u] - recorded[u] <= perUser[v]
    /\ \A u \in Users \ Tracked, v \in Tracked : recorded[u] <= perUser[v]

\* Every recording is in exactly one row: the rows add up to the number of
\* calls, whoever was evicted.
CountsAddUp == Sum(perUser) = Records

\* "A genuinely active new user can still climb" (stats.go:239): whoever made
\* more than one in MaxTrackedUsers of all recordings is in the table.
ActiveUsersTracked ==
    \A u \in Users : recorded[u] * MaxTrackedUsers > Records => u \in Tracked
=============================================================================

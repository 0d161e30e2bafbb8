-------------------------- MODULE LeaderboardProofs --------------------------
(***************************************************************************)
(* For every set of users and every size of the table, through any number  *)
(* of recordings: no tracked user is undercounted, and no count is wrong by *)
(* more than the smallest count in the table.                              *)
(*                                                                         *)
(* NeverUndercounts alone is not inductive: a user who returns takes over   *)
(* the least count, which covers what they did before only because nobody   *)
(* leaves the table with more than its least count.  That is the second    *)
(* part of ErrorWithinLeast, which in turn needs the size of the table: a   *)
(* table with a free row has tracked everybody since they were first        *)
(* recorded.                                                               *)
(***************************************************************************)
EXTENDS Leaderboard, SumTheorems

\* A table with a free row has lost nobody, and every count is exact.
ExactWhileFree ==
    ~Full => /\ \A u \in Users \ Tracked : recorded[u] = 0
             /\ \A u \in Tracked : recorded[u] = perUser[u]

Inv == TypeOK /\ NeverUndercounts /\ ErrorWithinLeast /\ ExactWhileFree /\ CountsAddUp

LEMMA TrackedFinite ==
  ASSUME TypeOK
  PROVE  IsFiniteSet(Tracked) /\ Cardinality(Tracked) \in Nat
BY FS_Subset, FS_CardinalityType, LeaderboardAssumption DEF TypeOK

\* One more recording.
LEMMA OneMoreRecord ==
  ASSUME TypeOK, NEW user \in Users, recorded' = [recorded EXCEPT ![user] = @ + 1]
  PROVE  Records' = Records + 1 /\ Records \in Nat
<1>1. IsFiniteSet(Users) /\ recorded \in [Users -> Nat]
  BY LeaderboardAssumption DEF TypeOK
<1> QED BY <1>1, SumBump, SumType DEF Records

LEMMA InitInv == Init => Inv
<1> SUFFICES ASSUME Init PROVE Inv
  OBVIOUS
<1>1. /\ perUser = [u \in {} |-> 0]
      /\ trackedUsers = 0
      /\ recorded = [u \in Users |-> 0]
  BY DEF Init
<1>2. Tracked = {}
  BY <1>1 DEF Tracked
<1>3. Cardinality(Tracked) = 0
  BY <1>2, FS_EmptySet
<1>4. TypeOK
  BY <1>1, <1>2, <1>3, LeaderboardAssumption DEF TypeOK
<1>5. CountsAddUp
  <2>1. Sum(perUser) = 0
    BY <1>2, SumEmpty DEF Tracked
  <2>2. Sum(recorded) = 0
    <3>1. recorded \in [Users -> Nat] /\ \A u \in Users : recorded[u] = 0
      BY <1>1
    <3> QED BY <3>1, SumZero
  <2> QED BY <2>1, <2>2 DEF CountsAddUp, Records
<1> QED BY <1>1, <1>2, <1>4, <1>5 DEF Inv, NeverUndercounts, ErrorWithinLeast, ExactWhileFree

\* A tracked user is recorded once more.
LEMMA BumpInv ==
  ASSUME Inv, NEW user \in Users, recorded' = [recorded EXCEPT ![user] = @ + 1], Bump(user)
  PROVE  Inv'
<1>1. /\ user \in Tracked
      /\ perUser' = [perUser EXCEPT ![user] = @ + 1]
      /\ trackedUsers' = trackedUsers
  BY DEF Bump
<1>2. Tracked' = Tracked /\ perUser' \in [Tracked -> Nat \ {0}]
  BY <1>1 DEF Inv, TypeOK, Tracked
<1>3. TypeOK'
  BY <1>1, <1>2 DEF Inv, TypeOK
<1>4. \A u \in Tracked : u # user => perUser'[u] = perUser[u] /\ recorded'[u] = recorded[u]
  BY <1>1 DEF Inv, TypeOK
<1>5. perUser'[user] = perUser[user] + 1 /\ recorded'[user] = recorded[user] + 1
  BY <1>1 DEF Inv, TypeOK
<1>6. \A u \in Users \ Tracked : recorded'[u] = recorded[u]
  BY <1>1 DEF Inv, TypeOK
<1>7. \A u \in Tracked : perUser[u] \in Nat
  BY DEF Inv, TypeOK
<1>8. \A u \in Users : recorded[u] \in Nat
  BY DEF Inv, TypeOK
<1>9. Tracked \subseteq Users
  BY DEF Inv, TypeOK
<1>10. NeverUndercounts'
  BY <1>2, <1>4, <1>5, <1>7, <1>8, <1>9 DEF Inv, NeverUndercounts
<1>11. ErrorWithinLeast'
  <2>1. \A u \in Tracked : perUser'[u] - recorded'[u] = perUser[u] - recorded[u]
    BY <1>4, <1>5, <1>7, <1>8, <1>9
  <2>2. \A v \in Tracked : perUser[v] <= perUser'[v] /\ perUser'[v] \in Nat
    BY <1>4, <1>5, <1>7
  <2>3. ASSUME NEW u \in Tracked, NEW v \in Tracked
        PROVE  perUser'[u] - recorded'[u] <= perUser'[v]
    <3>1. perUser[u] - recorded[u] <= perUser[v]
      BY DEF Inv, ErrorWithinLeast
    <3> QED BY <3>1, <2>1, <2>2, <1>7, <1>8, <1>9
  <2>4. ASSUME NEW u \in Users \ Tracked, NEW v \in Tracked
        PROVE  recorded'[u] <= perUser'[v]
    <3>1. recorded[u] <= perUser[v]
      BY DEF Inv, ErrorWithinLeast
    <3> QED BY <3>1, <1>6, <2>2, <1>7, <1>8
  <2> QED BY <1>2, <2>3, <2>4 DEF ErrorWithinLeast
<1>12. ExactWhileFree'
  <2>1. Full' <=> Full
    BY <1>2 DEF Full
  <2> QED BY <2>1, <1>2, <1>4, <1>5, <1>6 DEF Inv, ExactWhileFree
<1>13. CountsAddUp'
  <2>1. IsFiniteSet(Tracked) /\ perUser \in [Tracked -> Nat]
    BY TrackedFinite DEF Inv, TypeOK
  <2>2. Sum(perUser') = Sum(perUser) + 1
    BY <1>1, <2>1, SumBump
  <2> QED BY <2>2, OneMoreRecord DEF Inv, CountsAddUp
<1> QED BY <1>3, <1>10, <1>11, <1>12, <1>13 DEF Inv

\* A newcomer takes the row of a least active user.
LEMMA ReplaceInv ==
  ASSUME Inv, NEW user \in Users, recorded' = [recorded EXCEPT ![user] = @ + 1], Replace(user)
  PROVE  Inv'
<1>1. user \notin Tracked /\ Full /\ trackedUsers' = trackedUsers
  BY DEF Replace
<1>2. PICK evicted \in Least :
         perUser' = [u \in (Tracked \ {evicted}) \union {user} |->
                        IF u = user THEN Seed(evicted) ELSE perUser[u]]
  BY DEF Replace
<1> DEFINE Kept == Tracked \ {evicted}
<1>3. /\ evicted \in Tracked
      /\ \A v \in Tracked : perUser[evicted] <= perUser[v]
  BY DEF Least
<1>4. Tracked \subseteq Users
  BY DEF Inv, TypeOK
<1>5. \A u \in Tracked : perUser[u] \in Nat \ {0}
  BY DEF Inv, TypeOK
<1>6. \A u \in Users : recorded[u] \in Nat
  BY DEF Inv, TypeOK
<1>7. Tracked' = Kept \union {user}
  BY <1>2 DEF Tracked
<1>8. /\ perUser'[user] = perUser[evicted] + 1
      /\ \A u \in Kept : perUser'[u] = perUser[u]
  BY <1>1, <1>2 DEF Seed
<1>9. /\ recorded'[user] = recorded[user] + 1
      /\ \A u \in Users : u # user => recorded'[u] = recorded[u]
  BY DEF Inv, TypeOK
<1>10. Cardinality(Tracked') = Cardinality(Tracked)
  <2>1. IsFiniteSet(Tracked) /\ Cardinality(Tracked) \in Nat
    BY TrackedFinite DEF Inv
  <2>2. IsFiniteSet(Kept) /\ Cardinality(Kept) = Cardinality(Tracked) - 1
    BY <1>3, <2>1, FS_RemoveElement
  <2>3. Cardinality(Kept \union {user}) = Cardinality(Kept) + 1
    BY <1>1, <2>2, FS_AddElement
  <2> QED BY <1>7, <2>1, <2>2, <2>3
<1>11. TypeOK'
  <2>1. Tracked' \subseteq Users
    BY <1>4, <1>7
  <2>2. perUser' \in [Tracked' -> Nat \ {0}]
    BY <1>2, <1>3, <1>5, <1>7 DEF Seed
  <2>3. recorded' \in [Users -> Nat]
    BY DEF Inv, TypeOK
  <2> QED BY <1>1, <1>10, <2>1, <2>2, <2>3 DEF Inv, TypeOK
<1>12. recorded[user] <= perUser[evicted]
  BY <1>1, <1>3 DEF Inv, ErrorWithinLeast
<1>13. NeverUndercounts'
  <2>1. recorded'[user] <= perUser'[user]
    BY <1>12, <1>8, <1>9, <1>3, <1>5, <1>6
  <2>2. ASSUME NEW u \in Kept PROVE recorded'[u] <= perUser'[u]
    BY <1>1, <1>4, <1>8, <1>9 DEF Inv, NeverUndercounts
  <2> QED BY <1>7, <2>1, <2>2 DEF NeverUndercounts
<1>14. ErrorWithinLeast'
  <2>1. \A v \in Tracked' : perUser[evicted] <= perUser'[v] /\ perUser'[v] \in Nat
    BY <1>3, <1>5, <1>7, <1>8
  <2>2. ASSUME NEW u \in Tracked' PROVE perUser'[u] - recorded'[u] <= perUser[evicted]
    <3>1. CASE u = user
      BY <3>1, <1>3, <1>5, <1>6, <1>8, <1>9
    <3>2. CASE u \in Kept
      <4>1. perUser[u] - recorded[u] <= perUser[evicted]
        BY <3>2, <1>3 DEF Inv, ErrorWithinLeast
      <4> QED BY <4>1, <3>2, <1>1, <1>4, <1>8, <1>9
    <3> QED BY <3>1, <3>2, <1>7
  <2>3. ASSUME NEW u \in Users \ Tracked' PROVE recorded'[u] <= perUser[evicted]
    <3>1. u # user
      BY <1>7
    <3>2. CASE u = evicted
      BY <3>1, <3>2, <1>3, <1>9 DEF Inv, NeverUndercounts
    <3>3. CASE u # evicted
      <4>1. u \in Users \ Tracked
        BY <3>1, <3>3, <1>7
      <4> QED BY <3>1, <4>1, <1>3, <1>9 DEF Inv, ErrorWithinLeast
    <3> QED BY <3>2, <3>3
  <2>4. perUser[evicted] \in Nat /\ \A u \in Tracked' \union Users : recorded'[u] \in Nat
    BY <1>3, <1>5, <1>11 DEF TypeOK
  <2>5. \A u, v \in Tracked' : perUser'[u] - recorded'[u] <= perUser'[v]
    BY <2>1, <2>2, <2>4
  <2>6. \A u \in Users \ Tracked', v \in Tracked' : recorded'[u] <= perUser'[v]
    BY <2>1, <2>3, <2>4
  <2> QED BY <2>5, <2>6 DEF ErrorWithinLeast
<1>15. ExactWhileFree'
  BY <1>1, <1>10 DEF ExactWhileFree, Full
<1>16. CountsAddUp'
  <2>1. IsFiniteSet(Kept) /\ IsFiniteSet(Tracked) /\ perUser \in [Tracked -> Nat]
    BY TrackedFinite, FS_RemoveElement DEF Inv, TypeOK
  <2> DEFINE kept == [u \in Kept |-> perUser[u]]
  <2>2. Sum(perUser) = Sum(kept) + perUser[evicted]
    BY <1>3, <2>1, SumWithout
  <2>3. kept \in [Kept -> Nat] /\ perUser' \in [Kept \union {user} -> Nat]
    BY <1>5, <1>7, <1>11 DEF TypeOK
  <2>4. \A u \in Kept : perUser'[u] = kept[u]
    BY <1>8
  <2>5. user \notin Kept
    BY <1>1
  <2> HIDE DEF kept, Kept
  <2>6. Sum(perUser') = Sum(kept) + perUser'[user]
    <3>1. \A g \in [Kept \union {user} -> Nat] :
             (\A u \in Kept : g[u] = kept[u]) => Sum(g) = Sum(kept) + g[user]
      BY <2>1, <2>3, <2>5, SumSplit
    <3> QED BY <2>3, <2>4, <3>1
  <2>7. Sum(kept) \in Nat /\ perUser[evicted] \in Nat
    BY <1>3, <1>5, <2>1, <2>3, SumType
  <2>8. Sum(perUser') = Sum(perUser) + 1
    BY <2>2, <2>6, <2>7, <1>8
  <2> QED BY <2>8, OneMoreRecord DEF Inv, CountsAddUp
<1> QED BY <1>11, <1>13, <1>14, <1>15, <1>16 DEF Inv

\* A newcomer takes a free row.
LEMMA AddInv ==
  ASSUME Inv, NEW user \in Users, recorded' = [recorded EXCEPT ![user] = @ + 1], Add(user)
  PROVE  Inv'
<1>1. /\ user \notin Tracked
      /\ ~Full
      /\ perUser' = [u \in Tracked \union {user} |-> IF u = user THEN 1 ELSE perUser[u]]
      /\ trackedUsers' = Cardinality(Tracked \union {user})
  BY DEF Add
<1>2. Tracked' = Tracked \union {user}
  BY <1>1 DEF Tracked
<1>3. \A u \in Tracked : perUser[u] \in Nat \ {0} /\ u \in Users
  BY DEF Inv, TypeOK
<1>4. perUser'[user] = 1 /\ \A u \in Tracked : perUser'[u] = perUser[u]
  BY <1>1
<1>5. /\ recorded'[user] = recorded[user] + 1
      /\ \A u \in Users : u # user => recorded'[u] = recorded[u]
  BY DEF Inv, TypeOK
<1>6. /\ \A u \in Users \ Tracked : recorded[u] = 0
      /\ \A u \in Tracked : recorded[u] = perUser[u]
  BY <1>1 DEF Inv, ExactWhileFree
<1>7. /\ \A u \in Tracked' : recorded'[u] = perUser'[u] /\ perUser'[u] \in Nat \ {0}
      /\ \A u \in Users \ Tracked' : recorded'[u] = 0
  BY <1>1, <1>2, <1>3, <1>4, <1>5, <1>6
<1>8. TypeOK'
  <2>1. IsFiniteSet(Tracked) /\ Cardinality(Tracked) \in Nat
    BY TrackedFinite DEF Inv
  <2>2. Cardinality(Tracked') = Cardinality(Tracked) + 1
    BY <1>1, <1>2, <2>1, FS_AddElement
  <2>3. Cardinality(Tracked') <= MaxTrackedUsers
    BY <1>1, <2>1, <2>2, LeaderboardAssumption DEF Full
  <2>4. Tracked' \subseteq Users
    BY <1>2, <1>3
  <2>5. perUser' \in [Tracked' -> Nat \ {0}]
    BY <1>1, <1>2, <1>3
  <2>6. recorded' \in [Users -> Nat]
    BY DEF Inv, TypeOK
  <2> QED BY <1>1, <1>2, <2>3, <2>4, <2>5, <2>6 DEF TypeOK
<1>9. NeverUndercounts' /\ ErrorWithinLeast'
  BY <1>7 DEF NeverUndercounts, ErrorWithinLeast
<1>10. ExactWhileFree'
  BY <1>7 DEF ExactWhileFree
<1>11. CountsAddUp'
  <2>1. IsFiniteSet(Tracked) /\ perUser \in [Tracked -> Nat] /\ perUser' \in [Tracked \union {user} -> Nat]
    BY <1>2, <1>8, TrackedFinite DEF Inv, TypeOK
  <2>2. Sum(perUser') = Sum(perUser) + perUser'[user]
    BY <1>1, <1>4, <2>1, SumSplit
  <2> QED BY <1>4, <2>2, OneMoreRecord DEF Inv, CountsAddUp
<1> QED BY <1>8, <1>9, <1>10, <1>11 DEF Inv

LEMMA StepInv == Inv /\ [Next]_vars => Inv'
<1> SUFFICES ASSUME Inv, [Next]_vars PROVE Inv'
  OBVIOUS
<1>1. ASSUME NEW user \in Users, Recording(user) PROVE Inv'
  BY <1>1, BumpInv, ReplaceInv, AddInv DEF Recording, RecordUser
<1>2. CASE UNCHANGED vars
  BY <1>2 DEF vars, Inv, TypeOK, NeverUndercounts, ErrorWithinLeast, ExactWhileFree, Full, Tracked,
                CountsAddUp, Records
<1> QED BY <1>1, <1>2 DEF Next

LEMMA Invariance == Spec => []Inv
<1> QED BY InitInv, StepInv, PTL DEF Spec

\* The table stays within maxTrackedUsers rows, and the gauge is its size.
THEOREM LeaderboardTypes == Spec => []TypeOK
<1>1. Inv => TypeOK
  BY DEF Inv
<1> QED BY <1>1, Invariance, PTL

\* Through any sequence of evictions and returns no tracked user is
\* undercounted (stats.go:238-242).
THEOREM LeaderboardNeverUndercounts == Spec => []NeverUndercounts
<1>1. Inv => NeverUndercounts
  BY DEF Inv
<1> QED BY <1>1, Invariance, PTL

\* No tracked user is overestimated by more than the smallest count, and nobody
\* outside the table did more than that.
THEOREM LeaderboardError == Spec => []ErrorWithinLeast
<1>1. Inv => ErrorWithinLeast
  BY DEF Inv
<1> QED BY <1>1, Invariance, PTL

\* The rows add up to the calls of recordUser, whoever was evicted.
THEOREM LeaderboardCountsAddUp == Spec => []CountsAddUp
<1>1. Inv => CountsAddUp
  BY DEF Inv
<1> QED BY <1>1, Invariance, PTL

\* A user outside a full table did no more than each of its rows, and the rows
\* add up to all recordings.
LEMMA ActiveTracked == Inv => ActiveUsersTracked
<1> SUFFICES ASSUME Inv, NEW u \in Users, u \notin Tracked
             PROVE  ~(recorded[u] * MaxTrackedUsers > Records)
  BY DEF ActiveUsersTracked
<1>1. recorded[u] \in Nat /\ MaxTrackedUsers \in Nat
  BY LeaderboardAssumption DEF Inv, TypeOK
<1>2. IsFiniteSet(Tracked) /\ Cardinality(Tracked) \in Nat /\ perUser \in [Tracked -> Nat]
  BY TrackedFinite DEF Inv, TypeOK
<1>3. Sum(perUser) = Records /\ Records \in Nat
  BY <1>2, SumType DEF Inv, CountsAddUp
<1>4. CASE Full
  <2>1. Cardinality(Tracked) = MaxTrackedUsers
    BY <1>1, <1>2, <1>4 DEF Full, Inv, TypeOK
  <2>2. \A v \in Tracked : recorded[u] <= perUser[v]
    BY DEF Inv, ErrorWithinLeast
  <2>3. Cardinality(Tracked) * recorded[u] <= Sum(perUser)
    BY <1>1, <1>2, <2>2, SumAtLeast
  <2>4. MaxTrackedUsers * recorded[u] = recorded[u] * MaxTrackedUsers
    BY <1>1
  <2>5. recorded[u] * MaxTrackedUsers \in Nat
    BY <1>1
  <2> QED BY <1>3, <2>1, <2>3, <2>4, <2>5
<1>5. CASE ~Full
  <2>1. recorded[u] = 0
    BY <1>5 DEF Inv, ExactWhileFree
  <2>2. recorded[u] * MaxTrackedUsers = 0
    BY <1>1, <2>1
  <2> QED BY <1>3, <2>2
<1> QED BY <1>4, <1>5

\* Whoever made more than one in maxTrackedUsers of all recordings is in the
\* table (stats.go:239).
THEOREM LeaderboardTracksActive == Spec => []ActiveUsersTracked
<1> QED BY ActiveTracked, Invariance, PTL
=============================================================================

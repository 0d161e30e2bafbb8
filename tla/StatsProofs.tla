----------------------------- MODULE StatsProofs -----------------------------
(***************************************************************************)
(* For any handlers, whatever they record and wherever they are            *)
(* interrupted, any providers and any number of restarts: what an          *)
(* administrator sees adds up.                                             *)
(*                                                                         *)
(* A reader loads the counters one by one, so an invariant of the counters *)
(* is not enough: each sum is followed from the counters as they are       *)
(* (UsersInv, RequestsInv, AnswersInv, each up to the handlers between two *)
(* updates), through what the reader has and what it would get if it        *)
(* loaded the rest now (SeenUsersInv, SeenRequestsInv, SeenAnswersInv), to  *)
(* the file and back into the next process (FileInv).                      *)
(***************************************************************************)
EXTENDS Stats, SumTheorems, SequenceTheorems

\* What the stats file and a reader's loads may hold.
Tables   == UNION {[D -> Nat] : D \in SUBSET Users}
Attempts == UNION {[D -> [Outcomes -> Nat]] : D \in SUBSET Providers}
State    == [totals : [Totals \union {"aiAgain"} -> Nat], providers : Attempts, users : Tables]

Reading == reader.does \in {"snapshot", "export"}

StatsTypes ==
    /\ life \in Lives
    /\ totals \in [Totals -> Nat]
    /\ providers \in [registered -> [Outcomes -> Nat]]
    /\ perUser \in Tables
    /\ mu \in BOOLEAN
    /\ pc \in [Handlers -> Nat]
    /\ step \in [Handlers -> {1, 2}]
    /\ reader \in [does : {"nothing", "snapshot", "export", "stopped"}, at : Nat]
    /\ seen \in State
    /\ file \in State

\* A handler is at a call of its own, unless it has made them all; only calls
\* of two updates have a second one.
Places ==
    \A h \in Handlers :
       /\ pc[h] \in 1 .. Len(Calls[h]) + 1
       /\ step[h] = 2 => pc[h] \in DOMAIN Calls[h] /\ Len(UpdatesOf(CallOf(h))) = 2

\* Between the two updates of a call.
Between(h, name) == step[h] = 2 /\ CallOf(h).name = name

MidUser == {h \in Handlers : \/ Between(h, "RecordAnek")
                             \/ Between(h, "RecordQuestionAnswered")}

Delivered(t) == t["classic"] + t["ai"] + t["questions"]

\* The rows lag behind the jokes and answers, by one for each handler in between.
UsersInv == Sum(perUser) + Cardinality(MidUser) <= Delivered(totals)

OutcomesOf(ok) == IF ok THEN {"successPrimary", "successFallback"}
                        ELSE {"failPrimary", "failFallback"}
RequestTotal(ok) == IF ok THEN "ok" ELSE "error"
MidRequest(ok) == {h \in Handlers : Between(h, "ObserveRequest") /\ CallOf(h).ok = ok}

\* The providers' counters lag behind the requests likewise.
RequestsInv ==
    \A ok \in BOOLEAN :
       Counted(providers, OutcomesOf(ok)) + Cardinality(MidRequest(ok)) <= totals[RequestTotal(ok)]

\* Whether handler h has counted its i-th call in a total.
Totalled(h, i) == i < pc[h] \/ (i = pc[h] /\ step[h] = 2)

\* Answers that were not delivered and counted yet, the questions' too or not.
TextTotals(questions) == IF questions THEN {"ai", "questions"} ELSE {"ai"}
Undelivered(questions) ==
    {h \in Handlers :
       \E i \in DOMAIN Calls[h] :
          /\ TextTotal(Calls[h][i]) \in TextTotals(questions)
          /\ ~Totalled(h, i)
          /\ \E j \in 1 .. i - 1 : IsSuccess(Calls[h][j]) /\ Totalled(h, j)}
Answers(ai, t, questions) == t[ai] + (IF questions THEN t["questions"] ELSE 0)

\* An answer is a success first.
AnswersInv ==
    \A questions \in BOOLEAN :
       (questions => life = 1) =>
          Answers("ai", totals, questions) + Cardinality(Undelivered(questions)) <= totals["ok"]

\* What a reader has of a total, or would get if it loaded it now.
Has(t) == \E i \in 1 .. reader.at - 1 : Loads[i] = [kind |-> "total", name |-> t]
Now(t) == IF Has(t) THEN seen.totals[t] ELSE totals[t]

Source(t) == IF t = "aiAgain" THEN "ai" ELSE t

ReaderInv ==
    /\ ~Reading => seen = Nothing /\ reader.at = 0
    /\ Reading => /\ reader.at \in 1 .. Len(Loads) + 1
                  /\ DOMAIN seen.providers = registered
    /\ \A t \in Totals \union {"aiAgain"} : seen.totals[t] <= totals[Source(t)]
    /\ \A p \in DOMAIN seen.providers, o \in Outcomes : seen.providers[p][o] <= providers[p][o]

SeenUsersInv ==
    Reading => Sum(seen.users) <= Now("classic") + Now("ai") + Now("questions")

SeenRequestsInv ==
    Reading => \A ok \in BOOLEAN :
       Has(RequestTotal(ok)) => Counted(seen.providers, OutcomesOf(ok)) <= seen.totals[RequestTotal(ok)]

SeenAnswersInv ==
    /\ reader.does = "snapshot" /\ Has("ok") =>
          \A questions \in BOOLEAN :
             (questions => life = 1) => Answers("aiAgain", seen.totals, questions) <= seen.totals["ok"]
    /\ reader.does = "export" /\ Has("ok") => seen.totals["ai"] <= seen.totals["ok"]

RowsInv ==
    reader.does = "snapshot" => /\ mu
                                /\ reader.at > 1 => DOMAIN seen.users = DOMAIN perUser

Consistent(s) ==
    /\ Sum(s.users) <= Delivered(s.totals)
    /\ \A ok \in BOOLEAN : Counted(s.providers, OutcomesOf(ok)) <= s.totals[RequestTotal(ok)]
    /\ s.totals["ai"] <= s.totals["ok"]

FileInv == Consistent(file)

Inv ==
    /\ StatsTypes /\ Places
    /\ UsersInv /\ RequestsInv /\ AnswersInv
    /\ ReaderInv /\ SeenUsersInv /\ SeenRequestsInv /\ SeenAnswersInv /\ RowsInv
    /\ FileInv

-----------------------------------------------------------------------------
\* The calls of the recorder.
LEMMA CallFacts ==
  ASSUME NEW c \in RecorderCalls
  PROVE  /\ UpdatesOf(c)[1].kind = "total"
         /\ UpdatesOf(c)[1].name \in Totals
         /\ UpdatesOf(c)[1].name = "ok" <=> IsSuccess(c)
         /\ UpdatesOf(c)[1].name = "error" <=> c.name = "ObserveRequest" /\ ~c.ok
         /\ \A t \in {"ai", "questions"} : UpdatesOf(c)[1].name = t <=> TextTotal(c) = t
         /\ UpdatesOf(c)[1].name \in {"classic", "ai", "questions"}
               <=> c.name \in {"RecordAnek", "RecordQuestionAnswered"}
         /\ Len(UpdatesOf(c)) =
               IF c.name \in {"RecordAnek", "RecordQuestionAnswered", "ObserveRequest"} THEN 2 ELSE 1
<1>1. CASE c \in [name : {"RecordAnek"}, user : Users \union {NoUser}, joke : {"classic", "ai"}]
  <2>1. UpdatesOf(c) = RecordAnek(c.user, c.joke)
    BY <1>1 DEF UpdatesOf
  <2> QED BY <1>1, <2>1 DEF RecordAnek, Add, Totals, IsSuccess, TextTotal
<1>2. CASE c \in [name : {"RecordQuestionAnswered"}, user : Users \union {NoUser}]
  <2>1. UpdatesOf(c) = RecordQuestionAnswered(c.user)
    BY <1>2 DEF UpdatesOf
  <2> QED BY <1>2, <2>1 DEF RecordQuestionAnswered, Add, Totals, IsSuccess, TextTotal
<1>3. CASE c \in [name : {"RecordSwearingReaction", "RecordPromotionShown", "ObserveFallback"}]
  <2>1. UpdatesOf(c) \in {RecordSwearingReaction, RecordPromotionShown, ObserveFallback}
    BY <1>3 DEF UpdatesOf
  <2> QED BY <1>3, <2>1 DEF RecordSwearingReaction, RecordPromotionShown, ObserveFallback, Add,
                            Totals, IsSuccess, TextTotal
<1>4. CASE c \in [name : {"ObserveRequest"}, provider : Providers, ok : BOOLEAN, primary : BOOLEAN]
  <2>1. UpdatesOf(c) = ObserveRequest(c.provider, c.ok, c.primary)
    BY <1>4 DEF UpdatesOf
  <2> QED BY <1>4, <2>1 DEF ObserveRequest, Add, Totals, IsSuccess, TextTotal
<1>5. CASE c \in [name : {"ObserveRateLimitRejection"}, scope : {"per_user", "concurrency"}]
  <2>1. UpdatesOf(c) = ObserveRateLimitRejection(c.scope)
    BY <1>5 DEF UpdatesOf
  <2> QED BY <1>5, <2>1 DEF ObserveRateLimitRejection, Add, Totals, IsSuccess, TextTotal
<1> QED BY <1>1, <1>2, <1>3, <1>4, <1>5 DEF RecorderCalls

LEMMA SecondUpdate ==
  ASSUME NEW c \in RecorderCalls, Len(UpdatesOf(c)) = 2
  PROVE  \/ /\ c.name \in {"RecordAnek", "RecordQuestionAnswered"}
            /\ UpdatesOf(c)[2].kind = "user"
            /\ UpdatesOf(c)[2].name \in Users \union {NoUser}
         \/ /\ c.name = "ObserveRequest"
            /\ c.ok \in BOOLEAN
            /\ UpdatesOf(c)[2].kind = "provider"
            /\ UpdatesOf(c)[2].name = c.provider
            /\ UpdatesOf(c)[2].outcome \in OutcomesOf(c.ok)
<1>0. c.name \in {"RecordAnek", "RecordQuestionAnswered", "ObserveRequest"}
  BY CallFacts
<1>1. CASE c \in [name : {"RecordAnek"}, user : Users \union {NoUser}, joke : {"classic", "ai"}]
  <2>1. UpdatesOf(c) = RecordAnek(c.user, c.joke)
    BY <1>1 DEF UpdatesOf
  <2> QED BY <1>1, <2>1 DEF RecordAnek, Add, User
<1>2. CASE c \in [name : {"RecordQuestionAnswered"}, user : Users \union {NoUser}]
  <2>1. UpdatesOf(c) = RecordQuestionAnswered(c.user)
    BY <1>2 DEF UpdatesOf
  <2> QED BY <1>2, <2>1 DEF RecordQuestionAnswered, Add, User
<1>3. CASE c \in [name : {"ObserveRequest"}, provider : Providers, ok : BOOLEAN, primary : BOOLEAN]
  <2>1. UpdatesOf(c) = ObserveRequest(c.provider, c.ok, c.primary)
    BY <1>3 DEF UpdatesOf
  <2> QED BY <1>3, <2>1 DEF ObserveRequest, Add, Attempted, OutcomesOf
<1> QED BY <1>0, <1>1, <1>2, <1>3 DEF RecorderCalls

-----------------------------------------------------------------------------
\* Everything is finite.
LEMMA RangeFinite ==
  ASSUME NEW S, NEW s \in Seq(S)
  PROVE  IsFiniteSet(Range(s))
<1>1. s \in [1 .. Len(s) -> Range(s)] /\ Len(s) \in Nat
  BY DEF Range
<1>2. s \in Surjection(1 .. Len(s), Range(s))
  BY <1>1 DEF Surjection, Range
<1> QED BY <1>1, <1>2, FS_Interval, FS_Surjection

LEMMA RegisteredFinite ==
  ASSUME NEW l \in Lives
  PROVE  /\ IsFiniteSet(Range(ProvidersOf[l]))
         /\ Range(ProvidersOf[l]) \subseteq Providers
<1>1. ProvidersOf[l] \in Seq(Providers)
  BY StatsAssumption DEF Lives
<1> QED BY <1>1, RangeFinite DEF Providers

LEMMA ProvidersFinite == IsFiniteSet(Providers)
<1> DEFINE All == {Range(ProvidersOf[l]) : l \in Lives}
           of  == [l \in Lives |-> Range(ProvidersOf[l])]
<1>1. IsFiniteSet(Lives)
  BY StatsAssumption, FS_Interval DEF Lives
<1>2. of \in Surjection(Lives, All)
  BY DEF Surjection
<1>3. IsFiniteSet(All)
  BY <1>1, <1>2, FS_Surjection
<1>4. \A T \in All : IsFiniteSet(T)
  BY RegisteredFinite
<1> QED BY <1>3, <1>4, FS_UNION DEF Providers

LEMMA TableFacts ==
  ASSUME NEW t \in Tables
  PROVE  /\ IsFiniteSet(DOMAIN t) /\ DOMAIN t \subseteq Users
         /\ t \in [DOMAIN t -> Nat]
         /\ Sum(t) \in Nat
<1>1. PICK D \in SUBSET Users : t \in [D -> Nat]
  BY DEF Tables
<1>2. IsFiniteSet(D)
  BY StatsAssumption, FS_Subset
<1> QED BY <1>1, <1>2, SumType

LEMMA TableType ==
  ASSUME NEW D \in SUBSET Users, NEW t \in [D -> Nat]
  PROVE  t \in Tables
BY DEF Tables

\* The cells of a table of attempts.
LEMMA CellsFinite ==
  ASSUME NEW D \in SUBSET Providers, NEW O \in SUBSET Outcomes
  PROVE  IsFiniteSet(D \X O)
<1>1. IsFiniteSet(D)
  BY ProvidersFinite, FS_Subset
<1>2. IsFiniteSet(Outcomes)
  <2>1. Outcomes = (({"successPrimary"} \union {"successFallback"}) \union {"failPrimary"}) \union {"failFallback"}
    BY DEF Outcomes
  <2> QED BY <2>1, FS_Singleton, FS_Union
<1>3. IsFiniteSet(O)
  BY <1>2, FS_Subset
<1> QED BY <1>1, <1>3, FS_Product

LEMMA OutcomesFacts ==
  ASSUME NEW ok \in BOOLEAN
  PROVE  OutcomesOf(ok) \subseteq Outcomes /\ RequestTotal(ok) \in Totals
BY DEF OutcomesOf, Outcomes, RequestTotal, Totals

LEMMA AttemptsFacts ==
  ASSUME NEW a \in Attempts
  PROVE  DOMAIN a \subseteq Providers /\ a \in [DOMAIN a -> [Outcomes -> Nat]]
BY DEF Attempts

LEMMA CountedType ==
  ASSUME NEW a \in Attempts, NEW O \in SUBSET Outcomes
  PROVE  Counted(a, O) \in Nat
<1> DEFINE cells == [po \in (DOMAIN a) \X O |-> a[po[1]][po[2]]]
<1>1. cells \in [(DOMAIN a) \X O -> Nat]
  BY AttemptsFacts
<1>2. IsFiniteSet((DOMAIN a) \X O)
  BY CellsFinite, AttemptsFacts
<1> HIDE DEF cells
<1>3. Sum(cells) \in Nat
  BY <1>1, <1>2, SumType
<1> QED BY <1>3 DEF Counted, cells

\* Fewer attempts, and none of further providers.
LEMMA CountedLess ==
  ASSUME NEW a \in Attempts, NEW b \in Attempts, NEW O \in SUBSET Outcomes,
         \A p \in DOMAIN a, o \in O : a[p][o] = 0 \/ (p \in DOMAIN b /\ a[p][o] <= b[p][o])
  PROVE  Counted(a, O) <= Counted(b, O)
<1> DEFINE ca == [po \in (DOMAIN a) \X O |-> a[po[1]][po[2]]]
           cb == [po \in (DOMAIN b) \X O |-> b[po[1]][po[2]]]
<1>1. ca \in [(DOMAIN a) \X O -> Nat] /\ cb \in [(DOMAIN b) \X O -> Nat]
  BY AttemptsFacts
<1>2. IsFiniteSet((DOMAIN b) \X O)
  BY CellsFinite, AttemptsFacts
<1>3. \A po \in (DOMAIN a) \X O : ca[po] = 0 \/ (po \in (DOMAIN b) \X O /\ ca[po] <= cb[po])
  OBVIOUS
<1> HIDE DEF ca, cb
<1>4. Sum(ca) <= Sum(cb)
  BY <1>1, <1>2, <1>3, SumCovered
<1> QED BY <1>4 DEF Counted, ca, cb

\* One attempt more.
LEMMA CountedBump ==
  ASSUME NEW a \in Attempts, NEW O \in SUBSET Outcomes, NEW p \in DOMAIN a, NEW o \in Outcomes
  PROVE  Counted([a EXCEPT ![p][o] = @ + 1], O) = Counted(a, O) + (IF o \in O THEN 1 ELSE 0)
<1> DEFINE b  == [a EXCEPT ![p][o] = @ + 1]
           ca == [po \in (DOMAIN a) \X O |-> a[po[1]][po[2]]]
           cb == [po \in (DOMAIN b) \X O |-> b[po[1]][po[2]]]
<1>1. ca \in [(DOMAIN a) \X O -> Nat]
  BY AttemptsFacts
<1>2. IsFiniteSet((DOMAIN a) \X O)
  BY CellsFinite, AttemptsFacts
<1>3. /\ DOMAIN b = DOMAIN a
      /\ \A q \in DOMAIN a, r \in Outcomes :
            b[q][r] = IF q = p /\ r = o THEN a[q][r] + 1 ELSE a[q][r]
  BY AttemptsFacts
<1> HIDE DEF b
<1>4. CASE o \in O
  <2>1. \A q \in DOMAIN a, r \in O :
           /\ ca[<<q, r>>] = a[q][r]
           /\ cb[<<q, r>>] = IF q = p /\ r = o THEN a[q][r] + 1 ELSE a[q][r]
           /\ a[q][r] \in Nat
    BY <1>3, AttemptsFacts
  <2>2. cb \in [(DOMAIN a) \X O -> Nat]
    BY <1>3, AttemptsFacts
  <2>3. \A po \in ((DOMAIN a) \X O) \ {<<p, o>>} : cb[po] = ca[po]
    <3> SUFFICES ASSUME NEW po \in ((DOMAIN a) \X O) \ {<<p, o>>} PROVE cb[po] = ca[po]
      OBVIOUS
    <3> HIDE DEF ca, cb
    <3>1. PICK q \in DOMAIN a, r \in O : po = <<q, r>>
      OBVIOUS
    <3> QED BY <3>1, <2>1
  <2>4. /\ <<p, o>> \in (DOMAIN a) \X O
        /\ cb[<<p, o>>] = a[p][o] + 1 /\ ca[<<p, o>>] = a[p][o] /\ a[p][o] \in Nat
    BY <1>4, <2>1
  <2> HIDE DEF ca, cb
  <2>5. Sum(cb) = Sum(ca) + cb[<<p, o>>] - ca[<<p, o>>]
    <3> DEFINE D  == (DOMAIN a) \X O
               at == <<p, o>>
    <3>1. /\ IsFiniteSet(D) /\ at \in D /\ ca \in [D -> Nat] /\ cb \in [D -> Nat]
          /\ \A po \in D \ {at} : cb[po] = ca[po]
      BY <1>1, <1>2, <2>2, <2>3, <2>4
    <3> HIDE DEF D, at
    <3>2. Sum(cb) = Sum(ca) + cb[at] - ca[at]
      BY <3>1, SumUpdate
    <3> QED BY <3>2 DEF at
  <2>6. Sum(ca) \in Nat
    BY <1>1, <1>2, SumType
  <2>7. Sum(cb) = Sum(ca) + 1
    BY <2>4, <2>5, <2>6
  <2> QED BY <1>4, <2>7 DEF Counted, ca, cb, b
<1>5. CASE o \notin O
  <2>1. cb = ca
    BY <1>3, <1>5
  <2>2. Sum(ca) \in Nat
    <3> HIDE DEF ca
    <3> QED BY <1>1, <1>2, SumType
  <2> HIDE DEF ca, cb
  <2>3. Sum(cb) = Sum(ca) + 0
    BY <2>1, <2>2
  <2> QED BY <1>5, <2>3 DEF Counted, ca, cb, b
<1> QED BY <1>4, <1>5

-----------------------------------------------------------------------------
\* What a reader loads.
UsersLoad     == [kind |-> "users"]
ProviderLoad(p, o) == [kind |-> "provider", name |-> p, outcome |-> o]
TotalLoad(t)  == [kind |-> "total", name |-> t]
AllLoads == {UsersLoad} \union {ProviderLoad(p, o) : p \in registered, o \in Outcomes}
                        \union {TotalLoad(t) : t \in Totals \union {"aiAgain"}}

LEMMA ProviderLoadsFacts ==
  ASSUME life \in Lives
  PROVE  /\ ProviderLoads \in Seq(AllLoads)
         /\ \A i \in 1 .. Len(ProviderLoads) :
               \E p \in registered, o \in Outcomes : ProviderLoads[i] = ProviderLoad(p, o)
<1> DEFINE names == ProvidersOf[life]
           n     == Len(names)
           order == <<"successPrimary", "successFallback", "failPrimary", "failFallback">>
<1>1. names \in Seq(Providers) /\ n \in Nat
  BY StatsAssumption DEF Lives
<1>2. \A k \in 1 .. n : names[k] \in registered
  BY <1>1 DEF registered, Range
<1>3. \A i \in 1 .. 4 * n : ((i - 1) \div 4) + 1 \in 1 .. n /\ ((i - 1) % 4) + 1 \in 1 .. 4
  BY <1>1
<1>4. \A k \in 1 .. 4 : order[k] \in Outcomes
  BY DEF Outcomes
<1>5. ASSUME NEW i \in 1 .. 4 * n
      PROVE  \E p \in registered, o \in Outcomes : ProviderLoads[i] = ProviderLoad(p, o)
  <2>1. ProviderLoads[i] = ProviderLoad(names[((i - 1) \div 4) + 1], order[((i - 1) % 4) + 1])
    BY DEF ProviderLoads, ProviderLoad
  <2> HIDE DEF order, n
  <2> QED BY <2>1, <1>2, <1>3, <1>4
<1>6. DOMAIN ProviderLoads = 1 .. 4 * n
  BY DEF ProviderLoads
<1>7. 4 * n \in Nat
  BY <1>1
<1> HIDE DEF n, names
<1>8. ProviderLoads \in [1 .. 4 * n -> AllLoads]
  <2>1. ProviderLoads = [i \in 1 .. 4 * n |-> ProviderLoads[i]]
    BY <1>6 DEF ProviderLoads, n, names
  <2> QED BY <2>1, <1>5 DEF AllLoads
<1>9. ProviderLoads \in Seq(AllLoads) /\ Len(ProviderLoads) = 4 * n
  BY <1>7, <1>8, SeqDef, LenProperties
<1> QED BY <1>5, <1>9

LEMMA TotalLoadsFacts ==
  ASSUME NEW names \in Seq(Totals \union {"aiAgain"})
  PROVE  /\ TotalLoads(names) \in Seq(AllLoads)
         /\ Len(TotalLoads(names)) = Len(names)
         /\ \A i \in 1 .. Len(names) : TotalLoads(names)[i] = TotalLoad(names[i])
<1>1. TotalLoads(names) \in [1 .. Len(names) -> AllLoads] /\ Len(names) \in Nat
  BY DEF TotalLoads, AllLoads, TotalLoad
<1> QED BY <1>1, SeqDef, LenProperties DEF TotalLoads, TotalLoad

\* Loads in order: the users, the providers, the totals.
LEMMA InOrder ==
  ASSUME life \in Lives, NEW names \in Seq(Totals \union {"aiAgain"})
  PROVE  LET loads == <<UsersLoad>> \o ProviderLoads \o TotalLoads(names)
             n     == 1 + Len(ProviderLoads)
         IN  /\ n \in Nat \ {0}
             /\ loads \in Seq(AllLoads)
             /\ Len(loads) = n + Len(names)
             /\ loads[1] = UsersLoad
             /\ \A i \in 2 .. n : \E p \in registered, o \in Outcomes : loads[i] = ProviderLoad(p, o)
             /\ \A k \in 1 .. Len(names) : loads[n + k] = TotalLoad(names[k])
<1> DEFINE first == <<UsersLoad>> \o ProviderLoads
           rest  == TotalLoads(names)
           loads == first \o rest
           n     == 1 + Len(ProviderLoads)
<1>1. <<UsersLoad>> \in Seq(AllLoads) /\ Len(<<UsersLoad>>) = 1 /\ <<UsersLoad>>[1] = UsersLoad
  BY DEF AllLoads
<1>2. ProviderLoads \in Seq(AllLoads) /\ Len(ProviderLoads) \in Nat
  BY ProviderLoadsFacts
<1>3. /\ first \in Seq(AllLoads) /\ Len(first) = n
      /\ \A i \in 1 .. n : first[i] = IF i <= 1 THEN <<UsersLoad>>[i] ELSE ProviderLoads[i - 1]
  BY <1>1, <1>2, ConcatProperties
<1>4. rest \in Seq(AllLoads) /\ Len(rest) = Len(names) /\ Len(names) \in Nat
  BY TotalLoadsFacts
<1>5. n \in Nat \ {0}
  BY <1>2
<1> HIDE DEF first, n, rest
<1>6. /\ loads \in Seq(AllLoads) /\ Len(loads) = n + Len(names)
      /\ \A i \in 1 .. n + Len(names) : loads[i] = IF i <= n THEN first[i] ELSE rest[i - n]
  <2>1. first \in Seq(AllLoads) /\ rest \in Seq(AllLoads)
    BY <1>3, <1>4
  <2>2. /\ loads \in Seq(AllLoads) /\ Len(loads) = Len(first) + Len(rest)
        /\ \A i \in 1 .. Len(first) + Len(rest) :
              loads[i] = IF i <= Len(first) THEN first[i] ELSE rest[i - Len(first)]
    BY <2>1, ConcatProperties
  <2> QED BY <2>2, <1>3, <1>4
<1>7. loads[1] = UsersLoad
  BY <1>1, <1>3, <1>4, <1>5, <1>6
<1>8. ASSUME NEW i \in 2 .. n
      PROVE  \E p \in registered, o \in Outcomes : loads[i] = ProviderLoad(p, o)
  <2>1. i - 1 \in 1 .. Len(ProviderLoads)
    BY <1>2, <1>5 DEF n
  <2>2. loads[i] = ProviderLoads[i - 1]
    BY <1>3, <1>4, <1>5, <1>6
  <2> QED BY <2>1, <2>2, ProviderLoadsFacts
<1>9. ASSUME NEW k \in 1 .. Len(names) PROVE loads[n + k] = TotalLoad(names[k])
  <2>1. n + k \in 1 .. n + Len(names) /\ ~(n + k <= n) /\ (n + k) - n = k
    BY <1>4, <1>5
  <2> QED BY <2>1, <1>6, TotalLoadsFacts DEF rest
<1> QED BY <1>5, <1>6, <1>7, <1>8, <1>9 DEF first, n, rest

SnapshotNames == <<"classic", "ai", "aiAgain", "questions", "swearing", "promotions",
                   "ok", "error", "fallbacks", "rejectedUser", "rejectedConcurrency">>
ExportNames   == <<"classic", "ai", "ok", "error", "rejectedUser", "rejectedConcurrency",
                   "fallbacks", "swearing", "promotions", "questions">>

LEMMA KindsDiffer ==
  /\ UsersLoad.kind = "users"
  /\ \A p, o : ProviderLoad(p, o).kind = "provider" /\ ProviderLoad(p, o).name = p
                 /\ ProviderLoad(p, o).outcome = o
  /\ \A t : TotalLoad(t).kind = "total" /\ TotalLoad(t).name = t
BY DEF UsersLoad, ProviderLoad, TotalLoad

Lists(names) == Loads = <<UsersLoad>> \o ProviderLoads \o TotalLoads(names)

\* The totals come last, all of them and in the order of their names.
LEMMA LoadsShape ==
  ASSUME life \in Lives, NEW names \in Seq(Totals \union {"aiAgain"}),
         Lists(names)
  PROVE  /\ Len(Loads) \in Nat \ {0}
         /\ DOMAIN Loads = 1 .. Len(Loads)
         /\ Loads[1] = UsersLoad
         /\ \A i \in 2 .. Len(Loads) :
               \/ \E p \in registered, o \in Outcomes : Loads[i] = ProviderLoad(p, o)
               \/ \E t \in Totals \union {"aiAgain"} : Loads[i] = TotalLoad(t)
         /\ \A i, j \in 1 .. Len(Loads) :
               i < j /\ Loads[i].kind = "total" => Loads[j].kind = "total"
         /\ \A k \in 1 .. Len(names) : \E i \in 1 .. Len(Loads) : Loads[i] = TotalLoad(names[k])
         /\ \A i, j \in 1 .. Len(Loads), t, u \in Totals \union {"aiAgain"} :
               i < j /\ Loads[i] = TotalLoad(t) /\ Loads[j] = TotalLoad(u) =>
                  \E k, l \in 1 .. Len(names) : k < l /\ names[k] = t /\ names[l] = u
<1> DEFINE n == 1 + Len(ProviderLoads)
           m == Len(names)
<1>1. /\ n \in Nat \ {0}
      /\ Loads \in Seq(AllLoads)
      /\ Len(Loads) = n + m
      /\ Loads[1] = UsersLoad
      /\ \A i \in 2 .. n : \E p \in registered, o \in Outcomes : Loads[i] = ProviderLoad(p, o)
      /\ \A k \in 1 .. m : Loads[n + k] = TotalLoad(names[k])
  BY InOrder DEF Lists
<1>2. m \in Nat /\ n \in Nat /\ \A k \in 1 .. m : names[k] \in Totals \union {"aiAgain"}
  BY <1>1, LenProperties
<1> HIDE DEF n, m
<1>3. Len(Loads) \in Nat \ {0} /\ DOMAIN Loads = 1 .. Len(Loads)
  BY <1>1, <1>2, LenProperties
<1>4. ASSUME NEW i \in 1 .. n PROVE Loads[i].kind # "total"
  <2>1. CASE i = 1
    BY <2>1, <1>1, KindsDiffer
  <2>2. CASE i \in 2 .. n
    BY <2>2, <1>1, KindsDiffer
  <2> QED BY <2>1, <2>2, <1>1
<1>5. ASSUME NEW i \in n + 1 .. n + m
      PROVE  i - n \in 1 .. m /\ Loads[i] = TotalLoad(names[i - n])
  <2>1. i - n \in 1 .. m /\ n + (i - n) = i
    BY <1>2
  <2> QED BY <2>1, <1>1
<1>6. ASSUME NEW i \in n + 1 .. n + m
      PROVE  Loads[i].kind = "total" /\ Loads[i].name = names[i - n]
  BY <1>5, KindsDiffer
<1>7. \A i \in 1 .. Len(Loads) : i \in 1 .. n \/ i \in n + 1 .. n + m
  BY <1>1, <1>2
<1>8. ASSUME NEW i \in 2 .. Len(Loads)
      PROVE  \/ \E p \in registered, o \in Outcomes : Loads[i] = ProviderLoad(p, o)
             \/ \E t \in Totals \union {"aiAgain"} : Loads[i] = TotalLoad(t)
  <2>1. CASE i \in 2 .. n
    BY <2>1, <1>1
  <2>2. CASE i \in n + 1 .. n + m
    BY <2>2, <1>2, <1>5
  <2> QED BY <2>1, <2>2, <1>1, <1>2
<1>9. ASSUME NEW i \in 1 .. Len(Loads), NEW j \in 1 .. Len(Loads), i < j, Loads[i].kind = "total"
      PROVE  Loads[j].kind = "total" /\ i \in n + 1 .. n + m /\ j \in n + 1 .. n + m
  <2>1. i \in n + 1 .. n + m
    BY <1>4, <1>7, <1>9
  <2>2. j \in n + 1 .. n + m
    BY <2>1, <1>1, <1>2, <1>9
  <2> QED BY <2>1, <2>2, <1>6
<1>10. ASSUME NEW k \in 1 .. m PROVE \E i \in 1 .. Len(Loads) : Loads[i] = TotalLoad(names[k])
  <2>1. n + k \in 1 .. Len(Loads)
    BY <1>1, <1>2
  <2> QED BY <2>1, <1>1
<1>11. ASSUME NEW i \in 1 .. Len(Loads), NEW j \in 1 .. Len(Loads), NEW t, NEW u,
              i < j, Loads[i] = TotalLoad(t), Loads[j] = TotalLoad(u)
       PROVE  \E k, l \in 1 .. m : k < l /\ names[k] = t /\ names[l] = u
  <2>1. i \in n + 1 .. n + m /\ j \in n + 1 .. n + m
    <3>1. Loads[i].kind = "total"
      BY <1>11, KindsDiffer
    <3> QED BY <3>1, <1>9, <1>11
  <2>2. i - n \in 1 .. m /\ j - n \in 1 .. m /\ i - n < j - n
    BY <2>1, <1>1, <1>2, <1>11
  <2>3. names[i - n] = t /\ names[j - n] = u
    BY <2>1, <1>6, <1>11, KindsDiffer
  <2> QED BY <2>2, <2>3
<1>12. \A i, j \in 1 .. Len(Loads) :
          i < j /\ Loads[i].kind = "total" => Loads[j].kind = "total"
  BY <1>9
<1>13. \A k \in 1 .. Len(names) : \E i \in 1 .. Len(Loads) : Loads[i] = TotalLoad(names[k])
  BY <1>10 DEF m
<1>14. \A i, j \in 1 .. Len(Loads), t, u \in Totals \union {"aiAgain"} :
          i < j /\ Loads[i] = TotalLoad(t) /\ Loads[j] = TotalLoad(u) =>
             \E k, l \in 1 .. Len(names) : k < l /\ names[k] = t /\ names[l] = u
  BY <1>11 DEF m
<1>15. Loads[1] = UsersLoad
  BY <1>1
<1>16. \A i \in 2 .. Len(Loads) :
          \/ \E p \in registered, o \in Outcomes : Loads[i] = ProviderLoad(p, o)
          \/ \E t \in Totals \union {"aiAgain"} : Loads[i] = TotalLoad(t)
  BY <1>8
<1> QED BY <1>3, <1>12, <1>13, <1>14, <1>15, <1>16

\* What the sums rest on: the providers come before the totals, and the texts
\* before the requests.
LEMMA LoadsFacts ==
  ASSUME life \in Lives, Reading
  PROVE  /\ Len(Loads) \in Nat \ {0}
         /\ DOMAIN Loads = 1 .. Len(Loads)
         /\ Loads[1] = UsersLoad
         /\ \A i \in 2 .. Len(Loads) :
               \/ \E p \in registered, o \in Outcomes : Loads[i] = ProviderLoad(p, o)
               \/ \E t \in Totals \union {"aiAgain"} : Loads[i] = TotalLoad(t)
         /\ \A i, j \in 1 .. Len(Loads) :
               i < j /\ Loads[i].kind = "total" => Loads[j].kind = "total"
         /\ \A t \in {"classic", "ai", "questions", "ok", "error"} :
               \E i \in 1 .. Len(Loads) : Loads[i] = TotalLoad(t)
         /\ reader.does = "snapshot" => \E i \in 1 .. Len(Loads) : Loads[i] = TotalLoad("aiAgain")
         /\ \A i, j \in 1 .. Len(Loads) :
               i < j /\ Loads[i] = TotalLoad("ok") =>
                  /\ reader.does = "snapshot" =>
                        Loads[j] \notin {TotalLoad("aiAgain"), TotalLoad("questions")}
                  /\ reader.does = "export" => Loads[j] # TotalLoad("ai")
<1>0. {"ok", "aiAgain", "questions", "ai"} \subseteq Totals \union {"aiAgain"}
  BY DEF Totals
<1>1. CASE reader.does = "snapshot"
  <2> DEFINE names == SnapshotNames
  <2>1. Lists(names)
    BY <1>1 DEF Lists, Loads, SnapshotLoads, SnapshotNames, UsersLoad
  <2>2. names \in Seq(Totals \union {"aiAgain"}) /\ Len(names) = 11
    BY DEF SnapshotNames, Totals
  <2>3. /\ names[1] = "classic" /\ names[2] = "ai" /\ names[3] = "aiAgain"
        /\ names[4] = "questions" /\ names[7] = "ok" /\ names[8] = "error"
        /\ \A k \in 1 .. 11 : names[k] = "ok" => k = 7
        /\ \A k \in 8 .. 11 : names[k] # "aiAgain" /\ names[k] # "questions"
    BY DEF SnapshotNames
  <2> HIDE DEF names
  <2>4. \A t \in {"classic", "ai", "aiAgain", "questions", "ok", "error"} :
           \E k \in 1 .. Len(names) : names[k] = t
    BY <2>2, <2>3
  <2>5. /\ Len(Loads) \in Nat \ {0}
        /\ DOMAIN Loads = 1 .. Len(Loads)
        /\ Loads[1] = UsersLoad
        /\ \A i \in 2 .. Len(Loads) :
              \/ \E p \in registered, o \in Outcomes : Loads[i] = ProviderLoad(p, o)
              \/ \E t \in Totals \union {"aiAgain"} : Loads[i] = TotalLoad(t)
        /\ \A i, j \in 1 .. Len(Loads) :
              i < j /\ Loads[i].kind = "total" => Loads[j].kind = "total"
    BY <2>1, <2>2, LoadsShape
  <2>6. \A k \in 1 .. Len(names) : \E i \in 1 .. Len(Loads) : Loads[i] = TotalLoad(names[k])
    BY <2>1, <2>2, LoadsShape
  <2>7. \A i, j \in 1 .. Len(Loads), t, u \in Totals \union {"aiAgain"} :
           i < j /\ Loads[i] = TotalLoad(t) /\ Loads[j] = TotalLoad(u) =>
              \E k, l \in 1 .. Len(names) : k < l /\ names[k] = t /\ names[l] = u
    BY <2>1, <2>2, LoadsShape
  <2>8. \A t \in {"classic", "ai", "aiAgain", "questions", "ok", "error"} :
           \E i \in 1 .. Len(Loads) : Loads[i] = TotalLoad(t)
    <3> SUFFICES ASSUME NEW t \in {"classic", "ai", "aiAgain", "questions", "ok", "error"}
                 PROVE  \E i \in 1 .. Len(Loads) : Loads[i] = TotalLoad(t)
      OBVIOUS
    <3>1. PICK k \in 1 .. Len(names) : names[k] = t
      BY <2>4
    <3>2. \E i \in 1 .. Len(Loads) : Loads[i] = TotalLoad(names[k])
      BY <2>6
    <3> QED BY <3>1, <3>2
  <2>9. ASSUME NEW t \in {"aiAgain", "questions"}, NEW k \in 1 .. Len(names),
               NEW l \in 1 .. Len(names), k < l, names[k] = "ok", names[l] = t
        PROVE  FALSE
    BY <2>2, <2>3, <2>9
  <2>10. \A i, j \in 1 .. Len(Loads) :
           i < j /\ Loads[i] = TotalLoad("ok") =>
              Loads[j] \notin {TotalLoad("aiAgain"), TotalLoad("questions")}
    BY <1>0, <2>7, <2>9
  <2> QED BY <1>1, <2>5, <2>8, <2>10
<1>2. CASE reader.does = "export"
  <2> DEFINE names == ExportNames
  <2>1. Lists(names)
    BY <1>2 DEF Lists, Loads, ExportLoads, ExportNames, UsersLoad
  <2>2. names \in Seq(Totals \union {"aiAgain"}) /\ Len(names) = 10
    BY DEF ExportNames, Totals
  <2>3. /\ names[1] = "classic" /\ names[2] = "ai" /\ names[3] = "ok" /\ names[4] = "error"
        /\ names[10] = "questions"
        /\ \A k \in 1 .. 10 : names[k] = "ok" => k = 3
        /\ \A k \in 4 .. 10 : names[k] # "ai"
    BY DEF ExportNames
  <2> HIDE DEF names
  <2>4. \A t \in {"classic", "ai", "questions", "ok", "error"} :
           \E k \in 1 .. Len(names) : names[k] = t
    BY <2>2, <2>3
  <2>5. /\ Len(Loads) \in Nat \ {0}
        /\ DOMAIN Loads = 1 .. Len(Loads)
        /\ Loads[1] = UsersLoad
        /\ \A i \in 2 .. Len(Loads) :
              \/ \E p \in registered, o \in Outcomes : Loads[i] = ProviderLoad(p, o)
              \/ \E t \in Totals \union {"aiAgain"} : Loads[i] = TotalLoad(t)
        /\ \A i, j \in 1 .. Len(Loads) :
              i < j /\ Loads[i].kind = "total" => Loads[j].kind = "total"
    BY <2>1, <2>2, LoadsShape
  <2>6. \A k \in 1 .. Len(names) : \E i \in 1 .. Len(Loads) : Loads[i] = TotalLoad(names[k])
    BY <2>1, <2>2, LoadsShape
  <2>7. \A i, j \in 1 .. Len(Loads), t, u \in Totals \union {"aiAgain"} :
           i < j /\ Loads[i] = TotalLoad(t) /\ Loads[j] = TotalLoad(u) =>
              \E k, l \in 1 .. Len(names) : k < l /\ names[k] = t /\ names[l] = u
    BY <2>1, <2>2, LoadsShape
  <2>8. \A t \in {"classic", "ai", "questions", "ok", "error"} :
           \E i \in 1 .. Len(Loads) : Loads[i] = TotalLoad(t)
    <3> SUFFICES ASSUME NEW t \in {"classic", "ai", "questions", "ok", "error"}
                 PROVE  \E i \in 1 .. Len(Loads) : Loads[i] = TotalLoad(t)
      OBVIOUS
    <3>1. PICK k \in 1 .. Len(names) : names[k] = t
      BY <2>4
    <3>2. \E i \in 1 .. Len(Loads) : Loads[i] = TotalLoad(names[k])
      BY <2>6
    <3> QED BY <3>1, <3>2
  <2>9. ASSUME NEW k \in 1 .. Len(names), NEW l \in 1 .. Len(names),
               k < l, names[k] = "ok", names[l] = "ai"
        PROVE  FALSE
    BY <2>2, <2>3, <2>9
  <2>10. \A i, j \in 1 .. Len(Loads) :
           i < j /\ Loads[i] = TotalLoad("ok") => Loads[j] # TotalLoad("ai")
    BY <1>0, <2>7, <2>9
  <2> QED BY <1>2, <2>5, <2>8, <2>10
<1> QED BY <1>1, <1>2 DEF Reading

-----------------------------------------------------------------------------
\* Where a handler is before and after one of its updates.
LEMMA CallType ==
  ASSUME NEW h \in Handlers, pc[h] \in DOMAIN Calls[h]
  PROVE  CallOf(h) \in RecorderCalls
<1>1. Calls[h] \in Seq(RecorderCalls)
  BY StatsAssumption
<1> QED BY <1>1, LenProperties DEF CallOf

LEMMA UpdateFacts ==
  ASSUME StatsTypes, Places, NEW h \in Handlers, Update(h)
  PROVE  /\ pc[h] \in 1 .. Len(Calls[h]) /\ Len(Calls[h]) \in Nat
         /\ CallOf(h) \in RecorderCalls
         /\ pc' \in [Handlers -> Nat] /\ step' \in [Handlers -> {1, 2}]
         /\ Places'
         /\ \A g \in Handlers : g # h => pc'[g] = pc[g] /\ step'[g] = step[g]
         /\ IF step[h] = 1 /\ Len(UpdatesOf(CallOf(h))) = 2
            THEN pc'[h] = pc[h] /\ step'[h] = 2
            ELSE pc'[h] = pc[h] + 1 /\ step'[h] = 1
<1>1. pc[h] \in 1 .. Len(Calls[h]) /\ Len(Calls[h]) \in Nat
  <2>1. Calls[h] \in Seq(RecorderCalls)
    BY StatsAssumption
  <2> QED BY <2>1, LenProperties DEF Update
<1>2. CallOf(h) \in RecorderCalls
  BY CallType DEF Update
<1>3. step[h] \in {1, 2} /\ Len(UpdatesOf(CallOf(h))) \in {1, 2}
  BY <1>2, CallFacts DEF StatsTypes
<1>4. step[h] = 2 => Len(UpdatesOf(CallOf(h))) = 2
  BY DEF Places
<1>5. CASE step[h] = 1 /\ Len(UpdatesOf(CallOf(h))) = 2
  <2>1. step' = [step EXCEPT ![h] = 2] /\ pc' = pc
    BY <1>5 DEF Update
  <2>2. /\ pc' \in [Handlers -> Nat] /\ step' \in [Handlers -> {1, 2}]
        /\ \A g \in Handlers : g # h => pc'[g] = pc[g] /\ step'[g] = step[g]
        /\ pc'[h] = pc[h] /\ step'[h] = 2
    BY <2>1 DEF StatsTypes
  <2>3. Places'
    BY <1>5, <2>1, <2>2 DEF Places, CallOf, Update
  <2> QED BY <1>1, <1>2, <1>5, <2>2, <2>3
<1>6. CASE ~(step[h] = 1 /\ Len(UpdatesOf(CallOf(h))) = 2)
  <2>0. ~(step[h] < Len(UpdatesOf(CallOf(h))))
    <3> DEFINE n == Len(UpdatesOf(CallOf(h)))
               s == step[h]
    <3>1. s \in {1, 2} /\ n \in {1, 2} /\ (s = 2 => n = 2) /\ ~(s = 1 /\ n = 2)
      BY <1>3, <1>4, <1>6
    <3> HIDE DEF n, s
    <3>2. ~(s < n)
      BY <3>1
    <3> QED BY <3>2 DEF n, s
  <2>1. step' = [step EXCEPT ![h] = 1] /\ pc' = [pc EXCEPT ![h] = @ + 1]
    BY <2>0 DEF Update
  <2>2. /\ pc' \in [Handlers -> Nat] /\ step' \in [Handlers -> {1, 2}]
        /\ \A g \in Handlers : g # h => pc'[g] = pc[g] /\ step'[g] = step[g]
        /\ pc'[h] = pc[h] + 1 /\ step'[h] = 1
    BY <2>1 DEF StatsTypes
  <2>3. Places'
    BY <1>1, <2>2 DEF Places, CallOf
  <2> QED BY <1>1, <1>2, <1>6, <2>2, <2>3
<1> QED BY <1>5, <1>6

\* The first update of a call is its total.
LEMMA BumpTotalAt ==
  ASSUME StatsTypes, Places, NEW h \in Handlers, BumpTotal(h)
  PROVE  /\ step[h] = 1
         /\ UpdatesOf(CallOf(h))[1].name \in Totals
         /\ totals' = [totals EXCEPT ![UpdatesOf(CallOf(h))[1].name] = @ + 1]
         /\ \A i \in DOMAIN Calls[h] : Totalled(h, i)' <=> Totalled(h, i) \/ i = pc[h]
<1>1. Update(h) /\ UpdateOf(h).kind = "total"
  BY DEF BumpTotal
<1>2. CallOf(h) \in RecorderCalls
  BY <1>1, UpdateFacts
<1>3. step[h] = 1
  <2>1. CASE step[h] = 2
    <3>1. Len(UpdatesOf(CallOf(h))) = 2
      BY <2>1 DEF Places
    <3>2. UpdatesOf(CallOf(h))[2].kind \in {"user", "provider"}
      BY <1>2, <3>1, SecondUpdate
    <3> QED BY <1>1, <2>1, <3>2 DEF UpdateOf
  <2> QED BY <2>1 DEF StatsTypes
<1>4. UpdateOf(h) = UpdatesOf(CallOf(h))[1]
  BY <1>3 DEF UpdateOf
<1>5. \A i \in DOMAIN Calls[h] : Totalled(h, i)' <=> Totalled(h, i) \/ i = pc[h]
  <2>1. Calls[h] \in Seq(RecorderCalls)
    BY StatsAssumption
  <2>2. \A i \in DOMAIN Calls[h] : i \in Nat
    BY <2>1, LenProperties
  <2> QED BY <1>1, <1>3, <2>2, UpdateFacts DEF Totalled
<1> QED BY <1>2, <1>3, <1>4, <1>5, CallFacts DEF BumpTotal

\* The second update of a call, if it has one, is a user's or a provider's.
LEMMA SecondAt ==
  ASSUME StatsTypes, Places, NEW h \in Handlers, Update(h), UpdateOf(h).kind # "total"
  PROVE  /\ step[h] = 2
         /\ Len(UpdatesOf(CallOf(h))) = 2
         /\ UpdateOf(h) = UpdatesOf(CallOf(h))[2]
         /\ pc'[h] = pc[h] + 1 /\ step'[h] = 1
         /\ \A g \in Handlers : \A i \in DOMAIN Calls[g] : Totalled(g, i)' <=> Totalled(g, i)
<1>1. CallOf(h) \in RecorderCalls
  BY UpdateFacts
<1>2. step[h] = 2
  <2>1. CASE step[h] = 1
    BY <1>1, <2>1, CallFacts DEF UpdateOf
  <2> QED BY <2>1 DEF StatsTypes
<1>3. pc'[h] = pc[h] + 1 /\ step'[h] = 1
  BY <1>2, UpdateFacts
<1>4. ASSUME NEW g \in Handlers, NEW i \in DOMAIN Calls[g]
      PROVE  Totalled(g, i)' <=> Totalled(g, i)
  <2>1. Calls[g] \in Seq(RecorderCalls)
    BY StatsAssumption
  <2>2. i \in Nat /\ pc[g] \in Nat
    BY <2>1, LenProperties DEF StatsTypes
  <2>3. CASE g = h
    BY <1>2, <1>3, <2>2, <2>3 DEF Totalled
  <2>4. CASE g # h
    BY <2>4, UpdateFacts DEF Totalled
  <2> QED BY <2>3, <2>4
<1> QED BY <1>2, <1>3, <1>4 DEF Places, UpdateOf

-----------------------------------------------------------------------------
\* Who is between two updates.
LEMMA MidFinite ==
  /\ IsFiniteSet(MidUser) /\ Cardinality(MidUser) \in Nat
  /\ \A ok : IsFiniteSet(MidRequest(ok)) /\ Cardinality(MidRequest(ok)) \in Nat
  /\ \A q : IsFiniteSet(Undelivered(q)) /\ Cardinality(Undelivered(q)) \in Nat
<1>1. IsFiniteSet(Handlers)
  BY StatsAssumption
<1>2. MidUser \in SUBSET Handlers
  BY DEF MidUser
<1>3. \A ok : MidRequest(ok) \in SUBSET Handlers
  BY DEF MidRequest
<1>4. \A q : Undelivered(q) \in SUBSET Handlers
  BY DEF Undelivered
<1> QED BY <1>1, <1>2, <1>3, <1>4, FS_Subset, FS_CardinalityType

LEMMA MidAfterTotal ==
  ASSUME StatsTypes, Places, NEW h \in Handlers, BumpTotal(h)
  PROVE  /\ h \notin MidUser
         /\ MidUser' = IF CallOf(h).name \in {"RecordAnek", "RecordQuestionAnswered"}
                       THEN MidUser \union {h} ELSE MidUser
         /\ \A ok \in BOOLEAN :
               /\ h \notin MidRequest(ok)
               /\ MidRequest(ok)' = IF CallOf(h).name = "ObserveRequest" /\ CallOf(h).ok = ok
                                    THEN MidRequest(ok) \union {h} ELSE MidRequest(ok)
<1>1. step[h] = 1 /\ Update(h) /\ CallOf(h) \in RecorderCalls
  BY BumpTotalAt, UpdateFacts DEF BumpTotal
<1>2. \A g \in Handlers : g # h => pc'[g] = pc[g] /\ step'[g] = step[g]
  BY <1>1, UpdateFacts
<1>3. \A n : \A g \in Handlers : g # h => (Between(g, n)' <=> Between(g, n)) /\ CallOf(g)' = CallOf(g)
  BY <1>2 DEF Between, CallOf
<1>4. \A n : ~Between(h, n)
  BY <1>1 DEF Between
<1>5. \A n \in {"RecordAnek", "RecordQuestionAnswered", "ObserveRequest"} :
         Between(h, n)' <=> CallOf(h).name = n
  BY <1>1, UpdateFacts, CallFacts DEF Between, CallOf
<1>6. CallOf(h).name = "ObserveRequest" => CallOf(h)' = CallOf(h)
  BY <1>1, UpdateFacts, CallFacts DEF CallOf
<1>7. /\ h \notin MidUser
      /\ MidUser' = IF CallOf(h).name \in {"RecordAnek", "RecordQuestionAnswered"}
                    THEN MidUser \union {h} ELSE MidUser
  BY <1>3, <1>4, <1>5 DEF MidUser
<1>8. ASSUME NEW ok \in BOOLEAN
      PROVE  /\ h \notin MidRequest(ok)
             /\ MidRequest(ok)' = IF CallOf(h).name = "ObserveRequest" /\ CallOf(h).ok = ok
                                  THEN MidRequest(ok) \union {h} ELSE MidRequest(ok)
  BY <1>3, <1>4, <1>5, <1>6 DEF MidRequest
<1> QED BY <1>7, <1>8

LEMMA MidAfterSecond ==
  ASSUME StatsTypes, Places, NEW h \in Handlers, Update(h), UpdateOf(h).kind # "total"
  PROVE  /\ MidUser' = MidUser \ {h}
         /\ h \in MidUser <=> UpdateOf(h).kind = "user"
         /\ \A ok \in BOOLEAN :
               /\ MidRequest(ok)' = MidRequest(ok) \ {h}
               /\ h \in MidRequest(ok) <=> UpdateOf(h).kind = "provider" /\ CallOf(h).ok = ok
         /\ \A q : Undelivered(q)' = Undelivered(q)
<1>1. /\ step[h] = 2 /\ step'[h] = 1 /\ UpdateOf(h) = UpdatesOf(CallOf(h))[2]
      /\ Len(UpdatesOf(CallOf(h))) = 2 /\ CallOf(h) \in RecorderCalls
  BY SecondAt, UpdateFacts
<1>2. \A g \in Handlers : g # h => pc'[g] = pc[g] /\ step'[g] = step[g]
  BY UpdateFacts
<1>3. \A n : \A g \in Handlers : g # h => (Between(g, n)' <=> Between(g, n)) /\ CallOf(g)' = CallOf(g)
  BY <1>2 DEF Between, CallOf
<1>4. \A n : ~Between(h, n)'
  BY <1>1 DEF Between
<1>5. /\ UpdateOf(h).kind = "user" <=> CallOf(h).name \in {"RecordAnek", "RecordQuestionAnswered"}
      /\ UpdateOf(h).kind = "provider" <=> CallOf(h).name = "ObserveRequest"
  BY <1>1, SecondUpdate
<1>6. MidUser' = MidUser \ {h} /\ (h \in MidUser <=> UpdateOf(h).kind = "user")
  BY <1>1, <1>3, <1>4, <1>5 DEF MidUser, Between
<1>7. ASSUME NEW ok \in BOOLEAN
      PROVE  /\ MidRequest(ok)' = MidRequest(ok) \ {h}
             /\ h \in MidRequest(ok) <=> UpdateOf(h).kind = "provider" /\ CallOf(h).ok = ok
  BY <1>1, <1>3, <1>4, <1>5 DEF MidRequest, Between
<1>8. ASSUME NEW q PROVE Undelivered(q)' = Undelivered(q)
  <2>1. ASSUME NEW g \in Handlers, NEW i \in DOMAIN Calls[g], NEW j \in 1 .. i - 1
        PROVE  j \in DOMAIN Calls[g]
    <3>1. Calls[g] \in Seq(RecorderCalls)
      BY StatsAssumption
    <3> QED BY <3>1, LenProperties
  <2> QED BY <2>1, SecondAt DEF Undelivered
<1> QED BY <1>6, <1>7, <1>8

-----------------------------------------------------------------------------
\* The bot starts, for the first time or from what was saved.
LEMMA NobodyFacts == Nobody \in Tables /\ Sum(Nobody) = 0
BY SumEmpty DEF Nobody, Tables

LEMMA NoAttemptsFacts ==
  ASSUME NEW D \in SUBSET Providers
  PROVE  /\ NoAttempts(D) \in [D -> [Outcomes -> Nat]]
         /\ NoAttempts(D) \in Attempts
         /\ \A O \in SUBSET Outcomes : Counted(NoAttempts(D), O) = 0
<1>1. NoAttempts(D) \in [D -> [Outcomes -> Nat]]
  BY DEF NoAttempts
<1>2. ASSUME NEW O \in SUBSET Outcomes PROVE Counted(NoAttempts(D), O) = 0
  <2> DEFINE cells == [po \in D \X O |-> NoAttempts(D)[po[1]][po[2]]]
  <2>1. cells \in [D \X O -> Nat] /\ \A po \in D \X O : cells[po] = 0
    BY DEF NoAttempts
  <2>2. DOMAIN NoAttempts(D) = D
    BY <1>1
  <2> HIDE DEF cells
  <2>3. Sum(cells) = 0
    BY <2>1, SumZero
  <2> QED BY <2>2, <2>3 DEF Counted, cells
<1> QED BY <1>1, <1>2 DEF Attempts

LEMMA NothingFacts ==
  /\ Nothing \in State
  /\ Consistent(Nothing)
  /\ Nothing.users = Nobody
  /\ DOMAIN Nothing.providers = {}
  /\ \A t \in Totals \union {"aiAgain"} : Nothing.totals[t] = 0
<1>1. /\ Nothing.totals = NoTotals /\ Nothing.users = Nobody
      /\ Nothing.providers = NoAttempts({})
  BY DEF Nothing
<1>2. \A t \in Totals \union {"aiAgain"} : NoTotals[t] = 0
  BY DEF NoTotals
<1>3. Nothing \in State
  BY <1>1, NobodyFacts, NoAttemptsFacts DEF State, Nothing, NoTotals
<1>4. DOMAIN NoAttempts({}) = {}
  BY DEF NoAttempts
<1>5. Consistent(Nothing)
  <2>1. Sum(Nothing.users) = 0 /\ Delivered(Nothing.totals) = 0
    BY <1>1, <1>2, NobodyFacts DEF Delivered, Totals
  <2>2. \A ok \in BOOLEAN : /\ Counted(Nothing.providers, OutcomesOf(ok)) = 0
                            /\ Nothing.totals[RequestTotal(ok)] = 0
    BY <1>1, <1>2, NoAttemptsFacts, OutcomesFacts
  <2>3. Nothing.totals["ai"] = 0 /\ Nothing.totals["ok"] = 0
    BY <1>1, <1>2 DEF Totals
  <2> QED BY <2>1, <2>2, <2>3 DEF Consistent
<1> QED BY <1>1, <1>2, <1>3, <1>4, <1>5

LEMMA InitInv == Init => Inv
<1> SUFFICES ASSUME Init PROVE Inv
  OBVIOUS
<1>1. life = 1 /\ life \in Lives
  BY StatsAssumption DEF Init, Lives
<1>2. /\ totals = [t \in Totals |-> 0] /\ providers = NoAttempts(registered) /\ perUser = Nobody
      /\ mu = FALSE /\ reader = Idle /\ seen = Nothing /\ file = Nothing
      /\ pc = [h \in Handlers |-> 1] /\ step = [h \in Handlers |-> 1]
  BY DEF Init
<1>3. registered \in SUBSET Providers
  BY <1>1, RegisteredFinite DEF registered
<1>4. /\ providers \in [registered -> [Outcomes -> Nat]]
      /\ \A O \in SUBSET Outcomes : Counted(providers, O) = 0
  BY <1>2, <1>3, NoAttemptsFacts
<1>5. perUser \in Tables /\ Sum(perUser) = 0
  BY <1>2, NobodyFacts
<1>6. seen \in State /\ file \in State /\ FileInv
  BY <1>2, NothingFacts DEF FileInv
<1>7. StatsTypes
  <2>1. reader \in [does : {"nothing", "snapshot", "export", "stopped"}, at : Nat]
    BY <1>2 DEF Idle
  <2>2. totals \in [Totals -> Nat]
    BY <1>2
  <2> QED BY <1>1, <1>2, <1>4, <1>5, <1>6, <2>1, <2>2 DEF StatsTypes
<1>8. ~Reading /\ reader.does # "snapshot" /\ reader.does # "export"
  BY <1>2 DEF Reading, Idle
<1>9. Places
  <2>1. \A h \in Handlers : Calls[h] \in Seq(RecorderCalls)
    BY StatsAssumption
  <2>2. \A h \in Handlers : 1 \in 1 .. Len(Calls[h]) + 1
    BY <2>1, LenProperties
  <2> QED BY <1>2, <2>2 DEF Places
<1>10. MidUser = {} /\ \A ok : MidRequest(ok) = {}
  BY <1>2 DEF MidUser, MidRequest, Between
<1>11. \A q : Undelivered(q) = {}
  <2>1. \A h \in Handlers : \A i \in DOMAIN Calls[h] : \A j \in 1 .. i - 1 : ~Totalled(h, j)
    <3>1. \A h \in Handlers : Calls[h] \in Seq(RecorderCalls)
      BY StatsAssumption
    <3> QED BY <1>2, <3>1, LenProperties DEF Totalled
  <2> QED BY <2>1 DEF Undelivered
<1>12. Cardinality(MidUser) = 0 /\ \A x : Cardinality(MidRequest(x)) = 0 /\ Cardinality(Undelivered(x)) = 0
  BY <1>10, <1>11, FS_EmptySet
<1>13. \A t \in Totals : totals[t] = 0
  BY <1>2
<1>14. UsersInv
  BY <1>5, <1>12, <1>13 DEF UsersInv, Delivered, Totals
<1>15. RequestsInv
  BY <1>4, <1>12, <1>13, OutcomesFacts DEF RequestsInv
<1>16. AnswersInv
  BY <1>12, <1>13 DEF AnswersInv, Answers, Totals
<1>17. ReaderInv
  <2>1. \A t \in Totals \union {"aiAgain"} : Source(t) \in Totals
    BY DEF Source, Totals
  <2>2. \A t \in Totals \union {"aiAgain"} : seen.totals[t] <= totals[Source(t)]
    BY <1>2, <1>13, <2>1, NothingFacts
  <2>3. DOMAIN seen.providers = {}
    BY <1>2, NothingFacts
  <2> QED BY <1>2, <1>8, <2>2, <2>3 DEF ReaderInv, Idle
<1> QED BY <1>6, <1>7, <1>8, <1>9, <1>14, <1>15, <1>16, <1>17
        DEF Inv, SeenUsersInv, SeenRequestsInv, SeenAnswersInv, RowsInv

-----------------------------------------------------------------------------
\* One recording in the table of users: one more in its rows.
LEMMA OneMoreRow ==
  ASSUME perUser \in Tables, NEW user \in Users, Board!RecordUser(user)
  PROVE  perUser' \in Tables /\ Sum(perUser') = Sum(perUser) + 1
<1> DEFINE D == DOMAIN perUser
<1>1. IsFiniteSet(D) /\ D \subseteq Users /\ perUser \in [D -> Nat] /\ Sum(perUser) \in Nat
  BY TableFacts
<1>2. CASE Board!Bump(user)
  <2>1. user \in D /\ perUser' = [perUser EXCEPT ![user] = @ + 1]
    BY <1>2 DEF Board!Bump, Board!Tracked
  <2>2. perUser' \in [D -> Nat]
    BY <1>1, <2>1
  <2> HIDE DEF D
  <2>3. Sum([perUser EXCEPT ![user] = @ + 1]) = Sum(perUser) + 1
    BY <1>1, <2>1, SumBump
  <2> QED BY <1>1, <2>1, <2>2, <2>3, TableType
<1>3. CASE Board!Replace(user)
  <2>1. user \notin D
    BY <1>3 DEF Board!Replace, Board!Tracked
  <2>2. PICK evicted \in D :
           perUser' = [u \in (D \ {evicted}) \union {user} |->
                          IF u = user THEN perUser[evicted] + 1 ELSE perUser[u]]
    BY <1>3 DEF Board!Replace, Board!Tracked, Board!Least, Board!Seed
  <2> DEFINE Kept == D \ {evicted}
             rest == [u \in Kept |-> perUser[u]]
  <2>3. IsFiniteSet(Kept) /\ user \notin Kept
    BY <1>1, <2>1, FS_Subset
  <2>4. /\ rest \in [Kept -> Nat] /\ perUser[evicted] \in Nat
        /\ perUser' \in [Kept \union {user} -> Nat]
        /\ perUser'[user] = perUser[evicted] + 1
        /\ \A u \in Kept : perUser'[u] = rest[u]
    BY <1>1, <2>1, <2>2
  <2>5. Sum(perUser) = Sum(rest) + perUser[evicted]
    <3> HIDE DEF D
    <3> QED BY <1>1, SumWithout
  <2>6. Kept \union {user} \in SUBSET Users
    BY <1>1
  <2> HIDE DEF D, Kept, rest
  <2>7. Sum(perUser') = Sum(rest) + perUser'[user]
    BY <2>3, <2>4, SumSplit
  <2>8. Sum(rest) \in Nat
    BY <2>3, <2>4, SumType
  <2>9. Sum(perUser') = Sum(perUser) + 1
    BY <2>4, <2>5, <2>7, <2>8
  <2> QED BY <2>4, <2>6, <2>9, TableType
<1>4. CASE Board!Add(user)
  <2>1. /\ user \notin D
        /\ perUser' = [u \in D \union {user} |-> IF u = user THEN 1 ELSE perUser[u]]
    BY <1>4 DEF Board!Add, Board!Tracked
  <2>2. /\ perUser' \in [D \union {user} -> Nat] /\ perUser'[user] = 1
        /\ \A u \in D : perUser'[u] = perUser[u]
    BY <1>1, <2>1
  <2>3. D \union {user} \in SUBSET Users
    BY <1>1
  <2> HIDE DEF D
  <2>4. Sum(perUser') = Sum(perUser) + perUser'[user]
    <3>1. IsFiniteSet(D) /\ perUser \in [D -> Nat] /\ user \notin D
      BY <1>1, <2>1
    <3> QED BY <3>1, <2>2, SumSplit
  <2> QED BY <2>2, <2>3, <2>4, TableType
<1> QED BY <1>2, <1>3, <1>4 DEF Board!RecordUser

-----------------------------------------------------------------------------
\* What a reader has does not change when a handler counts on, and what it
\* would get only grows.
LEMMA Grows ==
  ASSUME Inv, StatsTypes', UNCHANGED <<reader, seen, file, life>>,
         \A t \in Totals : totals[t] <= totals'[t],
         \A p \in registered, o \in Outcomes : providers[p][o] <= providers'[p][o]
  PROVE  /\ ReaderInv' /\ FileInv'
         /\ SeenUsersInv' /\ SeenRequestsInv' /\ SeenAnswersInv'
<1>1. registered' = registered
  BY DEF registered
<1>2. Loads' = Loads
  BY DEF Loads, SnapshotLoads, ExportLoads, ProviderLoads, TotalLoads
<1>3. (Reading' <=> Reading) /\ \A t : Has(t)' <=> Has(t)
  BY <1>2 DEF Reading, Has
<1>4. seen.totals \in [Totals \union {"aiAgain"} -> Nat] /\ seen.providers \in Attempts
  BY DEF Inv, StatsTypes, State
<1>5. totals \in [Totals -> Nat] /\ totals' \in [Totals -> Nat]
  BY DEF Inv, StatsTypes
<1>6. DOMAIN seen.providers \subseteq registered
  BY NothingFacts DEF Inv, ReaderInv
<1>7. ReaderInv'
  <2>1. \A t \in Totals \union {"aiAgain"} : seen.totals'[t] <= totals'[Source(t)]
    <3> SUFFICES ASSUME NEW t \in Totals \union {"aiAgain"} PROVE seen.totals[t] <= totals'[Source(t)]
      OBVIOUS
    <3>1. Source(t) \in Totals
      BY DEF Source, Totals
    <3>2. seen.totals[t] <= totals[Source(t)]
      BY DEF Inv, ReaderInv
    <3>3. totals[Source(t)] <= totals'[Source(t)]
      BY <3>1
    <3>4. seen.totals[t] \in Nat /\ totals[Source(t)] \in Nat /\ totals'[Source(t)] \in Nat
      BY <1>4, <1>5, <3>1
    <3> QED BY <3>2, <3>3, <3>4
  <2>2. ASSUME NEW p \in DOMAIN seen.providers, NEW o \in Outcomes
        PROVE  seen.providers[p][o] <= providers'[p][o]
    <3>1. p \in registered
      BY <1>6
    <3>2. seen.providers[p][o] \in Nat
      BY <1>4, AttemptsFacts
    <3>3. providers[p][o] \in Nat /\ providers'[p][o] \in Nat
      BY <1>1, <3>1 DEF Inv, StatsTypes
    <3>4. seen.providers[p][o] <= providers[p][o]
      BY DEF Inv, ReaderInv
    <3>5. providers[p][o] <= providers'[p][o]
      BY <3>1
    <3> QED BY <3>2, <3>3, <3>4, <3>5
  <2> QED BY <1>1, <1>2, <1>3, <2>1, <2>2 DEF Inv, ReaderInv
<1>8. SeenUsersInv'
  <2> SUFFICES ASSUME Reading
               PROVE  Sum(seen.users) <= Now("classic")' + Now("ai")' + Now("questions")'
    BY <1>3 DEF SeenUsersInv
  <2>1. \A t \in {"classic", "ai", "questions"} :
           Now(t) <= Now(t)' /\ Now(t) \in Nat /\ Now(t)' \in Nat
    <3> SUFFICES ASSUME NEW t \in {"classic", "ai", "questions"}
                 PROVE  Now(t) <= Now(t)' /\ Now(t) \in Nat /\ Now(t)' \in Nat
      OBVIOUS
    <3>1. t \in Totals
      BY DEF Totals
    <3>2. totals[t] <= totals'[t] /\ totals[t] \in Nat /\ totals'[t] \in Nat /\ seen.totals[t] \in Nat
      BY <1>4, <1>5, <3>1
    <3>3. Now(t) = (IF Has(t) THEN seen.totals[t] ELSE totals[t])
      BY DEF Now
    <3>4. Now(t)' = (IF Has(t) THEN seen.totals[t] ELSE totals'[t])
      BY <1>3 DEF Now
    <3> QED BY <3>2, <3>3, <3>4
  <2>2. Sum(seen.users) <= Now("classic") + Now("ai") + Now("questions")
    BY DEF Inv, SeenUsersInv
  <2>3. Sum(seen.users) \in Nat
    BY TableFacts DEF Inv, StatsTypes, State
  <2> QED BY <2>1, <2>2, <2>3
<1>9. SeenRequestsInv'
  BY <1>3 DEF Inv, SeenRequestsInv, Counted
<1>10. SeenAnswersInv'
  BY <1>3 DEF Inv, SeenAnswersInv, Answers
<1>11. FileInv'
  BY DEF Inv, FileInv, Consistent, Counted, Delivered
<1> QED BY <1>7, <1>8, <1>9, <1>10, <1>11

-----------------------------------------------------------------------------
\* A handler counts a call in its total.
LEMMA BumpTotalInv ==
  ASSUME Inv, NEW h \in Handlers, BumpTotal(h)
  PROVE  Inv'
<1> DEFINE c == CallOf(h)
           T == UpdatesOf(c)[1].name
<1>1. StatsTypes /\ Places /\ Update(h)
  BY DEF Inv, BumpTotal
<1>2. /\ step[h] = 1 /\ T \in Totals
      /\ totals' = [totals EXCEPT ![T] = @ + 1]
      /\ \A i \in DOMAIN Calls[h] : Totalled(h, i)' <=> Totalled(h, i) \/ i = pc[h]
  BY <1>1, BumpTotalAt
<1>3. /\ c \in RecorderCalls /\ pc[h] \in 1 .. Len(Calls[h])
      /\ pc' \in [Handlers -> Nat] /\ step' \in [Handlers -> {1, 2}] /\ Places'
      /\ \A g \in Handlers : g # h => pc'[g] = pc[g] /\ step'[g] = step[g]
  BY <1>1, UpdateFacts
<1>4. /\ T = "ok" <=> IsSuccess(c)
      /\ T = "error" <=> c.name = "ObserveRequest" /\ ~c.ok
      /\ \A t \in {"ai", "questions"} : T = t <=> TextTotal(c) = t
      /\ T \in {"classic", "ai", "questions"} <=> c.name \in {"RecordAnek", "RecordQuestionAnswered"}
  BY <1>3, CallFacts
<1>5. UNCHANGED <<providers, perUser, mu, reader, seen, file, life>>
  BY <1>1 DEF BumpTotal, Update, tableVars
<1>6. totals \in [Totals -> Nat] /\ totals' \in [Totals -> Nat]
  BY <1>1, <1>2 DEF StatsTypes
<1>7. \A t \in Totals : /\ totals[t] \in Nat
                        /\ totals'[t] = IF t = T THEN totals[t] + 1 ELSE totals[t]
  BY <1>2, <1>6
<1>8. c.name = "ObserveRequest" => c.ok \in BOOLEAN
  BY <1>3 DEF RecorderCalls
<1> HIDE DEF c, T
<1>9. StatsTypes'
  <2>1. registered' = registered
    BY <1>5 DEF registered
  <2> QED BY <1>1, <1>3, <1>5, <1>6, <2>1 DEF StatsTypes
<1>10. UsersInv'
  <2>1. /\ h \notin MidUser
        /\ MidUser' = IF c.name \in {"RecordAnek", "RecordQuestionAnswered"}
                      THEN MidUser \union {h} ELSE MidUser
    BY <1>1, MidAfterTotal DEF c
  <2>2. Cardinality(MidUser') = Cardinality(MidUser)
           + (IF c.name \in {"RecordAnek", "RecordQuestionAnswered"} THEN 1 ELSE 0)
    <3>1. Cardinality(MidUser) \in Nat /\ IsFiniteSet(MidUser)
      BY MidFinite
    <3>2. Cardinality(MidUser \union {h}) = Cardinality(MidUser) + 1
      BY <2>1, <3>1, FS_AddElement
    <3> QED BY <2>1, <3>1, <3>2
  <2>3. Delivered(totals') = Delivered(totals) + (IF T \in {"classic", "ai", "questions"} THEN 1 ELSE 0)
    BY <1>7 DEF Delivered, Totals
  <2>4. Delivered(totals) \in Nat
    BY <1>7 DEF Delivered, Totals
  <2>5. Sum(perUser) \in Nat /\ Cardinality(MidUser) \in Nat
    BY <1>1, TableFacts, MidFinite DEF StatsTypes
  <2>6. Sum(perUser) + Cardinality(MidUser) <= Delivered(totals)
    BY DEF Inv, UsersInv
  <2>7. Sum(perUser) + Cardinality(MidUser') <= Delivered(totals')
    <3>1. PICK d \in {0, 1} : /\ Cardinality(MidUser') = Cardinality(MidUser) + d
                              /\ Delivered(totals') = Delivered(totals) + d
      BY <1>4, <2>2, <2>3 DEF T
    <3> QED BY <3>1, <2>4, <2>5, <2>6
  <2> QED BY <1>5, <2>7 DEF UsersInv
<1>11. RequestsInv'
  <2> SUFFICES ASSUME NEW ok \in BOOLEAN
               PROVE  Counted(providers, OutcomesOf(ok)) + Cardinality(MidRequest(ok)')
                         <= totals'[RequestTotal(ok)]
    BY <1>5 DEF RequestsInv
  <2> DEFINE own == c.name = "ObserveRequest" /\ c.ok = ok
             d   == IF own THEN 1 ELSE 0
  <2>1. /\ h \notin MidRequest(ok)
        /\ MidRequest(ok)' = IF own THEN MidRequest(ok) \union {h} ELSE MidRequest(ok)
    BY <1>1, MidAfterTotal DEF c
  <2>2. Cardinality(MidRequest(ok)') = Cardinality(MidRequest(ok)) + d
    <3>1. Cardinality(MidRequest(ok)) \in Nat /\ IsFiniteSet(MidRequest(ok))
      BY MidFinite
    <3>2. Cardinality(MidRequest(ok) \union {h}) = Cardinality(MidRequest(ok)) + 1
      BY <2>1, <3>1, FS_AddElement
    <3> QED BY <2>1, <3>1, <3>2
  <2>3. T = RequestTotal(ok) <=> own
    BY <1>4, <1>8 DEF RequestTotal, IsSuccess
  <2>4. RequestTotal(ok) \in Totals
    BY OutcomesFacts
  <2>5. totals'[RequestTotal(ok)] = totals[RequestTotal(ok)] + d
    BY <1>7, <2>3, <2>4
  <2>6. Counted(providers, OutcomesOf(ok)) + Cardinality(MidRequest(ok)) <= totals[RequestTotal(ok)]
    BY DEF Inv, RequestsInv
  <2>7. totals[RequestTotal(ok)] \in Nat /\ Cardinality(MidRequest(ok)) \in Nat /\ d \in Nat
    BY <1>7, <2>4, MidFinite
  <2>8. Counted(providers, OutcomesOf(ok)) \in Nat
    <3>1. providers \in Attempts
      BY <1>1, RegisteredFinite DEF StatsTypes, Attempts, registered
    <3> QED BY <3>1, OutcomesFacts, CountedType
  <2> HIDE DEF d
  <2> QED BY <2>2, <2>5, <2>6, <2>7, <2>8
<1>12. AnswersInv'
  <2> SUFFICES ASSUME NEW q \in BOOLEAN, q => life = 1
               PROVE  Answers("ai", totals', q) + Cardinality(Undelivered(q)') <= totals'["ok"]
    BY <1>5 DEF AnswersInv
  <2> DEFINE U == Undelivered(q)
             V == Undelivered(q)'
  <2>1. Answers("ai", totals, q) + Cardinality(U) <= totals["ok"]
    BY DEF Inv, AnswersInv
  <2>2. IsFiniteSet(U) /\ Cardinality(U) \in Nat
    BY MidFinite
  <2>3. Answers("ai", totals, q) \in Nat /\ totals["ok"] \in Nat
    BY <1>7 DEF Answers, Totals
  <2>4. \A g \in Handlers \ {h} : g \in V <=> g \in U
    BY <1>3 DEF Undelivered, Totalled
  <2>5. U \subseteq Handlers /\ V \subseteq Handlers
    BY DEF Undelivered
  <2>6. Calls[h] \in Seq(RecorderCalls) /\ TextsAreAnswers(Calls[h]) /\ c = Calls[h][pc[h]]
    BY StatsAssumption DEF c, CallOf
  <2>7. DOMAIN Calls[h] = 1 .. Len(Calls[h]) /\ Len(Calls[h]) \in Nat /\ pc[h] \in DOMAIN Calls[h]
    BY <1>3, <2>6, LenProperties
  <2>8. TextTotals(q) \subseteq {"ai", "questions"} /\ "none" \notin TextTotals(q)
    BY DEF TextTotals
  <2>9. totals'["ok"] = totals["ok"] + (IF T = "ok" THEN 1 ELSE 0)
    BY <1>7 DEF Totals
  <2>10. Answers("ai", totals', q) = Answers("ai", totals, q) + (IF T \in TextTotals(q) THEN 1 ELSE 0)
    BY <1>7 DEF Answers, TextTotals, Totals
  <2>11. T \in TextTotals(q) <=> TextTotal(c) \in TextTotals(q)
    BY <1>4, <2>8 DEF T
  <2>12. CASE TextTotal(c) \in TextTotals(q)
    <3>1. IsText(c)
      BY <2>8, <2>12 DEF IsText
    <3>2. PICK j \in 1 .. pc[h] - 1 : IsSuccess(Calls[h][j])
      BY <2>6, <2>7, <3>1 DEF TextsAreAnswers
    <3>3. h \in U
      <4>1. Totalled(h, j) /\ ~Totalled(h, pc[h])
        BY <1>2, <2>7 DEF Totalled
      <4> QED BY <2>6, <2>7, <2>12, <3>2, <4>1 DEF Undelivered
    <3>4. h \notin V
      <4> SUFFICES ASSUME NEW i \in DOMAIN Calls[h], TextTotal(Calls[h][i]) \in TextTotals(q)
                   PROVE  Totalled(h, i)'
        BY DEF Undelivered
      <4>1. IsText(Calls[h][i])
        BY <2>8 DEF IsText
      <4>2. i = pc[h]
        BY <2>6, <2>7, <3>1, <4>1 DEF TextsAreAnswers
      <4> QED BY <1>2, <4>2
    <3>5. V = U \ {h}
      BY <2>4, <2>5, <3>3, <3>4
    <3>6. Cardinality(V) = Cardinality(U) - 1
      BY <2>2, <3>3, <3>5, FS_RemoveElement
    <3>7. T # "ok" /\ T \in TextTotals(q)
      BY <2>8, <2>11, <2>12
    <3> HIDE DEF U, V
    <3> QED BY <2>1, <2>2, <2>3, <2>9, <2>10, <3>6, <3>7 DEF U, V
  <2>13. CASE TextTotal(c) \notin TextTotals(q) /\ IsSuccess(c)
    <3>1. T = "ok" /\ T \notin TextTotals(q)
      BY <1>4, <2>11, <2>13 DEF T
    <3>2. V \subseteq U \union {h}
      BY <2>4, <2>5
    <3>3. Cardinality(V) <= Cardinality(U) + 1 /\ Cardinality(V) \in Nat
      <4>1. /\ IsFiniteSet(U \union {h})
            /\ Cardinality(U \union {h}) \in {Cardinality(U), Cardinality(U) + 1}
        BY <2>2, FS_AddElement
      <4>2. Cardinality(V) <= Cardinality(U \union {h}) /\ IsFiniteSet(V)
        BY <3>2, <4>1, FS_Subset
      <4>3. Cardinality(V) \in Nat
        BY <4>2, FS_CardinalityType
      <4> HIDE DEF U, V
      <4> QED BY <2>2, <4>1, <4>2, <4>3
    <3> HIDE DEF U, V
    <3> QED BY <2>1, <2>2, <2>3, <2>9, <2>10, <3>1, <3>3 DEF U, V
  <2>14. CASE TextTotal(c) \notin TextTotals(q) /\ ~IsSuccess(c)
    <3>1. T # "ok" /\ T \notin TextTotals(q)
      BY <1>4, <2>11, <2>14 DEF T
    <3>2. h \in V => h \in U
      <4> SUFFICES ASSUME NEW i \in DOMAIN Calls[h], TextTotal(Calls[h][i]) \in TextTotals(q),
                          ~Totalled(h, i)', NEW j \in 1 .. i - 1, IsSuccess(Calls[h][j]),
                          Totalled(h, j)'
                   PROVE  ~Totalled(h, i) /\ Totalled(h, j)
        BY DEF Undelivered
      <4>1. j \in DOMAIN Calls[h] /\ j # pc[h]
        BY <2>6, <2>7, <2>14
      <4> QED BY <1>2, <4>1
    <3>3. V \subseteq U
      BY <2>4, <2>5, <3>2
    <3>4. Cardinality(V) <= Cardinality(U) /\ Cardinality(V) \in Nat
      BY <2>2, <3>3, FS_Subset, FS_CardinalityType
    <3> HIDE DEF U, V
    <3> QED BY <2>1, <2>2, <2>3, <2>9, <2>10, <3>1, <3>4 DEF U, V
  <2> QED BY <2>12, <2>13, <2>14
<1>13. \A t \in Totals : totals[t] <= totals'[t]
  BY <1>7
<1>14. \A p \in registered, o \in Outcomes : providers[p][o] <= providers'[p][o]
  BY <1>1, <1>5 DEF StatsTypes
<1>15. /\ ReaderInv' /\ FileInv' /\ SeenUsersInv' /\ SeenRequestsInv' /\ SeenAnswersInv'
  BY <1>5, <1>9, <1>13, <1>14, Grows
<1>16. RowsInv'
  BY <1>5 DEF Inv, RowsInv
<1> QED BY <1>3, <1>9, <1>10, <1>11, <1>12, <1>15, <1>16 DEF Inv

\* A handler counts an attempt of a provider, whose request is in the total.
LEMMA BumpProviderInv ==
  ASSUME Inv, NEW h \in Handlers, BumpProvider(h)
  PROVE  Inv'
<1> DEFINE c == CallOf(h)
           p == c.provider
           o == UpdateOf(h).outcome
<1>1. StatsTypes /\ Places /\ Update(h) /\ UpdateOf(h).kind = "provider"
  BY DEF Inv, BumpProvider
<1>2. /\ c \in RecorderCalls /\ pc[h] \in 1 .. Len(Calls[h])
      /\ pc' \in [Handlers -> Nat] /\ step' \in [Handlers -> {1, 2}] /\ Places'
  BY <1>1, UpdateFacts
<1>3. UpdateOf(h) = UpdatesOf(c)[2] /\ Len(UpdatesOf(c)) = 2
  BY <1>1, SecondAt
<1>4. /\ c.name = "ObserveRequest" /\ c.ok \in BOOLEAN
      /\ UpdateOf(h).name = p /\ o \in OutcomesOf(c.ok)
  BY <1>1, <1>2, <1>3, SecondUpdate
<1>5. p \in registered
  <2>1. Uses(h) \subseteq registered
    BY <1>1 DEF Update
  <2>2. c \in Range(Calls[h])
    <3>1. Calls[h] \in Seq(RecorderCalls)
      BY StatsAssumption
    <3> QED BY <1>2, <3>1, LenProperties DEF Range, CallOf
  <2>3. p \in Uses(h)
    BY <1>4, <2>2 DEF Uses
  <2> QED BY <2>1, <2>3
<1>6. providers' = [providers EXCEPT ![p][o] = @ + 1]
  BY <1>4 DEF BumpProvider
<1>7. UNCHANGED <<totals, perUser, mu, reader, seen, file, life>>
  BY <1>1 DEF BumpProvider, Update, tableVars
<1>8. providers \in [registered -> [Outcomes -> Nat]] /\ providers \in Attempts
  BY <1>1, RegisteredFinite DEF StatsTypes, Attempts, registered
<1>9. o \in Outcomes
  BY <1>4, OutcomesFacts
<1> HIDE DEF c, p, o
<1>10. /\ providers' \in [registered -> [Outcomes -> Nat]]
       /\ \A r \in registered, x \in Outcomes : providers[r][x] <= providers'[r][x]
  BY <1>5, <1>6, <1>8, <1>9
<1>11. StatsTypes'
  <2>1. registered' = registered
    BY <1>7 DEF registered
  <2> QED BY <1>1, <1>2, <1>7, <1>10, <2>1 DEF StatsTypes
<1>12. /\ MidUser' = MidUser /\ \A q : Undelivered(q)' = Undelivered(q)
  BY <1>1, MidAfterSecond
<1>13. UsersInv'
  BY <1>7, <1>12 DEF Inv, UsersInv
<1>14. AnswersInv'
  BY <1>7, <1>12 DEF Inv, AnswersInv
<1>15. RequestsInv'
  <2> SUFFICES ASSUME NEW ok \in BOOLEAN
               PROVE  Counted(providers', OutcomesOf(ok)) + Cardinality(MidRequest(ok)')
                         <= totals[RequestTotal(ok)]
    BY <1>7 DEF RequestsInv
  <2>1. Counted(providers, OutcomesOf(ok)) + Cardinality(MidRequest(ok)) <= totals[RequestTotal(ok)]
    BY DEF Inv, RequestsInv
  <2>2. Counted(providers', OutcomesOf(ok))
           = Counted(providers, OutcomesOf(ok)) + (IF o \in OutcomesOf(ok) THEN 1 ELSE 0)
    <3>1. OutcomesOf(ok) \in SUBSET Outcomes /\ p \in DOMAIN providers
      BY <1>5, <1>8, OutcomesFacts
    <3>2. Counted([providers EXCEPT ![p][o] = @ + 1], OutcomesOf(ok))
             = Counted(providers, OutcomesOf(ok)) + (IF o \in OutcomesOf(ok) THEN 1 ELSE 0)
      <4>1. \A O \in SUBSET Outcomes :
               Counted([providers EXCEPT ![p][o] = @ + 1], O)
                  = Counted(providers, O) + (IF o \in O THEN 1 ELSE 0)
        <5>1. p \in DOMAIN providers /\ o \in Outcomes /\ providers \in Attempts
          BY <1>8, <1>9, <3>1
        <5> QED BY <5>1, CountedBump
      <4> QED BY <3>1, <4>1
    <3> QED BY <1>6, <3>2
  <2>3. o \in OutcomesOf(ok) <=> c.ok = ok
    BY <1>4 DEF OutcomesOf, c, o
  <2>4. MidRequest(ok)' = MidRequest(ok) \ {h} /\ (h \in MidRequest(ok) <=> c.ok = ok)
    BY <1>1, MidAfterSecond DEF c
  <2>5. IsFiniteSet(MidRequest(ok)) /\ Cardinality(MidRequest(ok)) \in Nat
    BY MidFinite
  <2>6. Counted(providers, OutcomesOf(ok)) \in Nat /\ totals[RequestTotal(ok)] \in Nat
    BY <1>1, <1>8, OutcomesFacts, CountedType DEF StatsTypes
  <2>7. CASE c.ok = ok
    <3>1. Cardinality(MidRequest(ok)') = Cardinality(MidRequest(ok)) - 1
      BY <2>4, <2>5, <2>7, FS_RemoveElement
    <3> QED BY <2>1, <2>2, <2>3, <2>5, <2>6, <2>7, <3>1
  <2>8. CASE c.ok # ok
    <3>1. MidRequest(ok)' = MidRequest(ok)
      BY <2>4, <2>8
    <3> QED BY <2>1, <2>2, <2>3, <2>5, <2>6, <2>8, <3>1
  <2> QED BY <2>7, <2>8
<1>16. \A t \in Totals : totals[t] <= totals'[t]
  BY <1>1, <1>7 DEF StatsTypes
<1>17. ReaderInv' /\ FileInv' /\ SeenUsersInv' /\ SeenRequestsInv' /\ SeenAnswersInv'
  BY <1>7, <1>10, <1>11, <1>16, Grows
<1>18. RowsInv'
  BY <1>7 DEF Inv, RowsInv
<1> QED BY <1>2, <1>11, <1>13, <1>14, <1>15, <1>17, <1>18 DEF Inv

\* A handler records its user, whose joke or answer is in the total.
LEMMA RecordUserInv ==
  ASSUME Inv, NEW h \in Handlers, RecordUser(h)
  PROVE  Inv'
<1> DEFINE c == CallOf(h)
<1>1. StatsTypes /\ Places /\ Update(h) /\ UpdateOf(h).kind = "user"
  BY DEF Inv, RecordUser
<1>2. /\ c \in RecorderCalls
      /\ pc' \in [Handlers -> Nat] /\ step' \in [Handlers -> {1, 2}] /\ Places'
  BY <1>1, UpdateFacts
<1>3. UpdateOf(h) = UpdatesOf(c)[2] /\ Len(UpdatesOf(c)) = 2
  BY <1>1, SecondAt
<1>4. UpdateOf(h).name \in Users \union {NoUser}
  BY <1>1, <1>2, <1>3, SecondUpdate
<1>5. UNCHANGED <<totals, providers, mu, reader, seen, file, life>>
  BY <1>1 DEF RecordUser, Update
<1>6. perUser \in Tables /\ Sum(perUser) \in Nat
  BY <1>1, TableFacts DEF StatsTypes
<1>7. /\ perUser' \in Tables
      /\ Sum(perUser') = Sum(perUser) \/ Sum(perUser') = Sum(perUser) + 1
      /\ mu => perUser' = perUser
  <2>1. CASE UpdateOf(h).name = NoUser
    BY <1>6, <2>1 DEF RecordUser, tableVars
  <2>2. CASE UpdateOf(h).name # NoUser
    <3>1. ~mu /\ Board!RecordUser(UpdateOf(h).name) /\ UpdateOf(h).name \in Users
      BY <1>4, <2>2 DEF RecordUser
    <3> QED BY <1>6, <3>1, OneMoreRow
  <2> QED BY <2>1, <2>2
<1>8. StatsTypes'
  <2>1. registered' = registered
    BY <1>5 DEF registered
  <2> QED BY <1>1, <1>2, <1>5, <1>7, <2>1 DEF StatsTypes
<1>9. /\ MidUser' = MidUser \ {h} /\ h \in MidUser
      /\ \A ok \in BOOLEAN : MidRequest(ok)' = MidRequest(ok)
      /\ \A q : Undelivered(q)' = Undelivered(q)
  BY <1>1, MidAfterSecond
<1>10. UsersInv'
  <2>1. Cardinality(MidUser') = Cardinality(MidUser) - 1 /\ Cardinality(MidUser) \in Nat
    BY <1>9, MidFinite, FS_RemoveElement
  <2>2. Delivered(totals) \in Nat
    BY <1>1 DEF StatsTypes, Delivered, Totals
  <2>3. Sum(perUser) + Cardinality(MidUser) <= Delivered(totals)
    BY DEF Inv, UsersInv
  <2>4. Sum(perUser') + Cardinality(MidUser') <= Delivered(totals)
    BY <1>6, <1>7, <2>1, <2>2, <2>3
  <2> QED BY <1>5, <2>4 DEF UsersInv
<1>11. RequestsInv'
  BY <1>5, <1>9 DEF Inv, RequestsInv
<1>12. AnswersInv'
  BY <1>5, <1>9 DEF Inv, AnswersInv
<1>13. /\ \A t \in Totals : totals[t] <= totals'[t]
       /\ \A p \in registered, o \in Outcomes : providers[p][o] <= providers'[p][o]
  BY <1>1, <1>5 DEF StatsTypes
<1>14. ReaderInv' /\ FileInv' /\ SeenUsersInv' /\ SeenRequestsInv' /\ SeenAnswersInv'
  BY <1>5, <1>8, <1>13, Grows
<1>15. RowsInv'
  BY <1>5, <1>7 DEF Inv, RowsInv
<1> QED BY <1>2, <1>8, <1>10, <1>11, <1>12, <1>14, <1>15 DEF Inv

-----------------------------------------------------------------------------
\* A step of the reader leaves the handlers where they are.
LEMMA HandlersKept ==
  ASSUME Inv, UNCHANGED <<counterVars, pc, step, life>>
  PROVE  UsersInv' /\ RequestsInv' /\ AnswersInv' /\ Places'
<1>1. UNCHANGED <<totals, providers, perUser, pc, step, life>>
  BY DEF counterVars, tableVars
<1>2. /\ MidUser' = MidUser
      /\ \A ok : MidRequest(ok)' = MidRequest(ok)
      /\ \A q : Undelivered(q)' = Undelivered(q)
  BY <1>1 DEF MidUser, MidRequest, Undelivered, Between, CallOf, Totalled
<1>3. UsersInv'
  BY <1>1, <1>2 DEF Inv, UsersInv
<1>4. RequestsInv'
  BY <1>1, <1>2 DEF Inv, RequestsInv
<1>5. AnswersInv'
  BY <1>1, <1>2 DEF Inv, AnswersInv
<1>6. Places'
  BY <1>1 DEF Inv, Places, CallOf
<1> QED BY <1>3, <1>4, <1>5, <1>6

\* Nobody reads.
LEMMA Resting ==
  ASSUME StatsTypes', reader'.does \notin {"snapshot", "export"}, reader'.at = 0, seen' = Nothing
  PROVE  ReaderInv' /\ SeenUsersInv' /\ SeenRequestsInv' /\ SeenAnswersInv' /\ RowsInv'
<1>1. ~Reading'
  BY DEF Reading
<1>2. \A t \in Totals \union {"aiAgain"} : seen'.totals[t] <= totals'[Source(t)]
  <2>1. \A t \in Totals \union {"aiAgain"} : Source(t) \in Totals
    BY DEF Source, Totals
  <2> QED BY <2>1, NothingFacts DEF StatsTypes
<1>3. DOMAIN seen'.providers = {}
  BY NothingFacts
<1> QED BY <1>1, <1>2, <1>3
        DEF ReaderInv, SeenUsersInv, SeenRequestsInv, SeenAnswersInv, RowsInv

LEMMA LoadsCounted ==
  ASSUME life \in Lives
  PROVE  Len(SnapshotLoads) \in Nat /\ Len(ExportLoads) \in Nat
            /\ DOMAIN ExportLoads = 1 .. Len(ExportLoads)
<1>1. SnapshotNames \in Seq(Totals \union {"aiAgain"}) /\ ExportNames \in Seq(Totals \union {"aiAgain"})
  BY DEF SnapshotNames, ExportNames, Totals
<1>2. \A names \in Seq(Totals \union {"aiAgain"}) :
         <<UsersLoad>> \o ProviderLoads \o TotalLoads(names) \in Seq(AllLoads)
  BY InOrder
<1>3. SnapshotLoads \in Seq(AllLoads)
  <2>1. SnapshotLoads = <<UsersLoad>> \o ProviderLoads \o TotalLoads(SnapshotNames)
    BY DEF SnapshotLoads, SnapshotNames, UsersLoad
  <2> QED BY <1>1, <1>2, <2>1
<1>4. ExportLoads \in Seq(AllLoads)
  <2>1. ExportLoads = <<UsersLoad>> \o ProviderLoads \o TotalLoads(ExportNames)
    BY DEF ExportLoads, ExportNames, UsersLoad
  <2> QED BY <1>1, <1>2, <2>1
<1> QED BY <1>3, <1>4, LenProperties

\* Snapshot or exportState begins: it has loaded nothing yet.
LEMMA BeginInv ==
  ASSUME Inv, NEW does \in {"snapshot", "export"}, Begin(does)
  PROVE  Inv'
<1>1. /\ reader' = [does |-> does, at |-> 1]
      /\ seen' = [Nothing EXCEPT !.providers = NoAttempts(registered)]
      /\ mu' = (does = "snapshot")
      /\ UNCHANGED <<counterVars, pc, step, file, life>>
  BY DEF Begin
<1>2. UNCHANGED <<totals, providers, perUser>> /\ registered' = registered
  BY <1>1 DEF counterVars, tableVars, registered
<1>3. StatsTypes /\ life \in Lives /\ registered \in SUBSET Providers
  BY RegisteredFinite DEF Inv, StatsTypes, registered
<1>4. NoAttempts(registered) \in [registered -> [Outcomes -> Nat]] /\ NoAttempts(registered) \in Attempts
  BY <1>3, NoAttemptsFacts
<1>5. /\ seen'.totals = Nothing.totals /\ seen'.users = Nobody
      /\ seen'.providers = NoAttempts(registered) /\ seen' \in State
  <2>1. Nothing \in State /\ Nothing.users = Nobody
    BY NothingFacts
  <2> QED BY <1>1, <1>4, <2>1 DEF State
<1>6. StatsTypes'
  BY <1>1, <1>2, <1>3, <1>5 DEF StatsTypes
<1>7. UsersInv' /\ RequestsInv' /\ AnswersInv' /\ Places'
  BY <1>1, HandlersKept
<1>8. \A t : ~Has(t)'
  BY <1>1 DEF Has
<1>9. ReaderInv'
  <2>1. 1 \in 1 .. Len(Loads') + 1
    <3>1. Loads' \in {SnapshotLoads, ExportLoads}
      BY <1>1 DEF Loads, SnapshotLoads, ExportLoads, ProviderLoads, TotalLoads
    <3> QED BY <1>3, <3>1, LoadsCounted
  <2>2. \A t \in Totals \union {"aiAgain"} : seen'.totals[t] <= totals'[Source(t)]
    <3>1. \A t \in Totals \union {"aiAgain"} : Source(t) \in Totals
      BY DEF Source, Totals
    <3> QED BY <1>2, <1>3, <1>5, <3>1, NothingFacts DEF StatsTypes
  <2>3. DOMAIN seen'.providers = registered'
    BY <1>2, <1>4, <1>5
  <2>4. \A p \in registered, o \in Outcomes : seen'.providers[p][o] <= providers'[p][o]
    BY <1>2, <1>3, <1>5 DEF NoAttempts, StatsTypes
  <2>5. reader'.at = 1 /\ Reading'
    BY <1>1 DEF Reading
  <2> QED BY <1>2, <2>1, <2>2, <2>3, <2>4, <2>5 DEF ReaderInv
<1>10. SeenUsersInv'
  <2>1. Sum(seen'.users) = 0
    BY <1>5, NobodyFacts
  <2>2. \A t \in Totals : Now(t)' \in Nat
    BY <1>2, <1>3, <1>8 DEF Now, StatsTypes
  <2> QED BY <2>1, <2>2 DEF SeenUsersInv, Totals
<1>11. SeenRequestsInv' /\ SeenAnswersInv'
  BY <1>8 DEF SeenRequestsInv, SeenAnswersInv
<1>12. RowsInv'
  <2>1. reader'.does = does /\ ~(reader'.at > 1)
    BY <1>1
  <2>2. does = "snapshot" => mu'
    BY <1>1
  <2> QED BY <2>1, <2>2 DEF RowsInv
<1>13. FileInv'
  BY <1>1 DEF Inv, FileInv, Consistent, Counted, Delivered
<1> QED BY <1>6, <1>7, <1>9, <1>10, <1>11, <1>12, <1>13 DEF Inv

\* The reader loads the table of users, a counter of a provider, or a total.
LEMMA LoadInv ==
  ASSUME Inv, Load
  PROVE  Inv'
<1> DEFINE at   == reader.at
           load == Loads[reader.at]
<1>1. /\ at \in DOMAIN Loads
      /\ seen' = CASE load.kind = "users"    -> [seen EXCEPT !.users = perUser]
                   [] load.kind = "provider" ->
                        [seen EXCEPT !.providers[load.name][load.outcome] =
                                        providers[load.name][load.outcome]]
                   [] load.kind = "total"    ->
                        [seen EXCEPT !.totals[load.name] = totals[Source(load.name)]]
      /\ reader' = [reader EXCEPT !.at = @ + 1]
      /\ UNCHANGED <<counterVars, mu, pc, step, file, life>>
  BY DEF Load, Source
<1>2. UNCHANGED <<totals, providers, perUser, mu, file, life>> /\ registered' = registered
  BY <1>1 DEF counterVars, tableVars, registered
<1>3. StatsTypes /\ life \in Lives /\ registered \in SUBSET Providers
  BY RegisteredFinite DEF Inv, StatsTypes, registered
<1>4. Reading
  <2> SUFFICES ASSUME ~Reading PROVE FALSE
    OBVIOUS
  <2>1. at = 0 /\ Loads = ExportLoads
    BY DEF Inv, ReaderInv, Reading, Loads
  <2> QED BY <1>1, <1>3, <2>1, LoadsCounted
<1>5. /\ Len(Loads) \in Nat \ {0} /\ DOMAIN Loads = 1 .. Len(Loads) /\ Loads[1] = UsersLoad
      /\ \A i \in 2 .. Len(Loads) :
            \/ \E p \in registered, o \in Outcomes : Loads[i] = ProviderLoad(p, o)
            \/ \E t \in Totals \union {"aiAgain"} : Loads[i] = TotalLoad(t)
      /\ \A i, j \in 1 .. Len(Loads) : i < j /\ Loads[i].kind = "total" => Loads[j].kind = "total"
      /\ \A i, j \in 1 .. Len(Loads) :
            i < j /\ Loads[i] = TotalLoad("ok") =>
               /\ reader.does = "snapshot" => Loads[j] \notin {TotalLoad("aiAgain"), TotalLoad("questions")}
               /\ reader.does = "export" => Loads[j] # TotalLoad("ai")
  BY <1>3, <1>4, LoadsFacts
<1>6. at \in 1 .. Len(Loads) /\ reader'.at = at + 1 /\ reader'.does = reader.does
  BY <1>1, <1>3, <1>5 DEF StatsTypes
<1>7. Loads' = Loads /\ Reading'
  BY <1>2, <1>4, <1>6 DEF Loads, SnapshotLoads, ExportLoads, ProviderLoads, TotalLoads, Reading
<1>8. \A t : Has(t) <=> \E i \in 1 .. at - 1 : Loads[i] = TotalLoad(t)
  BY DEF Has, TotalLoad
<1>9. \A t : Has(t)' <=> Has(t) \/ load = TotalLoad(t)
  <2>1. \A t : Has(t)' <=> \E i \in 1 .. (at + 1) - 1 : Loads[i] = TotalLoad(t)
    BY <1>6, <1>7 DEF Has, TotalLoad
  <2>2. \A i : i \in 1 .. (at + 1) - 1 <=> i \in 1 .. at - 1 \/ i = at
    BY <1>5, <1>6
  <2> QED BY <1>8, <2>1, <2>2
<1>10. UsersInv' /\ RequestsInv' /\ AnswersInv' /\ Places'
  BY <1>1, HandlersKept
<1>11. FileInv'
  BY <1>2 DEF Inv, FileInv, Consistent, Counted, Delivered
<1>12. /\ seen \in State /\ perUser \in Tables /\ totals \in [Totals -> Nat]
       /\ providers \in [registered -> [Outcomes -> Nat]] /\ DOMAIN seen.providers = registered
       /\ seen.providers \in Attempts /\ seen.totals \in [Totals \union {"aiAgain"} -> Nat]
       /\ seen.users \in Tables
  BY <1>3, <1>4 DEF Inv, StatsTypes, State, ReaderInv
<1>13. \A t \in Totals \union {"aiAgain"} : Source(t) \in Totals
  BY DEF Source, Totals
<1>14. reader' \in [does : {"nothing", "snapshot", "export", "stopped"}, at : Nat]
  BY <1>1, <1>3 DEF StatsTypes
<1>15. seen' \in State => StatsTypes'
  BY <1>1, <1>2, <1>3, <1>14 DEF StatsTypes
<1>16. ASSUME \A t \in Totals \union {"aiAgain"} : seen'.totals[t] <= totals[Source(t)],
              DOMAIN seen'.providers = registered,
              \A p \in registered, o \in Outcomes : seen'.providers[p][o] <= providers[p][o]
       PROVE  ReaderInv'
  <2>1. reader'.at \in 1 .. Len(Loads) + 1
    BY <1>5, <1>6
  <2> QED BY <1>2, <1>7, <1>16, <2>1 DEF ReaderInv
<1> HIDE DEF at, load
<1>17. CASE at = 1
  <2>1. load = UsersLoad
    BY <1>5, <1>17 DEF load, at
  <2>2. seen' = [seen EXCEPT !.users = perUser]
    BY <1>1, <2>1, KindsDiffer
  <2>3. \A t : ~Has(t) /\ ~Has(t)'
    <3>1. \A t : load # TotalLoad(t)
      BY <2>1, KindsDiffer
    <3> QED BY <1>8, <1>9, <1>17, <3>1
  <2>4. /\ seen'.totals = seen.totals /\ seen'.providers = seen.providers
        /\ seen'.users = perUser /\ seen' \in State
    BY <1>12, <2>2 DEF State
  <2>5. ReaderInv'
    BY <1>12, <1>16, <2>4 DEF Inv, ReaderInv
  <2>6. SeenUsersInv'
    <3>1. Sum(perUser) <= Delivered(totals)
      <4>1. Sum(perUser) + Cardinality(MidUser) <= Delivered(totals)
        BY DEF Inv, UsersInv
      <4>2. Sum(perUser) \in Nat /\ Cardinality(MidUser) \in Nat /\ Delivered(totals) \in Nat
        BY <1>12, TableFacts, MidFinite DEF Delivered, Totals
      <4> QED BY <4>1, <4>2
    <3>2. \A t : Now(t)' = totals[t]
      BY <1>2, <2>3 DEF Now
    <3> QED BY <2>4, <3>1, <3>2 DEF SeenUsersInv, Delivered
  <2>7. SeenRequestsInv' /\ SeenAnswersInv'
    BY <2>3 DEF SeenRequestsInv, SeenAnswersInv
  <2>8. RowsInv'
    BY <1>2, <1>6, <2>4 DEF Inv, RowsInv
  <2> QED BY <1>10, <1>11, <1>15, <2>4, <2>5, <2>6, <2>7, <2>8 DEF Inv
<1>18. CASE \E p \in registered, o \in Outcomes : at # 1 /\ load = ProviderLoad(p, o)
  <2>1. PICK p \in registered, o \in Outcomes : at # 1 /\ load = ProviderLoad(p, o)
    BY <1>18
  <2>2. seen' = [seen EXCEPT !.providers[p][o] = providers[p][o]]
    BY <1>1, <2>1, KindsDiffer
  <2>3. \A t : ~Has(t) /\ ~Has(t)'
    <3>1. \A t : load # TotalLoad(t)
      BY <2>1, KindsDiffer
    <3>2. ASSUME NEW t, NEW i \in 1 .. at - 1, Loads[i] = TotalLoad(t) PROVE FALSE
      <4>1. i \in 1 .. Len(Loads) /\ i < at /\ Loads[i].kind = "total"
        BY <1>5, <1>6, <3>2, KindsDiffer
      <4>2. load.kind = "total"
        BY <1>5, <1>6, <4>1 DEF load, at
      <4> QED BY <2>1, <4>2, KindsDiffer
    <3> QED BY <1>8, <1>9, <3>1, <3>2
  <2>4. /\ seen'.totals = seen.totals /\ seen'.users = seen.users
        /\ seen'.providers = [seen.providers EXCEPT ![p][o] = providers[p][o]]
    BY <1>12, <2>2 DEF State
  <2>5. seen.providers \in [registered -> [Outcomes -> Nat]]
    BY <1>12, AttemptsFacts
  <2>6. /\ seen'.providers \in [registered -> [Outcomes -> Nat]]
        /\ \A q \in registered, x \in Outcomes :
              seen'.providers[q][x] = IF q = p /\ x = o THEN providers[p][o] ELSE seen.providers[q][x]
    BY <1>12, <2>4, <2>5
  <2>7. seen' \in State
    <3>1. seen'.providers \in Attempts
      BY <1>3, <2>6 DEF Attempts
    <3>2. seen' = [totals |-> seen.totals, providers |-> seen'.providers, users |-> seen.users]
      BY <1>12, <2>2, <2>4 DEF State
    <3> QED BY <1>12, <3>1, <3>2 DEF State
  <2>8. ReaderInv'
    <3>1. ASSUME NEW q \in registered, NEW x \in Outcomes
          PROVE  seen'.providers[q][x] <= providers[q][x]
      <4>1. providers[q][x] \in Nat
        BY <1>12
      <4>2. seen.providers[q][x] <= providers[q][x]
        BY <1>12 DEF Inv, ReaderInv
      <4> QED BY <2>6, <4>1, <4>2
    <3>2. \A t \in Totals \union {"aiAgain"} : seen'.totals[t] <= totals[Source(t)]
      BY <2>4 DEF Inv, ReaderInv
    <3>3. DOMAIN seen'.providers = registered
      BY <2>6
    <3> QED BY <1>16, <3>1, <3>2, <3>3
  <2>9. SeenUsersInv'
    <3>1. \A t : Now(t)' = Now(t)
      BY <1>2, <2>3 DEF Now
    <3> QED BY <1>4, <2>4, <3>1 DEF Inv, SeenUsersInv
  <2>10. SeenRequestsInv' /\ SeenAnswersInv'
    BY <2>3 DEF SeenRequestsInv, SeenAnswersInv
  <2>11. RowsInv'
    <3>1. at > 1
      BY <1>5, <1>6, <2>1
    <3> QED BY <1>2, <1>6, <2>4, <3>1 DEF Inv, RowsInv, at
  <2> QED BY <1>10, <1>11, <1>15, <2>7, <2>8, <2>9, <2>10, <2>11 DEF Inv
<1>19. CASE \E t \in Totals \union {"aiAgain"} : at # 1 /\ load = TotalLoad(t)
  <2>1. PICK t \in Totals \union {"aiAgain"} : at # 1 /\ load = TotalLoad(t)
    BY <1>19
  <2>2. seen' = [seen EXCEPT !.totals[t] = totals[Source(t)]]
    BY <1>1, <2>1, KindsDiffer
  <2>3. \A u : Has(u)' <=> Has(u) \/ u = t
    BY <1>9, <2>1, KindsDiffer
  <2>4. /\ seen'.providers = seen.providers /\ seen'.users = seen.users
        /\ seen'.totals = [seen.totals EXCEPT ![t] = totals[Source(t)]]
    BY <1>12, <2>2 DEF State
  <2>5. Source(t) \in Totals /\ totals[Source(t)] \in Nat
    BY <1>12, <1>13
  <2>6. /\ seen'.totals \in [Totals \union {"aiAgain"} -> Nat]
        /\ \A u \in Totals \union {"aiAgain"} :
              seen'.totals[u] = IF u = t THEN totals[Source(t)] ELSE seen.totals[u]
    BY <1>12, <2>4, <2>5
  <2>7. seen' \in State
    <3>1. seen' = [totals |-> seen'.totals, providers |-> seen.providers, users |-> seen.users]
      BY <1>12, <2>2, <2>4 DEF State
    <3> QED BY <1>12, <2>6, <3>1 DEF State
  <2>8. \A u \in Totals \union {"aiAgain"} : seen.totals[u] <= totals[Source(u)]
    BY DEF Inv, ReaderInv
  <2>9. \A u \in Totals \union {"aiAgain"} : seen'.totals[u] <= totals[Source(u)]
    BY <2>5, <2>6, <2>8
  <2>10. ReaderInv'
    BY <1>12, <1>16, <2>4, <2>9 DEF Inv, ReaderInv
  <2>11. SeenUsersInv'
    <3>1. ASSUME NEW u \in {"classic", "ai", "questions"}
          PROVE  Now(u) <= Now(u)' /\ Now(u) \in Nat /\ Now(u)' \in Nat
      <4>1. u \in Totals \union {"aiAgain"} /\ u \in Totals /\ Source(u) = u
        BY DEF Totals, Source
      <4>2. seen.totals[u] \in Nat /\ totals[u] \in Nat /\ seen.totals[u] <= totals[u]
        BY <1>12, <2>8, <4>1
      <4>3. seen'.totals[u] = IF u = t THEN totals[u] ELSE seen.totals[u]
        BY <2>6, <4>1
      <4> QED BY <1>2, <2>3, <4>2, <4>3 DEF Now
    <3>2. Sum(seen.users) <= Now("classic") + Now("ai") + Now("questions")
      BY <1>4 DEF Inv, SeenUsersInv
    <3>3. Sum(seen.users) \in Nat
      BY <1>12, TableFacts
    <3>4. Sum(seen.users) <= Now("classic")' + Now("ai")' + Now("questions")'
      BY <3>1, <3>2, <3>3
    <3> QED BY <2>4, <3>4 DEF SeenUsersInv
  <2>12. SeenRequestsInv'
    <3> SUFFICES ASSUME NEW ok \in BOOLEAN, Has(RequestTotal(ok))'
                 PROVE  Counted(seen.providers, OutcomesOf(ok)) <= seen'.totals[RequestTotal(ok)]
      BY <2>4 DEF SeenRequestsInv
    <3>1. RequestTotal(ok) \in Totals /\ Source(RequestTotal(ok)) = RequestTotal(ok)
             /\ OutcomesOf(ok) \in SUBSET Outcomes
      BY OutcomesFacts DEF Source, RequestTotal
    <3>2. CASE RequestTotal(ok) = t
      <4>1. seen'.totals[RequestTotal(ok)] = totals[RequestTotal(ok)]
        BY <2>6, <3>1, <3>2
      <4>2. Counted(providers, OutcomesOf(ok)) + Cardinality(MidRequest(ok)) <= totals[RequestTotal(ok)]
        BY DEF Inv, RequestsInv
      <4>3. providers \in Attempts
        BY <1>3, <1>12 DEF Attempts
      <4>4. Counted(seen.providers, OutcomesOf(ok)) <= Counted(providers, OutcomesOf(ok))
        <5>1. \A p \in DOMAIN seen.providers, o \in OutcomesOf(ok) :
                 p \in DOMAIN providers /\ seen.providers[p][o] <= providers[p][o]
          BY <1>12, <3>1 DEF Inv, ReaderInv
        <5> QED BY <1>12, <3>1, <4>3, <5>1, CountedLess
      <4>5. /\ Counted(seen.providers, OutcomesOf(ok)) \in Nat
            /\ Counted(providers, OutcomesOf(ok)) \in Nat
        BY <1>12, <3>1, <4>3, CountedType
      <4>6. Cardinality(MidRequest(ok)) \in Nat /\ totals[RequestTotal(ok)] \in Nat
        BY <1>12, <3>1, MidFinite
      <4> QED BY <4>1, <4>2, <4>4, <4>5, <4>6
    <3>3. CASE RequestTotal(ok) # t
      <4>1. Has(RequestTotal(ok)) /\ seen'.totals[RequestTotal(ok)] = seen.totals[RequestTotal(ok)]
        BY <2>3, <2>6, <3>1, <3>3
      <4> QED BY <1>4, <4>1 DEF Inv, SeenRequestsInv
    <3> QED BY <3>2, <3>3
  <2>13. ASSUME NEW q \in BOOLEAN, q => life = 1
         PROVE  Answers("ai", totals, q) <= totals["ok"]
    <3>1. Answers("ai", totals, q) + Cardinality(Undelivered(q)) <= totals["ok"]
      BY <2>13 DEF Inv, AnswersInv
    <3>2. Answers("ai", totals, q) \in Nat /\ Cardinality(Undelivered(q)) \in Nat /\ totals["ok"] \in Nat
      BY <1>12, MidFinite DEF Answers, Totals
    <3> QED BY <3>1, <3>2
  <2>14. /\ {"ok", "ai", "questions"} \subseteq Totals
         /\ Source("ok") = "ok" /\ Source("ai") = "ai" /\ Source("aiAgain") = "ai"
         /\ Source("questions") = "questions"
    BY DEF Totals, Source
  <2>15. ASSUME t # "ok", Has("ok")
         PROVE  /\ reader.does = "snapshot" => t \notin {"aiAgain", "questions"}
                /\ reader.does = "export" => t # "ai"
    <3>1. PICK i \in 1 .. at - 1 : Loads[i] = TotalLoad("ok")
      BY <1>8, <2>15
    <3>2. i \in 1 .. Len(Loads) /\ i < at
      BY <1>5, <1>6
    <3>3. /\ reader.does = "snapshot" => load \notin {TotalLoad("aiAgain"), TotalLoad("questions")}
          /\ reader.does = "export" => load # TotalLoad("ai")
      BY <1>5, <1>6, <3>1, <3>2 DEF load, at
    <3> QED BY <2>1, <3>3
  <2>16. ASSUME reader.does = "snapshot", Has("ok")', NEW q \in BOOLEAN, q => life = 1
         PROVE  Answers("aiAgain", seen'.totals, q) <= seen'.totals["ok"]
    <3>1. CASE t = "ok"
      <4>1. /\ seen'.totals["ok"] = totals["ok"]
            /\ seen'.totals["aiAgain"] <= totals["ai"] /\ seen'.totals["questions"] <= totals["questions"]
        BY <2>6, <2>9, <2>14, <3>1
      <4>2. Answers("ai", totals, q) <= totals["ok"]
        BY <2>13, <2>16
      <4>3. /\ totals["ok"] \in Nat /\ totals["ai"] \in Nat /\ totals["questions"] \in Nat
            /\ seen'.totals["aiAgain"] \in Nat /\ seen'.totals["questions"] \in Nat
        BY <1>12, <2>6, <2>14
      <4> QED BY <4>1, <4>2, <4>3 DEF Answers
    <3>2. CASE t # "ok"
      <4>1. Has("ok") /\ t \notin {"aiAgain", "questions"}
        BY <2>3, <2>15, <2>16, <3>2
      <4>2. /\ seen'.totals["ok"] = seen.totals["ok"]
            /\ seen'.totals["aiAgain"] = seen.totals["aiAgain"]
            /\ seen'.totals["questions"] = seen.totals["questions"]
        BY <2>6, <2>14, <3>2, <4>1
      <4>3. Answers("aiAgain", seen.totals, q) <= seen.totals["ok"]
        BY <2>16, <4>1 DEF Inv, SeenAnswersInv
      <4> QED BY <4>2, <4>3 DEF Answers
    <3> QED BY <3>1, <3>2
  <2>17. ASSUME reader.does = "export", Has("ok")'
         PROVE  seen'.totals["ai"] <= seen'.totals["ok"]
    <3>1. CASE t = "ok"
      <4>1. seen'.totals["ok"] = totals["ok"] /\ seen'.totals["ai"] <= totals["ai"]
        BY <2>6, <2>9, <2>14, <3>1
      <4>2. Answers("ai", totals, FALSE) <= totals["ok"]
        BY <2>13
      <4>3. totals["ok"] \in Nat /\ totals["ai"] \in Nat /\ seen'.totals["ai"] \in Nat
        BY <1>12, <2>6, <2>14
      <4> QED BY <4>1, <4>2, <4>3 DEF Answers
    <3>2. CASE t # "ok"
      <4>1. Has("ok") /\ t # "ai"
        BY <2>3, <2>15, <2>17, <3>2
      <4>2. seen'.totals["ok"] = seen.totals["ok"] /\ seen'.totals["ai"] = seen.totals["ai"]
        BY <2>6, <2>14, <3>2, <4>1
      <4> QED BY <2>17, <4>1, <4>2 DEF Inv, SeenAnswersInv
    <3> QED BY <3>1, <3>2
  <2>18. SeenAnswersInv'
    BY <1>2, <1>6, <2>16, <2>17 DEF SeenAnswersInv
  <2>19. RowsInv'
    <3>1. at > 1
      BY <1>5, <1>6, <2>1
    <3> QED BY <1>2, <1>6, <2>4, <3>1 DEF Inv, RowsInv, at
  <2> QED BY <1>10, <1>11, <1>15, <2>7, <2>10, <2>11, <2>12, <2>18, <2>19 DEF Inv
<1> QED
  <2>1. at = 1 \/ at \in 2 .. Len(Loads)
    BY <1>5, <1>6
  <2>2. CASE at \in 2 .. Len(Loads)
    <3>1. \/ \E p \in registered, o \in Outcomes : load = ProviderLoad(p, o)
          \/ \E t \in Totals \union {"aiAgain"} : load = TotalLoad(t)
      BY <1>5, <2>2 DEF load, at
    <3>2. at # 1
      BY <2>2
    <3> QED BY <1>18, <1>19, <3>1, <3>2
  <2> QED BY <1>17, <2>1, <2>2

\* An administrator gets the snapshot.
LEMMA ReportInv ==
  ASSUME Inv, Report
  PROVE  Inv'
<1>1. /\ mu' = FALSE /\ reader' = Idle /\ seen' = Nothing
      /\ UNCHANGED <<counterVars, pc, step, file, life>>
  BY DEF Report
<1>2. UNCHANGED <<totals, providers, perUser>> /\ registered' = registered
  BY <1>1 DEF counterVars, tableVars, registered
<1>3. StatsTypes'
  <2>1. reader' \in [does : {"nothing", "snapshot", "export", "stopped"}, at : Nat]
    BY <1>1 DEF Idle
  <2> QED BY <1>1, <1>2, <2>1, NothingFacts DEF Inv, StatsTypes
<1>4. UsersInv' /\ RequestsInv' /\ AnswersInv' /\ Places'
  BY <1>1, HandlersKept
<1>5. ReaderInv' /\ SeenUsersInv' /\ SeenRequestsInv' /\ SeenAnswersInv' /\ RowsInv'
  <2>1. reader'.does \notin {"snapshot", "export"} /\ reader'.at = 0
    BY <1>1 DEF Idle
  <2> QED BY <1>1, <1>3, <2>1, Resting
<1>6. FileInv'
  BY <1>1 DEF Inv, FileInv
<1> QED BY <1>3, <1>4, <1>5, <1>6 DEF Inv

\* Once everything is loaded, what the reader would get is what it has.
LEMMA LoadedAll ==
  ASSUME Inv, NEW does \in {"snapshot", "export"}, Loaded(does)
  PROVE  /\ Reading /\ reader.at = Len(Loads) + 1
         /\ \A t \in {"classic", "ai", "questions", "ok", "error"} : Has(t) /\ Now(t) = seen.totals[t]
         /\ reader.at > 1
<1>1. Reading /\ reader.does = does /\ reader.at = Len(Loads) + 1
  BY DEF Loaded, Reading
<1>2. life \in Lives
  BY DEF Inv, StatsTypes
<1>3. /\ Len(Loads) \in Nat \ {0}
      /\ \A t \in {"classic", "ai", "questions", "ok", "error"} :
            \E i \in 1 .. Len(Loads) : Loads[i] = TotalLoad(t)
  BY <1>1, <1>2, LoadsFacts
<1>4. \A t \in {"classic", "ai", "questions", "ok", "error"} : Has(t)
  <2>1. (Len(Loads) + 1) - 1 = Len(Loads)
    BY <1>3
  <2> QED BY <1>1, <1>3, <2>1 DEF Has, TotalLoad
<1> QED BY <1>1, <1>3, <1>4 DEF Now

\* What is saved adds up.
LEMMA SaveInv ==
  ASSUME Inv, Save
  PROVE  Inv'
<1>1. /\ Loaded("export") /\ file' \in {seen, file}
      /\ reader' = [does |-> "stopped", at |-> 0] /\ seen' = Nothing
      /\ UNCHANGED <<counterVars, mu, pc, step, life>>
  BY DEF Save
<1>2. UNCHANGED <<totals, providers, perUser>> /\ registered' = registered
  BY <1>1 DEF counterVars, tableVars, registered
<1>3. seen \in State /\ file \in State
  BY DEF Inv, StatsTypes
<1>4. StatsTypes'
  <2>1. reader' \in [does : {"nothing", "snapshot", "export", "stopped"}, at : Nat]
    BY <1>1
  <2>2. file' \in State
    BY <1>1, <1>3
  <2> QED BY <1>1, <1>2, <2>1, <2>2, NothingFacts DEF Inv, StatsTypes
<1>5. UsersInv' /\ RequestsInv' /\ AnswersInv' /\ Places'
  BY <1>1, HandlersKept
<1>6. ReaderInv' /\ SeenUsersInv' /\ SeenRequestsInv' /\ SeenAnswersInv' /\ RowsInv'
  <2>1. reader'.does \notin {"snapshot", "export"} /\ reader'.at = 0
    BY <1>1
  <2> QED BY <1>1, <1>4, <2>1, Resting
<1>7. Consistent(seen)
  <2>1. /\ Reading /\ reader.does = "export"
        /\ \A t \in {"classic", "ai", "questions", "ok", "error"} : Has(t) /\ Now(t) = seen.totals[t]
    BY <1>1, LoadedAll DEF Loaded
  <2>2. Sum(seen.users) <= Delivered(seen.totals)
    <3>1. Sum(seen.users) <= Now("classic") + Now("ai") + Now("questions")
      BY <2>1 DEF Inv, SeenUsersInv
    <3> QED BY <2>1, <3>1 DEF Delivered
  <2>3. ASSUME NEW ok \in BOOLEAN
        PROVE  Counted(seen.providers, OutcomesOf(ok)) <= seen.totals[RequestTotal(ok)]
    <3>1. Has(RequestTotal(ok))
      BY <2>1 DEF RequestTotal
    <3> QED BY <2>1, <3>1 DEF Inv, SeenRequestsInv
  <2>4. seen.totals["ai"] <= seen.totals["ok"]
    BY <2>1 DEF Inv, SeenAnswersInv
  <2> QED BY <2>2, <2>3, <2>4 DEF Consistent
<1>8. FileInv'
  <2>1. Consistent(file)
    BY DEF Inv, FileInv
  <2>2. file' = seen \/ file' = file
    BY <1>1
  <2>3. Consistent(file')
    BY <1>7, <2>1, <2>2
  <2> QED BY <2>3 DEF FileInv, Consistent, Counted, Delivered
<1> QED BY <1>4, <1>5, <1>6, <1>8 DEF Inv

\* The next process starts from what was saved, which adds up; whatever it does
\* not take over only lowers the rows.
LEMMA RestartInv ==
  ASSUME Inv, Restart
  PROVE  Inv'
<1>1. /\ life + 1 \in Lives /\ life' = life + 1 /\ mu' = FALSE /\ reader' = Idle /\ seen' = Nothing
      /\ pc' = [h \in Handlers |-> IF pc[h] = 1 /\ step[h] = 1 THEN 1 ELSE Len(Calls[h]) + 1]
      /\ step' = [h \in Handlers |-> 1] /\ file' = file
  BY DEF Restart
<1>2. PICK saved \in {file, Nothing} :
         /\ totals' = [t \in Totals |-> saved.totals[t]]
         /\ providers' = ImportedProviders(saved, Range(ProvidersOf[life + 1]))
         /\ \E rows \in SUBSET DOMAIN saved.users : perUser' = ImportedUsers(saved, rows)
  BY DEF Restart
<1>3. saved \in State /\ Consistent(saved)
  BY <1>2, NothingFacts DEF Inv, StatsTypes, FileInv
<1>4. /\ saved.totals \in [Totals \union {"aiAgain"} -> Nat]
      /\ saved.providers \in Attempts /\ saved.users \in Tables
  BY <1>3 DEF State
<1>5. totals' \in [Totals -> Nat] /\ \A t \in Totals : totals'[t] = saved.totals[t]
  BY <1>2, <1>4
<1>6. registered' = Range(ProvidersOf[life + 1]) /\ registered' \in SUBSET Providers
  BY <1>1, RegisteredFinite DEF registered
<1>7. /\ providers' \in [registered' -> [Outcomes -> Nat]]
      /\ \A p \in registered', o \in Outcomes :
            providers'[p][o] = IF p \in DOMAIN saved.providers THEN saved.providers[p][o] ELSE 0
  <2>1. providers' = [p \in registered' |-> IF p \in DOMAIN saved.providers THEN saved.providers[p]
                                            ELSE NoAttempts({p})[p]]
    BY <1>2, <1>6 DEF ImportedProviders
  <2>2. \A p : NoAttempts({p})[p] = [o \in Outcomes |-> 0]
    BY DEF NoAttempts
  <2>3. ASSUME NEW p \in registered'
        PROVE  /\ providers'[p] \in [Outcomes -> Nat]
               /\ \A o \in Outcomes :
                     providers'[p][o] = IF p \in DOMAIN saved.providers THEN saved.providers[p][o] ELSE 0
    <3>1. CASE p \in DOMAIN saved.providers
      <4>1. providers'[p] = saved.providers[p]
        BY <2>1, <3>1
      <4>2. saved.providers[p] \in [Outcomes -> Nat]
        BY <1>4, <3>1, AttemptsFacts
      <4> QED BY <3>1, <4>1, <4>2
    <3>2. CASE p \notin DOMAIN saved.providers
      <4>1. providers'[p] = [o \in Outcomes |-> 0]
        BY <2>1, <2>2, <3>2
      <4> QED BY <3>2, <4>1
    <3> QED BY <3>1, <3>2
  <2>4. providers' = [p \in registered' |-> providers'[p]]
    BY <2>1
  <2> QED BY <2>3, <2>4
<1>8. perUser' \in Tables /\ Sum(perUser') <= Sum(saved.users)
  <2>1. /\ IsFiniteSet(DOMAIN saved.users) /\ DOMAIN saved.users \subseteq Users
        /\ saved.users \in [DOMAIN saved.users -> Nat]
    BY <1>4, TableFacts
  <2>2. PICK rows \in SUBSET DOMAIN saved.users : perUser' = [u \in rows |-> saved.users[u]]
    BY <1>2 DEF ImportedUsers, Restrict
  <2>3. rows \in SUBSET Users /\ perUser' \in [rows -> Nat] /\ \A u \in rows : perUser'[u] <= saved.users[u]
    BY <2>1, <2>2
  <2>4. perUser' \in Tables
    BY <2>3, TableType
  <2>5. Sum(perUser') <= Sum(saved.users)
    BY <2>1, <2>3, SumLess
  <2> QED BY <2>4, <2>5
<1>9. StatsTypes'
  <2>1. reader' \in [does : {"nothing", "snapshot", "export", "stopped"}, at : Nat]
    BY <1>1 DEF Idle
  <2>2. pc' \in [Handlers -> Nat]
    <3>1. \A h \in Handlers : Calls[h] \in Seq(RecorderCalls)
      BY StatsAssumption
    <3>2. \A h \in Handlers : Len(Calls[h]) \in Nat
      BY <3>1, LenProperties
    <3> QED BY <1>1, <3>2
  <2>3. step' \in [Handlers -> {1, 2}]
    BY <1>1
  <2> QED BY <1>1, <1>5, <1>7, <1>8, <2>1, <2>2, <2>3, NothingFacts DEF Inv, StatsTypes
<1>10. Places' /\ \A h \in Handlers : \A i \in DOMAIN Calls[h] :
                     (\E j \in 1 .. i - 1 : Totalled(h, j)') => Totalled(h, i)'
  <2>1. \A h \in Handlers : Calls[h] \in Seq(RecorderCalls)
    BY StatsAssumption
  <2>2. \A h \in Handlers : DOMAIN Calls[h] = 1 .. Len(Calls[h]) /\ Len(Calls[h]) \in Nat
    BY <2>1, LenProperties
  <2>3. \A h \in Handlers : step'[h] = 1 /\ pc'[h] \in {1, Len(Calls[h]) + 1}
    BY <1>1
  <2>4. Places'
    BY <2>2, <2>3 DEF Places
  <2>5. ASSUME NEW h \in Handlers, NEW i \in DOMAIN Calls[h], NEW j \in 1 .. i - 1, Totalled(h, j)'
        PROVE  Totalled(h, i)'
    <3>1. j < pc'[h]
      BY <2>3, <2>5 DEF Totalled
    <3>2. pc'[h] = Len(Calls[h]) + 1
      BY <2>2, <2>3, <3>1
    <3> QED BY <2>2, <3>2 DEF Totalled
  <2> QED BY <2>4, <2>5
<1>11. /\ Cardinality(MidUser') = 0
       /\ \A x : Cardinality(MidRequest(x)') = 0 /\ Cardinality(Undelivered(x)') = 0
  <2>1. \A h \in Handlers : step'[h] = 1
    BY <1>1
  <2>2. MidUser' = {} /\ \A x : MidRequest(x)' = {}
    BY <2>1 DEF MidUser, MidRequest, Between
  <2>3. \A x : Undelivered(x)' = {}
    BY <1>10 DEF Undelivered
  <2> QED BY <2>2, <2>3, FS_EmptySet
<1>12. UsersInv'
  <2>1. Sum(saved.users) <= Delivered(saved.totals) /\ Delivered(totals') = Delivered(saved.totals)
    BY <1>3, <1>5 DEF Consistent, Delivered, Totals
  <2>2. Sum(saved.users) \in Nat /\ Sum(perUser') \in Nat
    BY <1>4, <1>8, TableFacts
  <2>3. Delivered(totals') \in Nat
    BY <1>5 DEF Delivered, Totals
  <2>4. Sum(perUser') + Cardinality(MidUser') <= Delivered(totals')
    BY <1>8, <1>11, <2>1, <2>2, <2>3
  <2> QED BY <2>4 DEF UsersInv
<1>13. RequestsInv'
  <2> SUFFICES ASSUME NEW ok \in BOOLEAN
               PROVE  Counted(providers', OutcomesOf(ok)) + Cardinality(MidRequest(ok)')
                         <= totals'[RequestTotal(ok)]
    BY DEF RequestsInv
  <2>1. OutcomesOf(ok) \in SUBSET Outcomes /\ RequestTotal(ok) \in Totals
    BY OutcomesFacts
  <2>2. providers' \in Attempts /\ DOMAIN providers' = registered'
    BY <1>6, <1>7 DEF Attempts
  <2>3. Counted(providers', OutcomesOf(ok)) <= Counted(saved.providers, OutcomesOf(ok))
    <3>1. \A p \in DOMAIN providers', o \in OutcomesOf(ok) :
             \/ providers'[p][o] = 0
             \/ p \in DOMAIN saved.providers /\ providers'[p][o] <= saved.providers[p][o]
      <4> SUFFICES ASSUME NEW p \in registered', NEW o \in OutcomesOf(ok), p \in DOMAIN saved.providers
                   PROVE  providers'[p][o] <= saved.providers[p][o]
        BY <1>7, <2>1, <2>2
      <4>1. providers'[p][o] = saved.providers[p][o] /\ providers'[p][o] \in Nat
        BY <1>7, <2>1
      <4> QED BY <4>1
    <3> QED BY <1>4, <2>1, <2>2, <3>1, CountedLess
  <2>4. Counted(providers', OutcomesOf(ok)) \in Nat /\ Counted(saved.providers, OutcomesOf(ok)) \in Nat
    BY <1>4, <2>1, <2>2, CountedType
  <2>5. Counted(saved.providers, OutcomesOf(ok)) <= totals'[RequestTotal(ok)]
    BY <1>3, <1>5, <2>1 DEF Consistent
  <2>6. totals'[RequestTotal(ok)] \in Nat
    BY <1>5, <2>1
  <2> QED BY <1>11, <2>3, <2>4, <2>5, <2>6
<1>14. AnswersInv'
  <2> SUFFICES ASSUME NEW q \in BOOLEAN, q => life' = 1
               PROVE  Answers("ai", totals', q) + Cardinality(Undelivered(q)') <= totals'["ok"]
    BY DEF AnswersInv
  <2>1. ~q
    <3>1. life \in Nat \ {0}
      <4>1. Lives = 1 .. Len(ProvidersOf)
        BY StatsAssumption DEF Lives
      <4> QED BY <4>1 DEF Inv, StatsTypes
    <3> QED BY <1>1, <3>1
  <2>2. totals'["ai"] <= totals'["ok"] /\ totals'["ai"] \in Nat /\ totals'["ok"] \in Nat
    BY <1>3, <1>5 DEF Consistent, Totals
  <2> QED BY <1>11, <2>1, <2>2 DEF Answers
<1>15. ReaderInv' /\ SeenUsersInv' /\ SeenRequestsInv' /\ SeenAnswersInv' /\ RowsInv'
  <2>1. reader'.does \notin {"snapshot", "export"} /\ reader'.at = 0
    BY <1>1 DEF Idle
  <2> QED BY <1>1, <1>9, <2>1, Resting
<1>16. FileInv'
  BY <1>1 DEF Inv, FileInv
<1> QED BY <1>9, <1>10, <1>12, <1>13, <1>14, <1>15, <1>16 DEF Inv

-----------------------------------------------------------------------------
LEMMA NextInv == Inv /\ [Next]_vars => Inv'
<1> SUFFICES ASSUME Inv, [Next]_vars PROVE Inv'
  OBVIOUS
<1>1. ASSUME NEW h \in Handlers, BumpTotal(h) PROVE Inv'
  BY <1>1, BumpTotalInv
<1>2. ASSUME NEW h \in Handlers, BumpProvider(h) PROVE Inv'
  BY <1>2, BumpProviderInv
<1>3. ASSUME NEW h \in Handlers, RecordUser(h) PROVE Inv'
  BY <1>3, RecordUserInv
<1>4. ASSUME NEW does \in {"snapshot", "export"}, Begin(does) PROVE Inv'
  BY <1>4, BeginInv
<1>5. CASE Load
  BY <1>5, LoadInv
<1>6. CASE Report
  BY <1>6, ReportInv
<1>7. CASE Save
  BY <1>7, SaveInv
<1>8. CASE Restart
  BY <1>8, RestartInv
<1>9. CASE UNCHANGED vars
  <2>1. UNCHANGED <<totals, providers, perUser, mu, pc, step, reader, seen, file, life>>
    BY <1>9 DEF vars, counterVars, tableVars
  <2>2. UsersInv' /\ RequestsInv' /\ AnswersInv' /\ Places'
    BY <1>9, HandlersKept DEF vars
  <2>3. StatsTypes'
    BY <2>1 DEF Inv, StatsTypes, registered
  <2>4. /\ \A t \in Totals : totals[t] <= totals'[t]
        /\ \A p \in registered, o \in Outcomes : providers[p][o] <= providers'[p][o]
    BY <2>1 DEF Inv, StatsTypes
  <2>5. ReaderInv' /\ FileInv' /\ SeenUsersInv' /\ SeenRequestsInv' /\ SeenAnswersInv'
    BY <2>1, <2>3, <2>4, Grows
  <2>6. RowsInv'
    BY <2>1 DEF Inv, RowsInv
  <2> QED BY <2>2, <2>3, <2>5, <2>6 DEF Inv
<1> QED BY <1>1, <1>2, <1>3, <1>4, <1>5, <1>6, <1>7, <1>8, <1>9 DEF Next

LEMMA Invariance == Spec => []Inv
<1>1. Init => Inv
  BY InitInv
<1>2. Inv /\ [Next]_vars => Inv'
  BY NextInv
<1> QED BY <1>1, <1>2, PTL DEF Spec

-----------------------------------------------------------------------------
\* The table of users never accounts for more than the jokes and the answers an
\* administrator sees with it, though handlers and Snapshot run at once.
THEOREM StatsUsersWithinTotals == Spec => []UsersWithinTotals
<1>1. Inv => UsersWithinTotals
  <2> SUFFICES ASSUME Inv, Loaded("snapshot")
               PROVE  Sum(seen.users) <= seen.totals["classic"] + seen.totals["ai"] + seen.totals["questions"]
    BY DEF UsersWithinTotals, Reported
  <2>1. Sum(seen.users) <= Now("classic") + Now("ai") + Now("questions")
    BY LoadedAll DEF Inv, SeenUsersInv
  <2> QED BY <2>1, LoadedAll
<1> QED BY <1>1, Invariance, PTL

\* The rows of the providers never add up to more than the requests above them.
THEOREM StatsProvidersWithinTotals == Spec => []ProvidersWithinTotals
<1>1. Inv => ProvidersWithinTotals
  <2> SUFFICES ASSUME Inv, Loaded("snapshot")
               PROVE  /\ Counted(seen.providers, OutcomesOf(TRUE)) <= seen.totals["ok"]
                      /\ Counted(seen.providers, OutcomesOf(FALSE)) <= seen.totals["error"]
    BY DEF ProvidersWithinTotals, Reported, OutcomesOf
  <2>1. \A ok \in BOOLEAN : Has(RequestTotal(ok))
    BY LoadedAll DEF RequestTotal
  <2>2. \A ok \in BOOLEAN : Counted(seen.providers, OutcomesOf(ok)) <= seen.totals[RequestTotal(ok)]
    BY <2>1, LoadedAll DEF Inv, SeenRequestsInv
  <2>3. RequestTotal(TRUE) = "ok" /\ RequestTotal(FALSE) = "error"
    BY DEF RequestTotal
  <2> QED BY <2>2, <2>3
<1> QED BY <1>1, Invariance, PTL

\* Every AI joke an administrator sees was a successful request first, across
\* saves and restarts; in the first process every answered question too.
THEOREM StatsAIWithinRequests == Spec => []AIWithinRequests
<1>1. Inv => AIWithinRequests
  <2> SUFFICES ASSUME Inv, Loaded("snapshot")
               PROVE  /\ seen.totals["aiAgain"] <= seen.totals["ok"]
                      /\ life = 1 => seen.totals["aiAgain"] + seen.totals["questions"] <= seen.totals["ok"]
    BY DEF AIWithinRequests, Reported
  <2>1. \A q \in BOOLEAN :
           (q => life = 1) => Answers("aiAgain", seen.totals, q) <= seen.totals["ok"]
    BY LoadedAll DEF Inv, SeenAnswersInv, Loaded
  <2>2. seen.totals["aiAgain"] \in Nat
    BY DEF Inv, StatsTypes, State
  <2>3. /\ Answers("aiAgain", seen.totals, FALSE) = seen.totals["aiAgain"]
        /\ Answers("aiAgain", seen.totals, TRUE) = seen.totals["aiAgain"] + seen.totals["questions"]
    BY <2>2 DEF Answers
  <2>4. Answers("aiAgain", seen.totals, FALSE) <= seen.totals["ok"]
    BY <2>1
  <2>5. life = 1 => Answers("aiAgain", seen.totals, TRUE) <= seen.totals["ok"]
    BY <2>1
  <2> QED BY <2>3, <2>4, <2>5
<1> QED BY <1>1, Invariance, PTL

\* TotalUsers, read when Snapshot returns, is the number of rows it copied when
\* it began.
THEOREM StatsRowsMatchTotalUsers == Spec => []RowsMatchTotalUsers
<1>1. Inv => RowsMatchTotalUsers
  <2> SUFFICES ASSUME Inv, Loaded("snapshot")
               PROVE  Cardinality(DOMAIN seen.users) = Cardinality(DOMAIN perUser)
    BY DEF RowsMatchTotalUsers, Reported
  <2>1. DOMAIN seen.users = DOMAIN perUser
    BY LoadedAll DEF Inv, RowsInv, Loaded
  <2> QED BY <2>1
<1> QED BY <1>1, Invariance, PTL

\* Whatever a save catches of the handlers, the stats file adds up: the next
\* process starts from counters as consistent as those of a running one.
THEOREM StatsFileAddsUp == Spec => []FileInv
<1>1. Inv => FileInv
  BY DEF Inv
<1> QED BY <1>1, Invariance, PTL
=============================================================================

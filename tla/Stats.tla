-------------------------------- MODULE Stats --------------------------------
(***************************************************************************)
(* internal/stats: the bot's counters.  Handlers record into them from     *)
(* goroutines of their own, each recording being several atomic updates;   *)
(* Snapshot (the admins' /stats) and exportState (the save on shutdown)     *)
(* read them one after another while handlers go on; importState starts    *)
(* the next process from what was saved.  Only the table of users is under *)
(* a mutex, and it is module Leaderboard.                                  *)
(*                                                                         *)
(* A handler is the sequence of its calls of the recorder, and each call   *)
(* the sequence of its updates; pc and step count through them.  SaveFile  *)
(* is one step here; how it reaches the disk is module Persistence.        *)
(***************************************************************************)
EXTENDS Integers, FiniteSets, Sequences, Functions, Sums

CONSTANTS
    Users, NoUser,    \* NoUser is the id 0
    MaxTrackedUsers,
    Handlers,         \* bound: the handlers of the updates the bot receives
    Calls,            \* what each of them tells the recorder, in order
    ProvidersOf       \* bound: per life of the process, its configured providers

Lives == DOMAIN ProvidersOf
Providers == UNION {Range(ProvidersOf[l]) : l \in Lives}
Outcomes == {"successPrimary", "successFallback", "failPrimary", "failFallback"}
Totals == {"classic", "ai", "questions", "swearing", "promotions", "ok", "error",
           "fallbacks", "rejectedUser", "rejectedConcurrency"}

RecorderCalls ==
    [name : {"RecordAnek"}, user : Users \union {NoUser}, joke : {"classic", "ai"}]
    \union [name : {"RecordQuestionAnswered"}, user : Users \union {NoUser}]
    \union [name : {"RecordSwearingReaction", "RecordPromotionShown", "ObserveFallback"}]
    \union [name : {"ObserveRequest"}, provider : Providers, ok : BOOLEAN, primary : BOOLEAN]
    \union [name : {"ObserveRateLimitRejection"}, scope : {"per_user", "concurrency"}]

\* The total that a text of an LLM is counted in once it was delivered.
TextTotal(call) ==
    CASE call.name = "RecordAnek" /\ call.joke = "ai" -> "ai"
      [] call.name = "RecordQuestionAnswered"         -> "questions"
      [] OTHER                                        -> "none"
IsText(call) == TextTotal(call) # "none"
IsSuccess(call) == call.name = "ObserveRequest" /\ call.ok

\* A handler asks the LLM at most once, and delivers what it was told.
TextsAreAnswers(calls) ==
    \A i \in DOMAIN calls :
       IsText(calls[i]) => /\ \E j \in 1 .. i - 1 : IsSuccess(calls[j])
                           /\ \A j \in DOMAIN calls : IsText(calls[j]) => j = i

\* The calls of the recorder, each as the sequence of its updates.
Add(total) == [kind |-> "total", name |-> total]
Attempted(p, outcome) == [kind |-> "provider", name |-> p, outcome |-> outcome]
User(user) == [kind |-> "user", name |-> user]

\* Mutant of RecordAnek: the user before the total.
RecordAnekUserFirst(user, joke) ==
    <<User(user), Add(IF joke = "ai" THEN "ai" ELSE "classic")>>

RecordAnek(user, joke) == <<Add(IF joke = "ai" THEN "ai" ELSE "classic"), User(user)>>
RecordQuestionAnswered(user) == <<Add("questions"), User(user)>>
RecordSwearingReaction == <<Add("swearing")>>
RecordPromotionShown == <<Add("promotions")>>

\* Mutant of ObserveRequest: the provider's counter before the total.
ObserveRequestProviderFirst(p, ok, isPrimary) ==
    <<Attempted(p, CASE ok /\ isPrimary  -> "successPrimary"
                     [] ok /\ ~isPrimary -> "successFallback"
                     [] ~ok /\ isPrimary -> "failPrimary"
                     [] OTHER            -> "failFallback"),
      Add(IF ok THEN "ok" ELSE "error")>>

ObserveRequest(p, ok, isPrimary) ==
    <<Add(IF ok THEN "ok" ELSE "error"),
      Attempted(p, CASE ok /\ isPrimary  -> "successPrimary"
                     [] ok /\ ~isPrimary -> "successFallback"
                     [] ~ok /\ isPrimary -> "failPrimary"
                     [] OTHER            -> "failFallback")>>
ObserveFallback == <<Add("fallbacks")>>
ObserveRateLimitRejection(scope) ==
    <<Add(IF scope = "concurrency" THEN "rejectedConcurrency" ELSE "rejectedUser")>>

UpdatesOf(call) ==
    CASE call.name = "RecordAnek"                -> RecordAnek(call.user, call.joke)
      [] call.name = "RecordQuestionAnswered"    -> RecordQuestionAnswered(call.user)
      [] call.name = "RecordSwearingReaction"    -> RecordSwearingReaction
      [] call.name = "RecordPromotionShown"      -> RecordPromotionShown
      [] call.name = "ObserveRequest"            ->
           ObserveRequest(call.provider, call.ok, call.primary)
      [] call.name = "ObserveFallback"           -> ObserveFallback
      [] call.name = "ObserveRateLimitRejection" -> ObserveRateLimitRejection(call.scope)

ASSUME StatsAssumption ==
    /\ IsFiniteSet(Users)
    /\ NoUser \notin Users
    /\ MaxTrackedUsers \in Nat \ {0}
    /\ IsFiniteSet(Handlers)
    /\ Calls \in [Handlers -> Seq(RecorderCalls)]
    /\ \A h \in Handlers : TextsAreAnswers(Calls[h])
    /\ ProvidersOf \in Seq(Seq(Providers))
    /\ Lives # {}

VARIABLES
    totals, providers,      \* the atomics
    perUser, trackedUsers,  \* the table, under s.mu
    mu,                     \* whether Snapshot holds s.mu
    pc,                     \* per handler, the call of Calls it is at
    step,                   \* and the call's next update
    reader,                 \* Snapshot or exportState, and its next load
    seen,                   \* what it has loaded
    file,                   \* what the stats file holds
    life                    \* which process this is

tableVars   == <<perUser, trackedUsers>>
counterVars == <<totals, providers, tableVars>>
vars == <<counterVars, mu, pc, step, reader, seen, file, life>>

Board == INSTANCE Leaderboard WITH recorded <- [u \in Users |-> 0], MaxRecords <- 0

registered == Range(ProvidersOf[life])
Nobody == [u \in {} |-> 0]
NoTotals == [t \in Totals \union {"aiAgain"} |-> 0]
NoAttempts(names) == [p \in names |-> [o \in Outcomes |-> 0]]
Nothing == [totals |-> NoTotals, providers |-> NoAttempts({}), users |-> Nobody]
Idle == [does |-> "nothing", at |-> 0]

Init ==
    /\ life = 1
    /\ totals = [t \in Totals |-> 0]
    /\ providers = NoAttempts(registered)
    /\ perUser = Nobody
    /\ trackedUsers = 0
    /\ mu = FALSE
    /\ pc = [h \in Handlers |-> 1]
    /\ step = [h \in Handlers |-> 1]
    /\ reader = Idle
    /\ seen = Nothing
    /\ file = Nothing

-----------------------------------------------------------------------------
CallOf(h) == Calls[h][pc[h]]
UpdateOf(h) == UpdatesOf(CallOf(h))[step[h]]

\* main gives the LLM the providers it registered.
Uses(h) == {c.provider : c \in {d \in Range(Calls[h]) : d.name = "ObserveRequest"}}

\* One update of a handler.
Update(h) ==
    /\ pc[h] \in DOMAIN Calls[h]
    /\ Uses(h) \subseteq registered
    /\ IF step[h] < Len(UpdatesOf(CallOf(h)))
       THEN step' = [step EXCEPT ![h] = @ + 1] /\ pc' = pc
       ELSE step' = [step EXCEPT ![h] = 1] /\ pc' = [pc EXCEPT ![h] = @ + 1]
    /\ UNCHANGED <<mu, reader, seen, file, life>>

BumpTotal(h) ==
    /\ Update(h)
    /\ UpdateOf(h).kind = "total"
    /\ totals' = [totals EXCEPT ![UpdateOf(h).name] = @ + 1]
    /\ UNCHANGED <<providers, tableVars>>

BumpProvider(h) ==
    /\ Update(h)
    /\ UpdateOf(h).kind = "provider"
    /\ providers' = [providers EXCEPT ![UpdateOf(h).name][UpdateOf(h).outcome] = @ + 1]
    /\ UNCHANGED <<totals, tableVars>>

\* Mutant of RecordUser: it does not take s.mu.
RecordUserUnlocked(h) ==
    /\ Update(h)
    /\ UpdateOf(h).kind = "user"
    /\ IF UpdateOf(h).name = NoUser
       THEN UNCHANGED tableVars
       ELSE Board!RecordUser(UpdateOf(h).name)
    /\ UNCHANGED <<totals, providers>>

\* recordUser: waits for s.mu, except for user 0.
RecordUser(h) ==
    /\ Update(h)
    /\ UpdateOf(h).kind = "user"
    /\ IF UpdateOf(h).name = NoUser
       THEN UNCHANGED tableVars
       ELSE ~mu /\ Board!RecordUser(UpdateOf(h).name)
    /\ UNCHANGED <<totals, providers>>

-----------------------------------------------------------------------------
\* Every counter of every provider. A map's order is arbitrary, but loads of
\* different providers cannot tell: one order stands for all of them.
ProviderLoads ==
    LET names == ProvidersOf[life]
        order == <<"successPrimary", "successFallback", "failPrimary", "failFallback">>
    IN  [i \in 1 .. 4 * Len(names) |->
            [kind |-> "provider", name |-> names[((i - 1) \div 4) + 1],
             outcome |-> order[((i - 1) % 4) + 1]]]

TotalLoads(names) == [i \in DOMAIN names |-> [kind |-> "total", name |-> names[i]]]

\* What Snapshot loads, in order; TotalAneks and TotalAIAneks load totalAneksAI
\* each for itself (stats.go:332-333).
SnapshotLoads ==
    <<[kind |-> "users"]>> \o ProviderLoads
    \o TotalLoads(<<"classic", "ai", "aiAgain", "questions", "swearing", "promotions",
                    "ok", "error", "fallbacks", "rejectedUser", "rejectedConcurrency">>)

\* Mutant of ExportLoads: the requests before the jokes.
ExportLoadsRequestsFirst ==
    <<[kind |-> "users"]>> \o ProviderLoads
    \o TotalLoads(<<"ok", "error", "classic", "ai", "rejectedUser", "rejectedConcurrency",
                    "fallbacks", "swearing", "promotions", "questions">>)

\* What exportState loads, in order.
ExportLoads ==
    <<[kind |-> "users"]>> \o ProviderLoads
    \o TotalLoads(<<"classic", "ai", "ok", "error", "rejectedUser", "rejectedConcurrency",
                    "fallbacks", "swearing", "promotions", "questions">>)

Loads == IF reader.does = "snapshot" THEN SnapshotLoads ELSE ExportLoads

\* Snapshot is called by an admin, exportState by main once the bot stops.
Begin(does) ==
    /\ reader = Idle
    /\ reader' = [does |-> does, at |-> 1]
    /\ seen' = [Nothing EXCEPT !.providers = NoAttempts(registered)]
    /\ mu' = (does = "snapshot")
    /\ UNCHANGED <<counterVars, pc, step, file, life>>

Load ==
    LET load == Loads[reader.at]
    IN  /\ reader.at \in DOMAIN Loads
        /\ seen' = CASE load.kind = "users"    -> [seen EXCEPT !.users = perUser]
                     [] load.kind = "provider" ->
                          [seen EXCEPT !.providers[load.name][load.outcome] =
                                          providers[load.name][load.outcome]]
                     [] load.kind = "total"    ->
                          [seen EXCEPT !.totals[load.name] =
                                          totals[IF load.name = "aiAgain" THEN "ai" ELSE load.name]]
        /\ reader' = [reader EXCEPT !.at = @ + 1]
        /\ UNCHANGED <<counterVars, mu, pc, step, file, life>>

Loaded(does) == reader.does = does /\ reader.at = Len(Loads) + 1

\* Snapshot returns and unlocks s.mu.
Report ==
    /\ Loaded("snapshot")
    /\ mu' = FALSE
    /\ reader' = Idle
    /\ seen' = Nothing
    /\ UNCHANGED <<counterVars, pc, step, file, life>>

\* SaveFile succeeds, or fails and leaves the file as it was; main returns.
Save ==
    /\ Loaded("export")
    /\ file' \in {seen, file}
    /\ reader' = [does |-> "stopped", at |-> 0]
    /\ seen' = Nothing
    /\ UNCHANGED <<counterVars, mu, pc, step, life>>

-----------------------------------------------------------------------------
ImportedProviders(saved, names) ==
    [p \in names |->
        IF p \in DOMAIN saved.providers THEN saved.providers[p] ELSE NoAttempts({p})[p]]

\* importState: as many rows of the saved table as fit, whichever a map gives.
ImportedUsers(saved, rows) == Restrict(saved.users, rows)

\* The process has stopped or crashes, and the next one starts from the file,
\* or from nothing when LoadFile fails. Handlers in flight are gone.
Restart ==
    /\ life + 1 \in Lives
    /\ life' = life + 1
    /\ \E saved \in {file, Nothing} :
          /\ totals' = [t \in Totals |-> saved.totals[t]]
          /\ providers' = ImportedProviders(saved, Range(ProvidersOf[life + 1]))
          /\ \E rows \in SUBSET DOMAIN saved.users :
                /\ \/ Cardinality(rows) = MaxTrackedUsers
                   \/ Cardinality(rows) < MaxTrackedUsers /\ rows = DOMAIN saved.users
                /\ perUser' = ImportedUsers(saved, rows)
                /\ trackedUsers' = Cardinality(rows)
    /\ mu' = FALSE
    /\ pc' = [h \in Handlers |-> IF pc[h] = 1 /\ step[h] = 1 THEN 1 ELSE Len(Calls[h]) + 1]
    /\ step' = [h \in Handlers |-> 1]
    /\ reader' = Idle
    /\ seen' = Nothing
    /\ UNCHANGED file

Next ==
    \/ \E h \in Handlers : BumpTotal(h) \/ BumpProvider(h) \/ RecordUser(h)
    \/ Begin("snapshot")
    \/ Begin("export")
    \/ Load
    \/ Report
    \/ Save
    \/ Restart

Spec == Init /\ [][Next]_vars

-----------------------------------------------------------------------------
\* The attempts with one of the outcomes, over all providers.
Counted(attempts, outcomes) ==
    Sum([po \in (DOMAIN attempts) \X outcomes |-> attempts[po[1]][po[2]]])
Reported == Loaded("snapshot")

\* What the admins see adds up in spite of the handlers that go on while it is
\* read: the table of users accounts for no more than the jokes and the answers,
\* because a recording counts itself before its user, Snapshot keeps s.mu and
\* exportState, which does not, copies the table first.  It holds across saves
\* and restarts too.
UsersWithinTotals ==
    Reported =>
       Sum(seen.users) <= seen.totals["classic"] + seen.totals["ai"] + seen.totals["questions"]

\* The rows of the providers never add up to more than the totals above them.
ProvidersWithinTotals ==
    Reported =>
       /\ Counted(seen.providers, {"successPrimary", "successFallback"}) <= seen.totals["ok"]
       /\ Counted(seen.providers, {"failPrimary", "failFallback"}) <= seen.totals["error"]

\* Every AI joke and every answered question was a successful request first.
\* Answered questions are left out after a restart: exportState loads them last
\* (persist.go:102) and may have saved one whose request it did not see.
AIWithinRequests ==
    Reported =>
       /\ seen.totals["aiAgain"] <= seen.totals["ok"]
       /\ life = 1 => seen.totals["aiAgain"] + seen.totals["questions"] <= seen.totals["ok"]

\* What Snapshot calls TotalUsers, read from the table when it returns, is the
\* number of rows it copied at its start: s.mu is held in between.
RowsMatchTotalUsers == Reported => Cardinality(DOMAIN seen.users) = Cardinality(DOMAIN perUser)

\* The jokes the admins see as "classic" are the total less the AI jokes
\* (adminstats.go:156): never a negative number.
AITotalWithinTotal ==
    Reported => seen.totals["aiAgain"] <= seen.totals["classic"] + seen.totals["ai"]
=============================================================================

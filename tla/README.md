# anekbot, specified

TLA+ models of [anekbot](../src/README.md), a Telegram bot in Go that sends
jokes, answers questions with the help of LLM providers, reacts to swearing and
shows its administrators statistics. The models are translated from the code
under `src/`; TLC checks them on small instances and TLAPS proves the theorems
listed below for every value of the constants.

Run one model with `tlc -config X.cfg M` and one module's proofs with
`tlapm M.tla`. `PROJECT.json` names every run with its module, and, for every
definition, the lines of code that it stands for.

## 1. The system

| Part | Code | State | Operations |
|---|---|---|---|
| Per-user rate limiter | `internal/flowcontrol/limiter.go` | a map of token buckets, the time of the last sweep, under a mutex | `Allow` (sweep, evict, refill, spend) |
| Semaphore | `internal/flowcontrol/semaphore.go` | a buffered channel | `TryAcquire`, `release` |
| LLM client | `internal/llm/llm.go`, `algorithm.go` | providers, weighted cycle, an atomic cursor, the two above | `AskFor`, `Ask`, the three orders |
| LLM backends | `internal/llm/gemini.go`, `huggingface.go` | none | one HTTP request |
| Statistics | `internal/stats/stats.go` | atomic counters, per-provider counters, the users' table under a mutex | `Record…`, `Observe…`, `Snapshot` |
| Statistics file | `internal/stats/persist.go` | one file, temp files | `SaveFile`, `LoadFile` |
| Inline mode | `internal/anekbot/anek.go` | none of its own; messages at Telegram | `HandleInline`, `HandleChosenInlineResult` |
| Message handlers | `internal/anekbot/{anek,questions,swearing,help,adminstats}.go` | none | `Handle`, `HandleCallback` |
| Dispatcher | `internal/anekbot/dispatcher.go` | which handlers are on | `Dispatch` |
| Promotions | `internal/anekbot/promotions.go` | items and weights, read only | `Pick`, `Keyboard` |
| Configuration | `cmd/anekbot/config.go` | none after startup | `loadConfig` |
| Process | `cmd/anekbot/main.go` | context, web server | start, signal, shutdown |

How they interact. The update library calls `Dispatch` in a goroutine per
update, and `Dispatch` starts one goroutine per handler for a message. So any
number of handlers run at once. Whatever they share is in this table: the
limiter (a mutex), the semaphore (a channel), the cursor and the counters
(atomics) and the users' table (a mutex). The questions handler and inline mode
call the LLM client, which reports to the statistics through the `Recorder`
interface. `main` loads the file before the first update and saves it once the
context is done.

What is hard about it, and what makes each part correct:

* *Limiter.* Tokens are refilled lazily, stale buckets are swept lazily, and
  live ones may be evicted; callers must not be able to tell, except for the
  eviction, whose price must be bounded. The map has a size limit of its own.
* *LLM client.* Refusals, failing providers and empty answers leave `AskFor` in
  five ways; slot and gauge must come back on each. Concurrent requests must
  share the cursor fairly although they fall back.
* *Statistics.* A recording is several updates, a snapshot is many loads, and
  only one of them is under the lock; what the administrators see must add up.
  The users' table forgets users and must still rank the active ones.
* *Handlers.* A call to Telegram may fail, or fail after Telegram carried it
  out, and the signal may come between any two calls; what is counted, what is
  shown and what is tried again must still agree, and every `Dispatch` return.
* *Inline queries.* Several fetches with retries, delays and timeouts of their
  own share one deadline, after which Telegram refuses the answer.
* *Configuration.* What is accepted must be what the rest can run with.
* *File.* A crash, a loss of power or an error may come between any two calls of
  a save. Shutdown saves while handlers still run.
* *Inline mode.* A placeholder is posted by Telegram and must be replaced by the
  bot, through LLM errors, failed edits, shutdown, restarts with another
  configuration, results that Telegram has cached and updates delivered twice.

The full list, with lines, is `hazards` in `PROJECT.json`.

## 2. Modules

| Module | Models | Built on |
|---|---|---|
| `PerKeyLimiter` | `Allow`, sweep, eviction, refill, the clock | |
| `TokenBucket` | abstract: a bucket per user that fills by itself | |
| `RateAudit` | the limiter with its answers, an observer that counts grants and evictions from any instant on, and who called when; that it implements `TokenBucket` | `PerKeyLimiter`, `TokenBucket` |
| `Sums` | sums of functions, without recursion | |
| `ProviderOrder` | `buildCycle`, `attemptOrder`, `Promotions.Pick` as operators | `Sums` |
| `Config` | `loadConfig`, and the handlers, routes and help that `main` derives | `ProviderOrder` |
| `Startup` | a config file is loaded, and requests take their turns at its providers | `Config` |
| `Backends` | what `Ask` of each backend makes of an HTTP exchange | |
| `LLM` | `AskFor` and `Ask` for concurrent requests, the semaphore | `PerKeyLimiter`, `ProviderOrder`, `Backends` |
| `Leaderboard` | `recordUser` | `Sums` |
| `Stats` | recordings, `Snapshot`, `exportState`, `importState` | `Leaderboard`, `Sums` |
| `AtomicSave` | abstract: a save is one step, and a file is never there in part | |
| `Persistence` | `SaveFile`, `LoadFile`, startup and shutdown, the file system; that it implements `AtomicSave` | `AtomicSave` |
| `InlineMode` | offers, choices, the placeholder's edits, Telegram, the process | |
| `Services` | external: calls to Telegram and to the joke service, and `fetchJoke` | |
| `Messages` | `Handle` of the five handlers, and the fan-out and join of `Dispatch` | `Services` |
| `AdminStats` | `HandleCallback` of both handlers: the refresh button | `Services` |
| `InlineQuery` | `HandleInline` and `fetchJokeWithRetry`, with their timers | `Services` |
| `Dispatcher` | concurrent updates of every kind, and the signal | `Messages`, `AdminStats`, `InlineQuery` |
| `…Proofs` | the theorems about the module they are named for; `LLMProofs` has those of `Startup` as well, whose lemmas about the orders they share | |
| `SumTheorems` | the lemmas about sums that the proofs about counters share | `Sums` |
| `MC…` | constants, symmetry and inputs for TLC | |

### State and actions against the code

**PerKeyLimiter.** `buckets` and `lastPrune` are the fields of the same name,
`now` is the clock. `Allow(k, granted, kept)` is the whole of `Allow`, which
holds `l.mu` from its first line to its last: `Unswept` is what `expireLocked`
leaves and `Refilled` is `refillLocked`. `evictOldestLocked` is its two loops:
`Oldest` is where the scan of the map may end, with the comparison of
limiter.go:100 as `Before` (map order decides among equals, so it is a set), and
`Passes` are the sequences of deletions that `len - MaxKeys + 1` passes may make;
`Survivors` is what they leave. In reachable states that is at most one pass, as
no call lets the map outgrow `MaxKeys`. A refused call stores its refilled
bucket, as in the code. A token is `Window` units and a tick
adds `Limit` of them, so that the rate `Limit/Window` is exact: the rounding of
float64 is the only part of the algorithm that is left out.

**LLM.** Each request has a `pc` with one label per statement of `AskFor` and
`Ask` that touches shared state: the limiter (an `INSTANCE` of `PerKeyLimiter`,
so the real one), `TryAcquire`, `IncConcurrency`, `attemptOrder` with the atomic
cursor, each provider's answer with its `ObserveRequest`, `ObserveFallback`, and
the two deferred calls in the order in which Go runs them. `attempt` counts from
1 where the code counts from 0. `slots` is the number of values in the channel;
`release` has the guard `slots > 0` because receiving from an empty channel
blocks. `Backends` says which outcomes a provider's answer can have: a blank
candidate of Gemini is an empty answer, one without parts an error, and a choice
of Hugging Face without content is an empty answer again.

**RateAudit.** `answer` is what the last call of this instant returned,
`lastCall` when each user called last, whether or not they were forgotten
since, and the rest is the observer. `ForgetsLeastActive` says of the evictions
what they are for in these terms, which the code does not keep: whoever loses an
unexpired bucket, `MaxKeys - 1` others have called since. The abstract `TokenBucket` has a level per user and no map;
`MayForget` says whether there are more users than room, and only then may a call
also fill the bucket of one user. The refinement maps `level` to what each bucket
would hold if it were refilled now.

**Config.** Pure operators, named as in `config.go`. Strings are values of which
only equality matters, templates are sequences of `%`, `s` and another character,
an accepted configuration is a record, and every error is `Refused`. Fractions
(promotion weights, frequency) are counted in halves. The loop that scans a
template is the set of the places it skips (`Seconds`): the character after a
`%`, unless that `%` was skipped itself.

**Startup.** `Load` is `loadConfig` on one of the `Inputs`, each a file and an
environment; `turn` is the value of the cursor that the next request finds.
The properties compare the operators of `Config` and `ProviderOrder` with what
they are for: shares of the turns and of the draws counted one by one, and what
`fmt.Sprintf` makes of a template, by its runs of `%`.

**Messages.** `at` is where each handler of each message is; a step ends where
the code calls Telegram, a service or the statistics. `Sent(done, err)` is a
call of the `Sender`: carried out or not, reported as an error or not, in every
combination but a silent loss, and never carried out once the context is done.
`wg` is the counter of the `WaitGroup`. `chat`, `panels` and `counted` are what
the chats show and what the statistics got; `lost` and `repeated` are history.
A text is reduced to what the handlers match: its command and whom it is
addressed to, the trigger word, a mention, swearing.

**AdminStats.** What a panel shows is the number of recordings that its text is
based on, and its format. `Edited` is `EditMessageText`: an edit that changes
neither is refused as "not modified", others may fail as bad HTML or for another
reason, in which case they may have been carried out.

**InlineQuery.** `now` is the time since the query; `Tick` lets it pass while no
timer is due, so timers fire on time and a goroutine takes no time to run. A
fetch returns at any instant up to `until`, where its context ends it.

**Dispatcher.** `updates` says which updates wait, run or have returned. `Init`
chooses one of the `Scenarios`; the handlers share `recordings`, `panels` and
the context. Chosen inline results are `InlineMode`, which has the process's
restarts as well.

**ProviderOrder.** A provider is its place in the configuration, from 1. A
random number is a draw out of `resolution` equally likely ones. The loops of
the code are closed forms: a slot of the cycle belongs to the provider whose
weights, summed up to it, reach the slot; the order of a request is the walk
round the cycle, each provider where it first occurs; `Pick` is the first
provider at which the weights so far exceed the target; and `randomOrders` is
the set of the orders that some draws produce.

**Leaderboard.** `perUser` maps tracked users to counts, and `Bump`, `Replace`
and `Add` are the three ways through `recordUser`. `recorded` is a history
variable. `Records` counts the calls.

**Stats.** Every `Record…` and `Observe…` is an operator that gives its updates
in the order of the code; a handler is a script of such calls and takes one
update per step. `Snapshot` and `exportState` are sequences of loads, one per
step, the first one the copy of the users' table; `Snapshot` holds `mu`
throughout, `exportState` only while it copies, which is one step. `Counted` is
the total row of the providers' table in `/stats`. `Restart` is `importState`
from the file or, if that cannot be read, from nothing.

**Persistence.** One action per call of `atomicWriteFile`, each of which may
fail as the file system pleases and then takes the error path with its deferred
`os.Remove`, which may fail as well: its error is ignored, and the temp file
stays (`strays`). `saves`, `deaths` and `notRemoved` are history variables, by
which `TempFilesAccounted` accounts for every temp file. A file has four attributes: how much the counters in it amount to,
whether it parses, whether all of it was written and whether it was synced.
`onDisk` holds what the name may mean after a loss of power, since the directory
is not synced. `Crash` and `PowerLoss` are possible at every step. The refinement
maps a file to what `LoadFile` reads in it, and a process in the middle of a save
to one that is stopping, until the rename. `Stats` has saves as one step, which
is what this refinement entitles it to.

**InlineMode.** Each message has a handler with a `pc`; its steps end where
`HandleChosenInlineResult` and `editInlineMessage` touch something others see.
`AskFor` is one step that returns a joke or an error: what happens inside is
`LLM`. Telegram is external: it caches results (`offers`, `Expire`), posts what
a user chooses (`Choose`), may fail to carry out an edit or report a failure
after it did (`EditHTML`), and delivers again what was not acknowledged (`Die`).
A process has one of four configurations: anek off, AI jokes off, no LLM, or all
on; the next one may have another (`Start`). With anek off `d.anek` is nil, and
`Ignore` takes the update and does nothing (dispatcher.go:96). `jokes` and
`promotions` are the statistics of the process that runs and `file` what was
saved last: `Save` may fail, or there may be no file (main.go:133), `Die` leaves
only the file's, and `Start` may find that it cannot be read (main.go:56).
`offerer` and `taker` (which process offered a message's result, and which took
its update), `reason` (why a handler may have left the message as it was) and
`lost` (whose statistics were lost) are history variables.
Two early returns are left out because no state reaches them: an AI result
always carries a topic and, having a button, an inline message id.

## 3. Runs

| Run | Properties | What it shows |
|---|---|---|
| `Limiter` | `TypeOK`, `TrackedBound`, `RateBound`, `ImplementsTokenBucket`, `SweepBound`, `ForgetsLeastActive` | with more users than rows, the limiter is a token bucket per user up to one forgotten user per call; the memory bound, its price, the age of stale buckets, and who may be forgotten |
| `ProviderOrder` | `OrdersNameEveryProviderOnce`, `WeightsDecidePrimaries`, `PicksFollowWeights`, `AcceptedIsUsable` | config files: what is accepted can be run, and the orders and the weighted pick do what they are for with every list of weights that is accepted |
| `LLM` | `SlotAccounting`, `GaugeWithinSlots`, `TextUnlessAllFailed`, `FallbackLedger`, `RoundRobinShare`, `EveryRequestReturns` | concurrent requests with every mix of refusals, failures and replies |
| `Leaderboard` | `TypeOK`, `NeverUndercounts`, `ErrorWithinLeast`, `CountsAddUp`, `ActiveUsersTracked` | the promises of the Space-Saving algorithm |
| `Stats` | `UsersWithinTotals`, `ProvidersWithinTotals`, `AIWithinRequests`, `RowsMatchTotalUsers` | what is read and saved adds up while handlers record |
| `Persistence` | `PathWhole`, `ImplementsAtomicSave`, `TempFilesAccounted`, `SavedNeverShrinks`, `ShutdownEnds` | a save is one step or did not happen, the file is whole and grows, temp files are accounted for, and the save ends, once the web server has drained |
| `InlineMode` | `PlaceholderExplained`, `ShownIsRecorded`, `TakenIsHandled` | every placeholder is replaced or has one of four reasons not to be, and what was shown stays in the statistics unless they were lost |
| `Dispatcher` | `CountedIsShown`, `QuestionHeard`, `RefreshIsFresh`, `FormattingKept`, `AnsweredByDeadline`, `MissingOnlyAfterRetries`, `DispatchReturns` | updates handled at once, with failing and ambiguous calls, retries, timeouts and the signal: counted jokes and reactions were shown (a question is counted before it is sent), questions are heard, refreshes are fresh, answers leave in time |

Four runs end in a violation on purpose; each is a disagreement between the code
and what a comment or the user interface says:

* `LimiterEvictDoc` (`EvictsOnlyOverMaxKeys`): the comment promises eviction
  only when the distinct users exceed `MaxKeys`; the code evicts at `MaxKeys`
  already, even when the caller is tracked, and may take the caller's own bucket.
* `StatsAITotal` (`AITotalWithinTotal`): `Snapshot` loads one counter twice, so
  that `/stats` can show more AI jokes than jokes.
* `PersistenceOverwrite` (`SavedStaysSaved`): a file that cannot be read at
  startup is replaced by nearly empty statistics at the next graceful shutdown.
* `InlineModeDelivered` (`RecordedIsDelivered`): a "delivered" joke is recorded
  before it is sent, and sending may fail.

Met on the way, and not made runs because no text of the repository says
otherwise in as many words:

* `server.webhook_path` may be `/healthz`: only the Prometheus path is compared
  with the reserved routes (`config.go:319`), and registering the second handler
  panics (`main.go:143`). `AcceptedIsUsable` names it as its exception.
* The help text offers inline mode when it is switched off
  (`help.go:30-33`, `main.go:121`); `AcceptedIsUsable` leaves it out.
* The bound on the total weight is checked under `round_robin` only, though `New`
  builds the cycle for every algorithm (`llm.go:105`, `algorithm.go:17-19`).
* Two refreshes at once may end with the older numbers on the screen, which is
  why `RefreshIsFresh` speaks of a refresh that ran alone.

### Bounds, and why they are enough

* *Limiter.* Three users and room for two, so that a third caller meets a full
  map of live buckets. One token per window of two ticks, so that a bucket is
  refilled by halves; a sweep at least every three ticks; a clock of five, in
  which buckets are swept, evicted and taken up again; and an observer who may
  start at any tick and counts up to three. With more users than room this run
  exercises `ImplementsTokenBucket` only in its weaker case, in which a call may
  forget one user. The exact case, room for everybody, is the theorem's alone.
  The theorems have no such bound.
* *LLM.* Three requests of two users, two slots and two providers of weights 2
  and 1. One request is refused for its user's quota, one for concurrency, and
  the rest reach the providers with each outcome. Three requests are one cycle.
* *ProviderOrder.* Families of files, each of which varies one section of a fine
  file completely: lists of up to three providers with weights up to three or
  left out; pairs of provider entries; servers; templates of up to five
  characters; limits; up to two promotions; switches; and every subset of the
  environment. Sections are checked independently of each other in the code, but
  for the ones a family has together. The cursor runs through two cycles.
* *Dispatcher.* One of four kinds of scenario, so that their states add instead
  of multiplying; messages share nothing but the statistics and the context. One
  message of every kind of text to three sets of handlers; `/stats`, another
  message and two taps at once; each kind of tap by an admin and by others; and
  each kind of inline query. Two fetches, which are symmetric and share only the
  deadline. Deadline 9, timeout 3 and delay 1 have the proportions of 7 s, 3 s
  and 200 ms that matter: two timed-out attempts fit, the third is cut off.
* *Leaderboard.* Five users, three rows, eleven recordings: every user can be
  evicted, come back, tie with the others and be evicted again.
* *Stats.* Three handlers, one row in the table, two processes of which the
  second has another set of providers. The handlers between them make every
  kind of update of which a property speaks.
* *Persistence.* Three events, three processes: the file can be saved, found and
  saved over, and read by a third.
* *InlineMode.* One message, because messages share nothing but the process
  (the proof is for any set of them), and three processes of any configuration.
  One offer at a time (`MaxOffers`): a message is posted from one, and which
  other ones there were makes no difference to it.

### Fairness

`LLM` assumes weak fairness of each request once it has arrived: a goroutine
that can run does, and the providers' HTTP clients have a timeout
(`gemini.go`, `huggingface.go`), so an attempt ends. `Persistence` assumes it of
the save: `main` runs on after the signal and file operations return. That the
web server has drained by then, within 5 s (`main.go:170`), is an assumption of
it and not a result. `InlineMode` assumes it of a
handler, which is sequential code over requests with deadlines. `Dispatcher`
assumes that some handler takes its next step while the context is not done: the
HTTP clients of Telegram's library, of the joke service and of the providers have
timeouts, and once the context is done the process is about to exit and nothing
waits for handlers. As finitely many updates arrive, that is enough for all of
them. Nothing obliges
users to write, requests to arrive, the clock to reach its bound, or anybody to
start the bot again. No strong fairness is assumed anywhere.

## 4. Proofs

| Theorem | Property | Invariant it rests on |
|---|---|---|
| `LimiterTypes`, `LimiterMemory` | `TypeOK`, `TrackedBound` | themselves: a call evicts before it inserts |
| `LimiterSweep` | `SweepBound` | `SweptAtPrune`: what the last sweep left was younger than a window |
| `LimiterEviction` | `ForgetsLeastActive` | `RefilledAtLastCall`: a tracked bucket was refilled at its user's last call; and `TrackedBound` |
| `RateLimited` | `RateBound` | `RateBudget`: tokens still held are part of the bound |
| `LimiterIsTokenBucket` | `ImplementsTokenBucket` | `Inv` of the limiter |
| `SlotsCountRequests`, `GaugeNeverExceedsSlots` | `SlotAccounting`, `GaugeWithinSlots` | both counts together, as cardinalities of sets of requests |
| `AttemptsAddUp` | `FallbackLedger` | `LedgerInv`: no attempt before the order is drawn, no result before an attempt ends |
| `TextOrAllFailed` | `TextUnlessAllFailed` | `OrderInv`: every order names each provider once, and those before `attempt` have failed |
| `CyclesAreShared` | `RoundRobinShare` | `ShareInv`: the cursor counts the requests with an order, and each provider was primary at its own turns |
| `EveryOrderIsComplete`, `PrimariesFollowWeights`, `DrawsFollowWeights`, `AcceptedServes` | `OrdersNameEveryProviderOnce`, `WeightsDecidePrimaries`, `PicksFollowWeights`, `AcceptedIsUsable` | `StartInv`: a configuration is what `loadConfig` made of an input; the rest is about the operators |
| `LeaderboardTypes`, `LeaderboardNeverUndercounts`, `LeaderboardError` | `TypeOK`, `NeverUndercounts`, `ErrorWithinLeast` | also `ExactWhileFree`: a table with a free row has forgotten nobody |
| `LeaderboardCountsAddUp`, `LeaderboardTracksActive` | `CountsAddUp`, `ActiveUsersTracked` | the sum of the counts is the number of records, and the least count is at most their share |
| `StatsUsersWithinTotals`, `StatsProvidersWithinTotals`, `StatsAIWithinRequests`, `StatsRowsMatchTotalUsers` | `UsersWithinTotals`, `ProvidersWithinTotals`, `AIWithinRequests`, `RowsMatchTotalUsers` | `Inv` of `StatsProofs`, below |
| `StatsFileAddsUp` | (no run) | `FileInv`, one of its parts: what a file holds adds up, however many processes saved it |
| `PersistenceTypes`, `InlineModeTypes` | (no run: the types of the two modules) | themselves |
| `FileNeverPartial` | `PathWhole` | `Durable` and `TempStages`: what each step of a save has secured |
| `ShutdownLosesNothing`, `SavesOnlyGrow` | `ShutdownKeeps` (no run: the refinement says more), `SavedNeverShrinks` | `Knows`: the process knows no less than its file |
| `SavingIsAtomic` | `ImplementsAtomicSave` | `Durable`, `TempStages` and `Knows`: what is renamed is whole, synced, and was exported after the signal |
| `TempFilesBounded` | `TempFilesAccounted` | `Accounted`: it, and one start for each process that may still leave something |
| `StuckOnlyForAReason` | `PlaceholderExplained` | `AtWork`: where a handler is and what it will write; `Origins`: what this process offered, its configuration allows |
| `NothingShownUnrecorded` | `ShownIsRecorded` | `AtWork`: what a handler carries was recorded; `Kept`: what is shown is in the statistics and, once they are saved, in the file |
| `NothingCountedUnshown`, `EveryQuestionHeard` | `CountedIsShown`, `QuestionHeard` | `MessageInv`: per message and handler, what it has shown and counted at each of its steps |
| `RefreshShowsFreshNumbers`, `RefreshKeepsFormatting` | `RefreshIsFresh`, `FormattingKept` | `TapInv`: `Refreshing`, what a tap under way has read; `Ordered`, which tap came later |
| `QueriesAnsweredByDeadline`, `SuggestionsRetried` | `AnsweredByDeadline`, `MissingOnlyAfterRetries` | `InlineInv`: every fetch under way is due by the deadline |

The argument of each module is an invariant `Inv` with `Init => Inv` and
`Inv /\ [Next]_vars => Inv'`, one lemma per action or kind of action.

* *Limiter.* The lemma `LevelAfterAllow` carries most of the rest: seen through
  `Level`, what each bucket would hold if it were refilled now, a call changes
  the caller's level by exactly the token it spends, a sweep changes nothing,
  because a swept bucket would be full, and an eviction fills the evicted one.
  Refinement is this lemma step by step: with room for every user nothing is
  evicted, and without it at most one user is, the one the abstract bucket
  forgets. The rate bound is this lemma summed over an interval.
  Whom an eviction forgets takes the loop apart (`EvictionPass`): each pass takes
  a bucket that nobody left is older than, so the `MaxKeys - 1` who stay were all
  refilled no earlier, and a refill is a call, granted or refused.
* *Leaderboard.* `NeverUndercounts` alone is not inductive: a user who returns
  takes over the least count, which covers their past only because nobody leaves
  with more than the least count.
  The sum of the counts is the number of units they hold (`Sums`), so that a
  record is one unit more, and a replacement moves the units of a row.
* *LLM.* Between `TryAcquire` and `release`, and between `Inc` and `Dec`, the
  requests form two sets; every step moves one request into or out of them and
  changes the counters alike. That some text comes back unless all have failed
  needs the order to name everybody, which is a fact about `attemptOrder`.
* *Orders and configurations.* The slots of a provider lie next to each other in
  the cycle (`CycleIs`), and the walk from any cursor meets each slot once
  (`WalkMeets`), so that each provider occurs in it and the first occurrences
  name everybody (`RoundRobinOrderIs`). Any run of as many requests as the cycle
  has slots meets each slot once too (`TurnsInWindow`), which are the shares.
  After the primary, the walk meets the next provider's slots before any later
  one's (`FallbackOrderIs`). A draw falls into one of consecutive intervals, as
  long as the weights (`PickShare`). A template is scanned from left to right,
  and in a run of `%` every other one is skipped (`EveryOther`). Where a loop
  would call for induction, the proofs take the least counterexample
  (`LeastIndex`), as the provers cannot instantiate the induction theorems.
* *Stats.* While handlers record, the counters are apart by what those between
  two updates have still to add: `MidUser` those who have counted a text and not
  its user, `MidRequest` those who have counted a request and not its provider,
  `Undelivered` those with an answer that is not yet counted as delivered. For a
  reader under way the same inequalities hold of what it *has or would get now*
  (`Now`): where it has loaded one side before the other, the other can only have
  grown since. `Inv` has one part per kind of property for the counters, for the
  reader and for the file, and the file's part is what the next process's
  counters start with. `AIWithinRequests` leaves the answered questions out after
  a restart because `exportState` loads them last, after the requests: a file may
  hold one whose request it did not see.
* *File.* The rename is the save: by then the temp file is whole and synced, and
  what it holds was exported after the signal, so the step maps to `Save`. Every
  step before leaves the path alone, a death maps to `End`, and a loss of power
  brings back a file that had reached the disk, as it was.
* *Temp files.* A process that starts may leave one thing: its save, or a temp
  file. What was left and what is held are at most the processes started
  (`Accounted`), and only a death or a failed `os.Remove` leaves a temp file.
* *Inline mode.* A handler that leaves a placeholder alone for its configuration
  cannot be in the process that offered it (`Origins`). What is shown was recorded
  in the same process before (`Carries`), nothing is shown once the context is
  done, and the save comes after that, so the file has it whatever is recorded
  while the file is written (`Kept`).
* *Dispatcher.* Handlers of one message share no state but the statistics, and
  handlers of different messages nothing else, so `MessageInv` holds message by
  message and a lemma says that other steps leave it alone. Not so for taps: a
  refresh may be overwritten by another one. `Ordered` says that a tap that comes
  after one which nothing overlapped was made later, and so reads numbers that
  are no older. Inline queries rest on time: it does not pass while a fetch is
  due, and `AttemptUntil` makes each fetch due by the deadline.

Assumptions. The constants' assumptions are the `ASSUME`s of the modules, and TLC
evaluates them in the runs: positive limits (`withDefaults`, `llm.go:67`), at
least one provider (`main.go:105`), positive weights where weights are used
(`config.go:284`), finite sets of users and requests; that what was decoded from
a config file has numbers and lists where the code's types say so; and that a
handler delivers at most one text of an LLM, after the request that gave it
(`TextsAreAnswers`). No theorem assumes more.

Model-checked only. Liveness (`EveryRequestReturns`, `ShutdownEnds`,
`TakenIsHandled`, `DispatchReturns`): the proof system does not handle fairness.
Every safety property of a passing run is a theorem.

## 5. Not modelled

* Formatting, logging, the words that count as swearing, version: no state, no
  order. Of the help text, only which abilities it names.
* Decoding the config file and the flags, and the settings that `loadConfig`
  passes on unchecked. `ParsePromotions` is not called by the program.
* The metrics endpoint (a comparison of a token, and a library's output), the
  web server and the update library: I/O. Telegram and the joke service are
  external; the models take their replies as nondeterministic.
* float64 rounding in the limiter and in the weighted picks.
* The cursor's conversion to `int`, which matters after 2^63 requests, or 2^31 on
  a 32-bit build.
* The Prometheus series with labels, which only the metrics endpoint reads.

## 6. Plan

1. `EvictsOnlyOverMaxKeys` in the form that does hold: what an evicted user's
   own rate is bounded by when the number of users is known.
2. The composition of `Stats` with `AtomicSave`, so that a loss of power after a
   save is seen in the administrators' totals.

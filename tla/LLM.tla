--------------------------------- MODULE LLM ---------------------------------
(***************************************************************************)
(* internal/llm/llm.go, AskFor and Ask: what stands between a user's       *)
(* question and the LLM providers.  Handlers run in goroutines of their    *)
(* own, so many requests are inside AskFor at once; they share the per-user *)
(* limiter, the semaphore, the round-robin cursor and the recorder.  A     *)
(* request is a process whose pc is the next statement it runs.            *)
(*                                                                         *)
(* The limiter is PerKeyLimiter, whose Allow is one atomic step.  The      *)
(* recorder is reduced to the counters that speak of requests and attempts; *)
(* how each of its calls updates several counters is module Stats.         *)
(***************************************************************************)
EXTENDS Integers, FiniteSets, ProviderOrder

CONSTANTS
    Requests,       \* bound: the calls of AskFor
    Users,
    UserOf,         \* the user who makes each request
    Algorithm,      \* "round_robin", "order" or "random"
    Weights,        \* of the providers, in config order
    Backend,        \* of each provider, "gemini" or "huggingface"
    Resolution,     \* bound: how many values randFloat() has
    MaxConcurrent,  \* capacity of the semaphore's channel
    Limit, Window, PruneInterval, MaxKeys, MaxClock  \* of the limiter

\* main builds an LLM only with providers (main.go:105); a weight is at least 1
\* wherever weights are used (config.go:284); withDefaults makes the limits
\* positive.
ASSUME LLMAssumption ==
    /\ IsFiniteSet(Requests)
    /\ UserOf \in [Requests -> Users]
    /\ Weights \in Seq(Nat \ {0}) /\ Weights # <<>>
    /\ Backend \in [DOMAIN Weights -> {"gemini", "huggingface"}]
    /\ Resolution \in Nat \ {0}
    /\ MaxConcurrent \in Nat \ {0}

VARIABLES
    buckets, lastPrune, now,  \* l.perUser
    slots,    \* l.concurrency: how many values its channel holds
    cursor,   \* l.cursor, an atomic
    gauge,    \* the recorder's llmConcurrencyInUse
    tally,    \* the recorder's counters of attempts, fallbacks and rejections
    pc,       \* per request, what it does next
    order,    \* per request, what attemptOrder returned
    attempt,  \* per request, the attempt it is at, from 1
    result    \* per request, what AskFor returns

quotaVars == <<buckets, lastPrune, now>>
callVars  == <<order, attempt, result>>
vars == <<quotaVars, slots, cursor, gauge, tally, pc, callVars>>

Quota == INSTANCE PerKeyLimiter WITH Keys <- Users
Clients == INSTANCE Backends

Steps == {"idle", "acquire", "inc", "order", "ask", "fallback", "dec", "release", "done"}
Counters == {"okPrimary", "okFallback", "failPrimary", "failFallback", "fallbacks",
             "perUser", "concurrency"}

Init ==
    /\ Quota!Init
    /\ slots = 0
    /\ cursor = 0
    /\ gauge = 0
    /\ tally = [c \in Counters |-> 0]
    /\ pc = [r \in Requests |-> "idle"]
    /\ order = [r \in Requests |-> <<>>]
    /\ attempt = [r \in Requests |-> 0]
    /\ result = [r \in Requests |-> "none"]

Goto(r, from, to) == pc[r] = from /\ pc' = [pc EXCEPT ![r] = to]
Count(c) == tally' = [tally EXCEPT ![c] = @ + 1]
Return(r, value) == result' = [result EXCEPT ![r] = value]

-----------------------------------------------------------------------------
\* A question or a chosen AI joke reaches its handler, which calls AskFor:
\* l.perUser.Allow. A refusal is counted and ends the call with ErrBusy.
Arrive(r) ==
    /\ \E granted \in BOOLEAN, kept \in SUBSET Quota!Tracked :
          /\ Quota!Allow(UserOf[r], granted, kept)
          /\ IF granted
             THEN Goto(r, "idle", "acquire") /\ UNCHANGED <<tally, result>>
             ELSE Goto(r, "idle", "done") /\ Count("perUser") /\ Return(r, "busy")
    /\ UNCHANGED <<slots, cursor, gauge, order, attempt>>

\* l.concurrency.TryAcquire never waits; a refusal keeps the user's token spent.
TryAcquire(r) ==
    /\ IF slots < MaxConcurrent
       THEN Goto(r, "acquire", "inc") /\ slots' = slots + 1 /\ UNCHANGED <<tally, result>>
       ELSE /\ Goto(r, "acquire", "done") /\ Count("concurrency") /\ Return(r, "busy")
            /\ UNCHANGED slots
    /\ UNCHANGED <<quotaVars, cursor, gauge, order, attempt>>

IncConcurrency(r) ==
    /\ Goto(r, "inc", "order")
    /\ gauge' = gauge + 1
    /\ UNCHANGED <<quotaVars, slots, cursor, tally, callVars>>

\* What attemptOrder can return at each position of the cycle.
CycleLength == Total(Weights)
OrdersAt == [c \in 0 .. CycleLength - 1 |-> attemptOrder(Algorithm, Weights, c, Resolution)]

\* Ask: l.attemptOrder(). The cursor moves once per request, under round_robin.
Order(r) ==
    /\ Goto(r, "order", "ask")
    /\ \E o \in OrdersAt[cursor % CycleLength] :
          order' = [order EXCEPT ![r] = o]
    /\ attempt' = [attempt EXCEPT ![r] = 1]
    /\ cursor' = IF Algorithm = "round_robin" THEN cursor + 1 ELSE cursor
    /\ UNCHANGED <<quotaVars, slots, gauge, tally, result>>

\* Mutant of AfterAnswer: attempts counted from 0, as the code does.
AfterAnswerFromZero(r) == IF attempt[r] > 0 THEN "fallback" ELSE "dec"

\* A primary's answer is not a fallback.
AfterAnswer(r) == IF attempt[r] > 1 THEN "fallback" ELSE "dec"

\* A provider answered: ObserveRequest counts it, AskFor will return it.
Answered(r, answer) ==
    /\ Goto(r, "ask", AfterAnswer(r))
    /\ Count(IF attempt[r] = 1 THEN "okPrimary" ELSE "okFallback")
    /\ Return(r, answer)
    /\ UNCHANGED <<quotaVars, slots, cursor, gauge, order, attempt>>

\* Mutant of HasNext: the loop stops one provider early.
HasNextButLast(r) == attempt[r] < Len(order[r]) - 1

HasNext(r) == attempt[r] < Len(order[r])

\* Mutant of Failed: the next attempt advances the shared cursor as well.
FailedMovesCursor(r) ==
    /\ Count(IF attempt[r] = 1 THEN "failPrimary" ELSE "failFallback")
    /\ cursor' = cursor + 1
    /\ IF HasNext(r)
       THEN Goto(r, "ask", "ask") /\ attempt' = [attempt EXCEPT ![r] = @ + 1] /\ UNCHANGED result
       ELSE Goto(r, "ask", "dec") /\ Return(r, "unavailable") /\ UNCHANGED attempt
    /\ UNCHANGED <<quotaVars, slots, gauge, order>>

\* A provider failed, or its client gave up after 30 s: ObserveRequest counts
\* it, and the next provider of the order is asked.
Failed(r) ==
    /\ Count(IF attempt[r] = 1 THEN "failPrimary" ELSE "failFallback")
    /\ IF HasNext(r)
       THEN Goto(r, "ask", "ask") /\ attempt' = [attempt EXCEPT ![r] = @ + 1] /\ UNCHANGED result
       ELSE Goto(r, "ask", "dec") /\ Return(r, "unavailable") /\ UNCHANGED attempt
    /\ UNCHANGED <<quotaVars, slots, cursor, gauge, order>>

\* Mutant of Attempt: an answer is what came without an error.
AttemptNoBlank(r, outcome) == IF outcome # "error" THEN Answered(r, outcome) ELSE Failed(r)

\* A blank answer is the failure ErrEmptyAnswer.
Attempt(r, outcome) == IF outcome = "text" THEN Answered(r, outcome) ELSE Failed(r)

\* The provider whose turn it is.
Asked(r) == order[r][attempt[r]]

ObserveFallback(r) ==
    /\ Goto(r, "fallback", "dec")
    /\ Count("fallbacks")
    /\ UNCHANGED <<quotaVars, slots, cursor, gauge, callVars>>

\* Mutant of DecConcurrency: the slot first.
ReleaseBeforeDec(r) ==
    /\ Goto(r, "dec", "release")
    /\ slots' = slots - 1
    /\ UNCHANGED <<quotaVars, gauge, cursor, tally, callVars>>

\* The deferred calls run last in, first out: the gauge, then the slot.
DecConcurrency(r) ==
    /\ Goto(r, "dec", "release")
    /\ gauge' = gauge - 1
    /\ UNCHANGED <<quotaVars, slots, cursor, tally, callVars>>

\* Mutant of Release: only a request that was answered frees its slot.
ReleaseOnSuccess(r) ==
    /\ Goto(r, "release", "done")
    /\ slots' = IF result[r] = "text" THEN slots - 1 ELSE slots
    /\ UNCHANGED <<quotaVars, cursor, gauge, tally, callVars>>

\* Mutant of Release: receiving from an empty channel, a release called twice
\* would wait forever.
ReleaseTwice(r) ==
    /\ Goto(r, "release", "done")
    /\ slots >= 2
    /\ slots' = slots - 2
    /\ UNCHANGED <<quotaVars, cursor, gauge, tally, callVars>>

\* release receives from the channel (semaphore.go:17): never empty here.
Release(r) ==
    /\ Goto(r, "release", "done")
    /\ slots > 0
    /\ slots' = slots - 1
    /\ UNCHANGED <<quotaVars, cursor, gauge, tally, callVars>>

Tick ==
    /\ Quota!Tick
    /\ UNCHANGED <<slots, cursor, gauge, tally, pc, callVars>>

\* What a request does next once it has arrived.
Run(r) ==
    \/ TryAcquire(r)
    \/ IncConcurrency(r)
    \/ Order(r)
    \/ pc[r] = "ask" /\ \E outcome \in Clients!Answers[Backend[Asked(r)]] : Attempt(r, outcome)
    \/ ObserveFallback(r)
    \/ DecConcurrency(r)
    \/ Release(r)

Next == Tick \/ \E r \in Requests : Arrive(r) \/ Run(r)

Spec == Init /\ [][Next]_vars

\* A goroutine runs until it returns, and a provider's client has a timeout.
\* Nothing makes a request arrive or the clock reach its bound.
FairSpec == Spec /\ \A r \in Requests : WF_vars(Run(r))

-----------------------------------------------------------------------------
At(steps) == {r \in Requests : pc[r] \in steps}

\* Between TryAcquire and release; between IncConcurrency and DecConcurrency.
Holding == {"inc", "order", "ask", "fallback", "dec", "release"}
InUse   == {"order", "ask", "fallback", "dec"}

\* The semaphore counts the requests between TryAcquire and release, whichever
\* way each of them ends: no slot leaks and none is freed twice, and so at most
\* MaxConcurrent requests are inside a provider's Ask at once.
SlotAccounting ==
    /\ slots = Cardinality(At(Holding))
    /\ slots <= MaxConcurrent

\* The admins' "in use" gauge counts requests that hold a slot: it never shows
\* more than MaxConcurrent, and is 0 again when every request has returned.
GaugeWithinSlots ==
    /\ gauge = Cardinality(At(InUse))
    /\ gauge <= slots

\* A user within the limits gets a text that is not blank, from one provider or
\* another, or is told that the LLM is unavailable, and that only after each
\* provider failed once: whichever of them answer late, cut off, with an error of
\* another shape or with nothing.
TextUnlessAllFailed ==
    \A r \in Requests :
       /\ result[r] # "blank"
       /\ result[r] = "unavailable" =>
             /\ {order[r][i] : i \in 1 .. attempt[r]} = DOMAIN Weights
             /\ attempt[r] = Len(Weights)

Texts == {r \in Requests : result[r] = "text"}
PastPrimary == {r \in Requests : attempt[r] > 1 \/ (attempt[r] = 1 /\ pc[r] # "ask")}

\* The recorder's counters agree with what the requests saw, however their
\* attempts interleave: a fallback is counted for each answer of a fallback
\* attempt, but for the requests that are about to count theirs; each text that
\* a user gets was one attempt's success; and each request's first attempt is
\* counted once, as a success or a failure.
FallbackLedger ==
    /\ tally["fallbacks"] + Cardinality(At({"fallback"})) = tally["okFallback"]
    /\ tally["okPrimary"] + tally["okFallback"] = Cardinality(Texts)
    /\ tally["okPrimary"] + tally["failPrimary"] = Cardinality(PastPrimary)

\* How many requests got p as their first provider.
Primaries(p) == Cardinality({r \in Requests : order[r] # <<>> /\ order[r][1] = p})

\* "A request that falls back doesn't throw off the next request's starting
\* point" (llm.go:207-209): after each whole cycle every provider was primary
\* exactly its weight times as often, however requests interleave and fail.
RoundRobinShare ==
    Algorithm = "round_robin" =>
       LET taken == Cardinality({r \in Requests : order[r] # <<>>})
           cycles == taken \div CycleLength
       IN  \A p \in DOMAIN Weights :
              /\ cycles * Weights[p] <= Primaries(p)
              /\ Primaries(p) <= (cycles + 1) * Weights[p]

\* A request within its quota returns, whatever the others do.
EveryRequestReturns == \A r \in Requests : pc[r] = "acquire" ~> pc[r] = "done"
=============================================================================

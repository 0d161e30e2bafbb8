----------------------------- MODULE InlineQuery -----------------------------
(***************************************************************************)
(* How an inline query is answered: internal/anekbot/anek.go, HandleInline *)
(* and fetchJokeWithRetry.  Without a topic the bot offers several classic *)
(* jokes, each fetched by a goroutine of its own that retries; all of them *)
(* share one deadline, because Telegram rejects late answers.              *)
(*                                                                         *)
(* Time is counted from the query on.  A timer fires and a goroutine runs  *)
(* without delay: time does not pass while something is due.               *)
(***************************************************************************)
EXTENDS FiniteSets, Services

CONSTANTS
    Suggestions,     \* inlineSuggestionCount: the fetches
    MaxAttempts,     \* inlineFetchMaxAttempts
    Deadline,        \* inlineFetchDeadline
    AttemptTimeout,  \* jokeAttemptTimeout
    RetryDelay       \* inlineFetchRetryDelay

VARIABLES
    now,       \* time since the query
    switches,  \* of this process: inline, aiJokes
    query,     \* what matters of the query: its text and who asks
    answer,    \* what the handler does next, and with which results
    fetch      \* per suggestion, where fetchJokeWithRetry is

queryVars == <<now, switches, query, answer, fetch>>

Switches == [inline : BOOLEAN, aiJokes : BOOLEAN]
Queries == [text : {"blank", "topic", "say"}, admin : BOOLEAN]

Init ==
    /\ now = 0
    /\ switches \in Switches
    /\ query \in Queries
    /\ answer = [pc |-> "none", results |-> {}]
    /\ fetch = [i \in {} |-> 0]

-----------------------------------------------------------------------------
\* Mutant of AttemptUntil: the attempt's context does not derive from fetchCtx.
AttemptUntilAlone(t) == t + AttemptTimeout

\* When the context of an attempt that starts at t is done: after its own
\* timeout, or with fetchCtx.
AttemptUntil(t) == IF t + AttemptTimeout < Deadline THEN t + AttemptTimeout ELSE Deadline

AnswerWith(results) == answer' = [pc |-> "send", results |-> results]

\* HandleInline, up to the fetches or the single result. "/say" is for admins;
\* from anybody else it is a topic.
HandleInline ==
    /\ answer.pc = "handle"
    /\ LET say   == query.text = "say" /\ query.admin
           topic == query.text # "blank" /\ switches.aiJokes
       IN  \/ /\ ~switches.inline
              /\ answer' = [answer EXCEPT !.pc = "returned"]
              /\ UNCHANGED fetch
           \/ /\ switches.inline /\ (say \/ topic)
              /\ AnswerWith({IF say THEN "say" ELSE "placeholder"})
              /\ UNCHANGED fetch
           \/ /\ switches.inline /\ ~say /\ ~topic
              /\ answer' = [answer EXCEPT !.pc = "join"]
              /\ fetch' = [i \in Suggestions |->
                              [pc |-> "fetch", attempt |-> 1,
                               until |-> AttemptUntil(now), joke |-> FALSE]]
    /\ UNCHANGED <<now, switches, query, ctxDone>>

Fetching(i, step) == i \in DOMAIN fetch /\ fetch[i].pc = step

\* fetchJoke returns to fetchJokeWithRetry.
FetchJoke(i) ==
    /\ Fetching(i, "fetch")
    /\ \E got \in BOOLEAN :
          /\ Fetched(got)
          /\ fetch' = [fetch EXCEPT ![i] =
                          IF got THEN [@ EXCEPT !.pc = "done", !.joke = TRUE]
                          ELSE IF @.attempt = MaxAttempts THEN [@ EXCEPT !.pc = "done"]
                          ELSE [@ EXCEPT !.pc = "wait", !.until = now + RetryDelay]]
    /\ UNCHANGED <<now, switches, query, answer, ctxDone>>

\* The delay is over.
Retry(i) ==
    /\ Fetching(i, "wait")
    /\ now >= fetch[i].until
    /\ fetch' = [fetch EXCEPT ![i].pc = "fetch", ![i].attempt = @ + 1,
                              ![i].until = AttemptUntil(now)]
    /\ UNCHANGED <<now, switches, query, answer, ctxDone>>

\* Mutant of GiveUp: the select looks at the attempt's context, which is cancelled.
GiveUpOnAttempt(i) ==
    /\ Fetching(i, "wait")
    /\ fetch' = [fetch EXCEPT ![i].pc = "done"]
    /\ UNCHANGED <<now, switches, query, answer, ctxDone>>

\* fetchCtx is done; if the delay is over as well, select takes either.
GiveUp(i) ==
    /\ Fetching(i, "wait")
    /\ now >= Deadline \/ ctxDone
    /\ fetch' = [fetch EXCEPT ![i].pc = "done"]
    /\ UNCHANGED <<now, switches, query, answer, ctxDone>>

AllFetched == \A i \in DOMAIN fetch : fetch[i].pc = "done"

\* wg.Wait returns: the jokes that were fetched become the results.
Join ==
    /\ answer.pc = "join"
    /\ AllFetched
    /\ AnswerWith({i \in Suggestions : fetch[i].joke})
    /\ UNCHANGED <<now, switches, query, fetch, ctxDone>>

\* AnswerInlineQuery; an error is logged.
AnswerInlineQuery ==
    /\ answer.pc = "send"
    /\ answer' = [answer EXCEPT !.pc = "returned"]
    /\ UNCHANGED <<now, switches, query, fetch, ctxDone>>

\* The contexts of the fetches and their delays, once they are due.
Due(i) ==
    \/ fetch[i].pc = "fetch" /\ now >= fetch[i].until
    \/ fetch[i].pc = "wait" /\ (now >= fetch[i].until \/ now >= Deadline)

Tick ==
    /\ answer.pc = "join" /\ ~AllFetched
    /\ ~ctxDone
    /\ \A i \in DOMAIN fetch : ~Due(i)
    /\ now' = now + 1
    /\ UNCHANGED <<switches, query, answer, fetch, ctxDone>>

QueryStep ==
    \/ HandleInline
    \/ \E i \in Suggestions : FetchJoke(i) \/ Retry(i) \/ GiveUp(i)
    \/ Join
    \/ AnswerInlineQuery

-----------------------------------------------------------------------------
\* "Telegram rejects answers to inline queries older than ~10s" (anek.go:47):
\* the answer is on its way when the deadline is over, with each joke that was
\* fetched by then, however the attempts, timeouts and delays of the fetches fall.
AnsweredByDeadline ==
    answer.pc = "send" =>
       /\ now <= Deadline
       /\ \A i \in DOMAIN fetch : fetch[i].joke => i \in answer.results

\* A suggestion is missing only after MaxAttempts attempts failed, or because
\* there was no time left: one slow or broken attempt costs a retry, not a joke.
MissingOnlyAfterRetries ==
    \A i \in DOMAIN fetch :
       fetch[i].pc = "done" /\ ~fetch[i].joke =>
          fetch[i].attempt = MaxAttempts \/ now >= Deadline \/ ctxDone
=============================================================================

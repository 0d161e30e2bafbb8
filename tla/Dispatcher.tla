----------------------------- MODULE Dispatcher ------------------------------
(***************************************************************************)
(* The bot as it runs: Dispatch of internal/anekbot/dispatcher.go, called  *)
(* by Telegram's library in a goroutine of its own per update, with the    *)
(* handlers of messages (Messages), of taps (AdminStats) and of inline     *)
(* queries (InlineQuery), all of them at once, and the signal that ends    *)
(* the context they share.  Chosen inline results are module InlineMode.   *)
(*                                                                         *)
(* The library is external: it dispatches no update once the context is    *)
(* done, and the handlers that run go on until the process exits.          *)
(***************************************************************************)
EXTENDS Naturals, FiniteSets

CONSTANTS Messages, Taps,
          Suggestions, MaxAttempts, Deadline, AttemptTimeout, RetryDelay,
          Query,      \* the update of the inline query
          Scenarios   \* bound: which handlers there are, which updates arrive

ASSUME DispatcherAssumption ==
    /\ Query \notin Messages \union Taps /\ Messages \intersect Taps = {}
    /\ {MaxAttempts, Deadline, AttemptTimeout, RetryDelay} \subseteq Nat \ {0}

VARIABLES
    ctxDone,
    on, message, wg, at, chat, counted, recordings, panels, snapshot, lost, repeated,
    tap, htmlFailed,
    now, switches, query, answer, fetch,
    updates  \* per message, tap and query, where its update is

Message == INSTANCE Messages
Tap     == INSTANCE AdminStats
Inline  == INSTANCE InlineQuery

messageOwn == <<message, wg, at, chat, counted, snapshot, lost, repeated>>
tapOwn == <<tap, htmlFailed>>
inlineOwn == <<now, switches, query, answer, fetch>>
vars == <<ctxDone, on, recordings, panels, messageOwn, tapOwn, inlineOwn, updates>>

\* A scenario: the handlers that the configuration enables, the messages, the
\* button that is tapped and by whom, the query and its process's switches, and
\* which of these updates arrive.
Init ==
    /\ ctxDone = FALSE
    /\ Message!Init /\ Tap!Init /\ Inline!Init
    /\ \E s \in Scenarios :
          /\ on = s.on
          /\ message = s.message /\ message \in [Messages -> Message!MessageType]
          /\ \A t \in Taps : tap[t].data = s.data /\ tap[t].admin = s.admin
          /\ query = s.query /\ switches = s.switches
          /\ updates = [u \in s.updates |-> "queued"]

IsAt(u, place) == u \in DOMAIN updates /\ updates[u] = place
Move(u, place) == updates' = [updates EXCEPT ![u] = place]

-----------------------------------------------------------------------------
\* Dispatch of a message: wg.Add, the goroutines, and wg.Wait.
DispatchMessage(m) ==
    /\ ~ctxDone
    /\ IsAt(m, "queued") /\ Move(m, "running")
    /\ Message!StartHandlers(m)
    /\ UNCHANGED <<tapOwn, inlineOwn>>

MessageReturns(m) ==
    /\ IsAt(m, "running") /\ Message!Joined(m) /\ Move(m, "returned")
    /\ UNCHANGED <<ctxDone, on, recordings, panels, messageOwn, tapOwn, inlineOwn>>

\* Dispatch of an inline query: in the same goroutine, if there is a handler.
DispatchQuery ==
    /\ ~ctxDone
    /\ IsAt(Query, "queued")
    /\ IF "anek" \in on
       THEN Move(Query, "running") /\ answer' = [answer EXCEPT !.pc = "handle"]
       ELSE Move(Query, "returned") /\ UNCHANGED answer
    /\ UNCHANGED <<ctxDone, on, recordings, panels, messageOwn, tapOwn,
                   now, switches, query, fetch>>

QueryReturns ==
    /\ IsAt(Query, "running") /\ answer.pc = "returned" /\ Move(Query, "returned")
    /\ UNCHANGED <<ctxDone, on, recordings, panels, messageOwn, tapOwn, inlineOwn>>

\* A tap on a /stats message, or on a button under a joke: both handlers, in turn.
DispatchTap(t) ==
    /\ ~ctxDone
    /\ IsAt(t, "queued") /\ Move(t, "running")
    /\ IF tap[t].data = "refresh" THEN \E p \in DOMAIN panels : Tap!Press(t, p)
                                  ELSE Tap!Press(t, <<>>)
    /\ UNCHANGED <<messageOwn, inlineOwn>>

TapReturns(t) ==
    /\ IsAt(t, "running") /\ Tap!At(t, "returned") /\ Move(t, "returned")
    /\ UNCHANGED <<ctxDone, on, recordings, panels, messageOwn, tapOwn, inlineOwn>>

\* A handler's next step.
Step(m) == Message!HandlerStep(m) /\ UNCHANGED <<tapOwn, inlineOwn, updates>>
StepTap(t) == Tap!TapStep(t) /\ UNCHANGED <<messageOwn, inlineOwn, updates>>
StepQuery ==
    /\ Inline!QueryStep \/ Inline!Tick
    /\ UNCHANGED <<on, recordings, panels, messageOwn, tapOwn, updates>>

\* SIGINT or SIGTERM.
Stop ==
    /\ ~ctxDone /\ ctxDone' = TRUE
    /\ UNCHANGED <<on, recordings, panels, messageOwn, tapOwn, inlineOwn, updates>>

Progress ==
    \/ \E m \in Messages : Step(m) \/ MessageReturns(m)
    \/ \E t \in Taps : StepTap(t) \/ TapReturns(t)
    \/ StepQuery
    \/ QueryReturns

Next ==
    \/ \E m \in Messages : DispatchMessage(m)
    \/ DispatchQuery
    \/ \E t \in Taps : DispatchTap(t)
    \/ Progress
    \/ Stop

Spec == Init /\ [][Next]_vars

\* Every call has a timeout, and a goroutine that can run is scheduled: while
\* the context is not done, some handler takes its next step.
FairSpec == Spec /\ WF_vars(~ctxDone /\ Progress)

-----------------------------------------------------------------------------
CountedIsShown == Message!CountedIsShown
QuestionHeard == Message!QuestionHeard
RefreshIsFresh == Tap!RefreshIsFresh
FormattingKept == Tap!FormattingKept
AnsweredByDeadline == Inline!AnsweredByDeadline
MissingOnlyAfterRetries == Inline!MissingOnlyAfterRetries

\* Dispatch always returns: wg.Wait (dispatcher.go:87) and the join of the fetches
\* (anek.go:206) are reached by as many calls of Done as they wait for, on every
\* early return of every handler and with every subset of the handlers. As only
\* so many updates arrive, they have all returned at some time, or the signal came.
DispatchReturns ==
    []<>(ctxDone \/ \A u \in DOMAIN updates : ~IsAt(u, "running"))
=============================================================================

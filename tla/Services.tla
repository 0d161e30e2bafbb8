------------------------------ MODULE Services ------------------------------
(***************************************************************************)
(* What the handlers of an update call outside the process: Telegram,      *)
(* through the Sender that Dispatch hands them (dispatcher.go:14-20), and   *)
(* the joke service.  Both are external.  Every call carries the context   *)
(* of main, which a signal ends (main.go:46).                              *)
(***************************************************************************)
EXTENDS Naturals

VARIABLE ctxDone  \* the context is done: no request leaves any more

\* A call of the Sender: whether Telegram carried it out, and whether it returned
\* an error, which it may also do after Telegram carried it out.
Sent(done, err) == (done \/ err) /\ (ctxDone => ~done)

\* One reply of the joke service. arrived: client.Do returned a response before
\* the context or its 10 s were over; of the text's letters, some are Cyrillic.
JokeReplies == [arrived : BOOLEAN, ok : BOOLEAN, read : BOOLEAN, blank : BOOLEAN,
                letters : {0, 5}, cyrillic : 0 .. 5]

\* At least 40 % of the letters, and one letter at least.
isMostlyCyrillic(reply) == reply.letters > 0 /\ 10 * reply.cyrillic >= 4 * reply.letters

\* Whether fetchJoke returns a joke, which is anything but an error.
fetchJoke(reply) ==
    /\ reply.arrived /\ reply.ok /\ reply.read
    /\ ~reply.blank
    /\ isMostlyCyrillic(reply)

\* How fetchJoke can end: TRUE for a joke.
JokeOutcomes == {fetchJoke(reply) : reply \in JokeReplies}

Fetched(got) == got \in JokeOutcomes /\ (ctxDone => ~got)
=============================================================================

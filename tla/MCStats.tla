------------------------------- MODULE MCStats -------------------------------
EXTENDS Stats, TLC

CONSTANTS joke, question, chat, u1, u2, p1, p2

\* An AI joke that the second provider wrote, an answered question by a
\* user who needs the same row, and a classic joke in a chat without a sender.
MCCalls ==
    (joke :> <<[name |-> "ObserveRequest", provider |-> p1, ok |-> FALSE, primary |-> TRUE],
               [name |-> "ObserveRequest", provider |-> p2, ok |-> TRUE, primary |-> FALSE],
               [name |-> "ObserveFallback"],
               [name |-> "RecordAnek", user |-> u1, joke |-> "ai"]>>)
    @@ (question :> <<[name |-> "ObserveRequest", provider |-> p2, ok |-> TRUE, primary |-> TRUE],
                      [name |-> "RecordQuestionAnswered", user |-> u2]>>)
    @@ (chat :> <<[name |-> "RecordAnek", user |-> NoUser, joke |-> "classic"]>>)

\* The next process is configured without the first provider.
MCProvidersOf == <<<<p1, p2>>, <<p2>>>>
=============================================================================

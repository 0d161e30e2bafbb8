----------------------------- MODULE InlineMode ------------------------------
(***************************************************************************)
(* Inline mode, internal/anekbot/anek.go: the bot offers results to who    *)
(* types its name, Telegram posts the one the user chooses, and an update  *)
(* then tells the bot.  A classic joke is posted as it is; an AI joke is    *)
(* posted as a placeholder, which HandleChosenInlineResult edits once the  *)
(* LLM has answered, or has not.                                           *)
(*                                                                         *)
(* Telegram is external: it may go on offering a result it has cached, a    *)
(* request to it may fail, also after it was carried out, and an update    *)
(* that was not acknowledged when the process died may be delivered again. *)
(* It is taken to report which results are chosen, which the bot needs     *)
(* ("Requires inline feedback enabled", anek.go:298), with the id of the   *)
(* message, which it gives to a message that has buttons.                  *)
(*                                                                         *)
(* What AskFor does before it returns is module LLM; that a save is one    *)
(* step or none is module Persistence.                                     *)
(***************************************************************************)
EXTENDS Naturals, FiniteSets

CONSTANTS
    Messages,  \* bound: the inline messages that users post
    Results,   \* bound: the kinds of result that are offered
    MaxOffers, \* bound: results that Telegram offers at a time
    MaxLives   \* bound: processes

\* "promo" is a classic joke with a promotion button, whose id ends in ":promo".
ASSUME InlineModeAssumption ==
    /\ Results \subseteq {"ai", "classic", "promo", "say"}
    /\ MaxOffers \in Nat /\ MaxLives \in Nat

VARIABLES
    offers,    \* what Telegram offers, from the bot or from its cache
    chosen,    \* per message, the result it was posted from
    offerer,   \* history, per message: the process that offered that result
    shown,     \* per message, the text that the chat sees
    button,    \* per message, the button under it
    delivery,  \* per message, where its chosen_inline_result update is
    taker,     \* history, per message: the process that took the update last
    pc,        \* per message, what its handler does next
    text, markup,      \* per message, what its handler will write
    jokes, promotions, \* the statistics: how often each message was recorded
    file,      \* the statistics that were saved last
    lost,      \* history: the messages whose statistics were lost
    reason,    \* history, per message: why its handler may have left it alone
    config,    \* this process's configuration
    phase,     \* "up", "stopping" once ctx is done, "saved" or "unsaved" once
               \* main has tried to save the statistics, or "down"
    lives      \* how many processes were started

postVars  == <<chosen, offerer, shown, button>>
takeVars  == <<delivery, taker>>
draftVars == <<text, markup>>
statVars  == <<jokes, promotions>>
lifeVars  == <<file, lost, config, phase, lives>>
vars == <<offers, postVars, takeVars, pc, draftVars, statVars, reason, lifeVars>>

\* d.anek is nil unless anek is on. AI jokes matter only then, and an LLM only to
\* them. Inline mode off is a process that gets no queries.
Configurations ==
    {c \in [anek : BOOLEAN, aiJokes : BOOLEAN, llm : BOOLEAN] :
        (c.aiJokes => c.anek) /\ (c.llm => c.aiJokes)}

Steps == {"idle", "ask", "record", "promo", "editHTML", "edit", "done"}
Errors == {"busy", "unavailable"}

Nothing == [m \in Messages |-> 0]

Init ==
    /\ offers = {}
    /\ chosen = [m \in Messages |-> "none"]
    /\ offerer = Nothing /\ taker = Nothing
    /\ shown = [m \in Messages |-> "none"]
    /\ button = [m \in Messages |-> "none"]
    /\ delivery = [m \in Messages |-> "none"]
    /\ pc = [m \in Messages |-> "idle"]
    /\ text = [m \in Messages |-> "none"]
    /\ markup = [m \in Messages |-> "none"]
    /\ jokes = Nothing /\ promotions = Nothing
    /\ file = [jokes |-> Nothing, promotions |-> Nothing]
    /\ lost = {}
    /\ reason = [m \in Messages |-> "none"]
    /\ config \in Configurations
    /\ phase = "up"
    /\ lives = 1

Goto(m, from, to) == pc[m] = from /\ pc' = [pc EXCEPT ![m] = to]

-----------------------------------------------------------------------------
\* HandleInline answers a query, with "/say" text to an admin, a placeholder
\* for a topic, or classic jokes, each with a promotion or without.
AnswerInline(result) ==
    /\ phase = "up"
    /\ config.anek
    /\ result = "ai" => config.aiJokes
    /\ Cardinality(offers) < MaxOffers
    /\ offers' = offers \union {[result |-> result, by |-> lives]}
    /\ UNCHANGED <<postVars, takeVars, pc, draftVars, statVars, reason, lifeVars>>

\* The answer's CacheTime is over.
Expire(offer) ==
    /\ offers' = offers \ {offer}
    /\ UNCHANGED <<postVars, takeVars, pc, draftVars, statVars, reason, lifeVars>>

\* A user chooses a result: Telegram posts it and queues the update.
Choose(m, offer) ==
    LET result == offer.result
    IN  /\ chosen[m] = "none"
        /\ chosen' = [chosen EXCEPT ![m] = result]
        /\ offerer' = [offerer EXCEPT ![m] = offer.by]
        /\ shown' = [shown EXCEPT ![m] = IF result = "ai" THEN "placeholder" ELSE "asOffered"]
        /\ button' = [button EXCEPT ![m] = CASE result = "ai"    -> "pending"
                                             [] result = "promo" -> "promo"
                                             [] OTHER            -> "none"]
        /\ delivery' = [delivery EXCEPT ![m] = "queued"]
        /\ UNCHANGED <<offers, taker, pc, draftVars, statVars, reason, lifeVars>>

-----------------------------------------------------------------------------
\* Dispatch gets the update; `why` its handler may leave the message as it is.
Take(m, why) ==
    /\ phase = "up"
    /\ delivery[m] = "queued"
    /\ delivery' = [delivery EXCEPT ![m] = "taken"]
    /\ taker' = [taker EXCEPT ![m] = lives]
    /\ reason' = [reason EXCEPT ![m] = why]

\* d.anek is nil: nobody handles the update.
Ignore(m) ==
    /\ ~config.anek
    /\ Take(m, "noAnek")
    /\ Goto(m, "idle", "done")
    /\ UNCHANGED <<offers, postVars, draftVars, statVars, lifeVars>>

Record(stat, m) == stat' = [stat EXCEPT ![m] = @ + 1]

\* HandleChosenInlineResult, up to the call of AskFor.
ChosenSay(m) ==
    /\ config.anek /\ chosen[m] = "say"
    /\ Take(m, "none")
    /\ Goto(m, "idle", "done")
    /\ UNCHANGED <<offers, postVars, draftVars, statVars, lifeVars>>

ChosenClassic(m) ==
    /\ config.anek /\ chosen[m] \in {"classic", "promo"}
    /\ Take(m, "none")
    /\ Goto(m, "idle", "done")
    /\ Record(jokes, m)
    /\ IF chosen[m] = "promo" THEN Record(promotions, m) ELSE UNCHANGED promotions
    /\ UNCHANGED <<offers, postVars, draftVars, lifeVars>>

Draft(m, t, b) == text' = [text EXCEPT ![m] = t] /\ markup' = [markup EXCEPT ![m] = b]

\* With AI jokes off the placeholder that another process offered stays.
ChosenAIOff(m) ==
    /\ config.anek /\ ~config.aiJokes /\ chosen[m] = "ai"
    /\ Take(m, "noAIJokes")
    /\ Goto(m, "idle", "done")
    /\ UNCHANGED <<offers, postVars, draftVars, statVars, lifeVars>>

\* Mutant of ChosenAI: without an LLM the handler returns at once.
ChosenAINoLLM(m) ==
    /\ config.anek /\ config.aiJokes /\ chosen[m] = "ai"
    /\ Take(m, "none")
    /\ Goto(m, "idle", IF config.llm THEN "ask" ELSE "done")
    /\ UNCHANGED <<offers, postVars, draftVars, statVars, lifeVars>>

\* Without an LLM the message says so.
ChosenAI(m) ==
    /\ config.anek /\ config.aiJokes /\ chosen[m] = "ai"
    /\ Take(m, "none")
    /\ IF config.llm
       THEN Goto(m, "idle", "ask") /\ UNCHANGED draftVars
       ELSE Goto(m, "idle", "edit") /\ Draft(m, "unavailable", "none")
    /\ UNCHANGED <<offers, postVars, statVars, lifeVars>>

\* AskFor returns. An error becomes the text of the message.
Ask(m) ==
    /\ \/ Goto(m, "ask", "record") /\ Draft(m, "joke", "none")
       \/ \E err \in Errors : Goto(m, "ask", "edit") /\ Draft(m, err, "none")
    /\ UNCHANGED <<offers, postVars, takeVars, statVars, reason, lifeVars>>

\* The joke is recorded before it is sent (anek.go:337).
RecordAnek(m) ==
    /\ Goto(m, "record", "promo")
    /\ Record(jokes, m)
    /\ UNCHANGED <<offers, postVars, takeVars, draftVars, promotions, reason, lifeVars>>

\* Mutant of Promote: the promotion under an AI joke is not recorded.
PromoteUnrecorded(m) ==
    /\ Goto(m, "promo", "editHTML")
    /\ \/ Draft(m, text[m], "promo") /\ UNCHANGED promotions
       \/ UNCHANGED <<draftVars, promotions>>
    /\ UNCHANGED <<offers, postVars, takeVars, jokes, reason, lifeVars>>

\* editInlineMessage draws a promotion and records it (anek.go:343-347).
Promote(m) ==
    /\ Goto(m, "promo", "editHTML")
    /\ \/ Draft(m, text[m], "promo") /\ Record(promotions, m)
       \/ UNCHANGED <<draftVars, promotions>>
    /\ UNCHANGED <<offers, postVars, takeVars, jokes, reason, lifeVars>>

\* EditMessageText reaches Telegram, which replaces the text and the button.
Edited(m) ==
    /\ phase = "up"
    /\ shown' = [shown EXCEPT ![m] = text[m]]
    /\ button' = [button EXCEPT ![m] = markup[m]]

\* The first try is HTML; its error, whichever it is, leads to plain text.
EditHTML(m) ==
    /\ \/ Goto(m, "editHTML", "done") /\ Edited(m)
       \/ Goto(m, "editHTML", "edit") /\ Edited(m)
       \/ Goto(m, "editHTML", "edit") /\ UNCHANGED <<shown, button>>
    /\ UNCHANGED <<offers, chosen, offerer, takeVars, draftVars, statVars, reason, lifeVars>>

\* Mutant of Edit: a failed edit is tried again from the start.
EditRetries(m) ==
    /\ \/ Goto(m, "edit", "done") /\ Edited(m)
       \/ Goto(m, "edit", "editHTML") /\ UNCHANGED <<shown, button>>
    /\ UNCHANGED <<offers, chosen, offerer, takeVars, draftVars, statVars, reason, lifeVars>>

\* Plain text, the last try; an error is logged.
Edit(m) ==
    /\ Goto(m, "edit", "done")
    /\ \/ Edited(m) /\ UNCHANGED reason
       \/ UNCHANGED <<shown, button>> /\ reason' = [reason EXCEPT ![m] = "editFailed"]
    /\ UNCHANGED <<offers, chosen, offerer, takeVars, draftVars, statVars, lifeVars>>

HandlerStep(m) ==
    \/ Ignore(m)
    \/ ChosenSay(m)
    \/ ChosenClassic(m)
    \/ ChosenAIOff(m)
    \/ ChosenAI(m)
    \/ Ask(m)
    \/ RecordAnek(m)
    \/ Promote(m)
    \/ EditHTML(m)
    \/ Edit(m)

-----------------------------------------------------------------------------
\* The next getUpdates, or the webhook's 200, acknowledges the update.
Acknowledge(m) ==
    /\ phase = "up"
    /\ delivery[m] = "taken"
    /\ delivery' = [delivery EXCEPT ![m] = "acknowledged"]
    /\ UNCHANGED <<offers, postVars, taker, pc, draftVars, statVars, reason, lifeVars>>

\* SIGTERM: ctx is done, and with it every request of a handler.
Stop ==
    /\ phase = "up"
    /\ phase' = "stopping"
    /\ UNCHANGED <<offers, postVars, takeVars, pc, draftVars, statVars, reason, file, lost, config, lives>>

\* main saves the statistics, while handlers may still be at work. It may fail,
\* or there may be no file to save to.
Save ==
    /\ phase = "stopping"
    /\ \/ phase' = "saved" /\ file' = [jokes |-> jokes, promotions |-> promotions]
       \/ phase' = "unsaved" /\ UNCHANGED file
    /\ UNCHANGED <<offers, postVars, takeVars, pc, draftVars, statVars, reason, lost, config, lives>>

Unsaved(m) == file.jokes[m] # jokes[m] \/ file.promotions[m] # promotions[m]

\* The process ends, by SIGKILL or because main returns, which waits for no
\* handler: of its statistics the file remains. Telegram delivers again what was
\* not acknowledged.
Die ==
    /\ phase # "down"
    /\ phase' = "down"
    /\ LET again == {m \in Messages : delivery[m] = "taken"}
       IN  /\ delivery' = [m \in Messages |-> IF m \in again THEN "queued" ELSE delivery[m]]
           /\ pc' = [m \in Messages |-> IF m \in again \/ pc[m] = "idle" THEN "idle" ELSE "done"]
           /\ reason' = [m \in Messages |-> IF m \notin again /\ pc[m] \notin {"idle", "done"}
                                               THEN "died" ELSE reason[m]]
    /\ text' = [m \in Messages |-> "none"]
    /\ markup' = [m \in Messages |-> "none"]
    /\ jokes' = file.jokes /\ promotions' = file.promotions
    /\ lost' = lost \union {m \in Messages : phase # "saved" /\ Unsaved(m)}
    /\ UNCHANGED <<offers, postVars, taker, file, config, lives>>

\* The next process may be configured otherwise. It goes on from the file, or,
\* if it has none or cannot read it, from nothing.
Start ==
    /\ phase = "down"
    /\ lives < MaxLives
    /\ phase' = "up"
    /\ lives' = lives + 1
    /\ config' \in Configurations
    /\ \/ UNCHANGED <<statVars, lost>>
       \/ /\ jokes' = Nothing /\ promotions' = Nothing
          /\ lost' = lost \union {m \in Messages : jokes[m] > 0 \/ promotions[m] > 0}
    /\ UNCHANGED <<offers, postVars, takeVars, pc, draftVars, reason, file>>

Next ==
    \/ \E result \in Results : AnswerInline(result)
    \/ \E offer \in offers : Expire(offer)
    \/ \E m \in Messages, offer \in offers : Choose(m, offer)
    \/ \E m \in Messages : HandlerStep(m) \/ Acknowledge(m)
    \/ Stop
    \/ Save
    \/ Die
    \/ Start

Spec == Init /\ [][Next]_vars

\* A handler runs until it returns, and its requests end. Nothing makes a user
\* choose, or an operator start the bot again.
FairSpec == Spec /\ \A m \in Messages : WF_vars(HandlerStep(m))

-----------------------------------------------------------------------------
Reasons == {"noAnek", "noAIJokes", "editFailed", "died"}

TypeOK ==
    /\ offers \subseteq [result : Results, by : 1 .. lives]
    /\ chosen \in [Messages -> Results \union {"none"}]
    /\ offerer \in [Messages -> 0 .. lives] /\ taker \in [Messages -> 0 .. lives]
    /\ shown \in [Messages -> {"none", "placeholder", "asOffered", "joke"} \union Errors]
    /\ button \in [Messages -> {"none", "pending", "promo"}]
    /\ delivery \in [Messages -> {"none", "queued", "taken", "acknowledged"}]
    /\ pc \in [Messages -> Steps]
    /\ text \in [Messages -> {"none", "joke"} \union Errors]
    /\ markup \in [Messages -> {"none", "promo"}]
    /\ jokes \in [Messages -> Nat] /\ promotions \in [Messages -> Nat]
    /\ file \in [jokes : [Messages -> Nat], promotions : [Messages -> Nat]]
    /\ lost \subseteq Messages
    /\ reason \in [Messages -> Reasons \union {"none"}]
    /\ config \in Configurations
    /\ phase \in {"up", "stopping", "saved", "unsaved", "down"}
    /\ lives \in Nat

\* The update was taken by a later process than the one that made the offer.
TakenByAnother(m) == offerer[m] < taker[m]

\* "Please wait": an AI joke's message keeps its placeholder, and the button under
\* it, for good only if its last edit failed, if the process ended under its
\* handler, or if the update was taken by a later process than offered the
\* result, with anek or its AI jokes off (dispatcher.go:96, anek.go:316). Every
\* other way through the handler replaces both, refusals and a missing LLM
\* included, on a second delivery too.
PlaceholderExplained ==
    \A m \in Messages :
       pc[m] = "done" /\ chosen[m] = "ai" =>
          \/ shown[m] \in {"joke"} \union Errors /\ button[m] # "pending"
          \/ reason[m] \in {"editFailed", "died"}
          \/ reason[m] \in {"noAnek", "noAIJokes"} /\ TakenByAnother(m)

\* What main saves once ctx is done has all that the chats were shown, whatever
\* handlers record after it: an AI joke that a chat sees, and the promotion under
\* a message that was handled, are in the statistics, this process's and those
\* after it, unless a process ended without a save or started without the file.
\* A promotion that was offered by an earlier process, and whose update a process
\* without anek took, is never recorded.
ShownIsRecorded ==
    \A m \in Messages :
       \/ m \in lost
       \/ /\ shown[m] = "joke" => jokes[m] > 0
          /\ button[m] = "promo" /\ (chosen[m] = "ai" \/ pc[m] = "done") =>
                \/ promotions[m] > 0
                \/ chosen[m] = "promo" /\ reason[m] = "noAnek" /\ TakenByAnother(m)

\* A chosen result is dealt with while the process that took it runs.
TakenIsHandled ==
    \A m \in Messages : delivery[m] = "taken" ~> pc[m] = "done" \/ phase # "up"

\* "RecordAnek attributes a delivered joke to user" (stats.go:81): a recorded AI
\* joke is one that the user sees once its handler has returned.
RecordedIsDelivered ==
    \A m \in Messages :
       pc[m] = "done" /\ chosen[m] = "ai" /\ jokes[m] > 0 /\ phase # "down"
          => shown[m] = "joke"
=============================================================================

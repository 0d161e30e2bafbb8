------------------------------ MODULE Messages ------------------------------
(***************************************************************************)
(* What the bot does with a message: internal/anekbot/dispatcher.go runs   *)
(* every handler in a goroutine of its own and waits for all of them; the  *)
(* handlers are anek.go (Handle), swearing.go, questions.go, help.go and   *)
(* adminstats.go (Handle).  Each looks at the text, calls outside services *)
(* one after another, and records what it did.                             *)
(*                                                                         *)
(* What AskFor does is module LLM, and how a recording updates the         *)
(* counters is module Stats: here both are one step.                       *)
(***************************************************************************)
EXTENDS FiniteSets, Services

CONSTANT Messages  \* bound: the messages

VARIABLES
    on,         \* the handlers that are not nil
    message,    \* per message, what matters of its text, chat and sender
    wg,         \* per message, the counter of Dispatch's WaitGroup
    at,         \* per message and handler, what it does next
    chat,       \* per message, how many replies of each kind the chat shows
    counted,    \* per message, what it added to the statistics
    recordings, \* how many recordings there were in all
    panels,     \* the /stats messages that the admin's chat shows
    snapshot,   \* per message, what its stats handler read
    lost,       \* history: messages whose last reply failed
    repeated    \* history: messages whose reply failed after it was carried out

messageVars == <<on, message, wg, at, chat, counted, recordings, panels, snapshot, lost, repeated>>
historyVars == <<lost, repeated>>

Handlers == {"anek", "swearing", "questions", "help", "stats"}
Replies == {"joke", "reaction", "answer", "sorry", "help"}
Counts == {"joke", "reaction", "question"}

\* command: what follows a "/" at the start of the text; whom: whether a command
\* is addressed ("/help@name"); bare: nothing follows it; trigger: the text has
\* the joke's trigger word; mention: it has the bot's name, and more than that.
MessageType ==
    [command : {"none", "anek", "help", "stats", "other"}, whom : {"nobody", "bot", "otherBot"},
     bare : BOOLEAN, trigger : BOOLEAN, swears : BOOLEAN, mention : BOOLEAN,
     admin : BOOLEAN]  \* a private chat with an admin

Init ==
    /\ wg = [m \in Messages |-> 0]
    /\ at = [m \in Messages |-> [h \in Handlers |-> "none"]]
    /\ chat = [m \in Messages |-> [r \in Replies |-> 0]]
    /\ counted = [m \in Messages |-> [c \in Counts |-> 0]]
    /\ recordings = 0
    /\ panels = [p \in {} |-> 0]
    /\ snapshot = [m \in Messages |-> 0]
    /\ lost = {}
    /\ repeated = {}

-----------------------------------------------------------------------------
\* The texts that each handler is for.
AnekMatches(t) == t.trigger \/ (t.command = "anek" /\ t.whom # "otherBot")
extractQuestion(t) == t.command = "none" /\ t.mention
HelpMatches(t) == t.command = "help" /\ t.whom # "otherBot"
StatsMatches(t) == t.command = "stats" /\ t.whom = "nobody" /\ t.bare /\ t.admin

\* Mutant of Started: wg.Add counts the handlers that are nil as well.
StartedAll(m) == Cardinality(Handlers)

Started(m) == Cardinality(on)

\* Dispatch, up to wg.Wait.
StartHandlers(m) ==
    /\ wg' = [wg EXCEPT ![m] = Started(m)]
    /\ at' = [at EXCEPT ![m] = [h \in Handlers |-> IF h \in on THEN "start" ELSE "none"]]
    /\ UNCHANGED <<on, message, chat, counted, recordings, panels, snapshot, historyVars, ctxDone>>

Joined(m) == wg[m] = 0

Goto(m, h, from, to) ==
    /\ at[m][h] = from
    /\ at' = [at EXCEPT ![m][h] = to]
    /\ UNCHANGED wg

\* The handler returns, and with it its deferred wg.Done().
Return(m, h, from) ==
    /\ at[m][h] = from
    /\ at' = [at EXCEPT ![m][h] = "returned"]
    /\ wg' = [wg EXCEPT ![m] = @ - 1]

Show(m, reply, done) == chat' = IF done THEN [chat EXCEPT ![m][reply] = @ + 1] ELSE chat
Silent == UNCHANGED chat
Quiet == UNCHANGED <<on, message, counted, recordings, panels, snapshot, historyVars, ctxDone>>

\* A Record... of the statistics, the last thing a handler does or not.
Record(m, what) ==
    /\ counted' = [counted EXCEPT ![m][what] = @ + 1]
    /\ recordings' = recordings + 1
    /\ UNCHANGED <<on, message, panels, snapshot, historyVars, ctxDone>>

-----------------------------------------------------------------------------
\* AnekHandler.Handle.
Anek(m) ==
    /\ \/ ~AnekMatches(message[m]) /\ Return(m, "anek", "start")
       \/ /\ AnekMatches(message[m])
          /\ \E got \in BOOLEAN :
                Fetched(got) /\ IF got THEN Goto(m, "anek", "start", "send")
                                       ELSE Return(m, "anek", "start")
    /\ Silent /\ Quiet

\* Mutant of AnekSend: an error of the send is logged, and counted as a joke.
AnekSendUnchecked(m) ==
    /\ \E done, err \in BOOLEAN :
          Sent(done, err) /\ Show(m, "joke", done) /\ Goto(m, "anek", "send", "record")
    /\ Quiet

AnekSend(m) ==
    /\ \E done, err \in BOOLEAN :
          /\ Sent(done, err)
          /\ Show(m, "joke", done)
          /\ IF err THEN Return(m, "anek", "send") ELSE Goto(m, "anek", "send", "record")
    /\ Quiet

AnekRecord(m) == Return(m, "anek", "record") /\ Record(m, "joke") /\ Silent

\* SwearingHandler.Handle: one reaction, whatever the number of words.
Swearing(m) ==
    /\ \/ ~message[m].swears /\ Return(m, "swearing", "start") /\ Silent
       \/ /\ message[m].swears
          /\ \E done, err \in BOOLEAN :
                /\ Sent(done, err)
                /\ Show(m, "reaction", done)
                /\ IF err THEN Return(m, "swearing", "start")
                          ELSE Goto(m, "swearing", "start", "record")
    /\ Quiet

SwearingRecord(m) == Return(m, "swearing", "record") /\ Record(m, "reaction") /\ Silent

\* HelpHandler.Handle.
Help(m) ==
    /\ \/ ~HelpMatches(message[m]) /\ Silent
       \/ HelpMatches(message[m]) /\ \E done, err \in BOOLEAN : Sent(done, err) /\ Show(m, "help", done)
    /\ Return(m, "help", "start")
    /\ Quiet

-----------------------------------------------------------------------------
\* QuestionsHandler.Handle. AskFor returns a text, or an error of its own.
Question(m) ==
    /\ \/ ~extractQuestion(message[m]) /\ Return(m, "questions", "start")
       \/ extractQuestion(message[m]) /\ ~ctxDone /\ Goto(m, "questions", "start", "record")
       \/ extractQuestion(message[m]) /\ Goto(m, "questions", "start", "sorry")
    /\ Silent /\ Quiet

\* A reply that failed is lost if it was the last try; if it was carried out
\* all the same, a further try repeats it.
Failed(m, done, err, last) ==
    /\ lost' = IF err /\ ~done /\ last THEN lost \union {m} ELSE lost
    /\ repeated' = IF err /\ done /\ ~last THEN repeated \union {m} ELSE repeated
    /\ UNCHANGED <<on, message, counted, recordings, panels, snapshot, ctxDone>>

\* llmErrorMessage in the place of an answer.
Sorry(m) ==
    /\ Return(m, "questions", "sorry")
    /\ \E done, err \in BOOLEAN :
          Sent(done, err) /\ Show(m, "sorry", done) /\ Failed(m, done, err, TRUE)

QuestionRecord(m) ==
    /\ Goto(m, "questions", "record", "html")
    /\ Record(m, "question")
    /\ Silent

\* Mutant of AnswerHTML: an answer whose HTML is rejected is dropped.
AnswerHTMLOnly(m) ==
    /\ Return(m, "questions", "html")
    /\ \E done, err \in BOOLEAN :
          Sent(done, err) /\ Show(m, "answer", done) /\ Failed(m, done, err, FALSE)

\* "The model's HTML may be malformed" (questions.go:75), or the request fails.
AnswerHTML(m) ==
    \E done, err \in BOOLEAN :
       /\ Sent(done, err)
       /\ Show(m, "answer", done)
       /\ IF err THEN Goto(m, "questions", "html", "plain") ELSE Return(m, "questions", "html")
       /\ Failed(m, done, err, FALSE)

AnswerPlain(m) ==
    /\ Return(m, "questions", "plain")
    /\ \E done, err \in BOOLEAN :
          Sent(done, err) /\ Show(m, "answer", done) /\ Failed(m, done, err, TRUE)

-----------------------------------------------------------------------------
\* StatsHandler.Handle: Snapshot, then HTML, then plain text. Each message it
\* posts is a panel with a refresh button.
Stats(m) ==
    /\ \/ ~StatsMatches(message[m]) /\ Return(m, "stats", "start") /\ UNCHANGED snapshot
       \/ /\ StatsMatches(message[m])
          /\ Goto(m, "stats", "start", "html")
          /\ snapshot' = [snapshot EXCEPT ![m] = recordings]
    /\ Silent
    /\ UNCHANGED <<on, message, counted, recordings, panels, historyVars, ctxDone>>

Post(m, format, done) ==
    panels' = IF ~done THEN panels
              ELSE [p \in DOMAIN panels \union {<<m, format>>} |->
                       IF p = <<m, format>> THEN [content |-> snapshot[m], format |-> format]
                       ELSE panels[p]]

StatsHTML(m) ==
    /\ \E done, err \in BOOLEAN :
          /\ Sent(done, err)
          /\ Post(m, "html", done)
          /\ IF err THEN Goto(m, "stats", "html", "plain") ELSE Return(m, "stats", "html")
    /\ Silent
    /\ UNCHANGED <<on, message, counted, recordings, snapshot, historyVars, ctxDone>>

StatsPlain(m) ==
    /\ Return(m, "stats", "plain")
    /\ \E done, err \in BOOLEAN : Sent(done, err) /\ Post(m, "plain", done)
    /\ Silent
    /\ UNCHANGED <<on, message, counted, recordings, snapshot, historyVars, ctxDone>>

HandlerStep(m) ==
    \/ Anek(m)
    \/ AnekSend(m)
    \/ AnekRecord(m)
    \/ Swearing(m)
    \/ SwearingRecord(m)
    \/ Help(m)
    \/ Question(m)
    \/ Sorry(m)
    \/ QuestionRecord(m)
    \/ AnswerHTML(m)
    \/ AnswerPlain(m)
    \/ Stats(m)
    \/ StatsHTML(m)
    \/ StatsPlain(m)

-----------------------------------------------------------------------------
\* The statistics against what the chat saw: a joke or a reaction is counted
\* only if it is there, an answered question is counted if the answer is there,
\* and nothing is counted twice, through failed sends and a shutdown at any step.
CountedIsShown ==
    \A m \in Messages :
       /\ counted[m]["joke"] <= chat[m]["joke"]
       /\ counted[m]["reaction"] <= chat[m]["reaction"]
       /\ chat[m]["answer"] > 0 => counted[m]["question"] = 1

\* Every question gets a reply, an answer or an apology, unless the last try to
\* send one failed ("fall back to plain text rather than dropping the answer",
\* questions.go:75); it gets two only if Telegram reported an error for a reply
\* that it had posted; and a command is never taken for a question.
QuestionHeard ==
    \A m \in Messages :
       LET replies == chat[m]["answer"] + chat[m]["sorry"]
       IN  IF extractQuestion(message[m])
           THEN /\ at[m]["questions"] = "returned" => replies > 0 \/ m \in lost
                /\ replies > 1 => m \in repeated
           ELSE replies = 0
=============================================================================

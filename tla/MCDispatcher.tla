---------------------------- MODULE MCDispatcher -----------------------------
EXTENDS Dispatcher, TLC

CONSTANTS m1, m2, t1, t2, q, s1, s2

\* Plain text, and variants of it.
plain == [command |-> "none", whom |-> "nobody", bare |-> FALSE, trigger |-> FALSE,
          swears |-> FALSE, mention |-> FALSE, admin |-> FALSE]
swearing == [plain EXCEPT !.swears = TRUE]
everything == [swearing EXCEPT !.trigger = TRUE, !.mention = TRUE]
command(name) == [plain EXCEPT !.command = name, !.mention = TRUE]
statsCommand == [command("stats") EXCEPT !.mention = FALSE, !.bare = TRUE, !.admin = TRUE]

Commands == {[command(name) EXCEPT !.whom = whom] :
                name \in {"anek", "help", "other"}, whom \in {"nobody", "bot", "otherBot"}}
StatsCommands == {statsCommand, [statsCommand EXCEPT !.bare = FALSE],
                  [statsCommand EXCEPT !.admin = FALSE], [statsCommand EXCEPT !.whom = "bot"]}

\* What arrives if nothing else is said: nothing.
Nothing ==
    [on |-> {}, message |-> [m \in Messages |-> plain], data |-> "refresh", admin |-> TRUE,
     query |-> [text |-> "blank", admin |-> FALSE],
     switches |-> [inline |-> TRUE, aiJokes |-> TRUE], updates |-> {}]

\* One message, with all handlers or some.
OneMessage ==
    {[Nothing EXCEPT !.on = handlers, !.message[m1] = text, !.updates = {m1}] :
        handlers \in {Message!Handlers, {"anek", "swearing", "questions"}, {}},
        text \in {everything} \union Commands \union StatsCommands}

\* The statistics, refreshed twice while another message is recorded; and a tap
\* that is for another handler, or from somebody else.
StatsRefreshed ==
    [Nothing EXCEPT !.on = {"swearing", "stats"},
                    !.message = m1 :> statsCommand @@ m2 :> swearing,
                    !.updates = {m1, m2, t1, t2}]
OneTap ==
    {[StatsRefreshed EXCEPT !.on = {"anek", "stats"}, !.data = data, !.admin = admin,
                            !.updates = {m1, t1}] :
        data \in {"refresh", "promotion", "pending"}, admin \in BOOLEAN}

\* One inline query, to each of the handler's branches.
Asking(text, admin, inline, aiJokes) ==
    [Nothing EXCEPT !.on = {"anek"}, !.query = [text |-> text, admin |-> admin],
                    !.switches = [inline |-> inline, aiJokes |-> aiJokes], !.updates = {q}]
OneQuery ==
    {Asking("blank", FALSE, TRUE, TRUE), Asking("say", FALSE, TRUE, FALSE),
     Asking("say", TRUE, TRUE, TRUE), Asking("topic", TRUE, TRUE, TRUE),
     Asking("topic", FALSE, FALSE, TRUE),
     [Asking("blank", FALSE, TRUE, TRUE) EXCEPT !.on = {}]}

MCScenarios == OneMessage \union {StatsRefreshed} \union OneTap \union OneQuery
=============================================================================

----------------------------- MODULE AdminStats ------------------------------
(***************************************************************************)
(* Taps on the buttons under the bot's messages: HandleCallback of the     *)
(* joke handler, which only acknowledges them, and then HandleCallback of  *)
(* the stats handler, which edits the /stats message under which the admin *)
(* tapped "refresh" (internal/anekbot/anek.go and adminstats.go).          *)
(*                                                                         *)
(* Telegram delivers two taps at once if the admin taps twice, and an edit *)
(* may fail in three ways: because the message already has that text and   *)
(* that formatting, because of the text's HTML, or for another reason, and *)
(* then it may have been carried out all the same.                         *)
(***************************************************************************)
EXTENDS Naturals, Services

CONSTANT Taps  \* bound: the taps

VARIABLES
    on,          \* of Dispatch: the handlers that are not nil
    recordings,  \* of the statistics: how many recordings there were
    panels,      \* the /stats messages, with the content and format they show
    tap,         \* per tap, its data, and what its handler does next
    htmlFailed   \* history: panels whose HTML edit failed, the text being new

tapVars == <<on, recordings, panels, tap, htmlFailed>>

\* "promotion" and "pending" are the buttons under jokes. admin: in a private
\* chat with an admin. since: history, the recordings when it was tapped;
\* alone: history, no other tap was under way meanwhile; failed: neither edit was
\* carried out.
Data == {"refresh", "promotion", "pending"}
Errors == {"none", "notModified", "badRequest", "other"}

Init ==
    /\ tap \in [Taps -> [pc : {"none"}, data : Data, admin : BOOLEAN, panel : {<<>>},
                         saw : {0}, since : {0}, alone : {TRUE}, failed : {FALSE}]]
    /\ htmlFailed = {}

Open(t) == tap[t].pc \notin {"none", "returned"}

\* The button is tapped, "refresh" under panel p, and Telegram delivers it.
Press(t, p) ==
    /\ tap[t].pc = "none"
    /\ tap' = [u \in Taps |->
                  IF u = t
                  THEN [tap[t] EXCEPT !.pc = "callback", !.panel = p, !.since = recordings,
                                      !.alone = \A v \in Taps : ~Open(v)]
                  ELSE IF Open(u) THEN [tap[u] EXCEPT !.alone = FALSE]
                  ELSE tap[u]]
    /\ UNCHANGED <<on, recordings, panels, htmlFailed, ctxDone>>

At(t, step) == tap[t].pc = step
Goto(t, step) == tap' = [tap EXCEPT ![t].pc = step]

-----------------------------------------------------------------------------
StatsRefreshes(t) == "stats" \in on /\ tap[t].data = "refresh" /\ tap[t].admin

\* Both handlers, up to the acknowledgement. The joke handler acknowledges the taps
\* under jokes, the stats handler a refresh, and an error of it is only logged.
Callback(t) ==
    /\ At(t, "callback")
    /\ Goto(t, IF StatsRefreshes(t) THEN "snapshot" ELSE "returned")
    /\ UNCHANGED <<on, recordings, panels, htmlFailed, ctxDone>>

\* Stats.Snapshot.
Refresh(t) ==
    /\ At(t, "snapshot")
    /\ tap' = [tap EXCEPT ![t].pc = "html", ![t].saw = recordings]
    /\ UNCHANGED <<on, recordings, panels, htmlFailed, ctxDone>>

-----------------------------------------------------------------------------
Unmodified(t, format) == panels[tap[t].panel] = [content |-> tap[t].saw, format |-> format]

\* One EditMessageText of tap t, carried out or not, and the error it returns.
Edited(t, format, done, err) ==
    /\ Sent(done, err # "none")
    /\ ctxDone => err = "other"
    /\ IF Unmodified(t, format) THEN ~done /\ err \in {"notModified", "other"}
       ELSE err # "notModified" /\ (done => err # "badRequest")
    /\ err = "badRequest" => format = "html"
    /\ panels' = IF done
                 THEN [panels EXCEPT ![tap[t].panel] = [content |-> tap[t].saw, format |-> format]]
                 ELSE panels
    /\ htmlFailed' = IF format = "html" /\ err \in {"badRequest", "other"}
                     THEN htmlFailed \union {tap[t].panel} ELSE htmlFailed

\* Mutants of isMessageNotModified: every bad request is taken for it, or none.
isAnyBadRequest(err) == err \in {"notModified", "badRequest"}
isNeverUnmodified(err) == FALSE

isMessageNotModified(err) == err = "notModified"

EditHTML(t) ==
    /\ At(t, "html")
    /\ \E done \in BOOLEAN, err \in Errors :
          /\ Edited(t, "html", done, err)
          /\ Goto(t, IF err = "none" \/ isMessageNotModified(err) THEN "returned" ELSE "plain")
    /\ UNCHANGED <<on, recordings, ctxDone>>

EditPlain(t) ==
    /\ At(t, "plain")
    /\ \E done \in BOOLEAN, err \in Errors :
          /\ Edited(t, "plain", done, err)
          /\ tap' = [tap EXCEPT ![t].pc = "returned",
                                ![t].failed = ~done /\ err # "notModified"]
    /\ UNCHANGED <<on, recordings, ctxDone>>

TapStep(t) ==
    \/ Callback(t)
    \/ Refresh(t)
    \/ EditHTML(t)
    \/ EditPlain(t)

-----------------------------------------------------------------------------
\* Admins "never have to retype /stats to see current numbers" (adminstats.go:81):
\* after a refresh, the message shows every recording made before the tap,
\* unless the plain-text edit failed as well, or another refresh ran meanwhile,
\* which may have read the numbers earlier and written them later.
RefreshIsFresh ==
    \A t \in Taps :
       At(t, "returned") /\ StatsRefreshes(t)
          /\ tap[t].alone /\ ~tap[t].failed
       => panels[tap[t].panel].content >= tap[t].since

\* A refresh does not "replace it with unformatted text for no reason"
\* (adminstats.go:115): a message that was posted with its formatting is plain
\* only if an HTML edit of it failed, for another reason than that nothing changed.
FormattingKept ==
    \A p \in DOMAIN panels :
       panels[p].format = "plain" => p[2] = "plain" \/ p \in htmlFailed
=============================================================================

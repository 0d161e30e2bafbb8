-------------------------- MODULE InlineModeProofs ---------------------------
(***************************************************************************)
(* For any set of messages and any number of processes: a message keeps    *)
(* its placeholder for good only for one of the reasons named, and what a  *)
(* chat was shown is in the statistics unless these were lost.             *)
(*                                                                         *)
(* The strengthening has three parts.  An offer that this process made was *)
(* made under this process's configuration, so whoever leaves an update    *)
(* alone for its configuration did not make the offer.  A handler is at an *)
(* AI joke's message from Ask on, and what it carries from RecordAnek and  *)
(* Promote on has been recorded.  And what is shown is recorded, and, once *)
(* the statistics are saved, saved.                                        *)
(***************************************************************************)
EXTENDS InlineMode, TLAPS

Sendable == {"joke", "busy", "unavailable"}

Typed ==
    /\ offers \subseteq [result : Results, by : 1 .. lives]
    /\ chosen \in [Messages -> Results \union {"none"}]
    /\ offerer \in [Messages -> 0 .. lives] /\ taker \in [Messages -> 0 .. lives]
    /\ shown \in [Messages -> {"none", "placeholder", "asOffered"} \union Sendable]
    /\ button \in [Messages -> {"none", "pending", "promo"}]
    /\ delivery \in [Messages -> {"none", "queued", "taken", "acknowledged"}]
    /\ pc \in [Messages -> Steps]
    /\ text \in [Messages -> {"none"} \union Sendable]
    /\ markup \in [Messages -> {"none", "promo"}]
    /\ reason \in [Messages -> Reasons \union {"none"}]
    /\ config \in Configurations
    /\ phase \in {"up", "stopping", "saved", "unsaved", "down"}
    /\ lives \in Nat \ {0}

Counted ==
    /\ jokes \in [Messages -> Nat] /\ promotions \in [Messages -> Nat]
    /\ file \in [jokes : [Messages -> Nat], promotions : [Messages -> Nat]]
    /\ lost \subseteq Messages

USE DEF Steps, Sendable, Reasons, Errors

LEMMA InitTypes == Init => Typed /\ Counted
BY DEF Init, Typed, Counted, Nothing, Configurations

LEMMA TypesKept == ASSUME Typed, [Next]_vars PROVE Typed'
<1> USE DEF Typed, postVars, takeVars, draftVars, statVars, lifeVars, Goto, Draft, Take
<1>1. ASSUME NEW result \in Results, AnswerInline(result) PROVE Typed'
  <2>1. [result |-> result, by |-> lives] \in [result : Results, by : 1 .. lives]
    OBVIOUS
  <2> QED BY <1>1, <2>1 DEF AnswerInline
<1>2. ASSUME NEW offer \in offers, Expire(offer) PROVE Typed'
  BY <1>2 DEF Expire
<1>3. ASSUME NEW m \in Messages, NEW offer \in offers, Choose(m, offer) PROVE Typed'
  BY <1>3 DEF Choose
<1>4. ASSUME NEW m \in Messages, Acknowledge(m) PROVE Typed'
  BY <1>4 DEF Acknowledge
<1>5. ASSUME NEW m \in Messages, Ignore(m) \/ ChosenSay(m) \/ ChosenClassic(m) \/ ChosenAIOff(m)
      PROVE  Typed'
  BY <1>5 DEF Ignore, ChosenSay, ChosenClassic, ChosenAIOff
<1>6. ASSUME NEW m \in Messages, ChosenAI(m) PROVE Typed'
  BY <1>6 DEF ChosenAI
<1>7. ASSUME NEW m \in Messages, Ask(m) \/ RecordAnek(m) \/ Promote(m) PROVE Typed'
  BY <1>7 DEF Ask, RecordAnek, Promote
<1>8. ASSUME NEW m \in Messages, EditHTML(m) \/ Edit(m) PROVE Typed'
  BY <1>8 DEF EditHTML, Edit, Edited
<1>9. CASE Stop \/ Save \/ UNCHANGED vars
  BY <1>9 DEF Stop, Save, vars
<1>10. CASE Die
  BY <1>10 DEF Die
<1>11. CASE Start
  BY <1>11 DEF Start
<1> QED BY <1>1, <1>2, <1>3, <1>4, <1>5, <1>6, <1>7, <1>8, <1>9, <1>10, <1>11 DEF Next, HandlerStep

LEMMA CountedKept == ASSUME Counted, [Next]_vars PROVE Counted'
<1> USE DEF Counted, postVars, takeVars, draftVars, statVars, lifeVars, Record
<1>1. CASE \/ \E result \in Results : AnswerInline(result)
           \/ \E offer \in offers : Expire(offer)
           \/ \E m \in Messages, offer \in offers : Choose(m, offer)
           \/ \E m \in Messages : Acknowledge(m)
           \/ Stop \/ UNCHANGED vars
  BY <1>1 DEF AnswerInline, Expire, Choose, Acknowledge, Stop, vars
<1>2. ASSUME NEW m \in Messages, HandlerStep(m) PROVE Counted'
  <2>1. UNCHANGED <<file, lost>>
    BY <1>2 DEF HandlerStep, Ignore, ChosenSay, ChosenClassic, ChosenAIOff, ChosenAI, Ask, RecordAnek,
                Promote, EditHTML, Edit
  <2>2. /\ jokes' = jokes \/ jokes' = [jokes EXCEPT ![m] = @ + 1]
        /\ promotions' = promotions \/ promotions' = [promotions EXCEPT ![m] = @ + 1]
    BY <1>2 DEF HandlerStep, Ignore, ChosenSay, ChosenClassic, ChosenAIOff, ChosenAI, Ask, RecordAnek,
                Promote, EditHTML, Edit
  <2> QED BY <2>1, <2>2
<1>3. CASE Save
  BY <1>3 DEF Save
<1>4. CASE Die
  BY <1>4 DEF Die
<1>5. CASE Start
  BY <1>5 DEF Start, Nothing
<1> QED BY <1>1, <1>2, <1>3, <1>4, <1>5 DEF Next

-----------------------------------------------------------------------------
\* An offer by this process was made with anek on, and an AI joke's with AI jokes on.
Offered(offer) ==
    offer.by = lives => config.anek /\ (offer.result = "ai" => config.aiJokes)

\* So was the offer behind a message, and a process that left its update alone for
\* its configuration is a later one.
Origin(m) ==
    /\ chosen[m] = "none" => pc[m] = "idle" /\ delivery[m] = "none" /\ reason[m] = "none"
    /\ chosen[m] # "none" /\ offerer[m] = lives =>
          config.anek /\ (chosen[m] = "ai" => config.aiJokes)
    /\ reason[m] \in {"noAnek", "noAIJokes"} => TakenByAnother(m)

Origins == (\A offer \in offers : Offered(offer)) /\ \A m \in Messages : Origin(m)

LEMMA InitOrigins == Init => Origins
BY DEF Init, Origins, Origin

\* A step of a handler leaves the offers alone; the first one takes the update.
LEMMA HandlerOrigins ==
  ASSUME Typed, Origins, NEW m \in Messages, HandlerStep(m)
  PROVE  Origins'
<1>1. UNCHANGED <<offers, chosen, offerer, config, lives>>
  BY DEF HandlerStep, Ignore, ChosenSay, ChosenClassic, ChosenAIOff, ChosenAI, Ask, RecordAnek,
         Promote, EditHTML, Edit, postVars, lifeVars
<1>2. (\A offer \in offers : Offered(offer))'
  BY <1>1 DEF Origins, Offered
<1>3. ASSUME NEW n \in Messages, n # m PROVE Origin(n)'
  <2>1. pc'[n] = pc[n] /\ delivery'[n] = delivery[n] /\ reason'[n] = reason[n] /\ taker'[n] = taker[n]
    BY <1>3 DEF HandlerStep, Ignore, ChosenSay, ChosenClassic, ChosenAIOff, ChosenAI, Ask, RecordAnek,
                Promote, EditHTML, Edit, takeVars, Goto, Take, Typed
  <2> QED BY <1>1, <2>1 DEF Origins, Origin, TakenByAnother
<1>4. Origin(m)'
  <2>1. CASE \E why \in Reasons \union {"none"} : Take(m, why)
    <3>1. chosen[m] # "none"
      BY <2>1 DEF Take, Origins, Origin
    <3>2. taker'[m] = lives /\ offerer[m] \in 0 .. lives
      BY <2>1 DEF Take, Typed
    <3>3. reason'[m] = "noAnek" => ~config.anek
      BY <2>1 DEF HandlerStep, Ignore, ChosenSay, ChosenClassic, ChosenAIOff, ChosenAI, Ask, RecordAnek,
                  Promote, EditHTML, Edit, Take, Typed, takeVars
    <3>4. reason'[m] = "noAIJokes" => chosen[m] = "ai" /\ ~config.aiJokes
      BY <2>1 DEF HandlerStep, Ignore, ChosenSay, ChosenClassic, ChosenAIOff, ChosenAI, Ask, RecordAnek,
                  Promote, EditHTML, Edit, Take, Typed, takeVars
    <3>5. reason'[m] \in {"noAnek", "noAIJokes"} => offerer[m] # lives
      BY <3>1, <3>3, <3>4 DEF Origins, Origin
    <3>6. reason'[m] \in {"noAnek", "noAIJokes"} => offerer[m] < taker'[m]
      BY <3>2, <3>5 DEF Typed
    <3> QED BY <1>1, <3>1, <3>6 DEF Origins, Origin, TakenByAnother
  <2>2. CASE UNCHANGED takeVars
    <3>1. chosen[m] # "none"
      BY <2>2 DEF HandlerStep, Ignore, ChosenSay, ChosenClassic, ChosenAIOff, ChosenAI, Ask, RecordAnek,
                  Promote, EditHTML, Edit, Goto, Take, takeVars, Origins, Origin, Typed
    <3>2. reason' = reason \/ reason' = [reason EXCEPT ![m] = "editFailed"]
      BY <2>2 DEF HandlerStep, Ignore, ChosenSay, ChosenClassic, ChosenAIOff, ChosenAI, Ask, RecordAnek,
                  Promote, EditHTML, Edit, Take, takeVars, Typed
    <3> QED BY <1>1, <2>2, <3>1, <3>2 DEF Origins, Origin, TakenByAnother, takeVars, Typed
  <2> QED BY <2>1, <2>2 DEF HandlerStep, Ignore, ChosenSay, ChosenClassic, ChosenAIOff, ChosenAI, Ask,
              RecordAnek, Promote, EditHTML, Edit
<1> QED BY <1>2, <1>3, <1>4 DEF Origins

LEMMA OriginsKept == ASSUME Typed, Origins, [Next]_vars PROVE Origins'
<1> USE DEF Typed, Origins, Offered, Origin, TakenByAnother, postVars, takeVars, lifeVars
<1>1. ASSUME NEW result \in Results, AnswerInline(result) PROVE Origins'
  BY <1>1 DEF AnswerInline
<1>2. ASSUME NEW offer \in offers, Expire(offer) PROVE Origins'
  BY <1>2 DEF Expire
<1>3. ASSUME NEW m \in Messages, NEW offer \in offers, Choose(m, offer) PROVE Origins'
  <2>1. /\ chosen' = [chosen EXCEPT ![m] = offer.result] /\ offerer' = [offerer EXCEPT ![m] = offer.by]
        /\ delivery' = [delivery EXCEPT ![m] = "queued"]
        /\ UNCHANGED <<offers, taker, pc, reason, config, lives>> /\ chosen[m] = "none"
    BY <1>3 DEF Choose
  <2>2. offer.result \in Results /\ offer.result # "none"
    BY InlineModeAssumption
  <2>3. ASSUME NEW n \in Messages, n # m PROVE Origin(n)'
    BY <2>1, <2>3
  <2>4. Origin(m)'
    BY <2>1, <2>2
  <2>5. (\A o \in offers : Offered(o))'
    BY <2>1
  <2> QED BY <2>3, <2>4, <2>5
<1>4. ASSUME NEW m \in Messages, Acknowledge(m) PROVE Origins'
  BY <1>4 DEF Acknowledge
<1>5. ASSUME NEW m \in Messages, HandlerStep(m) PROVE Origins'
  BY <1>5, HandlerOrigins
<1>6. CASE Stop \/ Save \/ UNCHANGED vars
  BY <1>6 DEF Stop, Save, vars
<1>7. CASE Die
  <2>1. UNCHANGED <<offers, chosen, offerer, taker, config, lives>>
    BY <1>7 DEF Die
  <2>2. ASSUME NEW m \in Messages PROVE
           /\ reason'[m] \in {reason[m], "died"}
           /\ chosen[m] = "none" => pc'[m] = pc[m] /\ delivery'[m] = delivery[m] /\ reason'[m] = reason[m]
    BY <1>7 DEF Die
  <2> QED BY <2>1, <2>2
<1>8. CASE Start
  <2>1. UNCHANGED <<offers, chosen, offerer, taker, pc, delivery, reason>> /\ lives' = lives + 1
    BY <1>8 DEF Start
  <2>2. ASSUME NEW m \in Messages PROVE offerer[m] # lives'
    BY <2>1
  <2>3. ASSUME NEW offer \in offers PROVE offer.by # lives'
    BY <2>1
  <2> QED BY <2>1, <2>2, <2>3
<1> QED BY <1>1, <1>2, <1>3, <1>4, <1>5, <1>6, <1>7, <1>8 DEF Next

-----------------------------------------------------------------------------
\* A handler is at work on an AI joke, while the process is there.
Handled(m) ==
    /\ pc[m] \notin {"idle", "done"} => chosen[m] = "ai" /\ phase # "down"
    /\ phase = "down" => text[m] = "none" /\ markup[m] = "none"

\* What it carries, and what was recorded by then.
Carries(m) ==
    /\ pc[m] \in {"record", "promo", "editHTML"} => text[m] = "joke"
    /\ pc[m] = "edit" => text[m] \in Sendable
    /\ pc[m] = "record" => markup[m] = "none"
    /\ text[m] = "joke" /\ pc[m] # "record" => jokes[m] > 0
    /\ markup[m] = "promo" => promotions[m] > 0

Explained(m) ==
    pc[m] = "done" /\ chosen[m] = "ai" =>
       \/ shown[m] \in Sendable /\ button[m] # "pending"
       \/ reason[m] # "none"

AtWork(m) == Handled(m) /\ Carries(m) /\ Explained(m)

LEMMA InitAtWork == Init => \A m \in Messages : AtWork(m)
BY DEF Init, AtWork, Handled, Carries, Explained

LEMMA AtWorkKept ==
  ASSUME Typed, Counted, Origins, \A m \in Messages : AtWork(m), [Next]_vars
  PROVE  \A m \in Messages : AtWork(m)'
<1> USE DEF Typed, Counted, AtWork, Handled, Carries, Explained, postVars, takeVars, draftVars, statVars,
            lifeVars, Goto, Draft, Take, Record
<1>1. CASE \/ \E result \in Results : AnswerInline(result)
           \/ \E offer \in offers : Expire(offer)
           \/ \E m \in Messages : Acknowledge(m)
           \/ Stop \/ Save \/ UNCHANGED vars
  BY <1>1 DEF AnswerInline, Expire, Acknowledge, Stop, Save, vars
<1>2. ASSUME NEW m \in Messages, NEW offer \in offers, Choose(m, offer)
      PROVE  \A n \in Messages : AtWork(n)'
  <2>1. pc[m] = "idle"
    BY <1>2 DEF Choose, Origins, Origin
  <2> QED BY <1>2, <2>1 DEF Choose
<1>3. ASSUME NEW m \in Messages, HandlerStep(m) PROVE \A n \in Messages : AtWork(n)'
  <2>1. CASE Ignore(m) \/ ChosenSay(m) \/ ChosenAIOff(m)
    BY <1>3, <2>1 DEF Ignore, ChosenSay, ChosenAIOff
  <2>2. CASE ChosenClassic(m)
    BY <1>3, <2>2 DEF ChosenClassic
  <2>3. CASE ChosenAI(m)
    BY <1>3, <2>3 DEF ChosenAI
  <2>4. CASE Ask(m)
    BY <1>3, <2>4 DEF Ask
  <2>5. CASE RecordAnek(m)
    BY <1>3, <2>5 DEF RecordAnek
  <2>6. CASE Promote(m)
    BY <1>3, <2>6 DEF Promote
  <2>7. CASE EditHTML(m)
    BY <1>3, <2>7 DEF EditHTML, Edited
  <2>8. CASE Edit(m)
    BY <1>3, <2>8 DEF Edit, Edited
  <2> QED BY <1>3, <2>1, <2>2, <2>3, <2>4, <2>5, <2>6, <2>7, <2>8 DEF HandlerStep
<1>4. CASE Die
  <2>1. UNCHANGED <<chosen, shown, button>>
    BY <1>4 DEF Die
  <2>2. ASSUME NEW m \in Messages PROVE
           /\ pc'[m] \in {"idle", "done"}
           /\ text'[m] = "none" /\ markup'[m] = "none"
           /\ pc'[m] = "done" => (pc[m] = "done" /\ reason'[m] = reason[m]) \/ reason'[m] = "died"
    BY <1>4 DEF Die
  <2> QED BY <2>1, <2>2
<1>5. CASE Start
  <2>1. /\ UNCHANGED <<chosen, shown, button, pc, text, markup, reason>>
        /\ phase = "down"
    BY <1>5 DEF Start
  <2> QED BY <2>1
<1> QED BY <1>1, <1>2, <1>3, <1>4, <1>5 DEF Next

-----------------------------------------------------------------------------
\* What is shown at m is among the statistics: this process's, or the file's.
Recorded(m, stats) ==
    /\ shown[m] = "joke" => stats.jokes[m] > 0
    /\ button[m] = "promo" /\ (chosen[m] = "ai" \/ pc[m] = "done") =>
          stats.promotions[m] > 0 \/ (chosen[m] = "promo" /\ reason[m] = "noAnek")

Statistics == [jokes |-> jokes, promotions |-> promotions]

\* What is saved has what is shown, and goes on having it.
Kept(m) ==
    /\ button[m] = "promo" => chosen[m] \in {"ai", "promo"}
    /\ m \in lost \/ Recorded(m, Statistics)
    /\ phase = "saved" => m \in lost \/ Recorded(m, file)

LEMMA InitKept == Init => \A m \in Messages : Kept(m)
BY DEF Init, Kept, Recorded

LEMMA KeptKept ==
  ASSUME Typed, Counted, Origins, \A m \in Messages : AtWork(m) /\ Kept(m), [Next]_vars
  PROVE  \A m \in Messages : Kept(m)'
<1> USE DEF Typed, Counted, Kept, Recorded, Statistics, postVars, takeVars, draftVars, statVars, lifeVars
<1>1. CASE \/ \E result \in Results : AnswerInline(result)
           \/ \E offer \in offers : Expire(offer)
           \/ \E m \in Messages : Acknowledge(m)
           \/ Stop \/ UNCHANGED vars
  BY <1>1 DEF AnswerInline, Expire, Acknowledge, Stop, vars
<1>2. ASSUME NEW m \in Messages, NEW offer \in offers, Choose(m, offer)
      PROVE  \A n \in Messages : Kept(n)'
  <2>1. pc[m] = "idle"
    BY <1>2 DEF Choose, Origins, Origin
  <2> QED BY <1>2, <2>1 DEF Choose
<1>3. ASSUME NEW m \in Messages, HandlerStep(m) PROVE \A n \in Messages : Kept(n)'
  <2> USE DEF Goto, Draft, Take, Record
  <2>1. CASE Ignore(m) \/ ChosenSay(m) \/ ChosenAIOff(m)
    BY <1>3, <2>1 DEF Ignore, ChosenSay, ChosenAIOff
  <2>2. CASE ChosenClassic(m)
    BY <1>3, <2>2 DEF ChosenClassic
  <2>3. CASE ChosenAI(m)
    BY <1>3, <2>3 DEF ChosenAI
  <2>4. CASE Ask(m) \/ RecordAnek(m) \/ Promote(m)
    BY <1>3, <2>4 DEF Ask, RecordAnek, Promote, AtWork, Handled
  <2>5. CASE EditHTML(m) \/ Edit(m)
    BY <1>3, <2>5 DEF EditHTML, Edit, Edited, AtWork, Handled, Carries
  <2> QED BY <1>3, <2>1, <2>2, <2>3, <2>4, <2>5 DEF HandlerStep
<1>4. CASE Save
  BY <1>4 DEF Save
<1>5. CASE Die
  <2>1. UNCHANGED <<chosen, shown, button, file>> /\ jokes' = file.jokes /\ promotions' = file.promotions
        /\ phase' = "down"
    BY <1>5 DEF Die
  <2>2. ASSUME NEW m \in Messages PROVE
           /\ reason'[m] = reason[m] \/ chosen[m] = "ai"
           /\ pc'[m] = "done" => pc[m] = "done" \/ chosen[m] = "ai"
    BY <1>5 DEF Die, AtWork, Handled
  <2>3. ASSUME NEW m \in Messages, m \notin lost' PROVE
           m \notin lost /\ (phase = "saved" \/ (file.jokes[m] = jokes[m] /\ file.promotions[m] = promotions[m]))
    BY <1>5, <2>3 DEF Die, Unsaved
  <2> QED BY <2>1, <2>2, <2>3
<1>6. CASE Start
  <2>1. UNCHANGED <<chosen, shown, button, pc, reason, file>> /\ phase' = "up"
    BY <1>6 DEF Start
  <2>2. ASSUME NEW m \in Messages, m \notin lost' PROVE
           /\ m \notin lost
           /\ jokes[m] > 0 => jokes'[m] > 0
           /\ promotions[m] > 0 => promotions'[m] > 0
    BY <1>6, <2>2 DEF Start
  <2> QED BY <2>1, <2>2
<1> QED BY <1>1, <1>2, <1>3, <1>4, <1>5, <1>6 DEF Next

-----------------------------------------------------------------------------
Inv == Typed /\ Counted /\ Origins /\ \A m \in Messages : AtWork(m) /\ Kept(m)

LEMMA Invariance == Spec => []Inv
<1>1. Init => Inv
  BY InitTypes, InitOrigins, InitAtWork, InitKept DEF Inv
<1>2. Inv /\ [Next]_vars => Inv'
  BY TypesKept, CountedKept, OriginsKept, AtWorkKept, KeptKept DEF Inv
<1> QED BY <1>1, <1>2, PTL DEF Spec

\* Every variable stays within its range.
THEOREM InlineModeTypes == Spec => []TypeOK
<1>1. Inv => TypeOK
  BY DEF Inv, Typed, Counted, TypeOK
<1> QED BY <1>1, Invariance, PTL

\* A placeholder that stays has one of the reasons named; a process that leaves it
\* for its configuration is not the one that offered it.
THEOREM StuckOnlyForAReason == Spec => []PlaceholderExplained
<1>1. Inv => PlaceholderExplained
  <2> SUFFICES ASSUME Inv, NEW m \in Messages, pc[m] = "done", chosen[m] = "ai",
                      ~(shown[m] \in {"joke"} \union Errors /\ button[m] # "pending"),
                      reason[m] \notin {"editFailed", "died"}
               PROVE  reason[m] \in {"noAnek", "noAIJokes"} /\ TakenByAnother(m)
    BY DEF PlaceholderExplained
  <2>1. reason[m] \in Reasons
    BY DEF Inv, Typed, AtWork, Explained
  <2> QED BY <2>1 DEF Inv, Origins, Origin
<1> QED BY <1>1, Invariance, PTL

\* What a chat was shown is in the statistics unless they were lost: it was
\* recorded before it was sent (anek.go:337, 346), and nothing is sent between the
\* save and the end (main.go:133).
THEOREM NothingShownUnrecorded == Spec => []ShownIsRecorded
<1>1. Inv => ShownIsRecorded
  BY DEF Inv, Origins, Origin, Kept, Recorded, Statistics, ShownIsRecorded
<1> QED BY <1>1, Invariance, PTL
=============================================================================

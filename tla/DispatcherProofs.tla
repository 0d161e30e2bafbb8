-------------------------- MODULE DispatcherProofs ---------------------------
(***************************************************************************)
(* For any set of messages, any handlers and any interleaving: what is     *)
(* counted was shown, and questions are heard.  For any set of taps: a     *)
(* refresh shows fresh numbers and keeps its formatting.  For any number   *)
(* of suggestions, attempts, timeouts and delays: an inline query is       *)
(* answered in time with every joke that was fetched.                      *)
(***************************************************************************)
EXTENDS Dispatcher, TLAPS

Places == {"none", "start", "send", "record", "sorry", "html", "plain", "returned"}

MessageTypes ==
    /\ at \in [Messages -> [Message!Handlers -> Places]]
    /\ chat \in [Messages -> [Message!Replies -> Nat]]
    /\ counted \in [Messages -> [Message!Counts -> Nat]]

\* A message that waits has no handler; none of them can have done anything.
Untouched ==
    \A m \in Messages :
       IsAt(m, "queued") => \A h \in Message!Handlers : at[m][h] = "none"

JokeInv(m) ==
    counted[m]["joke"] + (IF at[m]["anek"] = "record" THEN 1 ELSE 0) <= chat[m]["joke"]

ReactionInv(m) ==
    counted[m]["reaction"] + (IF at[m]["swearing"] = "record" THEN 1 ELSE 0) <= chat[m]["reaction"]

\* How many replies a question has, and whether it is counted, at each step of
\* its handler.
QuestionInv(m) ==
    LET answers == chat[m]["answer"]
        sorries == chat[m]["sorry"]
        step    == at[m]["questions"]
    IN  /\ step \in {"none", "start", "sorry", "record"} =>
              answers = 0 /\ sorries = 0 /\ counted[m]["question"] = 0
        /\ step = "html" => answers = 0 /\ sorries = 0 /\ counted[m]["question"] = 1
        /\ step = "plain" =>
              sorries = 0 /\ counted[m]["question"] = 1 /\ answers <= 1
              /\ (answers = 1 => m \in repeated)
        /\ step = "returned" =>
              /\ answers > 0 => counted[m]["question"] = 1
              /\ answers + sorries > 1 => m \in repeated
              /\ Message!extractQuestion(message[m]) => answers + sorries > 0 \/ m \in lost
              /\ ~Message!extractQuestion(message[m]) => answers + sorries = 0
        /\ ~Message!extractQuestion(message[m]) => step \in {"none", "start", "returned"}
        /\ step \in {"none", "start", "sorry", "record", "html", "plain", "returned"}

MessageInv ==
    /\ MessageTypes
    /\ Untouched
    /\ \A m \in Messages : JokeInv(m) /\ ReactionInv(m) /\ QuestionInv(m)

-----------------------------------------------------------------------------
\* A handler moves: nothing but its own place changes.
LEMMA Moves ==
  ASSUME MessageTypes, NEW m \in Messages, NEW h \in Message!Handlers, NEW from, NEW to \in Places,
         Message!Goto(m, h, from, to) \/ (Message!Return(m, h, from) /\ to = "returned")
  PROVE  /\ at[m][h] = from /\ at'[m][h] = to
         /\ at' \in [Messages -> [Message!Handlers -> Places]]
         /\ \A n \in Messages, g \in Message!Handlers : n # m \/ g # h => at'[n][g] = at[n][g]
<1>1. at[m][h] = from /\ at' = [at EXCEPT ![m][h] = to]
  BY DEF Message!Goto, Message!Return
<1> QED BY <1>1 DEF MessageTypes

\* A reply that is carried out is added to its chat.
LEMMA Shows ==
  ASSUME MessageTypes, NEW m \in Messages, NEW reply \in Message!Replies, NEW done \in BOOLEAN,
         Message!Show(m, reply, done)
  PROVE  /\ chat' \in [Messages -> [Message!Replies -> Nat]]
         /\ chat'[m][reply] = chat[m][reply] + (IF done THEN 1 ELSE 0)
         /\ \A n \in Messages, r \in Message!Replies : n # m \/ r # reply => chat'[n][r] = chat[n][r]
<1>1. chat' = IF done THEN [chat EXCEPT ![m][reply] = chat[m][reply] + 1] ELSE chat
  BY DEF Message!Show
<1> QED BY <1>1 DEF MessageTypes

\* A recording is added to its count.
LEMMA Counts ==
  ASSUME MessageTypes, NEW m \in Messages, NEW what \in Message!Counts, Message!Record(m, what)
  PROVE  /\ counted' \in [Messages -> [Message!Counts -> Nat]]
         /\ counted'[m][what] = counted[m][what] + 1
         /\ \A n \in Messages, c \in Message!Counts : n # m \/ c # what => counted'[n][c] = counted[n][c]
         /\ UNCHANGED <<message, lost, repeated>>
<1>1. counted' = [counted EXCEPT ![m][what] = counted[m][what] + 1]
  BY DEF Message!Record
<1> QED BY <1>1 DEF MessageTypes, Message!Record, Message!historyVars

\* A step of a handler that has started says nothing of a message that waits.
LEMMA StillUntouched ==
  ASSUME MessageInv, NEW m \in Messages, NEW h \in Message!Handlers, at[m][h] # "none",
         \A n \in Messages, g \in Message!Handlers : n # m \/ g # h => at'[n][g] = at[n][g],
         UNCHANGED updates
  PROVE  Untouched'
BY DEF MessageInv, Untouched, IsAt

\* What each invariant depends on.
LEMMA JokeFrame ==
  ASSUME NEW n \in Messages, JokeInv(n), counted'[n]["joke"] = counted[n]["joke"],
         chat'[n]["joke"] = chat[n]["joke"], at'[n]["anek"] = at[n]["anek"]
  PROVE  JokeInv(n)'
BY DEF JokeInv

LEMMA ReactionFrame ==
  ASSUME NEW n \in Messages, ReactionInv(n), counted'[n]["reaction"] = counted[n]["reaction"],
         chat'[n]["reaction"] = chat[n]["reaction"], at'[n]["swearing"] = at[n]["swearing"]
  PROVE  ReactionInv(n)'
BY DEF ReactionInv

LEMMA QuestionFrame ==
  ASSUME NEW n \in Messages, QuestionInv(n), counted'[n]["question"] = counted[n]["question"],
         chat'[n]["answer"] = chat[n]["answer"], chat'[n]["sorry"] = chat[n]["sorry"],
         at'[n]["questions"] = at[n]["questions"],
         n \in lost => n \in lost', n \in repeated => n \in repeated', message' = message
  PROVE  QuestionInv(n)'
BY DEF QuestionInv, Message!extractQuestion

-----------------------------------------------------------------------------
LEMMA AnekStep ==
  ASSUME MessageInv, NEW m \in Messages, UNCHANGED updates,
         Message!Anek(m) \/ Message!AnekSend(m) \/ Message!AnekRecord(m)
  PROVE  MessageInv'
<1> USE DEF Message!Handlers, Message!Replies, Message!Counts, Places
<1>0. MessageTypes
  BY DEF MessageInv
<1>1. CASE Message!Anek(m)
  <2>1. UNCHANGED <<chat, counted, message, lost, repeated>>
    BY <1>1 DEF Message!Anek, Message!Silent, Message!Quiet, Message!historyVars
  <2>2. PICK to \in {"send", "returned"} :
           Message!Goto(m, "anek", "start", to)
           \/ (Message!Return(m, "anek", "start") /\ to = "returned")
    BY <1>1 DEF Message!Anek
  <2>3. /\ at[m]["anek"] = "start" /\ at'[m]["anek"] = to
        /\ at' \in [Messages -> [Message!Handlers -> Places]]
        /\ \A n \in Messages, g \in Message!Handlers : n # m \/ g # "anek" => at'[n][g] = at[n][g]
    BY <1>0, <2>2, Moves
  <2>4. MessageTypes' /\ Untouched'
    BY <1>0, <2>1, <2>3, StillUntouched DEF MessageTypes
  <2>5. ASSUME NEW n \in Messages PROVE JokeInv(n)'
    BY <2>1, <2>3 DEF MessageInv, JokeInv
  <2>6. ASSUME NEW n \in Messages PROVE ReactionInv(n)' /\ QuestionInv(n)'
    BY <2>1, <2>3, ReactionFrame, QuestionFrame DEF MessageInv
  <2> QED BY <2>4, <2>5, <2>6 DEF MessageInv
<1>2. CASE Message!AnekSend(m)
  <2>1. UNCHANGED <<counted, message, lost, repeated>>
    BY <1>2 DEF Message!AnekSend, Message!Quiet, Message!historyVars
  <2>2. PICK done \in BOOLEAN, to \in {"record", "returned"} :
           /\ Message!Show(m, "joke", done)
           /\ to = "record" => done
           /\ Message!Goto(m, "anek", "send", to)
              \/ (Message!Return(m, "anek", "send") /\ to = "returned")
    BY <1>2 DEF Message!AnekSend, Message!Sent
  <2>3. /\ at[m]["anek"] = "send" /\ at'[m]["anek"] = to
        /\ at' \in [Messages -> [Message!Handlers -> Places]]
        /\ \A n \in Messages, g \in Message!Handlers : n # m \/ g # "anek" => at'[n][g] = at[n][g]
    BY <1>0, <2>2, Moves
  <2>4. /\ chat' \in [Messages -> [Message!Replies -> Nat]]
        /\ chat'[m]["joke"] = chat[m]["joke"] + (IF done THEN 1 ELSE 0)
        /\ \A n \in Messages, r \in Message!Replies : n # m \/ r # "joke" => chat'[n][r] = chat[n][r]
    BY <1>0, <2>2, Shows
  <2>5. MessageTypes' /\ Untouched'
    BY <1>0, <2>1, <2>3, <2>4, StillUntouched DEF MessageTypes
  <2>6. ASSUME NEW n \in Messages PROVE JokeInv(n)'
    <3>1. counted[n]["joke"] \in Nat /\ chat[n]["joke"] \in Nat
      BY <1>0 DEF MessageTypes
    <3> QED BY <2>1, <2>2, <2>3, <2>4, <3>1 DEF MessageInv, JokeInv
  <2>7. ASSUME NEW n \in Messages PROVE ReactionInv(n)' /\ QuestionInv(n)'
    BY <2>1, <2>3, <2>4, ReactionFrame, QuestionFrame DEF MessageInv
  <2> QED BY <2>5, <2>6, <2>7 DEF MessageInv
<1>3. CASE Message!AnekRecord(m)
  <2>1. UNCHANGED <<chat>> /\ Message!Record(m, "joke") /\ Message!Return(m, "anek", "record")
    BY <1>3 DEF Message!AnekRecord, Message!Silent
  <2>2. /\ at[m]["anek"] = "record" /\ at'[m]["anek"] = "returned"
        /\ at' \in [Messages -> [Message!Handlers -> Places]]
        /\ \A n \in Messages, g \in Message!Handlers : n # m \/ g # "anek" => at'[n][g] = at[n][g]
    BY <1>0, <2>1, Moves
  <2>3. /\ counted' \in [Messages -> [Message!Counts -> Nat]]
        /\ counted'[m]["joke"] = counted[m]["joke"] + 1
        /\ \A n \in Messages, c \in Message!Counts : n # m \/ c # "joke" => counted'[n][c] = counted[n][c]
        /\ UNCHANGED <<message, lost, repeated>>
    BY <1>0, <2>1, Counts
  <2>4. MessageTypes' /\ Untouched'
    BY <1>0, <2>1, <2>2, <2>3, <1>3, StillUntouched DEF MessageTypes
  <2>5. ASSUME NEW n \in Messages PROVE JokeInv(n)'
    <3>1. counted[n]["joke"] \in Nat /\ chat[n]["joke"] \in Nat
      BY <1>0 DEF MessageTypes
    <3> QED BY <2>1, <2>2, <2>3, <3>1 DEF MessageInv, JokeInv
  <2>6. ASSUME NEW n \in Messages PROVE ReactionInv(n)' /\ QuestionInv(n)'
    BY <2>1, <2>2, <2>3, ReactionFrame, QuestionFrame DEF MessageInv
  <2> QED BY <2>4, <2>5, <2>6 DEF MessageInv
<1> QED BY <1>1, <1>2, <1>3

LEMMA SwearingStep ==
  ASSUME MessageInv, NEW m \in Messages, UNCHANGED updates,
         Message!Swearing(m) \/ Message!SwearingRecord(m)
  PROVE  MessageInv'
<1> USE DEF Message!Handlers, Message!Replies, Message!Counts, Places
<1>0. MessageTypes
  BY DEF MessageInv
<1>1. CASE Message!Swearing(m)
  <2>1. UNCHANGED <<counted, message, lost, repeated>>
    BY <1>1 DEF Message!Swearing, Message!Quiet, Message!historyVars
  <2>2. PICK done \in BOOLEAN, to \in {"record", "returned"} :
           /\ Message!Show(m, "reaction", done)
           /\ to = "record" => done
           /\ Message!Goto(m, "swearing", "start", to)
              \/ (Message!Return(m, "swearing", "start") /\ to = "returned")
    <3>1. Message!Silent => Message!Show(m, "reaction", FALSE)
      BY DEF Message!Silent, Message!Show
    <3> QED BY <1>1, <3>1 DEF Message!Swearing, Message!Sent
  <2>3. /\ at[m]["swearing"] = "start" /\ at'[m]["swearing"] = to
        /\ at' \in [Messages -> [Message!Handlers -> Places]]
        /\ \A n \in Messages, g \in Message!Handlers : n # m \/ g # "swearing" => at'[n][g] = at[n][g]
    BY <1>0, <2>2, Moves
  <2>4. /\ chat' \in [Messages -> [Message!Replies -> Nat]]
        /\ chat'[m]["reaction"] = chat[m]["reaction"] + (IF done THEN 1 ELSE 0)
        /\ \A n \in Messages, r \in Message!Replies : n # m \/ r # "reaction" => chat'[n][r] = chat[n][r]
    BY <1>0, <2>2, Shows
  <2>5. MessageTypes' /\ Untouched'
    BY <1>0, <2>1, <2>3, <2>4, StillUntouched DEF MessageTypes
  <2>6. ASSUME NEW n \in Messages PROVE ReactionInv(n)'
    <3>1. counted[n]["reaction"] \in Nat /\ chat[n]["reaction"] \in Nat
      BY <1>0 DEF MessageTypes
    <3> QED BY <2>1, <2>2, <2>3, <2>4, <3>1 DEF MessageInv, ReactionInv
  <2>7. ASSUME NEW n \in Messages PROVE JokeInv(n)' /\ QuestionInv(n)'
    BY <2>1, <2>3, <2>4, JokeFrame, QuestionFrame DEF MessageInv
  <2> QED BY <2>5, <2>6, <2>7 DEF MessageInv
<1>2. CASE Message!SwearingRecord(m)
  <2>1. UNCHANGED <<chat>> /\ Message!Record(m, "reaction") /\ Message!Return(m, "swearing", "record")
    BY <1>2 DEF Message!SwearingRecord, Message!Silent
  <2>2. /\ at[m]["swearing"] = "record" /\ at'[m]["swearing"] = "returned"
        /\ at' \in [Messages -> [Message!Handlers -> Places]]
        /\ \A n \in Messages, g \in Message!Handlers : n # m \/ g # "swearing" => at'[n][g] = at[n][g]
    BY <1>0, <2>1, Moves
  <2>3. /\ counted' \in [Messages -> [Message!Counts -> Nat]]
        /\ counted'[m]["reaction"] = counted[m]["reaction"] + 1
        /\ \A n \in Messages, c \in Message!Counts : n # m \/ c # "reaction" => counted'[n][c] = counted[n][c]
        /\ UNCHANGED <<message, lost, repeated>>
    BY <1>0, <2>1, Counts
  <2>4. MessageTypes' /\ Untouched'
    BY <1>0, <2>1, <2>2, <2>3, StillUntouched DEF MessageTypes
  <2>5. ASSUME NEW n \in Messages PROVE ReactionInv(n)'
    <3>1. counted[n]["reaction"] \in Nat /\ chat[n]["reaction"] \in Nat
      BY <1>0 DEF MessageTypes
    <3> QED BY <2>1, <2>2, <2>3, <3>1 DEF MessageInv, ReactionInv
  <2>6. ASSUME NEW n \in Messages PROVE JokeInv(n)' /\ QuestionInv(n)'
    BY <2>1, <2>2, <2>3, JokeFrame, QuestionFrame DEF MessageInv
  <2> QED BY <2>4, <2>5, <2>6 DEF MessageInv
<1> QED BY <1>1, <1>2

\* A try to send one of a question's replies, and where it leads.
LEMMA ReplyStep ==
  ASSUME MessageInv, NEW m \in Messages, UNCHANGED updates,
         NEW reply \in {"answer", "sorry"}, NEW done \in BOOLEAN, NEW err \in BOOLEAN,
         NEW from \in {"sorry", "html", "plain"}, NEW to \in {"plain", "returned"},
         Message!Sent(done, err), Message!Show(m, reply, done),
         Message!Goto(m, "questions", from, to)
            \/ (Message!Return(m, "questions", from) /\ to = "returned"),
         Message!Failed(m, done, err, from # "html"),
         reply = "sorry" <=> from = "sorry",
         from # "html" => to = "returned",
         from = "html" => (to = "plain" <=> err)
  PROVE  MessageInv'
<1> USE DEF Message!Handlers, Message!Replies, Message!Counts, Places
<1>0. MessageTypes
  BY DEF MessageInv
<1>1. /\ at[m]["questions"] = from /\ at'[m]["questions"] = to
      /\ at' \in [Messages -> [Message!Handlers -> Places]]
      /\ \A n \in Messages, g \in Message!Handlers : n # m \/ g # "questions" => at'[n][g] = at[n][g]
  BY <1>0, Moves
<1>2. /\ chat' \in [Messages -> [Message!Replies -> Nat]]
      /\ chat'[m][reply] = chat[m][reply] + (IF done THEN 1 ELSE 0)
      /\ \A n \in Messages, r \in Message!Replies : n # m \/ r # reply => chat'[n][r] = chat[n][r]
  BY <1>0, Shows
<1>3. /\ UNCHANGED <<counted, message>>
      /\ lost' = IF err /\ ~done /\ from # "html" THEN lost \union {m} ELSE lost
      /\ repeated' = IF err /\ done /\ from = "html" THEN repeated \union {m} ELSE repeated
      /\ done \/ err
  BY DEF Message!Failed, Message!Sent
<1>4. MessageTypes' /\ Untouched'
  BY <1>0, <1>1, <1>2, <1>3, StillUntouched DEF MessageTypes
<1>5. ASSUME NEW n \in Messages PROVE JokeInv(n)' /\ ReactionInv(n)'
  BY <1>1, <1>2, <1>3, JokeFrame, ReactionFrame DEF MessageInv
<1>6. ASSUME NEW n \in Messages, n # m PROVE QuestionInv(n)'
  BY <1>1, <1>2, <1>3, <1>6, QuestionFrame DEF MessageInv
<1>7. QuestionInv(m)'
  <2>1. QuestionInv(m) /\ chat[m]["answer"] \in Nat /\ chat[m]["sorry"] \in Nat
    BY <1>0 DEF MessageInv, MessageTypes
  <2>2. Message!extractQuestion(message[m])' <=> Message!extractQuestion(message[m])
    BY <1>3 DEF Message!extractQuestion
  <2>3. Message!extractQuestion(message[m])
    BY <1>1, <2>1 DEF QuestionInv
  <2>4. CASE from = "sorry"
    BY <1>1, <1>2, <1>3, <2>1, <2>2, <2>3, <2>4 DEF QuestionInv
  <2>5. CASE from = "html"
    BY <1>1, <1>2, <1>3, <2>1, <2>2, <2>3, <2>5 DEF QuestionInv
  <2>6. CASE from = "plain"
    <3>1. /\ chat[m]["sorry"] = 0 /\ counted[m]["question"] = 1 /\ chat[m]["answer"] <= 1
          /\ chat[m]["answer"] = 1 => m \in repeated
      BY <1>1, <2>1, <2>6 DEF QuestionInv
    <3>2. /\ at'[m]["questions"] = "returned" /\ reply = "answer"
          /\ counted' = counted /\ repeated' = repeated
          /\ chat'[m]["sorry"] = 0
          /\ chat'[m]["answer"] = chat[m]["answer"] + (IF done THEN 1 ELSE 0)
      BY <1>1, <1>2, <1>3, <2>6, <3>1
    <3>3. done \/ m \in lost'
      BY <1>3, <2>6
    <3> QED BY <2>1, <2>2, <2>3, <3>1, <3>2, <3>3 DEF QuestionInv
  <2> QED BY <2>4, <2>5, <2>6
<1> QED BY <1>4, <1>5, <1>6, <1>7 DEF MessageInv

LEMMA QuestionStep ==
  ASSUME MessageInv, NEW m \in Messages, UNCHANGED updates,
         \/ Message!Question(m) \/ Message!Sorry(m) \/ Message!QuestionRecord(m)
         \/ Message!AnswerHTML(m) \/ Message!AnswerPlain(m)
  PROVE  MessageInv'
<1> USE DEF Message!Handlers, Message!Replies, Message!Counts, Places
<1>0. MessageTypes
  BY DEF MessageInv
<1>1. CASE Message!Question(m)
  <2>1. UNCHANGED <<chat, counted, message, lost, repeated>>
    BY <1>1 DEF Message!Question, Message!Silent, Message!Quiet, Message!historyVars
  <2>2. PICK to \in {"record", "sorry", "returned"} :
           /\ Message!Goto(m, "questions", "start", to)
              \/ (Message!Return(m, "questions", "start") /\ to = "returned")
           /\ to = "returned" <=> ~Message!extractQuestion(message[m])
    BY <1>1 DEF Message!Question
  <2>3. /\ at[m]["questions"] = "start" /\ at'[m]["questions"] = to
        /\ at' \in [Messages -> [Message!Handlers -> Places]]
        /\ \A n \in Messages, g \in Message!Handlers : n # m \/ g # "questions" => at'[n][g] = at[n][g]
    BY <1>0, <2>2, Moves
  <2>4. MessageTypes' /\ Untouched'
    BY <1>0, <2>1, <2>3, StillUntouched DEF MessageTypes
  <2>5. ASSUME NEW n \in Messages PROVE JokeInv(n)' /\ ReactionInv(n)'
    BY <2>1, <2>3, JokeFrame, ReactionFrame DEF MessageInv
  <2>6. ASSUME NEW n \in Messages, n # m PROVE QuestionInv(n)'
    BY <2>1, <2>3, <2>6, QuestionFrame DEF MessageInv
  <2>7. QuestionInv(m)'
    <3>1. Message!extractQuestion(message[m])' <=> Message!extractQuestion(message[m])
      BY <2>1 DEF Message!extractQuestion
    <3> QED BY <2>1, <2>2, <2>3, <3>1 DEF MessageInv, QuestionInv
  <2> QED BY <2>4, <2>5, <2>6, <2>7 DEF MessageInv
<1>2. CASE Message!QuestionRecord(m)
  <2>1. /\ UNCHANGED <<chat>> /\ Message!Record(m, "question")
        /\ Message!Goto(m, "questions", "record", "html")
    BY <1>2 DEF Message!QuestionRecord, Message!Silent
  <2>2. /\ at[m]["questions"] = "record" /\ at'[m]["questions"] = "html"
        /\ at' \in [Messages -> [Message!Handlers -> Places]]
        /\ \A n \in Messages, g \in Message!Handlers : n # m \/ g # "questions" => at'[n][g] = at[n][g]
    BY <1>0, <2>1, Moves
  <2>3. /\ counted' \in [Messages -> [Message!Counts -> Nat]]
        /\ counted'[m]["question"] = counted[m]["question"] + 1
        /\ \A n \in Messages, c \in Message!Counts : n # m \/ c # "question" => counted'[n][c] = counted[n][c]
        /\ UNCHANGED <<message, lost, repeated>>
    BY <1>0, <2>1, Counts
  <2>4. MessageTypes' /\ Untouched'
    BY <1>0, <2>1, <2>2, <2>3, StillUntouched DEF MessageTypes
  <2>5. ASSUME NEW n \in Messages PROVE JokeInv(n)' /\ ReactionInv(n)'
    BY <2>1, <2>2, <2>3, JokeFrame, ReactionFrame DEF MessageInv
  <2>6. ASSUME NEW n \in Messages, n # m PROVE QuestionInv(n)'
    BY <2>1, <2>2, <2>3, <2>6, QuestionFrame DEF MessageInv
  <2>7. QuestionInv(m)'
    <3>1. Message!extractQuestion(message[m])' <=> Message!extractQuestion(message[m])
      BY <2>3 DEF Message!extractQuestion
    <3> QED BY <2>1, <2>2, <2>3, <3>1 DEF MessageInv, QuestionInv
  <2> QED BY <2>4, <2>5, <2>6, <2>7 DEF MessageInv
<1>3. CASE Message!Sorry(m)
  <2>1. PICK done \in BOOLEAN, err \in BOOLEAN :
           /\ Message!Sent(done, err) /\ Message!Show(m, "sorry", done)
           /\ Message!Failed(m, done, err, TRUE) /\ Message!Return(m, "questions", "sorry")
    BY <1>3 DEF Message!Sorry
  <2> QED BY <2>1, ReplyStep
<1>4. CASE Message!AnswerHTML(m)
  <2>1. PICK done \in BOOLEAN, err \in BOOLEAN, to \in {"plain", "returned"} :
           /\ Message!Sent(done, err) /\ Message!Show(m, "answer", done)
           /\ Message!Failed(m, done, err, FALSE)
           /\ Message!Goto(m, "questions", "html", to)
              \/ (Message!Return(m, "questions", "html") /\ to = "returned")
           /\ to = "plain" <=> err
    BY <1>4 DEF Message!AnswerHTML
  <2> QED BY <2>1, ReplyStep
<1>5. CASE Message!AnswerPlain(m)
  <2>1. PICK done \in BOOLEAN, err \in BOOLEAN :
           /\ Message!Sent(done, err) /\ Message!Show(m, "answer", done)
           /\ Message!Failed(m, done, err, TRUE) /\ Message!Return(m, "questions", "plain")
    BY <1>5 DEF Message!AnswerPlain
  <2> QED BY <2>1, ReplyStep
<1> QED BY <1>1, <1>2, <1>3, <1>4, <1>5

\* The handlers that neither count nor answer.
LEMMA OtherStep ==
  ASSUME MessageInv, NEW m \in Messages, UNCHANGED updates,
         \/ Message!Help(m)
         \/ Message!Stats(m) \/ Message!StatsHTML(m) \/ Message!StatsPlain(m)
  PROVE  MessageInv'
<1> USE DEF Message!Handlers, Message!Replies, Message!Counts, Places
<1>0. MessageTypes
  BY DEF MessageInv
<1>1. UNCHANGED <<counted, message, lost, repeated>>
  BY DEF Message!Help, Message!Quiet, Message!Stats, Message!StatsHTML, Message!StatsPlain,
         Message!historyVars
<1>2. PICK h \in {"help", "stats"}, from \in {"start", "html", "plain"},
           to \in {"html", "plain", "returned"}, done \in BOOLEAN :
         /\ Message!Show(m, "help", done)
         /\ Message!Goto(m, h, from, to) \/ (Message!Return(m, h, from) /\ to = "returned")
  <2>1. Message!Silent => Message!Show(m, "help", FALSE)
    BY DEF Message!Silent, Message!Show
  <2>2. CASE Message!Help(m)
    BY <2>1, <2>2 DEF Message!Help
  <2>3. CASE Message!Stats(m)
    BY <2>1, <2>3 DEF Message!Stats
  <2>4. CASE Message!StatsHTML(m)
    BY <2>1, <2>4 DEF Message!StatsHTML
  <2>5. CASE Message!StatsPlain(m)
    BY <2>1, <2>5 DEF Message!StatsPlain
  <2> QED BY <2>2, <2>3, <2>4, <2>5
<1>3. /\ at[m][h] = from /\ at'[m][h] = to
      /\ at' \in [Messages -> [Message!Handlers -> Places]]
      /\ \A n \in Messages, g \in Message!Handlers : n # m \/ g # h => at'[n][g] = at[n][g]
  BY <1>0, <1>2, Moves
<1>4. /\ chat' \in [Messages -> [Message!Replies -> Nat]]
      /\ \A n \in Messages, r \in Message!Replies : n # m \/ r # "help" => chat'[n][r] = chat[n][r]
  BY <1>0, <1>2, Shows
<1>5. MessageTypes' /\ Untouched'
  BY <1>0, <1>1, <1>3, <1>4, StillUntouched DEF MessageTypes
<1>6. ASSUME NEW n \in Messages PROVE JokeInv(n)' /\ ReactionInv(n)' /\ QuestionInv(n)'
  BY <1>1, <1>3, <1>4, JokeFrame, ReactionFrame, QuestionFrame DEF MessageInv
<1> QED BY <1>5, <1>6 DEF MessageInv

LEMMA StartStep ==
  ASSUME MessageInv, NEW m \in Messages, DispatchMessage(m)
  PROVE  MessageInv'
<1> USE DEF Message!Handlers, Places
<1>0. MessageTypes
  BY DEF MessageInv
<1>1. /\ IsAt(m, "queued") /\ updates' = [updates EXCEPT ![m] = "running"]
      /\ at' = [at EXCEPT ![m] = [h \in Message!Handlers |-> IF h \in on THEN "start" ELSE "none"]]
      /\ UNCHANGED <<chat, counted, message, lost, repeated>>
  BY DEF DispatchMessage, Move, Message!StartHandlers, Message!historyVars
<1>2. /\ at' \in [Messages -> [Message!Handlers -> Places]]
      /\ \A h \in Message!Handlers : at[m][h] = "none" /\ at'[m][h] \in {"none", "start"}
      /\ \A n \in Messages, h \in Message!Handlers : n # m => at'[n][h] = at[n][h]
  BY <1>0, <1>1 DEF MessageTypes, MessageInv, Untouched
<1>3. MessageTypes'
  BY <1>0, <1>1, <1>2 DEF MessageTypes
<1>4. Untouched'
  BY <1>1, <1>2 DEF MessageInv, Untouched, IsAt
<1>5. ASSUME NEW n \in Messages, n # m PROVE JokeInv(n)' /\ ReactionInv(n)' /\ QuestionInv(n)'
  BY <1>1, <1>2, <1>5, JokeFrame, ReactionFrame, QuestionFrame DEF MessageInv
<1>6. JokeInv(m)' /\ ReactionInv(m)'
  BY <1>1, <1>2 DEF MessageInv, JokeInv, ReactionInv
<1>7. QuestionInv(m)'
  <2>1. Message!extractQuestion(message[m])' <=> Message!extractQuestion(message[m])
    BY <1>1 DEF Message!extractQuestion
  <2> QED BY <1>1, <1>2, <2>1 DEF MessageInv, QuestionInv
<1> QED BY <1>3, <1>4, <1>5, <1>6, <1>7 DEF MessageInv

\* Taps, inline queries, the signal and returning calls leave messages alone.
LEMMA MessagesKept ==
  ASSUME MessageInv, UNCHANGED messageOwn,
         \A m \in Messages : IsAt(m, "queued")' => IsAt(m, "queued")
  PROVE  MessageInv'
<1>1. UNCHANGED <<message, at, chat, counted, lost, repeated>>
  BY DEF messageOwn
<1>2. MessageTypes' /\ Untouched'
  BY <1>1 DEF MessageInv, MessageTypes, Untouched
<1>3. ASSUME NEW m \in Messages PROVE JokeInv(m)' /\ ReactionInv(m)' /\ QuestionInv(m)'
  BY <1>1, JokeFrame, ReactionFrame, QuestionFrame DEF MessageInv
<1> QED BY <1>2, <1>3 DEF MessageInv

\* What a step that moves an update to another place than the queue leaves queued.
LEMMA StaysQueued ==
  ASSUME NEW u, NEW place, place # "queued", Move(u, place), NEW m \in Messages, IsAt(m, "queued")'
  PROVE  IsAt(m, "queued")
BY DEF Move, IsAt

LEMMA MessageInit == Init => MessageInv
<1> SUFFICES ASSUME Init PROVE MessageInv
  OBVIOUS
<1>1. /\ at = [m \in Messages |-> [h \in Message!Handlers |-> "none"]]
      /\ chat = [m \in Messages |-> [r \in Message!Replies |-> 0]]
      /\ counted = [m \in Messages |-> [c \in Message!Counts |-> 0]]
  BY DEF Init, Message!Init
<1>2. MessageTypes /\ Untouched
  BY <1>1 DEF MessageTypes, Untouched, Places
<1>3. ASSUME NEW m \in Messages PROVE JokeInv(m) /\ ReactionInv(m) /\ QuestionInv(m)
  <2>1. /\ at[m]["anek"] = "none" /\ at[m]["swearing"] = "none" /\ at[m]["questions"] = "none"
        /\ chat[m]["joke"] = 0 /\ chat[m]["reaction"] = 0
        /\ chat[m]["answer"] = 0 /\ chat[m]["sorry"] = 0
        /\ counted[m]["joke"] = 0 /\ counted[m]["reaction"] = 0 /\ counted[m]["question"] = 0
    BY <1>1 DEF Message!Handlers, Message!Replies, Message!Counts
  <2> QED BY <2>1 DEF JokeInv, ReactionInv, QuestionInv
<1> QED BY <1>2, <1>3 DEF MessageInv

LEMMA MessageStep == MessageInv /\ [Next]_vars => MessageInv'
<1> SUFFICES ASSUME MessageInv, [Next]_vars PROVE MessageInv'
  OBVIOUS
<1>1. ASSUME NEW m \in Messages, DispatchMessage(m) PROVE MessageInv'
  BY <1>1, StartStep
<1>2. ASSUME NEW m \in Messages, Step(m) PROVE MessageInv'
  <2>1. Message!HandlerStep(m) /\ UNCHANGED updates
    BY <1>2 DEF Step
  <2> QED BY <2>1, AnekStep, SwearingStep, QuestionStep, OtherStep DEF Message!HandlerStep
<1>3. ASSUME NEW m \in Messages, MessageReturns(m) PROVE MessageInv'
  BY <1>3, StaysQueued, MessagesKept DEF MessageReturns
<1>4. CASE DispatchQuery
  <2>1. UNCHANGED messageOwn /\ (Move(Query, "running") \/ Move(Query, "returned"))
    BY <1>4 DEF DispatchQuery
  <2> QED BY <2>1, StaysQueued, MessagesKept
<1>5. CASE QueryReturns
  BY <1>5, StaysQueued, MessagesKept DEF QueryReturns
<1>6. ASSUME NEW t \in Taps, DispatchTap(t) PROVE MessageInv'
  BY <1>6, StaysQueued, MessagesKept DEF DispatchTap
<1>7. ASSUME NEW t \in Taps, TapReturns(t) PROVE MessageInv'
  BY <1>7, StaysQueued, MessagesKept DEF TapReturns
<1>8. CASE StepQuery \/ Stop \/ UNCHANGED vars \/ \E t \in Taps : StepTap(t)
  <2>1. UNCHANGED <<messageOwn, updates>>
    BY <1>8 DEF StepQuery, Stop, vars, StepTap
  <2> QED BY <2>1, MessagesKept DEF IsAt
<1> QED BY <1>1, <1>2, <1>3, <1>4, <1>5, <1>6, <1>7, <1>8 DEF Next, Progress

LEMMA MessageInvariance == Spec => []MessageInv
<1> QED BY MessageInit, MessageStep, PTL DEF Spec

\* A joke or a reaction is counted only if the chat shows it, and an answer that
\* the chat shows is counted once, for any number of messages at once.
THEOREM NothingCountedUnshown == Spec => []CountedIsShown
<1>1. MessageInv => CountedIsShown
  <2> SUFFICES ASSUME MessageInv, NEW m \in Messages
               PROVE  /\ counted[m]["joke"] <= chat[m]["joke"]
                      /\ counted[m]["reaction"] <= chat[m]["reaction"]
                      /\ chat[m]["answer"] > 0 => counted[m]["question"] = 1
    BY DEF CountedIsShown, Message!CountedIsShown
  <2>1. /\ counted[m]["joke"] \in Nat /\ chat[m]["joke"] \in Nat
        /\ counted[m]["reaction"] \in Nat /\ chat[m]["reaction"] \in Nat
        /\ chat[m]["answer"] \in Nat
    BY DEF MessageInv, MessageTypes, Message!Counts, Message!Replies
  <2> QED BY <2>1 DEF MessageInv, JokeInv, ReactionInv, QuestionInv
<1> QED BY <1>1, MessageInvariance, PTL

\* Every question gets a reply unless the last try to send one failed, and two
\* only if Telegram reported an error for one it had posted.
THEOREM EveryQuestionHeard == Spec => []QuestionHeard
<1>1. MessageInv => QuestionHeard
  <2> SUFFICES ASSUME MessageInv, NEW m \in Messages
               PROVE  LET replies == chat[m]["answer"] + chat[m]["sorry"]
                      IN  IF Message!extractQuestion(message[m])
                          THEN /\ at[m]["questions"] = "returned" => replies > 0 \/ m \in lost
                               /\ replies > 1 => m \in repeated
                          ELSE replies = 0
    BY DEF QuestionHeard, Message!QuestionHeard
  <2>1. chat[m]["answer"] \in Nat /\ chat[m]["sorry"] \in Nat
    BY DEF MessageInv, MessageTypes, Message!Replies
  <2> QED BY <2>1 DEF MessageInv, QuestionInv
<1> QED BY <1>1, MessageInvariance, PTL

-----------------------------------------------------------------------------
Formats == {"html", "plain"}
Panels == Messages \X Formats
TapPlaces == {"none", "callback", "snapshot", "html", "plain", "returned"}
TapType == [pc : TapPlaces, data : Tap!Data, admin : BOOLEAN, panel : Panels \union {<<>>},
            saw : Nat, since : Nat, alone : BOOLEAN, failed : BOOLEAN]

TapTypes ==
    /\ recordings \in Nat
    /\ snapshot \in [Messages -> Nat]
    /\ DOMAIN panels \subseteq Panels
    /\ panels \in [DOMAIN panels -> [content : Nat, format : Formats]]
    /\ tap \in [Taps -> TapType]

\* The stats handler posts each of its two messages at most once.
Posted ==
    \A m \in Messages :
       /\ <<m, "html">> \in DOMAIN panels => at[m]["stats"] \in {"plain", "returned"}
       /\ <<m, "plain">> \in DOMAIN panels => at[m]["stats"] = "returned"

\* A tap that is being handled is a refresh of a panel that is there, and
\* what it read is no older than the tap.
Refreshing(t) ==
    /\ tap[t].pc \in {"snapshot", "html", "plain"} => Tap!StatsRefreshes(t)
    /\ tap[t].pc # "none" /\ Tap!StatsRefreshes(t) => tap[t].panel \in DOMAIN panels
    /\ tap[t].pc # "none" => tap[t].since <= recordings
    /\ tap[t].pc \in {"html", "plain"} => tap[t].saw >= tap[t].since
    /\ tap[t].pc = "plain" => tap[t].panel \in htmlFailed

\* Whoever is alone is the only one under way, and a tap that is under way
\* later was made later.
Ordered(t) ==
    \A u \in Taps \ {t} :
       tap[t].alone /\ Tap!Open(u) =>
          /\ ~Tap!Open(t)
          /\ tap[t].pc = "returned" => tap[u].since >= tap[t].since

Fresh(t) ==
    Tap!At(t, "returned") /\ Tap!StatsRefreshes(t) /\ tap[t].alone /\ ~tap[t].failed
       => panels[tap[t].panel].content >= tap[t].since

TapInv ==
    /\ TapTypes
    /\ Posted
    /\ FormattingKept
    /\ \A t \in Taps : Refreshing(t) /\ Ordered(t) /\ Fresh(t)

LEMMA TapInit == Init => TapInv
<1> SUFFICES ASSUME Init PROVE TapInv
  OBVIOUS
<1>1. /\ panels = [p \in {} |-> 0] /\ recordings = 0 /\ snapshot = [m \in Messages |-> 0]
      /\ tap \in [Taps -> [pc : {"none"}, data : Tap!Data, admin : BOOLEAN, panel : {<<>>},
                           saw : {0}, since : {0}, alone : {TRUE}, failed : {FALSE}]]
  BY DEF Init, Message!Init, Tap!Init
<1>2. DOMAIN panels = {}
  BY <1>1
<1>3. TapTypes
  <2>1. panels \in [{} -> [content : Nat, format : Formats]]
    BY <1>1
  <2> DEFINE Start(T, F) == [pc : {"none"}, data : Tap!Data, admin : BOOLEAN, panel : {<<>>},
                             saw : {0}, since : {0}, alone : T, failed : F]
  <2>2. ASSUME NEW T \in SUBSET BOOLEAN, NEW F \in SUBSET BOOLEAN, NEW r \in Start(T, F)
        PROVE  r \in TapType
    BY DEF TapType, TapPlaces
  <2>3. {TRUE} \in SUBSET BOOLEAN /\ {FALSE} \in SUBSET BOOLEAN
    OBVIOUS
  <2>4. tap \in [Taps -> Start({TRUE}, {FALSE})]
    BY <1>1
  <2> HIDE DEF Start
  <2>5. tap \in [Taps -> TapType]
    BY <2>2, <2>3, <2>4
  <2> QED BY <1>1, <1>2, <2>1, <2>5 DEF TapTypes
<1>4. Posted /\ FormattingKept
  BY <1>2 DEF Posted, FormattingKept, Tap!FormattingKept
<1>5. ASSUME NEW t \in Taps PROVE tap[t].pc = "none"
  BY <1>1
<1>6. ASSUME NEW t \in Taps PROVE Refreshing(t) /\ Ordered(t) /\ Fresh(t)
  BY <1>5 DEF Refreshing, Ordered, Fresh, Tap!At, Tap!Open
<1> QED BY <1>3, <1>4, <1>6 DEF TapInv

\* Steps that leave the panels that are there as they are, and taps alone.
LEMMA TapsKept ==
  ASSUME TapInv, TapTypes', Posted', FormattingKept', UNCHANGED <<on, tap, htmlFailed>>,
         recordings' >= recordings,
         DOMAIN panels \subseteq DOMAIN panels',
         \A p \in DOMAIN panels : panels'[p] = panels[p]
  PROVE  TapInv'
<1>1. ASSUME NEW t \in Taps PROVE Refreshing(t)' /\ Ordered(t)' /\ Fresh(t)'
  <2>1. Refreshing(t) /\ Ordered(t) /\ Fresh(t)
    BY DEF TapInv
  <2>2. tap[t].since \in Nat /\ recordings \in Nat /\ recordings' \in Nat
    BY DEF TapInv, TapTypes, TapType
  <2>3. Tap!StatsRefreshes(t)' <=> Tap!StatsRefreshes(t)
    BY DEF Tap!StatsRefreshes
  <2>4. Refreshing(t)'
    BY <2>1, <2>2, <2>3 DEF Refreshing
  <2>5. Ordered(t)'
    BY <2>1 DEF Ordered, Tap!Open
  <2>6. Fresh(t)'
    BY <2>1, <2>3 DEF Fresh, Refreshing, Tap!At
  <2> QED BY <2>4, <2>5, <2>6
<1> QED BY <1>1 DEF TapInv

\* Steps that change nothing that taps or panels depend on.
LEMMA TapsUntouched ==
  ASSUME TapInv, UNCHANGED <<on, tap, htmlFailed, recordings, snapshot, panels, at>>
  PROVE  TapInv'
<1>1. TapTypes' /\ Posted' /\ FormattingKept'
  BY DEF TapInv, TapTypes, Posted, FormattingKept, Tap!FormattingKept
<1>2. recordings \in Nat
  BY DEF TapInv, TapTypes
<1> QED BY <1>1, <1>2, TapsKept

\* A message is dispatched: it has posted nothing yet.
LEMMA TapsStart ==
  ASSUME MessageInv, TapInv, NEW m \in Messages, DispatchMessage(m)
  PROVE  TapInv'
<1>1. /\ UNCHANGED <<on, tap, htmlFailed, recordings, snapshot, panels>>
      /\ IsAt(m, "queued")
      /\ at' = [at EXCEPT ![m] = [h \in Message!Handlers |-> IF h \in on THEN "start" ELSE "none"]]
  BY DEF DispatchMessage, tapOwn, Message!StartHandlers
<1>2. at[m]["stats"] = "none"
  BY <1>1 DEF MessageInv, Untouched, Message!Handlers
<1>3. \A n \in Messages : n # m => at'[n]["stats"] = at[n]["stats"]
  BY <1>1 DEF MessageInv, MessageTypes
<1>4. TapTypes' /\ FormattingKept'
  BY <1>1 DEF TapInv, TapTypes, FormattingKept, Tap!FormattingKept
<1>5. Posted'
  BY <1>1, <1>2, <1>3 DEF TapInv, Posted
<1>6. recordings \in Nat
  BY DEF TapInv, TapTypes
<1> QED BY <1>1, <1>4, <1>5, <1>6, TapsKept

\* The handlers that post no panel.
LEMMA TapsOtherHandlers ==
  ASSUME MessageInv, TapInv, NEW m \in Messages, UNCHANGED <<tap, htmlFailed>>,
         \/ Message!Anek(m) \/ Message!AnekSend(m) \/ Message!AnekRecord(m)
         \/ Message!Swearing(m) \/ Message!SwearingRecord(m) \/ Message!Help(m)
         \/ Message!Question(m) \/ Message!Sorry(m) \/ Message!QuestionRecord(m)
         \/ Message!AnswerHTML(m) \/ Message!AnswerPlain(m)
  PROVE  TapInv'
<1> USE DEF Message!Quiet, Message!Record, Message!Failed
<1>1. /\ UNCHANGED <<on, panels, snapshot>>
      /\ recordings' = recordings \/ recordings' = recordings + 1
      /\ \E h \in Message!Handlers \ {"stats"}, to \in Places : at' = [at EXCEPT ![m][h] = to]
  <2> USE DEF Message!Goto, Message!Return, Message!Handlers, Places
  <2>1. CASE Message!Anek(m) \/ Message!AnekSend(m) \/ Message!AnekRecord(m)
    BY <2>1 DEF Message!Anek, Message!AnekSend, Message!AnekRecord
  <2>2. CASE Message!Swearing(m) \/ Message!SwearingRecord(m) \/ Message!Help(m)
    BY <2>2 DEF Message!Swearing, Message!SwearingRecord, Message!Help
  <2>3. CASE Message!Question(m) \/ Message!Sorry(m) \/ Message!QuestionRecord(m)
    BY <2>3 DEF Message!Question, Message!Sorry, Message!QuestionRecord
  <2>4. CASE Message!AnswerHTML(m) \/ Message!AnswerPlain(m)
    BY <2>4 DEF Message!AnswerHTML, Message!AnswerPlain
  <2> QED BY <2>1, <2>2, <2>3, <2>4
<1>2. \A n \in Messages : at'[n]["stats"] = at[n]["stats"]
  BY <1>1 DEF MessageInv, MessageTypes, Message!Handlers
<1>3. recordings \in Nat
  BY DEF TapInv, TapTypes
<1>4. TapTypes'
  BY <1>1, <1>3 DEF TapInv, TapTypes
<1>5. Posted' /\ FormattingKept'
  BY <1>1, <1>2 DEF TapInv, Posted, FormattingKept, Tap!FormattingKept
<1> QED BY <1>1, <1>3, <1>4, <1>5, TapsKept

\* The /stats handler reads the numbers, and posts a panel that was not there.
LEMMA TapsStatsHandler ==
  ASSUME MessageInv, TapInv, NEW m \in Messages, UNCHANGED <<tap, htmlFailed>>,
         Message!Stats(m) \/ Message!StatsHTML(m) \/ Message!StatsPlain(m)
  PROVE  TapInv'
<1>1. recordings \in Nat /\ snapshot[m] \in Nat
  BY DEF TapInv, TapTypes
<1>2. CASE Message!Stats(m)
  <2>1. /\ UNCHANGED <<on, recordings, panels>>
        /\ UNCHANGED snapshot \/ snapshot' = [snapshot EXCEPT ![m] = recordings]
        /\ at[m]["stats"] = "start"
        /\ \E to \in Places : at' = [at EXCEPT ![m]["stats"] = to]
    BY <1>2 DEF Message!Stats, Message!Goto, Message!Return, Places
  <2>2. TapTypes' /\ FormattingKept'
    BY <1>1, <2>1 DEF TapInv, TapTypes, FormattingKept, Tap!FormattingKept
  <2>3. \A n \in Messages : n # m => at'[n]["stats"] = at[n]["stats"]
    BY <2>1 DEF MessageInv, MessageTypes
  <2>4. Posted'
    BY <2>1, <2>3 DEF TapInv, Posted
  <2> QED BY <1>1, <2>1, <2>2, <2>4, TapsKept
<1>3. ASSUME NEW format \in Formats, NEW done \in BOOLEAN, NEW to \in {"plain", "returned"},
             UNCHANGED <<on, recordings, snapshot>>,
             Message!Post(m, format, done),
             at[m]["stats"] = format, at' = [at EXCEPT ![m]["stats"] = to],
             format = "plain" => to = "returned"
      PROVE  TapInv'
  <2>1. <<m, format>> \notin DOMAIN panels /\ <<m, "plain">> \notin DOMAIN panels
    BY <1>3 DEF TapInv, Posted, Formats
  <2>2. /\ DOMAIN panels' = IF done THEN DOMAIN panels \union {<<m, format>>} ELSE DOMAIN panels
        /\ \A p \in DOMAIN panels : panels'[p] = panels[p]
        /\ done => panels'[<<m, format>>] = [content |-> snapshot[m], format |-> format]
    BY <1>3, <2>1 DEF Message!Post
  <2>3. panels' \in [DOMAIN panels' -> [content : Nat, format : Formats]]
    BY <1>1, <1>3, <2>2 DEF Message!Post, TapInv, TapTypes
  <2>4. DOMAIN panels' \subseteq Panels
    BY <2>2 DEF Panels, TapInv, TapTypes
  <2>5. TapTypes'
    BY <1>3, <2>3, <2>4 DEF TapInv, TapTypes
  <2>6. FormattingKept'
    BY <1>3, <2>2 DEF TapInv, FormattingKept, Tap!FormattingKept
  <2>7. /\ at'[m]["stats"] = to
        /\ \A n \in Messages : n # m => at'[n]["stats"] = at[n]["stats"]
    BY <1>3 DEF MessageInv, MessageTypes, Message!Handlers
  <2>8. Posted'
    <3> SUFFICES ASSUME NEW n \in Messages
                 PROVE  /\ <<n, "html">> \in DOMAIN panels' => at'[n]["stats"] \in {"plain", "returned"}
                        /\ <<n, "plain">> \in DOMAIN panels' => at'[n]["stats"] = "returned"
      BY DEF Posted
    <3>1. CASE n = m
      BY <1>3, <2>1, <2>2, <2>7, <3>1 DEF Formats
    <3>2. CASE n # m
      <4>1. \A f \in Formats : <<n, f>> \in DOMAIN panels' => <<n, f>> \in DOMAIN panels
        BY <2>2, <3>2
      <4> QED BY <2>7, <3>2, <4>1 DEF TapInv, Posted, Formats
    <3> QED BY <3>1, <3>2
  <2> QED BY <1>1, <1>3, <2>2, <2>5, <2>6, <2>8, TapsKept
<1>4. CASE Message!StatsHTML(m) \/ Message!StatsPlain(m)
  <2>1. PICK format \in Formats, done \in BOOLEAN, to \in {"plain", "returned"} :
           /\ UNCHANGED <<on, recordings, snapshot>>
           /\ Message!Post(m, format, done)
           /\ at[m]["stats"] = format /\ at' = [at EXCEPT ![m]["stats"] = to]
           /\ format = "plain" => to = "returned"
    BY <1>4 DEF Message!StatsHTML, Message!StatsPlain, Message!Goto, Message!Return, Formats
  <2> QED BY <1>3, <2>1
<1> QED BY <1>2, <1>4

\* A button is tapped.
LEMMA TapsPress ==
  ASSUME TapInv, NEW t \in Taps, DispatchTap(t)
  PROVE  TapInv'
<1> DEFINE others == \A v \in Taps : ~Tap!Open(v)
<1>1. PICK p \in DOMAIN panels \union {<<>>} :
         Tap!Press(t, p) /\ (tap[t].data = "refresh" => p \in DOMAIN panels)
  BY DEF DispatchTap
<1>2. /\ UNCHANGED <<on, recordings, panels, htmlFailed, snapshot, at>>
      /\ tap[t].pc = "none"
      /\ tap' = [u \in Taps |->
                  IF u = t
                  THEN [tap[t] EXCEPT !.pc = "callback", !.panel = p, !.since = recordings,
                                      !.alone = others]
                  ELSE IF Tap!Open(u) THEN [tap[u] EXCEPT !.alone = FALSE]
                  ELSE tap[u]]
  BY <1>1 DEF Tap!Press, DispatchTap, messageOwn
<1>3. others \in BOOLEAN /\ p \in Panels \union {<<>>} /\ recordings \in Nat
  BY DEF TapInv, TapTypes
<1> HIDE DEF others
<1>4. TapTypes'
  <2>1. ASSUME NEW r \in TapType
        PROVE  /\ [r EXCEPT !.alone = FALSE] \in TapType
               /\ [r EXCEPT !.pc = "callback", !.panel = p, !.since = recordings,
                            !.alone = others] \in TapType
    BY <1>3, <2>1 DEF TapType, TapPlaces
  <2>2. tap' \in [Taps -> TapType]
    BY <1>2, <2>1 DEF TapInv, TapTypes
  <2> QED BY <1>2, <2>2 DEF TapInv, TapTypes
<1>5. /\ tap'[t].pc = "callback" /\ tap'[t].panel = p /\ tap'[t].since = recordings
      /\ tap'[t].alone = others
      /\ tap'[t].data = tap[t].data /\ tap'[t].admin = tap[t].admin
  BY <1>2, <1>3 DEF TapInv, TapTypes, TapType
<1>6. ASSUME NEW u \in Taps, u # t
      PROVE  /\ tap'[u].pc = tap[u].pc /\ tap'[u].panel = tap[u].panel
             /\ tap'[u].since = tap[u].since /\ tap'[u].saw = tap[u].saw
             /\ tap'[u].failed = tap[u].failed
             /\ tap'[u].data = tap[u].data /\ tap'[u].admin = tap[u].admin
             /\ tap'[u].alone => tap[u].alone /\ ~Tap!Open(u)
  BY <1>2, <1>6 DEF TapInv, TapTypes, TapType
<1>7. Posted' /\ FormattingKept'
  BY <1>2 DEF TapInv, Posted, FormattingKept, Tap!FormattingKept
<1>8. ASSUME NEW u \in Taps PROVE Refreshing(u)'
  <2>1. CASE u = t
    BY <1>1, <1>2, <1>3, <1>5, <2>1 DEF Refreshing, Tap!StatsRefreshes
  <2>2. CASE u # t
    BY <1>2, <1>6, <2>2 DEF TapInv, Refreshing, Tap!StatsRefreshes
  <2> QED BY <2>1, <2>2
<1>9. ASSUME NEW u \in Taps PROVE Ordered(u)'
  <2> SUFFICES ASSUME NEW v \in Taps, v # u, tap'[u].alone, Tap!Open(v)'
               PROVE  /\ ~Tap!Open(u)'
                      /\ tap'[u].pc = "returned" => tap'[v].since >= tap'[u].since
    BY DEF Ordered
  <2>1. CASE u = t
    BY <1>5, <1>6, <2>1 DEF others, Tap!Open
  <2>2. CASE u # t /\ v = t
    <3>1. tap[u].pc = "returned" => recordings >= tap[u].since
      BY DEF TapInv, Refreshing
    <3> QED BY <1>5, <1>6, <2>2, <3>1 DEF Tap!Open
  <2>3. CASE u # t /\ v # t
    BY <1>6, <2>3 DEF TapInv, Ordered, Tap!Open
  <2> QED BY <2>1, <2>2, <2>3
<1>10. ASSUME NEW u \in Taps PROVE Fresh(u)'
  <2>1. CASE u = t
    BY <1>5, <2>1 DEF Fresh, Tap!At
  <2>2. CASE u # t
    BY <1>2, <1>6, <2>2 DEF TapInv, Fresh, Tap!At, Tap!StatsRefreshes
  <2> QED BY <2>1, <2>2
<1> QED BY <1>4, <1>7, <1>8, <1>9, <1>10 DEF TapInv

\* A handler of a tap goes on: no tap overtakes another by that.
LEMMA OrderKept ==
  ASSUME TapInv, NEW t \in Taps, Tap!Open(t),
         tap'[t].alone = tap[t].alone, tap'[t].since = tap[t].since,
         \A u \in Taps \ {t} : tap'[u] = tap[u]
  PROVE  \A u \in Taps : Ordered(u)'
<1> SUFFICES ASSUME NEW u \in Taps, NEW v \in Taps, v # u, tap'[u].alone, Tap!Open(v)'
             PROVE  /\ ~Tap!Open(u)'
                    /\ tap'[u].pc = "returned" => tap'[v].since >= tap'[u].since
  BY DEF Ordered
<1>1. CASE u = t
  BY <1>1 DEF TapInv, Ordered, Tap!Open
<1>2. CASE u # t
  BY <1>2 DEF TapInv, Ordered, Tap!Open
<1> QED BY <1>1, <1>2

\* An edit writes what the tap read, which is no older than the tap.
LEMMA EditStep ==
  ASSUME TapInv, UNCHANGED <<on, recordings, snapshot, at>>,
         NEW t \in Taps, NEW format \in Formats, NEW done \in BOOLEAN,
         NEW err \in Tap!Errors,
         tap[t].pc = format, Tap!Edited(t, format, done, err),
         tap' \in [Taps -> TapType],
         tap'[t].data = tap[t].data, tap'[t].admin = tap[t].admin,
         tap'[t].panel = tap[t].panel, tap'[t].saw = tap[t].saw,
         tap'[t].since = tap[t].since, tap'[t].alone = tap[t].alone,
         \A u \in Taps \ {t} : tap'[u] = tap[u],
         format = "html" =>
            tap'[t].pc = IF err \in {"none", "notModified"} THEN "returned" ELSE "plain",
         format = "plain" =>
            tap'[t].pc = "returned" /\ (~tap'[t].failed => done \/ err = "notModified")
  PROVE  TapInv'
<1> DEFINE panel == tap[t].panel
<1>1. /\ Tap!StatsRefreshes(t) /\ panel \in DOMAIN panels
      /\ tap[t].saw >= tap[t].since /\ tap[t].since <= recordings
      /\ format = "plain" => panel \in htmlFailed
      /\ Tap!Open(t)
  BY DEF TapInv, Refreshing, Formats, Tap!Open
<1>2. /\ panels' = IF done
                   THEN [panels EXCEPT ![panel] = [content |-> tap[t].saw, format |-> format]]
                   ELSE panels
      /\ htmlFailed \subseteq htmlFailed'
      /\ err = "none" => done
      /\ err = "notModified" =>
            ~done /\ panels[panel] = [content |-> tap[t].saw, format |-> format]
  BY DEF Tap!Edited, Tap!Sent, Tap!Unmodified
<1>3. /\ DOMAIN panels' = DOMAIN panels
      /\ \A p \in DOMAIN panels : p # panel => panels'[p] = panels[p]
      /\ done => panels'[panel] = [content |-> tap[t].saw, format |-> format]
      /\ ~done => panels'[panel] = panels[panel]
  BY <1>1, <1>2
<1>4. /\ tap[t].saw \in Nat /\ tap[t].since \in Nat
  BY DEF TapInv, TapTypes, TapType
<1>5. panels' \in [DOMAIN panels' -> [content : Nat, format : Formats]]
  BY <1>2, <1>3, <1>4 DEF TapInv, TapTypes
<1>6. TapTypes' /\ Posted'
  BY <1>3, <1>5 DEF TapInv, TapTypes, Posted
<1>7. FormattingKept'
  <2> SUFFICES ASSUME NEW p \in DOMAIN panels, panels'[p].format = "plain"
               PROVE  p[2] = "plain" \/ p \in htmlFailed'
    BY <1>3 DEF FormattingKept, Tap!FormattingKept
  <2>1. CASE p = panel /\ done
    BY <1>1, <1>2, <1>3, <2>1 DEF Formats
  <2>2. CASE p # panel \/ ~done
    BY <1>2, <1>3, <2>2 DEF TapInv, FormattingKept, Tap!FormattingKept
  <2> QED BY <2>1, <2>2
<1>8. \A u \in Taps : Ordered(u)'
  BY <1>1, OrderKept
<1>9. \A u \in Taps : Tap!StatsRefreshes(u)' <=> Tap!StatsRefreshes(u)
  BY DEF Tap!StatsRefreshes
<1>10. err \notin {"none", "notModified"} /\ format = "html" => panel \in htmlFailed'
  BY DEF Tap!Edited, Tap!Errors
<1>11. ASSUME NEW u \in Taps PROVE Refreshing(u)'
  <2>1. CASE u = t
    BY <1>1, <1>3, <1>9, <1>10, <2>1 DEF Refreshing, Formats
  <2>2. CASE u # t
    BY <1>2, <1>3, <1>9, <2>2 DEF TapInv, Refreshing
  <2> QED BY <2>1, <2>2
<1>12. ASSUME NEW u \in Taps PROVE Fresh(u)'
  <2> SUFFICES ASSUME tap'[u].pc = "returned", Tap!StatsRefreshes(u), tap'[u].alone, ~tap'[u].failed
               PROVE  panels'[tap'[u].panel].content >= tap'[u].since
    BY <1>9 DEF Fresh, Tap!At
  <2>1. CASE u = t
    <3>1. done \/ err = "notModified"
      BY <1>2, <2>1 DEF Formats
    <3> QED BY <1>1, <1>2, <1>3, <2>1, <3>1
  <2>2. CASE u # t /\ done /\ tap[u].panel = panel
    <3>1. tap[t].since >= tap[u].since
      BY <1>1, <2>2 DEF TapInv, Ordered
    <3>2. tap[u].since \in Nat
      BY DEF TapInv, TapTypes, TapType
    <3> QED BY <1>1, <1>3, <1>4, <2>2, <3>1, <3>2
  <2>3. CASE u # t /\ ~(done /\ tap[u].panel = panel)
    <3>1. panels[tap[u].panel].content >= tap[u].since /\ tap[u].panel \in DOMAIN panels
      BY <2>3 DEF TapInv, Fresh, Refreshing, Tap!At
    <3> QED BY <1>3, <2>3, <3>1
  <2> QED BY <2>1, <2>2, <2>3
<1> QED BY <1>6, <1>7, <1>8, <1>11, <1>12 DEF TapInv

\* The steps before the edits.
LEMMA ReadStep ==
  ASSUME TapInv, UNCHANGED <<snapshot, at>>, NEW t \in Taps, Tap!Callback(t) \/ Tap!Refresh(t)
  PROVE  TapInv'
<1>1. /\ UNCHANGED <<on, recordings, panels, htmlFailed>>
      /\ tap[t].pc \in {"callback", "snapshot"}
      /\ \E to \in TapPlaces, saw \in Nat :
            /\ tap' = [tap EXCEPT ![t].pc = to, ![t].saw = saw]
            /\ to \in {"snapshot", "html", "returned"}
            /\ to = "snapshot" => Tap!StatsRefreshes(t)
            /\ to = "html" => saw = recordings /\ tap[t].pc = "snapshot"
            /\ to = "returned" => ~Tap!StatsRefreshes(t)
  <2>1. CASE Tap!Callback(t)
    <3>1. tap' = [tap EXCEPT ![t].pc = IF Tap!StatsRefreshes(t) THEN "snapshot" ELSE "returned",
                             ![t].saw = tap[t].saw]
      BY <2>1 DEF Tap!Callback, Tap!Goto, TapInv, TapTypes, TapType
    <3>2. tap[t].saw \in Nat
      BY DEF TapInv, TapTypes, TapType
    <3> QED BY <2>1, <3>1, <3>2 DEF Tap!Callback, Tap!At, TapPlaces
  <2>2. CASE Tap!Refresh(t)
    <3>1. recordings \in Nat
      BY DEF TapInv, TapTypes
    <3> QED BY <2>2, <3>1 DEF Tap!Refresh, Tap!At, TapPlaces
  <2> QED BY <2>1, <2>2
<1>2. PICK to \in TapPlaces, saw \in Nat :
        /\ tap' = [tap EXCEPT ![t].pc = to, ![t].saw = saw]
        /\ to \in {"snapshot", "html", "returned"}
        /\ to = "snapshot" => Tap!StatsRefreshes(t)
        /\ to = "html" => saw = recordings /\ tap[t].pc = "snapshot"
        /\ to = "returned" => ~Tap!StatsRefreshes(t)
  BY <1>1
<1>3. /\ tap' \in [Taps -> TapType]
      /\ tap'[t].pc = to /\ tap'[t].saw = saw
      /\ tap'[t].data = tap[t].data /\ tap'[t].admin = tap[t].admin
      /\ tap'[t].panel = tap[t].panel
      /\ tap'[t].since = tap[t].since /\ tap'[t].alone = tap[t].alone
      /\ \A u \in Taps \ {t} : tap'[u] = tap[u]
  BY <1>2 DEF TapInv, TapTypes, TapType
<1>4. TapTypes' /\ Posted' /\ FormattingKept'
  BY <1>1, <1>3 DEF TapInv, TapTypes, Posted, FormattingKept, Tap!FormattingKept
<1>5. \A u \in Taps : Ordered(u)'
  BY <1>1, <1>3, OrderKept DEF Tap!Open
<1>6. \A u \in Taps : Tap!StatsRefreshes(u)' <=> Tap!StatsRefreshes(u)
  BY <1>1, <1>3 DEF Tap!StatsRefreshes
<1>7. ASSUME NEW u \in Taps PROVE Refreshing(u)' /\ Fresh(u)'
  <2>1. CASE u = t
    <3>1. Refreshing(t) /\ tap[t].since <= recordings
      BY <1>1 DEF TapInv, Refreshing
    <3> QED BY <1>1, <1>2, <1>3, <1>6, <2>1, <3>1 DEF Refreshing, Fresh, Tap!At
  <2>2. CASE u # t
    BY <1>1, <1>3, <1>6, <2>2 DEF TapInv, Refreshing, Fresh, Tap!At
  <2> QED BY <2>1, <2>2
<1> QED BY <1>4, <1>5, <1>7 DEF TapInv

LEMMA TapsStep ==
  ASSUME TapInv, NEW t \in Taps, StepTap(t)
  PROVE  TapInv'
<1>1. UNCHANGED <<snapshot, at>> /\ Tap!TapStep(t)
  BY DEF StepTap, messageOwn
<1>2. CASE Tap!Callback(t) \/ Tap!Refresh(t)
  BY <1>1, <1>2, ReadStep
<1>3. CASE Tap!EditHTML(t)
  <2>1. PICK done \in BOOLEAN, err \in Tap!Errors :
           /\ Tap!Edited(t, "html", done, err)
           /\ tap' = [tap EXCEPT ![t].pc =
                         IF err \in {"none", "notModified"} THEN "returned" ELSE "plain"]
    BY <1>3 DEF Tap!EditHTML, Tap!Goto, Tap!isMessageNotModified
  <2>2. /\ tap' \in [Taps -> TapType]
        /\ tap'[t].pc = IF err \in {"none", "notModified"} THEN "returned" ELSE "plain"
        /\ tap'[t].data = tap[t].data /\ tap'[t].admin = tap[t].admin
        /\ tap'[t].panel = tap[t].panel /\ tap'[t].saw = tap[t].saw
        /\ tap'[t].since = tap[t].since /\ tap'[t].alone = tap[t].alone
        /\ \A u \in Taps \ {t} : tap'[u] = tap[u]
    <3> DEFINE place == IF err \in {"none", "notModified"} THEN "returned" ELSE "plain"
    <3>1. /\ tap \in [Taps -> TapType] /\ t \in Taps /\ place \in TapPlaces
          /\ tap' = [tap EXCEPT ![t].pc = place]
      BY <2>1 DEF TapInv, TapTypes, TapPlaces
    <3> HIDE DEF place
    <3>2. tap' \in [Taps -> TapType]
      BY <3>1 DEF TapType
    <3>3. /\ tap'[t].pc = place
          /\ tap'[t].data = tap[t].data /\ tap'[t].admin = tap[t].admin
          /\ tap'[t].panel = tap[t].panel /\ tap'[t].saw = tap[t].saw
          /\ tap'[t].since = tap[t].since /\ tap'[t].alone = tap[t].alone
      BY <3>1 DEF TapType
    <3>4. \A u \in Taps \ {t} : tap'[u] = tap[u]
      BY <3>1
    <3> QED BY <3>2, <3>3, <3>4 DEF place
  <2>3. tap[t].pc = "html" /\ UNCHANGED <<on, recordings>>
    BY <1>3 DEF Tap!EditHTML, Tap!At
  <2> QED BY <1>1, <2>1, <2>2, <2>3, EditStep DEF Formats
<1>4. CASE Tap!EditPlain(t)
  <2>1. PICK done \in BOOLEAN, err \in Tap!Errors :
           /\ Tap!Edited(t, "plain", done, err)
           /\ tap' = [tap EXCEPT ![t].pc = "returned", ![t].failed = ~done /\ err # "notModified"]
    BY <1>4 DEF Tap!EditPlain
  <2> DEFINE failed == ~done /\ err # "notModified"
  <2>2. failed \in BOOLEAN
    OBVIOUS
  <2>3. tap' = [tap EXCEPT ![t].pc = "returned", ![t].failed = failed]
    BY <2>1
  <2>4. ~failed => done \/ err = "notModified"
    OBVIOUS
  <2> HIDE DEF failed
  <2>5. /\ tap' \in [Taps -> TapType]
        /\ tap'[t].pc = "returned" /\ tap'[t].failed = failed
        /\ tap'[t].data = tap[t].data /\ tap'[t].admin = tap[t].admin
        /\ tap'[t].panel = tap[t].panel /\ tap'[t].saw = tap[t].saw
        /\ tap'[t].since = tap[t].since /\ tap'[t].alone = tap[t].alone
        /\ \A u \in Taps \ {t} : tap'[u] = tap[u]
    <3>1. tap \in [Taps -> TapType] /\ t \in Taps /\ "returned" \in TapPlaces
      BY DEF TapInv, TapTypes, TapPlaces
    <3>2. tap' \in [Taps -> TapType]
      <4> DEFINE new == [tap[t] EXCEPT !.pc = "returned", !.failed = failed]
      <4>1. new \in TapType
        BY <2>2, <3>1 DEF TapType
      <4>2. tap' = [tap EXCEPT ![t] = new]
        BY <2>3
      <4> HIDE DEF new
      <4> QED BY <3>1, <4>1, <4>2
    <3>3. /\ tap'[t].pc = "returned" /\ tap'[t].failed = failed
          /\ tap'[t].data = tap[t].data /\ tap'[t].admin = tap[t].admin
          /\ tap'[t].panel = tap[t].panel /\ tap'[t].saw = tap[t].saw
          /\ tap'[t].since = tap[t].since /\ tap'[t].alone = tap[t].alone
      BY <2>3, <3>1 DEF TapType
    <3>4. \A u \in Taps \ {t} : tap'[u] = tap[u]
      BY <2>3, <3>1
    <3> QED BY <3>2, <3>3, <3>4
  <2>6. tap[t].pc = "plain" /\ UNCHANGED <<on, recordings>>
    BY <1>4 DEF Tap!EditPlain, Tap!At
  <2> QED BY <1>1, <2>1, <2>4, <2>5, <2>6, EditStep DEF Formats
<1> QED BY <1>1, <1>2, <1>3, <1>4 DEF Tap!TapStep

LEMMA TapInvStep == MessageInv /\ TapInv /\ [Next]_vars => TapInv'
<1> SUFFICES ASSUME MessageInv, TapInv, [Next]_vars PROVE TapInv'
  OBVIOUS
<1> USE DEF messageOwn, tapOwn
<1>1. ASSUME NEW m \in Messages, DispatchMessage(m) PROVE TapInv'
  BY <1>1, TapsStart
<1>2. ASSUME NEW m \in Messages, Step(m) PROVE TapInv'
  BY <1>2, TapsOtherHandlers, TapsStatsHandler DEF Step, Message!HandlerStep
<1>3. ASSUME NEW t \in Taps, DispatchTap(t) PROVE TapInv'
  BY <1>3, TapsPress
<1>4. ASSUME NEW t \in Taps, StepTap(t) PROVE TapInv'
  BY <1>4, TapsStep
<1>5. CASE DispatchQuery \/ QueryReturns \/ StepQuery \/ Stop \/ UNCHANGED vars
  BY <1>5, TapsUntouched DEF DispatchQuery, QueryReturns, StepQuery, Stop, vars
<1>6. ASSUME NEW m \in Messages, MessageReturns(m) PROVE TapInv'
  BY <1>6, TapsUntouched DEF MessageReturns
<1>7. ASSUME NEW t \in Taps, TapReturns(t) PROVE TapInv'
  BY <1>7, TapsUntouched DEF TapReturns
<1> QED BY <1>1, <1>2, <1>3, <1>4, <1>5, <1>6, <1>7 DEF Next, Progress

LEMMA TapInvariance == Spec => []TapInv
<1> QED BY TapInit, TapInvStep, MessageInvariance, PTL DEF Spec

\* However many taps and messages are handled at once, a refresh that nothing
\* else overlapped, and whose plain-text edit did not fail as well, leaves the
\* panel with every recording made before the tap (adminstats.go:81-130).
THEOREM RefreshShowsFreshNumbers == Spec => []RefreshIsFresh
<1>1. TapInv => RefreshIsFresh
  BY DEF TapInv, RefreshIsFresh, Tap!RefreshIsFresh, Fresh
<1> QED BY <1>1, TapInvariance, PTL

\* However many refreshes race, a panel that was posted with its formatting is
\* plain only after an HTML edit of it failed for another reason than that
\* nothing changed (isMessageNotModified, adminstats.go:132).
THEOREM RefreshKeepsFormatting == Spec => []FormattingKept
<1>1. TapInv => FormattingKept
  BY DEF TapInv
<1> QED BY <1>1, TapInvariance, PTL

-----------------------------------------------------------------------------
FetchType == [pc : {"fetch", "wait", "done"}, attempt : Nat, until : Nat, joke : BOOLEAN]
AnswerPlaces == {"none", "handle", "join", "send", "returned"}

\* Time does not pass the deadline: a fetch that is under way is due by then, and
\* so are the delays. There are fetches only once the query is handled, and the
\* answer is sent when they are all done, with each joke.
InlineInv ==
    /\ now \in Nat /\ now <= Deadline
    /\ answer.pc \in AnswerPlaces
    /\ DOMAIN fetch \subseteq Suggestions
    /\ fetch \in [DOMAIN fetch -> FetchType]
    /\ answer = [pc |-> answer.pc, results |-> answer.results]
    /\ IsAt(Query, "queued") => answer.pc = "none"
    /\ answer.pc \in {"none", "handle"} => DOMAIN fetch = {}
    /\ \A i \in DOMAIN fetch :
          /\ fetch[i].pc = "fetch" => fetch[i].until <= Deadline
          /\ fetch[i].joke => fetch[i].pc = "done"
          /\ answer.pc = "send" => fetch[i].pc = "done" /\ (fetch[i].joke => i \in answer.results)
          /\ fetch[i].pc = "done" /\ ~fetch[i].joke =>
                fetch[i].attempt = MaxAttempts \/ now >= Deadline \/ ctxDone

\* The facts about the constants that the steps below need.
LEMMA Times ==
  /\ MaxAttempts \in Nat /\ Deadline \in Nat /\ Deadline > 0 /\ RetryDelay \in Nat
  /\ \A t \in Nat : Inline!AttemptUntil(t) \in Nat /\ Inline!AttemptUntil(t) <= Deadline
<1>1. MaxAttempts \in Nat /\ Deadline \in Nat \ {0} /\ AttemptTimeout \in Nat /\ RetryDelay \in Nat
  BY DispatcherAssumption
<1> QED BY <1>1 DEF Inline!AttemptUntil

LEMMA InlineInit == Init => InlineInv
<1> SUFFICES ASSUME Init PROVE InlineInv
  OBVIOUS
<1>1. now = 0 /\ answer = [pc |-> "none", results |-> {}] /\ fetch = [i \in {} |-> 0]
  BY DEF Init, Inline!Init
<1>2. DOMAIN fetch = {} /\ fetch \in [{} -> FetchType]
  BY <1>1
<1> QED BY <1>1, <1>2, Times DEF InlineInv, AnswerPlaces

\* A step of one fetch, before they are all done.
LEMMA FetchStep ==
  ASSUME InlineInv, NEW i \in DOMAIN fetch, NEW f \in FetchType,
         fetch[i].pc # "done", fetch' = [fetch EXCEPT ![i] = f],
         UNCHANGED <<now, answer, ctxDone, updates>>,
         f.pc = "fetch" => f.until <= Deadline,
         f.joke => f.pc = "done",
         f.pc = "done" /\ ~f.joke => f.attempt = MaxAttempts \/ now >= Deadline \/ ctxDone
  PROVE  InlineInv'
<1>1. /\ DOMAIN fetch' = DOMAIN fetch /\ fetch'[i] = f
      /\ \A j \in DOMAIN fetch : j # i => fetch'[j] = fetch[j]
      /\ fetch' \in [DOMAIN fetch' -> FetchType]
  BY DEF InlineInv
<1>2. answer.pc # "send"
  BY DEF InlineInv
<1> QED BY <1>1, <1>2 DEF InlineInv, IsAt

LEMMA FetchesStep ==
  ASSUME InlineInv, UNCHANGED updates, NEW i \in Suggestions,
         Inline!FetchJoke(i) \/ Inline!Retry(i) \/ Inline!GiveUp(i)
  PROVE  InlineInv'
<1>1. /\ i \in DOMAIN fetch /\ fetch[i].pc \in {"fetch", "wait"}
      /\ UNCHANGED <<now, answer, ctxDone>>
  BY DEF Inline!FetchJoke, Inline!Retry, Inline!GiveUp, Inline!Fetching
<1>2. fetch[i] \in FetchType /\ ~fetch[i].joke /\ now \in Nat
  BY <1>1 DEF InlineInv
<1>3. CASE Inline!FetchJoke(i)
  <2>1. PICK got \in BOOLEAN :
          fetch' = [fetch EXCEPT ![i] =
                       IF got THEN [fetch[i] EXCEPT !.pc = "done", !.joke = TRUE]
                       ELSE IF fetch[i].attempt = MaxAttempts THEN [fetch[i] EXCEPT !.pc = "done"]
                       ELSE [fetch[i] EXCEPT !.pc = "wait", !.until = now + RetryDelay]]
    BY <1>1, <1>3 DEF Inline!FetchJoke
  <2>2. CASE got
    <3> DEFINE f == [fetch[i] EXCEPT !.pc = "done", !.joke = TRUE]
    <3>1. f \in FetchType /\ f.pc = "done" /\ f.joke
      BY <1>2 DEF FetchType
    <3> QED BY <1>1, <2>1, <2>2, <3>1, FetchStep
  <2>3. CASE ~got /\ fetch[i].attempt = MaxAttempts
    <3> DEFINE f == [fetch[i] EXCEPT !.pc = "done"]
    <3>1. f \in FetchType /\ f.pc = "done" /\ f.attempt = MaxAttempts
      BY <1>2, <2>3 DEF FetchType
    <3> QED BY <1>1, <2>1, <2>3, <3>1, FetchStep
  <2>4. CASE ~got /\ fetch[i].attempt # MaxAttempts
    <3> DEFINE f == [fetch[i] EXCEPT !.pc = "wait", !.until = now + RetryDelay]
    <3>1. now + RetryDelay \in Nat
      BY <1>2, Times
    <3>2. f \in FetchType /\ f.pc = "wait" /\ f.joke = fetch[i].joke
      BY <1>2, <3>1 DEF FetchType
    <3> QED BY <1>1, <1>2, <2>1, <2>4, <3>2, FetchStep
  <2> QED BY <2>2, <2>3, <2>4
<1>4. CASE Inline!Retry(i)
  <2> DEFINE f == [fetch[i] EXCEPT !.pc = "fetch", !.attempt = fetch[i].attempt + 1,
                                   !.until = Inline!AttemptUntil(now)]
  <2>1. fetch' = [fetch EXCEPT ![i] = f]
    BY <1>1, <1>4 DEF Inline!Retry
  <2>2. Inline!AttemptUntil(now) \in Nat /\ Inline!AttemptUntil(now) <= Deadline
    BY <1>2, Times
  <2>3. fetch[i].attempt + 1 \in Nat
    BY <1>2 DEF FetchType
  <2>4. f \in FetchType /\ f.pc = "fetch" /\ f.joke = fetch[i].joke
        /\ f.until = Inline!AttemptUntil(now)
    BY <1>2, <2>2, <2>3 DEF FetchType
  <2> QED BY <1>1, <1>2, <2>1, <2>2, <2>4, FetchStep
<1>5. CASE Inline!GiveUp(i)
  <2> DEFINE f == [fetch[i] EXCEPT !.pc = "done"]
  <2>1. fetch' = [fetch EXCEPT ![i] = f] /\ (now >= Deadline \/ ctxDone)
    BY <1>1, <1>5 DEF Inline!GiveUp
  <2>2. f \in FetchType /\ f.pc = "done"
    BY <1>2 DEF FetchType
  <2> QED BY <1>1, <2>1, <2>2, FetchStep
<1> QED BY <1>3, <1>4, <1>5

LEMMA AnswerStep ==
  ASSUME InlineInv, UNCHANGED updates,
         Inline!HandleInline \/ Inline!Join \/ Inline!AnswerInlineQuery \/ Inline!Tick
  PROVE  InlineInv'
<1>1. CASE Inline!HandleInline
  <2> DEFINE first == [pc |-> "fetch", attempt |-> 1,
                       until |-> Inline!AttemptUntil(now), joke |-> FALSE]
  <2>1. /\ UNCHANGED <<now, ctxDone>> /\ answer.pc = "handle" /\ DOMAIN fetch = {}
        /\ answer' = [pc |-> answer'.pc, results |-> answer'.results]
        /\ \/ answer'.pc \in {"send", "returned"} /\ UNCHANGED fetch
           \/ answer'.pc = "join" /\ fetch' = [i \in Suggestions |-> first]
    BY <1>1 DEF Inline!HandleInline, Inline!AnswerWith, InlineInv
  <2>2. ~IsAt(Query, "queued")'
    BY <2>1 DEF InlineInv, IsAt
  <2>3. CASE answer'.pc \in {"send", "returned"} /\ UNCHANGED fetch
    BY <2>1, <2>2, <2>3 DEF InlineInv, AnswerPlaces
  <2>4. CASE answer'.pc = "join" /\ fetch' = [i \in Suggestions |-> first]
    <3>1. Inline!AttemptUntil(now) \in Nat /\ Inline!AttemptUntil(now) <= Deadline
      BY Times DEF InlineInv
    <3>2. first \in FetchType /\ first.pc = "fetch" /\ ~first.joke /\ first.until <= Deadline
      BY <3>1 DEF FetchType
    <3> HIDE DEF first
    <3>3. /\ DOMAIN fetch' = Suggestions /\ fetch' \in [Suggestions -> FetchType]
          /\ \A i \in Suggestions : /\ fetch'[i].pc = "fetch" /\ ~fetch'[i].joke
                                   /\ fetch'[i].until <= Deadline
      BY <2>4, <3>2
    <3> QED BY <2>1, <2>2, <2>4, <3>3 DEF InlineInv, AnswerPlaces
  <2> QED BY <2>1, <2>3, <2>4
<1>2. CASE Inline!Join
  <2>1. /\ UNCHANGED <<now, fetch, ctxDone>>
        /\ answer' = [pc |-> "send", results |-> {i \in Suggestions : fetch[i].joke}]
        /\ \A i \in DOMAIN fetch : fetch[i].pc = "done"
    BY <1>2 DEF Inline!Join, Inline!AnswerWith, Inline!AllFetched
  <2>2. \A i \in DOMAIN fetch : fetch[i].joke => i \in answer'.results
    BY <2>1 DEF InlineInv
  <2> QED BY <2>1, <2>2, <1>2 DEF InlineInv, AnswerPlaces, IsAt, Inline!Join
<1>3. CASE Inline!AnswerInlineQuery
  <2>1. /\ UNCHANGED <<now, fetch, ctxDone>>
        /\ answer'.pc = "returned"
        /\ answer' = [pc |-> answer'.pc, results |-> answer'.results]
    BY <1>3 DEF Inline!AnswerInlineQuery, InlineInv
  <2>2. ~IsAt(Query, "queued")'
    BY <1>3 DEF Inline!AnswerInlineQuery, InlineInv, IsAt
  <2> QED BY <2>1, <2>2 DEF InlineInv, AnswerPlaces
<1>4. CASE Inline!Tick
  <2>1. /\ now' = now + 1 /\ UNCHANGED <<answer, fetch, ctxDone>>
        /\ answer.pc = "join"
    BY <1>4 DEF Inline!Tick
  <2>2. PICK i \in DOMAIN fetch : fetch[i].pc # "done" /\ ~Inline!Due(i)
    BY <1>4 DEF Inline!Tick, Inline!AllFetched
  <2>3. fetch[i] \in FetchType /\ now \in Nat /\ Deadline \in Nat
    BY Times DEF InlineInv
  <2>4. now < Deadline
    BY <2>2, <2>3 DEF InlineInv, Inline!Due, FetchType
  <2> QED BY <2>1, <2>3, <2>4 DEF InlineInv, IsAt
<1> QED BY <1>1, <1>2, <1>3, <1>4

LEMMA InlineStep == InlineInv /\ [Next]_vars => InlineInv'
<1> SUFFICES ASSUME InlineInv, [Next]_vars PROVE InlineInv'
  OBVIOUS
<1>1. ASSUME UNCHANGED <<now, answer, fetch>>, ctxDone => ctxDone',
             IsAt(Query, "queued")' => IsAt(Query, "queued")
      PROVE  InlineInv'
  BY <1>1 DEF InlineInv
<1>2. ASSUME NEW u \in Messages \union Taps, NEW place, Move(u, place), IsAt(Query, "queued")'
      PROVE  IsAt(Query, "queued")
  BY <1>2, DispatcherAssumption DEF Move, IsAt
<1> USE DEF inlineOwn
<1>3. ASSUME NEW m \in Messages,
             DispatchMessage(m) \/ MessageReturns(m) \/ Step(m)
      PROVE  InlineInv'
  <2>1. UNCHANGED <<now, answer, fetch>>
    BY <1>3 DEF DispatchMessage, MessageReturns, Step
  <2>2. UNCHANGED ctxDone
    <3> USE DEF Message!Quiet, Message!Record, Message!Failed
    <3>1. CASE DispatchMessage(m) \/ MessageReturns(m)
      BY <3>1 DEF DispatchMessage, MessageReturns, Message!StartHandlers
    <3>2. CASE Message!Anek(m) \/ Message!AnekSend(m) \/ Message!AnekRecord(m)
               \/ Message!Swearing(m) \/ Message!SwearingRecord(m) \/ Message!Help(m)
      BY <3>2 DEF Message!Anek, Message!AnekSend, Message!AnekRecord, Message!Swearing,
                  Message!SwearingRecord, Message!Help
    <3>3. CASE Message!Question(m) \/ Message!Sorry(m) \/ Message!QuestionRecord(m)
               \/ Message!AnswerHTML(m) \/ Message!AnswerPlain(m)
      BY <3>3 DEF Message!Question, Message!Sorry, Message!QuestionRecord, Message!AnswerHTML,
                  Message!AnswerPlain
    <3>4. CASE Message!Stats(m) \/ Message!StatsHTML(m) \/ Message!StatsPlain(m)
      BY <3>4 DEF Message!Stats, Message!StatsHTML, Message!StatsPlain
    <3> QED BY <1>3, <3>1, <3>2, <3>3, <3>4 DEF Step, Message!HandlerStep
  <2>3. IsAt(Query, "queued")' => IsAt(Query, "queued")
    <3>1. UNCHANGED updates \/ \E place : Move(m, place)
      BY <1>3 DEF DispatchMessage, MessageReturns, Step
    <3> QED BY <1>2, <3>1 DEF IsAt
  <2> QED BY <1>1, <2>1, <2>2, <2>3
<1>4. ASSUME NEW t \in Taps, DispatchTap(t) \/ TapReturns(t) \/ StepTap(t)
      PROVE  InlineInv'
  <2>1. UNCHANGED <<now, answer, fetch>>
    BY <1>4 DEF DispatchTap, TapReturns, StepTap
  <2>2. UNCHANGED ctxDone
    BY <1>4 DEF DispatchTap, TapReturns, StepTap, Tap!Press, Tap!TapStep, Tap!Callback,
                Tap!Refresh, Tap!EditHTML, Tap!EditPlain
  <2>3. IsAt(Query, "queued")' => IsAt(Query, "queued")
    <3>1. UNCHANGED updates \/ \E place : Move(t, place)
      BY <1>4 DEF DispatchTap, TapReturns, StepTap
    <3> QED BY <1>2, <3>1 DEF IsAt
  <2> QED BY <1>1, <2>1, <2>2, <2>3
<1>5. CASE DispatchQuery
  <2>1. /\ UNCHANGED <<now, fetch, ctxDone>>
        /\ answer.pc = "none"
        /\ UNCHANGED answer \/ answer' = [answer EXCEPT !.pc = "handle"]
        /\ ~IsAt(Query, "queued")'
    BY <1>5 DEF DispatchQuery, IsAt, Move, InlineInv
  <2>2. CASE UNCHANGED answer
    BY <1>1, <2>1, <2>2
  <2>3. CASE answer' = [answer EXCEPT !.pc = "handle"]
    <3>1. answer'.pc = "handle" /\ answer' = [pc |-> answer'.pc, results |-> answer'.results]
      BY <2>3 DEF InlineInv
    <3> QED BY <2>1, <3>1 DEF InlineInv, AnswerPlaces
  <2> QED BY <2>1, <2>2, <2>3
<1>6. CASE QueryReturns
  <2>1. UNCHANGED <<now, answer, fetch, ctxDone>> /\ ~IsAt(Query, "queued")'
    BY <1>6 DEF QueryReturns, IsAt, Move
  <2> QED BY <1>1, <2>1
<1>7. CASE StepQuery
  BY <1>7, FetchesStep, AnswerStep DEF StepQuery, Inline!QueryStep
<1>8. CASE Stop \/ UNCHANGED vars
  BY <1>1, <1>8 DEF Stop, vars, IsAt
<1> QED BY <1>3, <1>4, <1>5, <1>6, <1>7, <1>8 DEF Next, Progress

LEMMA InlineInvariance == Spec => []InlineInv
<1> QED BY InlineInit, InlineStep, PTL DEF Spec

\* Whatever the timeouts, delays, attempts and suggestions, the answer to an
\* inline query is being sent by the deadline, with every joke that was fetched
\* (anek.go:188-221).
THEOREM QueriesAnsweredByDeadline == Spec => []AnsweredByDeadline
<1>1. InlineInv => AnsweredByDeadline
  BY DEF InlineInv, AnsweredByDeadline, Inline!AnsweredByDeadline
<1> QED BY <1>1, InlineInvariance, PTL

\* A suggestion is missing only after all its attempts failed, or when there was
\* no time left or a signal ended the process.
THEOREM SuggestionsRetried == Spec => []MissingOnlyAfterRetries
<1>1. InlineInv => MissingOnlyAfterRetries
  BY DEF InlineInv, MissingOnlyAfterRetries, Inline!MissingOnlyAfterRetries
<1> QED BY <1>1, InlineInvariance, PTL
=============================================================================

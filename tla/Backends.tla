------------------------------ MODULE Backends ------------------------------
(***************************************************************************)
(* What a provider makes of one HTTP exchange: internal/llm/gemini.go and  *)
(* huggingface.go, Ask, each with a client of its own that gives up after  *)
(* 30 s.  Telegram users see "error" and an empty answer alike; the two    *)
(* differ in which of them a reply without content is.                     *)
(***************************************************************************)

\* One exchange.  arrived: client.Do returned a response in time; read: its body
\* could be read to the end; long: it is longer than maxResponseBytes, and so cut
\* off; json: it is of the response's types, but for its "error", which has the
\* given shape; first: what the first of the answers it lists holds.
Replies == [arrived : BOOLEAN, read : BOOLEAN, long : BOOLEAN, json : BOOLEAN,
            error : {"absent", "string", "object", "other"},
            ok : BOOLEAN,
            first : {"none", "noParts", "blank", "text"}]

\* Whether io.ReadAll and, up to the "error", json.Unmarshal succeed.
Decoded(reply) == reply.arrived /\ reply.read /\ ~reply.long /\ reply.json

\* gemini.go: an "error" is an object, and a candidate without parts is no answer.
GeminiAsk(reply) ==
    IF /\ Decoded(reply) /\ reply.error \in {"absent", "object"}
       /\ reply.ok
       /\ reply.first \in {"blank", "text"}
    THEN reply.first
    ELSE "error"

\* hfError.UnmarshalJSON: both of the shapes that the router uses.
hfErrorParses(reply) == reply.error \in {"absent", "string", "object"}

\* huggingface.go: a choice whose message has no content answers with nothing.
HuggingFaceAsk(reply) ==
    IF Decoded(reply) /\ hfErrorParses(reply) /\ reply.ok /\ reply.first # "none"
    THEN IF reply.first = "text" THEN "text" ELSE "blank"
    ELSE "error"

Ask(backend, reply) == IF backend = "gemini" THEN GeminiAsk(reply) ELSE HuggingFaceAsk(reply)

\* What each backend can return.
Answers == [b \in {"gemini", "huggingface"} |-> {Ask(b, reply) : reply \in Replies}]
=============================================================================

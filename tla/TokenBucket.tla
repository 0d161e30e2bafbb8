----------------------------- MODULE TokenBucket -----------------------------
(***************************************************************************)
(* What PerKeyLimiter promises its callers (limiter.go:8-11): each key has *)
(* a bucket of up to Limit tokens that refills continuously at             *)
(* Limit/Window, and a call costs one token.  There is no map, no sweep    *)
(* and no refill here: a level per key, the clock and the answer of the    *)
(* last call of this instant.  The price of the memory bound is that a     *)
(* call may make the limiter forget one key, whose bucket is then full.    *)
(* Units as in PerKeyLimiter: a token is Window units, a tick adds Limit.  *)
(***************************************************************************)
EXTENDS Integers

CONSTANTS Keys, Limit, Window, NoAnswer,
          MayForget  \* whether there may be more keys than the limiter remembers

VARIABLES level, clock, answer

Full == Limit * Window

Init ==
    /\ level = [k \in Keys |-> Full]
    /\ clock = 0
    /\ answer = NoAnswer

\* What a call may forget: one key at most.
Forgettable == IF MayForget THEN {{}} \union {{k} : k \in Keys} ELSE {{}}

Remembered(forgotten) == [k \in Keys |-> IF k \in forgotten THEN Full ELSE level[k]]

Grant(k, forgotten) ==
    /\ Remembered(forgotten)[k] >= Window
    /\ level' = [Remembered(forgotten) EXCEPT ![k] = @ - Window]
    /\ answer' = [key |-> k, granted |-> TRUE]
    /\ UNCHANGED clock

\* Only a key without a whole token is refused, and refusing costs nothing.
Refuse(k, forgotten) ==
    /\ Remembered(forgotten)[k] < Window
    /\ level' = Remembered(forgotten)
    /\ answer' = [key |-> k, granted |-> FALSE]
    /\ UNCHANGED clock

Pass ==
    /\ clock' = clock + 1
    /\ level' = [k \in Keys |-> IF level[k] + Limit < Full THEN level[k] + Limit ELSE Full]
    /\ answer' = NoAnswer

Next ==
    \/ Pass
    \/ \E k \in Keys, forgotten \in Forgettable : Grant(k, forgotten) \/ Refuse(k, forgotten)

Spec == Init /\ [][Next]_<<level, clock, answer>>
=============================================================================

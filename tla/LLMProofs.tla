------------------------------ MODULE LLMProofs ------------------------------
(***************************************************************************)
(* For every finite set of requests, semaphore capacity, provider list,    *)
(* algorithm and limiter: the semaphore and the gauge count exactly the    *)
(* requests that hold them, and the counters of attempts what became of    *)
(* the requests.                                                           *)
(*                                                                         *)
(* For every list of weights, cursor and draw, what the operators of       *)
(* ProviderOrder compute.  With them: a request that ends without a text   *)
(* was failed by every provider, and whole cycles of requests are shared   *)
(* by the weights; and every config file that is accepted, in every        *)
(* environment, gives orders, primaries and draws of that kind.            *)
(***************************************************************************)
EXTENDS LLM, Startup, SumTheorems

Inv ==
    /\ pc \in [Requests -> Steps]
    /\ SlotAccounting
    /\ gauge = Cardinality(At(InUse))

\* One request moves, and a count of the requests at S changes with it.
LEMMA Moved ==
  ASSUME NEW r \in Requests, NEW S, NEW from, NEW to \in Steps,
         pc \in [Requests -> Steps], Goto(r, from, to)
  PROVE  /\ pc' \in [Requests -> Steps]
         /\ Cardinality(At(S)) \in Nat
         /\ from \notin S /\ to \in S => Cardinality(At(S)') = Cardinality(At(S)) + 1
         /\ from \in S /\ to \notin S => Cardinality(At(S)') = Cardinality(At(S)) - 1
         /\ (from \in S <=> to \in S) => Cardinality(At(S)') = Cardinality(At(S))
<1>1. pc[r] = from /\ pc' = [pc EXCEPT ![r] = to]
  BY DEF Goto
<1>2. pc' \in [Requests -> Steps]
  BY <1>1
<1>3. At(S) \subseteq Requests
  BY DEF At
<1>4. IsFiniteSet(At(S)) /\ Cardinality(At(S)) \in Nat
  BY <1>3, FS_Subset, FS_CardinalityType, LLMAssumption
<1>5. r \in At(S) <=> from \in S
  BY <1>1 DEF At
<1>6. CASE to \in S
  <2>1. At(S)' = At(S) \union {r}
    BY <1>1, <1>6 DEF At
  <2>2. Cardinality(At(S) \union {r}) = IF r \in At(S) THEN Cardinality(At(S)) ELSE Cardinality(At(S)) + 1
    BY <1>4, FS_AddElement
  <2> QED BY <1>2, <1>4, <1>5, <1>6, <2>1, <2>2
<1>7. CASE to \notin S
  <2>1. At(S)' = At(S) \ {r}
    BY <1>1, <1>7 DEF At
  <2>2. Cardinality(At(S) \ {r}) = IF r \in At(S) THEN Cardinality(At(S)) - 1 ELSE Cardinality(At(S))
    BY <1>4, FS_RemoveElement
  <2> QED BY <1>2, <1>4, <1>5, <1>7, <2>1, <2>2
<1> QED BY <1>6, <1>7

\* Where each statement stands.
LEMMA Places ==
  /\ {"acquire", "inc", "order", "ask", "fallback", "dec", "release", "done"} \subseteq Steps
  /\ "acquire" \notin Holding /\ "inc" \in Holding /\ "order" \in Holding
  /\ "dec" \in Holding /\ "release" \in Holding /\ "done" \notin Holding
  /\ "acquire" \notin InUse /\ "inc" \notin InUse /\ "order" \in InUse
  /\ "dec" \in InUse /\ "release" \notin InUse /\ "done" \notin InUse
BY DEF Steps, Holding, InUse

\* A step that takes no slot and frees none, and leaves the gauge alone.
LEMMA QuietMove ==
  ASSUME Inv, NEW r \in Requests, NEW from, NEW to \in Steps, Goto(r, from, to),
         from \in Holding <=> to \in Holding, from \in InUse <=> to \in InUse,
         UNCHANGED <<slots, gauge>>
  PROVE  Inv'
<1>1. pc' \in [Requests -> Steps] /\ Cardinality(At(Holding)') = Cardinality(At(Holding))
  BY Moved DEF Inv
<1>2. Cardinality(At(InUse)') = Cardinality(At(InUse))
  BY Moved DEF Inv
<1>3. Holding' = Holding /\ InUse' = InUse
  BY DEF Holding, InUse
<1> QED BY <1>1, <1>2 DEF Inv, SlotAccounting, At, Holding, InUse

\* Nobody holds anything before the first request.
LEMMA InitInv == Init => Inv
<1> SUFFICES ASSUME Init PROVE Inv
  OBVIOUS
<1>1. pc = [r \in Requests |-> "idle"] /\ slots = 0 /\ gauge = 0
  BY DEF Init
<1>2. At(Holding) = {} /\ At(InUse) = {}
  BY <1>1 DEF At, Holding, InUse
<1>3. pc \in [Requests -> Steps]
  BY <1>1 DEF Steps
<1> QED BY <1>1, <1>2, <1>3, FS_EmptySet, LLMAssumption DEF Inv, SlotAccounting

\* TryAcquire takes the slot that its request then holds, or none.
LEMMA TryAcquireInv ==
  ASSUME Inv, NEW r \in Requests, TryAcquire(r)
  PROVE  Inv'
<1>1. CASE slots < MaxConcurrent
  <2>1. Goto(r, "acquire", "inc") /\ slots' = slots + 1 /\ gauge' = gauge
    BY <1>1 DEF TryAcquire
  <2>2. /\ pc' \in [Requests -> Steps]
        /\ Cardinality(At(Holding)) \in Nat
        /\ Cardinality(At(Holding)') = Cardinality(At(Holding)) + 1
    BY <2>1, Moved, Places DEF Inv
  <2>3. Cardinality(At(InUse)') = Cardinality(At(InUse))
    BY <2>1, Moved, Places DEF Inv
  <2> QED BY <1>1, <2>1, <2>2, <2>3, LLMAssumption DEF Inv, SlotAccounting, At, Holding, InUse
<1>2. CASE ~(slots < MaxConcurrent)
  <2>1. Goto(r, "acquire", "done") /\ UNCHANGED <<slots, gauge>>
    BY <1>2 DEF TryAcquire
  <2> QED BY <2>1, QuietMove DEF Steps, Holding, InUse
<1> QED BY <1>1, <1>2

\* The gauge goes up with the request that will count in it,
LEMMA IncInv ==
  ASSUME Inv, NEW r \in Requests, IncConcurrency(r)
  PROVE  Inv'
<1>1. Goto(r, "inc", "order") /\ slots' = slots /\ gauge' = gauge + 1
  BY DEF IncConcurrency
<1>2. pc' \in [Requests -> Steps] /\ Cardinality(At(Holding)') = Cardinality(At(Holding))
  BY <1>1, Moved, Places DEF Inv
<1>3. Cardinality(At(InUse)') = Cardinality(At(InUse)) + 1
  BY <1>1, Moved, Places DEF Inv
<1> QED BY <1>1, <1>2, <1>3 DEF Inv, SlotAccounting, At, Holding, InUse

\* and down with the one that does no more.
LEMMA DecInv ==
  ASSUME Inv, NEW r \in Requests, DecConcurrency(r)
  PROVE  Inv'
<1>1. Goto(r, "dec", "release") /\ slots' = slots /\ gauge' = gauge - 1
  BY DEF DecConcurrency
<1>2. pc' \in [Requests -> Steps] /\ Cardinality(At(Holding)') = Cardinality(At(Holding))
  BY <1>1, Moved, Places DEF Inv
<1>3. Cardinality(At(InUse)') = Cardinality(At(InUse)) - 1
  BY <1>1, Moved, Places DEF Inv
<1> QED BY <1>1, <1>2, <1>3 DEF Inv, SlotAccounting, At, Holding, InUse

\* The slot goes back with the last step.
LEMMA ReleaseInv ==
  ASSUME Inv, NEW r \in Requests, Release(r)
  PROVE  Inv'
<1>1. Goto(r, "release", "done") /\ slots' = slots - 1 /\ gauge' = gauge
  BY DEF Release
<1>2. /\ pc' \in [Requests -> Steps]
      /\ Cardinality(At(Holding)) \in Nat
      /\ Cardinality(At(Holding)') = Cardinality(At(Holding)) - 1
  BY <1>1, Moved, Places DEF Inv
<1>3. Cardinality(At(InUse)') = Cardinality(At(InUse))
  BY <1>1, Moved, Places DEF Inv
<1> QED BY <1>1, <1>2, <1>3, LLMAssumption DEF Inv, SlotAccounting, At, Holding, InUse

\* Whatever step is taken, slots and gauge go on counting requests.
LEMMA StepInv == Inv /\ [Next]_vars => Inv'
<1> SUFFICES ASSUME Inv, [Next]_vars PROVE Inv'
  OBVIOUS
<1> USE DEF Steps, Holding, InUse
<1>1. ASSUME NEW r \in Requests, Arrive(r) PROVE Inv'
  <2>1. \/ Goto(r, "idle", "acquire") /\ UNCHANGED <<slots, gauge>>
        \/ Goto(r, "idle", "done") /\ UNCHANGED <<slots, gauge>>
    BY <1>1 DEF Arrive
  <2> QED BY <2>1, QuietMove
<1>2. ASSUME NEW r \in Requests, TryAcquire(r) PROVE Inv'
  BY <1>2, TryAcquireInv
<1>3. ASSUME NEW r \in Requests, IncConcurrency(r) PROVE Inv'
  BY <1>3, IncInv
<1>4. ASSUME NEW r \in Requests, Order(r) PROVE Inv'
  <2>1. Goto(r, "order", "ask") /\ UNCHANGED <<slots, gauge>>
    BY <1>4 DEF Order
  <2> QED BY <2>1, QuietMove
<1>5. ASSUME NEW r \in Requests, NEW outcome, Attempt(r, outcome) PROVE Inv'
  <2>1. CASE Answered(r, outcome)
    <3>1. Goto(r, "ask", AfterAnswer(r)) /\ UNCHANGED <<slots, gauge>>
      BY <2>1 DEF Answered
    <3>2. AfterAnswer(r) \in {"fallback", "dec"}
      BY DEF AfterAnswer
    <3> QED BY <3>1, <3>2, QuietMove
  <2>2. CASE Failed(r)
    <3>1. \/ Goto(r, "ask", "ask") /\ UNCHANGED <<slots, gauge>>
          \/ Goto(r, "ask", "dec") /\ UNCHANGED <<slots, gauge>>
      BY <2>2 DEF Failed
    <3> QED BY <3>1, QuietMove
  <2> QED BY <1>5, <2>1, <2>2 DEF Attempt
<1>6. ASSUME NEW r \in Requests, ObserveFallback(r) PROVE Inv'
  <2>1. Goto(r, "fallback", "dec") /\ UNCHANGED <<slots, gauge>>
    BY <1>6 DEF ObserveFallback
  <2> QED BY <2>1, QuietMove
<1>7. ASSUME NEW r \in Requests, DecConcurrency(r) PROVE Inv'
  BY <1>7, DecInv
<1>8. ASSUME NEW r \in Requests, Release(r) PROVE Inv'
  BY <1>8, ReleaseInv
<1>9. CASE Tick \/ UNCHANGED vars
  <2>1. UNCHANGED <<pc, slots, gauge>>
    BY <1>9 DEF Tick, vars
  <2> QED BY <2>1 DEF Inv, SlotAccounting, At
<1> QED BY <1>1, <1>2, <1>3, <1>4, <1>5, <1>6, <1>7, <1>8, <1>9 DEF Next, Run

\* So they do at all times.
LEMMA Invariance == Spec => []Inv
<1> QED BY InitInv, StepInv, PTL DEF Spec

\* No slot leaks and none is freed twice, whichever way a request ends.
THEOREM SlotsCountRequests == Spec => []SlotAccounting
<1>1. Inv => SlotAccounting
  BY DEF Inv
<1> QED BY <1>1, Invariance, PTL

\* The gauge never shows more requests than hold a slot.
THEOREM GaugeNeverExceedsSlots == Spec => []GaugeWithinSlots
<1>1. Inv => GaugeWithinSlots
  <2> SUFFICES ASSUME Inv PROVE GaugeWithinSlots
    OBVIOUS
  <2>1. At(InUse) \subseteq At(Holding) /\ At(Holding) \subseteq Requests
    BY DEF At, InUse, Holding
  <2>2. IsFiniteSet(At(Holding))
    BY <2>1, FS_Subset, LLMAssumption
  <2>3. Cardinality(At(InUse)) <= Cardinality(At(Holding))
    BY <2>1, <2>2, FS_Subset
  <2> QED BY <2>3 DEF Inv, SlotAccounting, GaugeWithinSlots
<1> QED BY <1>1, Invariance, PTL

-----------------------------------------------------------------------------
\* A request has no attempt before Order and no result before an attempt ends.
LedgerInv ==
    /\ pc \in [Requests -> Steps]
    /\ tally \in [Counters -> Nat]
    /\ attempt \in [Requests -> Nat]
    /\ result \in [Requests -> {"none", "busy", "text", "unavailable"}]
    /\ \A r \in Requests :
          /\ pc[r] \in {"idle", "acquire", "inc", "order"} => attempt[r] = 0
          /\ pc[r] = "ask" => attempt[r] >= 1
          /\ pc[r] \in {"idle", "acquire", "inc", "order", "ask"} => result[r] = "none"
    /\ FallbackLedger

\* One more request of a set of them.
LEMMA Joins ==
  ASSUME NEW S \in SUBSET Requests, NEW r \in Requests
  PROVE  /\ Cardinality(S) \in Nat
         /\ r \notin S => Cardinality(S \union {r}) = Cardinality(S) + 1
<1>1. IsFiniteSet(S)
  BY FS_Subset, LLMAssumption
<1> QED BY <1>1, FS_CardinalityType, FS_AddElement

\* No request has been answered and nothing is counted.
LEMMA LedgerInit == Init => LedgerInv
<1> SUFFICES ASSUME Init PROVE LedgerInv
  OBVIOUS
<1>1. /\ pc = [r \in Requests |-> "idle"] /\ tally = [c \in Counters |-> 0]
      /\ attempt = [r \in Requests |-> 0] /\ result = [r \in Requests |-> "none"]
  BY DEF Init
<1>2. At({"fallback"}) = {} /\ Texts = {} /\ PastPrimary = {}
  BY <1>1 DEF At, Texts, PastPrimary
<1>3. FallbackLedger
  BY <1>1, <1>2, FS_EmptySet DEF FallbackLedger, Counters
<1> QED BY <1>1, <1>3 DEF LedgerInv, Steps

\* A step that no counter of the ledger sees, and no set that they count.
LEMMA LedgerQuiet ==
  ASSUME LedgerInv, NEW r \in Requests, NEW from, NEW to \in Steps, Goto(r, from, to),
         tally' \in [Counters -> Nat],
         \A c \in Counters \ {"perUser", "concurrency"} : tally'[c] = tally[c],
         from \notin {"ask", "fallback"}, to # "fallback",
         \/ /\ UNCHANGED attempt /\ to # "ask"
            /\ to \in {"idle", "acquire", "inc", "order"} =>
                  from \in {"idle", "acquire", "inc", "order"}
         \/ /\ from = "order" /\ to = "ask" /\ attempt' = [attempt EXCEPT ![r] = 1],
         \/ UNCHANGED result
         \/ /\ from \in {"idle", "acquire"} /\ to = "done"
            /\ result' = [result EXCEPT ![r] = "busy"]
  PROVE  LedgerInv'
<1>1. /\ pc[r] = from /\ pc' = [pc EXCEPT ![r] = to] /\ pc' \in [Requests -> Steps]
  BY DEF Goto, LedgerInv
<1>2. At({"fallback"})' = At({"fallback"})
  BY <1>1 DEF At, LedgerInv
<1>3. Texts' = Texts
  BY <1>1 DEF Texts, LedgerInv
<1>4. PastPrimary' = PastPrimary
  BY <1>1 DEF PastPrimary, LedgerInv
<1>5. FallbackLedger'
  BY <1>2, <1>3, <1>4 DEF FallbackLedger, LedgerInv, Counters
<1>6. /\ attempt' \in [Requests -> Nat]
      /\ result' \in [Requests -> {"none", "busy", "text", "unavailable"}]
  BY DEF LedgerInv
<1>7. ASSUME NEW q \in Requests
      PROVE  /\ pc'[q] \in {"idle", "acquire", "inc", "order"} => attempt'[q] = 0
             /\ pc'[q] = "ask" => attempt'[q] >= 1
             /\ pc'[q] \in {"idle", "acquire", "inc", "order", "ask"} => result'[q] = "none"
  <2>1. CASE q = r
    BY <1>1, <2>1 DEF LedgerInv
  <2>2. CASE q # r
    BY <1>1, <2>2 DEF LedgerInv
  <2> QED BY <2>1, <2>2
<1> QED BY <1>1, <1>5, <1>6, <1>7 DEF LedgerInv

\* An attempt ends: the first one is counted, and a text for a text.
LEMMA LedgerAttempt ==
  ASSUME LedgerInv, NEW r \in Requests, Attempt(r, "text") \/ Failed(r)
  PROVE  LedgerInv'
<1> DEFINE first == attempt[r] = 1
<1>1. /\ pc[r] = "ask" /\ attempt[r] \in Nat /\ attempt[r] >= 1 /\ result[r] = "none"
  BY DEF LedgerInv, Attempt, Answered, Failed, Goto
<1>2. PICK to \in {"ask", "fallback", "dec"}, c \in {"okPrimary", "okFallback", "failPrimary", "failFallback"} :
        /\ pc' = [pc EXCEPT ![r] = to] /\ Count(c)
        /\ to = "ask" => attempt' = [attempt EXCEPT ![r] = attempt[r] + 1] /\ UNCHANGED result
        /\ to # "ask" => UNCHANGED attempt
        /\ c \in {"okPrimary", "failPrimary"} <=> first
        /\ c \in {"okPrimary", "okFallback"} =>
              to # "ask" /\ result' = [result EXCEPT ![r] = "text"]
        /\ c \in {"failPrimary", "failFallback"} =>
              \/ UNCHANGED result
              \/ to # "ask" /\ result' = [result EXCEPT ![r] = "unavailable"]
        /\ to = "fallback" <=> c = "okFallback"
  <2>1. CASE Attempt(r, "text")
    <3>1. /\ pc' = [pc EXCEPT ![r] = AfterAnswer(r)]
          /\ Count(IF first THEN "okPrimary" ELSE "okFallback")
          /\ result' = [result EXCEPT ![r] = "text"] /\ UNCHANGED attempt
      BY <2>1 DEF Attempt, Answered, Goto, Return
    <3>2. CASE first
      BY <3>1, <3>2 DEF AfterAnswer
    <3>3. CASE ~first
      <4>1. AfterAnswer(r) = "fallback"
        BY <1>1, <3>3 DEF AfterAnswer
      <4> QED BY <3>1, <3>3, <4>1
    <3> QED BY <3>2, <3>3
  <2>2. CASE Failed(r)
    BY <2>2 DEF Failed, Goto, Return
  <2> QED BY <2>1, <2>2
<1>3. /\ tally' \in [Counters -> Nat]
      /\ tally'[c] = tally[c] + 1
      /\ \A d \in Counters \ {c} : tally'[d] = tally[d]
  BY <1>2 DEF LedgerInv, Count, Counters
<1>4. pc' \in [Requests -> Steps] /\ pc'[r] = to /\ \A q \in Requests : q # r => pc'[q] = pc[q]
  BY <1>2 DEF LedgerInv, Steps
<1>5. /\ attempt' \in [Requests -> Nat]
      /\ attempt'[r] = IF to = "ask" THEN attempt[r] + 1 ELSE attempt[r]
      /\ \A q \in Requests : q # r => attempt'[q] = attempt[q]
  BY <1>1, <1>2 DEF LedgerInv
<1>6. /\ result' \in [Requests -> {"none", "busy", "text", "unavailable"}]
      /\ result'[r] = "text" <=> c \in {"okPrimary", "okFallback"}
      /\ to = "ask" => result'[r] = "none"
      /\ \A q \in Requests : q # r => result'[q] = result[q]
  BY <1>1, <1>2 DEF LedgerInv
<1>7. /\ r \notin At({"fallback"})
      /\ At({"fallback"})' = IF c = "okFallback" THEN At({"fallback"}) \union {r} ELSE At({"fallback"})
  BY <1>1, <1>2, <1>4 DEF At
<1>8. /\ r \notin Texts
      /\ Texts' = IF c \in {"okPrimary", "okFallback"} THEN Texts \union {r} ELSE Texts
  BY <1>1, <1>6 DEF Texts
<1>9. /\ r \in PastPrimary <=> ~first
      /\ PastPrimary' = PastPrimary \union {r}
  BY <1>1, <1>4, <1>5 DEF PastPrimary
<1>10. FallbackLedger'
  <2>1. /\ At({"fallback"}) \in SUBSET Requests /\ Texts \in SUBSET Requests
        /\ PastPrimary \in SUBSET Requests
    BY DEF At, Texts, PastPrimary
  <2>2. /\ Cardinality(At({"fallback"})) \in Nat
        /\ Cardinality(At({"fallback"})') =
              Cardinality(At({"fallback"})) + (IF c = "okFallback" THEN 1 ELSE 0)
    BY <1>7, <2>1, Joins
  <2>3. /\ Cardinality(Texts) \in Nat
        /\ Cardinality(Texts') =
              Cardinality(Texts) + (IF c \in {"okPrimary", "okFallback"} THEN 1 ELSE 0)
    BY <1>8, <2>1, Joins
  <2>4. /\ Cardinality(PastPrimary) \in Nat
        /\ Cardinality(PastPrimary') = Cardinality(PastPrimary) + (IF first THEN 1 ELSE 0)
    <3>1. first => Cardinality(PastPrimary') = Cardinality(PastPrimary) + 1
      BY <1>9, <2>1, Joins
    <3>2. ~first => PastPrimary' = PastPrimary
      BY <1>9
    <3>3. Cardinality(PastPrimary) \in Nat
      BY <2>1, Joins
    <3> QED BY <3>1, <3>2, <3>3
  <2>5. \A d \in Counters : tally[d] \in Nat
    BY DEF LedgerInv
  <2> QED BY <1>2, <1>3, <2>2, <2>3, <2>4, <2>5 DEF FallbackLedger, LedgerInv, Counters
<1>11. ASSUME NEW q \in Requests
       PROVE  /\ pc'[q] \in {"idle", "acquire", "inc", "order"} => attempt'[q] = 0
              /\ pc'[q] = "ask" => attempt'[q] >= 1
              /\ pc'[q] \in {"idle", "acquire", "inc", "order", "ask"} => result'[q] = "none"
  BY <1>1, <1>4, <1>5, <1>6 DEF LedgerInv
<1> QED BY <1>3, <1>4, <1>5, <1>6, <1>10, <1>11 DEF LedgerInv

\* A fallback's answer is counted as one.
LEMMA LedgerFallback ==
  ASSUME LedgerInv, NEW r \in Requests, ObserveFallback(r)
  PROVE  LedgerInv'
<1>1. /\ pc[r] = "fallback" /\ pc' = [pc EXCEPT ![r] = "dec"]
      /\ tally' = [tally EXCEPT !["fallbacks"] = tally["fallbacks"] + 1]
      /\ UNCHANGED <<attempt, result>>
  BY DEF ObserveFallback, Goto, Count, callVars
<1>2. /\ pc' \in [Requests -> Steps] /\ pc'[r] = "dec"
      /\ \A q \in Requests : q # r => pc'[q] = pc[q]
      /\ tally' \in [Counters -> Nat]
      /\ tally'["fallbacks"] = tally["fallbacks"] + 1
      /\ \A d \in Counters \ {"fallbacks"} : tally'[d] = tally[d]
  BY <1>1 DEF LedgerInv, Steps, Counters
<1>3. r \notin At({"fallback"})' /\ At({"fallback"}) = At({"fallback"})' \union {r}
  BY <1>1, <1>2 DEF At
<1>4. Texts' = Texts /\ PastPrimary' = PastPrimary
  BY <1>1, <1>2 DEF Texts, PastPrimary
<1>5. /\ Cardinality(At({"fallback"})') \in Nat
      /\ Cardinality(At({"fallback"})) = Cardinality(At({"fallback"})') + 1
  <2>1. At({"fallback"})' \in SUBSET Requests
    BY DEF At
  <2> QED BY <1>3, <2>1, Joins
<1>6. FallbackLedger'
  <2>1. \A d \in Counters : tally[d] \in Nat
    BY DEF LedgerInv
  <2> QED BY <1>2, <1>4, <1>5, <2>1 DEF FallbackLedger, LedgerInv, Counters
<1>7. ASSUME NEW q \in Requests
      PROVE  /\ pc'[q] \in {"idle", "acquire", "inc", "order"} => attempt[q] = 0
             /\ pc'[q] = "ask" => attempt[q] >= 1
             /\ pc'[q] \in {"idle", "acquire", "inc", "order", "ask"} => result[q] = "none"
  BY <1>2 DEF LedgerInv
<1> QED BY <1>1, <1>2, <1>6, <1>7 DEF LedgerInv

\* Whatever step is taken, the counters go on counting attempts.
LEMMA LedgerStep == LedgerInv /\ [Next]_vars => LedgerInv'
<1> SUFFICES ASSUME LedgerInv, [Next]_vars PROVE LedgerInv'
  OBVIOUS
<1> USE DEF Steps, callVars
<1>1. ASSUME Count("perUser") \/ Count("concurrency") \/ UNCHANGED tally
      PROVE  /\ tally' \in [Counters -> Nat]
             /\ \A c \in Counters \ {"perUser", "concurrency"} : tally'[c] = tally[c]
  BY <1>1 DEF Count, Counters, LedgerInv
<1>2. ASSUME NEW r \in Requests, Arrive(r) PROVE LedgerInv'
  <2>1. /\ UNCHANGED attempt
        /\ \/ Goto(r, "idle", "acquire") /\ UNCHANGED <<tally, result>>
           \/ /\ Goto(r, "idle", "done") /\ Count("perUser")
              /\ result' = [result EXCEPT ![r] = "busy"]
    BY <1>2 DEF Arrive, Return
  <2> QED BY <1>1, <2>1, LedgerQuiet
<1>3. ASSUME NEW r \in Requests, TryAcquire(r) PROVE LedgerInv'
  <2>1. /\ UNCHANGED attempt
        /\ \/ Goto(r, "acquire", "inc") /\ UNCHANGED <<tally, result>>
           \/ /\ Goto(r, "acquire", "done") /\ Count("concurrency")
              /\ result' = [result EXCEPT ![r] = "busy"]
    BY <1>3 DEF TryAcquire, Return
  <2> QED BY <1>1, <2>1, LedgerQuiet
<1>4. ASSUME NEW r \in Requests, IncConcurrency(r) \/ DecConcurrency(r) \/ Release(r)
      PROVE  LedgerInv'
  <2>1. /\ UNCHANGED <<attempt, tally, result>>
        /\ \/ Goto(r, "inc", "order")
           \/ Goto(r, "dec", "release")
           \/ Goto(r, "release", "done")
    BY <1>4 DEF IncConcurrency, DecConcurrency, Release
  <2> QED BY <1>1, <2>1, LedgerQuiet
<1>5. ASSUME NEW r \in Requests, Order(r) PROVE LedgerInv'
  <2>1. /\ Goto(r, "order", "ask") /\ UNCHANGED <<tally, result>>
        /\ attempt' = [attempt EXCEPT ![r] = 1]
    BY <1>5 DEF Order
  <2> QED BY <1>1, <2>1, LedgerQuiet
<1>6. ASSUME NEW r \in Requests, NEW outcome, Attempt(r, outcome) PROVE LedgerInv'
  BY <1>6, LedgerAttempt DEF Attempt
<1>7. ASSUME NEW r \in Requests, ObserveFallback(r) PROVE LedgerInv'
  BY <1>7, LedgerFallback
<1>8. CASE Tick \/ UNCHANGED vars
  <2>1. UNCHANGED <<pc, tally, attempt, result>>
    BY <1>8 DEF Tick, vars
  <2>2. UNCHANGED <<At({"fallback"}), Texts, PastPrimary>>
    BY <2>1 DEF At, Texts, PastPrimary
  <2> QED BY <2>1, <2>2 DEF LedgerInv, FallbackLedger
<1> QED BY <1>2, <1>3, <1>4, <1>5, <1>6, <1>7, <1>8 DEF Next, Run

\* The counters of attempts agree with the requests: whatever their number, the
\* providers and the algorithm, each text, each fallback and each first attempt
\* is counted once.
THEOREM AttemptsAddUp == Spec => []FallbackLedger
<1>1. LedgerInv => FallbackLedger
  BY DEF LedgerInv
<1> QED BY <1>1, LedgerInit, LedgerStep, PTL DEF Spec
-----------------------------------------------------------------------------
\* How many indices there are up to i.
Rank(I, i) == Cardinality({j \in I : j <= i})

\* An index's rank is a place in the list.
LEMMA RankType ==
  ASSUME NEW I \in SUBSET Int, IsFiniteSet(I), NEW i \in I
  PROVE  Rank(I, i) \in 1 .. Cardinality(I)
<1> DEFINE below == {j \in I : j <= i}
<1>1. below \in SUBSET I /\ i \in below
  OBVIOUS
<1>2. IsFiniteSet(below) /\ Cardinality(below) <= Cardinality(I)
  BY <1>1, FS_Subset
<1>3. Cardinality(below) # 0 /\ Cardinality(below) \in Nat /\ Cardinality(I) \in Nat
  BY <1>1, <1>2, FS_EmptySet, FS_CardinalityType
<1> QED BY <1>2, <1>3 DEF Rank

\* A greater index has a greater rank.
LEMMA RankGrows ==
  ASSUME NEW I \in SUBSET Int, IsFiniteSet(I), NEW i \in I, NEW j \in I, i < j
  PROVE  Rank(I, i) < Rank(I, j)
<1> DEFINE S == {k \in I : k <= i}
           T == {k \in I : k <= j}
<1>1. S \in SUBSET T /\ T \in SUBSET I /\ j \in T /\ j \notin S
  <2>1. i \in Int /\ j \in Int
    OBVIOUS
  <2>2. ASSUME NEW k \in I, k <= i PROVE k <= j
    <3>1. k \in Int
      OBVIOUS
    <3> QED BY <2>1, <2>2, <3>1
  <2>3. ~(j <= i) /\ j <= j
    BY <2>1
  <2> QED BY <2>2, <2>3
<1>2. IsFiniteSet(T)
  BY <1>1, FS_Subset
<1>3. Cardinality(S) <= Cardinality(T) /\ (Cardinality(T) = Cardinality(S) => T = S)
  BY <1>1, <1>2, FS_Subset
<1>4. IsFiniteSet(S) /\ Cardinality(S) \in Nat /\ Cardinality(T) \in Nat
  BY <1>1, <1>2, FS_Subset, FS_CardinalityType
<1> HIDE DEF S, T
<1>5. Cardinality(S) < Cardinality(T)
  BY <1>1, <1>3, <1>4
<1> QED BY <1>5 DEF S, T, Rank

\* A set of indices is listed by their ranks.
LEMMA RankOnto ==
  ASSUME NEW I \in SUBSET Int, IsFiniteSet(I), NEW k \in 1 .. Cardinality(I)
  PROVE  \E i \in I : Rank(I, i) = k
<1> DEFINE rank == [i \in I |-> Rank(I, i)]
<1>1. rank \in [I -> 1 .. Cardinality(I)]
  BY RankType
<1>2. \A i, j \in I : rank[i] = rank[j] => i = j
  <2> SUFFICES ASSUME NEW i \in I, NEW j \in I, i # j PROVE rank[i] # rank[j]
    OBVIOUS
  <2>1. rank[i] \in Int /\ rank[j] \in Int
    BY <1>1
  <2>2. CASE i < j
    BY <2>1, <2>2, RankGrows
  <2>3. CASE j < i
    BY <2>1, <2>3, RankGrows
  <2> QED BY <2>2, <2>3
<1>3. rank \in Injection(I, 1 .. Cardinality(I))
  <2> HIDE DEF rank
  <2> QED BY <1>1, <1>2 DEF Injection, IsInjective
<1>4. /\ IsFiniteSet(1 .. Cardinality(I))
      /\ Cardinality(1 .. Cardinality(I)) = Cardinality(I)
  BY FS_CardinalityType, FS_Interval
<1>5. rank \in Surjection(I, 1 .. Cardinality(I))
  <2> HIDE DEF rank
  <2> QED BY <1>3, <1>4, FS_Injection
<1>6. \E i \in I : rank[i] = k
  <2> HIDE DEF rank
  <2> QED BY <1>5 DEF Surjection
<1> QED BY <1>6

\* at is the list of the indices in their order, and entries what s holds there.
Listed(entries, s, I, at) ==
    /\ at \in [1 .. Cardinality(I) -> I]
    /\ entries = [k \in 1 .. Cardinality(I) |-> s[at[k]]]
    /\ \A k, l \in 1 .. Cardinality(I) : k < l => at[k] < at[l]
    /\ \A i \in I : \E k \in 1 .. Cardinality(I) : at[k] = i

\* EntriesAt goes through the indices in their order, each once.
LEMMA EntriesAtAre ==
  ASSUME NEW s, NEW I \in SUBSET Int, IsFiniteSet(I)
  PROVE  \E at : Listed(EntriesAt(s, I), s, I, at)
<1> DEFINE n  == Cardinality(I)
           at == [k \in 1 .. n |-> CHOOSE i \in I : Rank(I, i) = k]
<1>1. at \in [1 .. n -> I] /\ \A k \in 1 .. n : Rank(I, at[k]) = k
  BY RankOnto
<1>2. EntriesAt(s, I) = [k \in 1 .. n |-> s[at[k]]]
  BY DEF EntriesAt, Rank
<1> HIDE DEF at
<1>0. n \in Nat /\ \A i \in I : i \in Int
  BY FS_CardinalityType
<1>3. ASSUME NEW k \in 1 .. n, NEW l \in 1 .. n, k < l PROVE at[k] < at[l]
  <2>1. at[k] \in I /\ at[l] \in I /\ Rank(I, at[k]) = k /\ Rank(I, at[l]) = l
    BY <1>1
  <2>2. at[k] \in Int /\ at[l] \in Int
    BY <1>0, <2>1
  <2>3. ~(at[l] < at[k])
    <3> SUFFICES ASSUME at[l] < at[k] PROVE FALSE
      OBVIOUS
    <3>1. Rank(I, at[l]) < Rank(I, at[k])
      BY <2>1, RankGrows
    <3> QED BY <1>0, <1>3, <2>1, <3>1
  <2>4. at[k] # at[l]
    BY <1>0, <1>3, <2>1
  <2> QED BY <2>2, <2>3, <2>4
<1>4. ASSUME NEW i \in I PROVE \E k \in 1 .. n : at[k] = i
  <2> DEFINE k == Rank(I, i)
  <2>1. k \in 1 .. n
    BY RankType
  <2>2. at[k] \in I /\ Rank(I, at[k]) = Rank(I, i)
    BY <1>1, <2>1
  <2>3. at[k] = i
    <3>1. at[k] \in Int /\ i \in Int /\ k \in Int
      <4>1. k \in Int
        BY <1>0, <2>1
      <4> QED BY <1>0, <2>2, <4>1
    <3>2. at[k] < i => k < k
      BY <2>2, RankGrows
    <3>3. i < at[k] => k < k
      BY <2>2, RankGrows
    <3> HIDE DEF k
    <3> QED BY <3>1, <3>2, <3>3
  <2> QED BY <2>1, <2>3
<1> QED BY <1>1, <1>2, <1>3, <1>4 DEF Listed

\* A set of indices that is not empty has a least one.
LEMMA LeastIndex ==
  ASSUME NEW I \in SUBSET Int, IsFiniteSet(I), I # {}
  PROVE  \E i \in I : \A j \in I : i <= j
<1> DEFINE n == Cardinality(I)
<1>1. n \in Nat /\ n # 0
  BY FS_EmptySet, FS_CardinalityType
<1>2. PICK i \in I : Rank(I, i) = 1
  <2>1. 1 \in 1 .. Cardinality(I)
    BY <1>1
  <2> QED BY <2>1, RankOnto
<1>3. ASSUME NEW j \in I PROVE i <= j
  <2>1. Rank(I, j) \in 1 .. n
    BY RankType
  <2>2. ~(j < i)
    <3> SUFFICES ASSUME j < i PROVE FALSE
      OBVIOUS
    <3>1. Rank(I, j) < Rank(I, i)
      BY RankGrows
    <3> QED BY <3>1, <2>1, <1>1, <1>2
  <2> QED BY <2>2
<1> QED BY <1>3

\* And a greatest one.
LEMMA GreatestIndex ==
  ASSUME NEW I \in SUBSET Int, IsFiniteSet(I), I # {}
  PROVE  \E i \in I : \A j \in I : j <= i
<1> DEFINE n == Cardinality(I)
<1>1. n \in Nat /\ n # 0
  BY FS_EmptySet, FS_CardinalityType
<1>2. PICK i \in I : Rank(I, i) = n
  <2>1. n \in 1 .. Cardinality(I)
    BY <1>1
  <2> QED BY <2>1, RankOnto
<1>3. ASSUME NEW j \in I PROVE j <= i
  <2>1. Rank(I, j) \in 1 .. n
    BY RankType
  <2>2. ~(i < j)
    <3> SUFFICES ASSUME i < j PROVE FALSE
      OBVIOUS
    <3>1. Rank(I, i) < Rank(I, j)
      BY RankGrows
    <3> QED BY <3>1, <2>1, <1>1, <1>2
  <2> QED BY <2>2
<1> QED BY <1>3

\* f, of length m, has each of the n entries of s once, in the order in which s
\* comes to them, and begins as s does.
Deduped(f, m, s, n, S) ==
    /\ f \in [1 .. m -> S]
    /\ \A k, l \in 1 .. m : f[k] = f[l] => k = l
    /\ \A i \in 1 .. n : \E k \in 1 .. m : f[k] = s[i]
    /\ \A k, l \in 1 .. m : \A i \in 1 .. n :
          k < l /\ s[i] = f[l] => \E j \in 1 .. i - 1 : s[j] = f[k]
    /\ f[1] = s[1]

\* The first occurrences are all the entries, without repetition and in order.
LEMMA FirstOccurrencesAre ==
  ASSUME NEW n \in Nat \ {0}, NEW S, NEW s \in [1 .. n -> S]
  PROVE  \E m \in Nat \ {0} : Deduped(FirstOccurrences(s), m, s, n, S)
<1> DEFINE I == Firsts(s)
           m == Cardinality(I)
           f == FirstOccurrences(s)
<1>1. I \in SUBSET (1 .. n) /\ \A i \in I : \A j \in 1 .. i - 1 : s[j] # s[i]
  BY DEF Firsts
<1>2. 1 \in I
  BY DEF Firsts
<1>3. IsFiniteSet(I) /\ m \in Nat \ {0} /\ I \in SUBSET Int
  <2>1. IsFiniteSet(1 .. n)
    BY FS_Interval
  <2>2. IsFiniteSet(I)
    BY <1>1, <2>1, FS_Subset
  <2> QED BY <1>1, <1>2, <2>2, FS_CardinalityType, FS_EmptySet
<1>4. PICK at \in [1 .. m -> I] :
         /\ f = [k \in 1 .. m |-> s[at[k]]]
         /\ \A k, l \in 1 .. m : k < l => at[k] < at[l]
         /\ \A i \in I : \E k \in 1 .. m : at[k] = i
  <2> HIDE DEF I
  <2>1. \E at : Listed(EntriesAt(s, I), s, I, at)
    BY <1>3, EntriesAtAre
  <2>2. f = EntriesAt(s, I)
    BY DEF FirstOccurrences, I
  <2> QED BY <2>1, <2>2 DEF Listed
<1> HIDE DEF m, f
<1>5. f \in [1 .. m -> S]
  BY <1>1, <1>4
<1>6. ASSUME NEW k \in 1 .. m, NEW l \in 1 .. m, f[k] = f[l] PROVE k = l
  <2>1. ASSUME NEW a \in 1 .. m, NEW b \in 1 .. m, a < b PROVE f[a] # f[b]
    <3>1. at[a] \in I /\ at[b] \in I /\ at[a] < at[b]
      BY <1>4, <2>1
    <3>2. at[a] \in 1 .. at[b] - 1
      BY <1>1, <3>1
    <3>3. s[at[a]] # s[at[b]]
      BY <1>1, <3>1, <3>2
    <3> QED BY <1>4, <3>3
  <2>2. m \in Nat
    BY <1>3
  <2> QED BY <1>6, <2>1, <2>2
<1>7. ASSUME NEW i \in 1 .. n PROVE \E k \in 1 .. m : f[k] = s[i]
  <2> DEFINE J == {j \in 1 .. n : s[j] = s[i]}
  <2>1. J \in SUBSET Int /\ IsFiniteSet(J) /\ J # {}
    <3>1. IsFiniteSet(1 .. n) /\ J \in SUBSET (1 .. n)
      BY FS_Interval
    <3>2. IsFiniteSet(J)
      BY <3>1, FS_Subset
    <3> QED BY <3>2
  <2>2. PICK j \in J : \A k \in J : j <= k
    <3> HIDE DEF J
    <3> QED BY <2>1, LeastIndex
  <2>3. j \in I
    BY <2>2 DEF Firsts
  <2>4. PICK k \in 1 .. m : at[k] = j
    BY <1>4, <2>3
  <2> QED BY <1>4, <2>2, <2>4
<1>8. f[1] = s[1]
  <2>1. PICK k \in 1 .. m : at[k] = 1
    BY <1>2, <1>4
  <2>2. 1 \in 1 .. m
    BY <1>3
  <2>3. k = 1
    <3> SUFFICES ASSUME 1 < k PROVE FALSE
      BY <1>3
    <3>1. at[1] < at[k]
      BY <1>4, <2>2
    <3>2. at[1] \in 1 .. n
      BY <1>1, <1>4, <2>2
    <3> QED BY <2>1, <3>1, <3>2
  <2> QED BY <1>4, <2>1, <2>2, <2>3
<1>9. ASSUME NEW k \in 1 .. m, NEW l \in 1 .. m, NEW i \in 1 .. n, k < l, s[i] = f[l]
      PROVE  \E j \in 1 .. i - 1 : s[j] = f[k]
  <2>1. at[k] \in I /\ at[l] \in I /\ at[k] < at[l] /\ f[k] = s[at[k]] /\ s[i] = s[at[l]]
    BY <1>4, <1>9
  <2>2. at[k] \in 1 .. n /\ at[l] \in 1 .. n
    BY <1>1, <2>1
  <2>3. i \notin 1 .. at[l] - 1
    BY <1>1, <2>1
  <2>4. at[k] \in 1 .. i - 1
    BY <2>1, <2>2, <2>3
  <2> QED BY <2>1, <2>4
<1> HIDE DEF I
<1>10. Deduped(f, m, s, n, S)
  BY <1>5, <1>6, <1>7, <1>8, <1>9 DEF Deduped
<1> QED BY <1>3, <1>10 DEF f
-----------------------------------------------------------------------------
\* The weights up to p, one provider after the other.
LEMMA WeightOfType ==
  ASSUME NEW w \in Seq(Nat), NEW D \in SUBSET DOMAIN w
  PROVE  /\ IsFiniteSet(D)
         /\ [p \in D |-> w[p]] \in [D -> Nat]
         /\ WeightOf(w, D) \in Nat
<1>1. DOMAIN w = 1 .. Len(w) /\ Len(w) \in Nat /\ \A p \in DOMAIN w : w[p] \in Nat
  OBVIOUS
<1>2. IsFiniteSet(D)
  <2>1. IsFiniteSet(1 .. Len(w))
    BY <1>1, FS_Interval
  <2> QED BY <1>1, <2>1, FS_Subset
<1>3. [p \in D |-> w[p]] \in [D -> Nat]
  BY <1>1
<1>4. Sum([p \in D |-> w[p]]) \in Nat
  BY <1>2, <1>3, SumType
<1> QED BY <1>2, <1>3, <1>4 DEF WeightOf

\* Before the first provider there is no weight,
LEMMA UpToZero ==
  ASSUME NEW w \in Seq(Nat)
  PROVE  UpTo(w, 0) = 0
<1>1. DOMAIN [p \in 1 .. 0 |-> w[p]] = {}
  OBVIOUS
<1> QED BY <1>1, SumEmpty DEF UpTo, WeightOf

\* up to the last there is all of it,
LEMMA UpToAll ==
  ASSUME NEW w \in Seq(Nat)
  PROVE  UpTo(w, Len(w)) = Total(w)
<1>1. DOMAIN w = 1 .. Len(w)
  OBVIOUS
<1> QED BY <1>1 DEF UpTo, Total

\* up to any there is some number of it,
LEMMA UpToType ==
  ASSUME NEW w \in Seq(Nat), NEW p \in 0 .. Len(w)
  PROVE  UpTo(w, p) \in Nat
<1>1. 1 .. p \in SUBSET DOMAIN w
  <2>1. DOMAIN w = 1 .. Len(w) /\ Len(w) \in Nat
    OBVIOUS
  <2> QED BY <2>1
<1> QED BY <1>1, WeightOfType DEF UpTo

\* each provider adds its own,
LEMMA UpToNext ==
  ASSUME NEW w \in Seq(Nat), NEW p \in DOMAIN w
  PROVE  /\ p - 1 \in 0 .. Len(w) /\ p \in 0 .. Len(w)
         /\ UpTo(w, p) = UpTo(w, p - 1) + w[p]
<1>1. DOMAIN w = 1 .. Len(w) /\ Len(w) \in Nat /\ p \in 1 .. Len(w)
  OBVIOUS
<1>2. p - 1 \in 0 .. Len(w) /\ p \in 0 .. Len(w)
  BY <1>1
<1> DEFINE D == 1 .. p
           f == [q \in 1 .. p - 1 |-> w[q]]
           g == [q \in 1 .. p |-> w[q]]
<1>3. D \in SUBSET DOMAIN w /\ p \in D /\ D \ {p} = 1 .. p - 1
  BY <1>1
<1>4. IsFiniteSet(D) /\ g \in [D -> Nat]
  BY <1>3, WeightOfType
<1>5. f = [q \in D \ {p} |-> g[q]]
  BY <1>3
<1>7. g[p] = w[p]
  BY <1>1
<1>8. Sum(g) = Sum(f) + g[p]
  <2> HIDE DEF D, f, g
  <2>1. Sum(g) = Sum([q \in D \ {p} |-> g[q]]) + g[p]
    BY <1>3, <1>4, SumWithout
  <2> QED BY <1>5, <2>1
<1> QED BY <1>2, <1>7, <1>8 DEF UpTo, WeightOf

\* and so it grows along the list.
LEMMA UpToGrows ==
  ASSUME NEW w \in Seq(Nat), NEW p \in 0 .. Len(w), NEW q \in 0 .. Len(w), p <= q
  PROVE  UpTo(w, p) <= UpTo(w, q)
<1> DEFINE f == [i \in 1 .. p |-> w[i]]
           g == [i \in 1 .. q |-> w[i]]
<1>1. 1 .. p \in SUBSET (1 .. q) /\ 1 .. q \in SUBSET DOMAIN w
  <2>1. DOMAIN w = 1 .. Len(w) /\ Len(w) \in Nat
    OBVIOUS
  <2> QED BY <2>1
<1>2. IsFiniteSet(1 .. q) /\ f \in [1 .. p -> Nat] /\ g \in [1 .. q -> Nat]
  <2>1. 1 .. p \in SUBSET DOMAIN w
    BY <1>1
  <2> QED BY <1>1, <2>1, WeightOfType
<1>3. \A i \in 1 .. p : f[i] <= g[i]
  <2> SUFFICES ASSUME NEW i \in 1 .. p PROVE f[i] <= g[i]
    OBVIOUS
  <2>1. f[i] = w[i] /\ g[i] = w[i] /\ f[i] \in Nat
    BY <1>1, <1>2
  <2> QED BY <2>1
<1>4. Sum(f) <= Sum(g)
  <2> HIDE DEF f, g
  <2> QED BY <1>1, <1>2, <1>3, SumLess
<1> QED BY <1>4 DEF UpTo, WeightOf

\* The slots of provider p are those after its predecessors'.
Slots(w, p) == (UpTo(w, p - 1) + 1) .. UpTo(w, p)

\* In the cycle p has as many slots as its weight says, next to each other.
LEMMA CycleIs ==
  ASSUME NEW w \in Seq(Nat)
  PROVE  /\ Total(w) \in Nat
         /\ buildCycle(w) \in [1 .. Total(w) -> DOMAIN w]
         /\ \A p \in DOMAIN w :
               /\ {slot \in 1 .. Total(w) : buildCycle(w)[slot] = p} = Slots(w, p)
               /\ IsFiniteSet(Slots(w, p))
               /\ Cardinality(Slots(w, p)) = w[p]
<1> DEFINE n == Len(w)
           N == Total(w)
           Holds(slot, p) == UpTo(w, p - 1) < slot /\ slot <= UpTo(w, p)
<1>1. DOMAIN w = 1 .. n /\ n \in Nat /\ (\A p \in 1 .. n : w[p] \in Nat)
  OBVIOUS
<1>2. N \in Nat /\ UpTo(w, n) = N /\ UpTo(w, 0) = 0
  <2>1. n \in 0 .. n
    BY <1>1
  <2> QED BY <2>1, UpToZero, UpToAll, UpToType
<1>3. \A p \in 0 .. n : UpTo(w, p) \in Nat
  BY UpToType
<1>4. \A p, q \in 0 .. n : p <= q => UpTo(w, p) <= UpTo(w, q)
  BY UpToGrows
<1>5. ASSUME NEW p \in 1 .. n
      PROVE  /\ p - 1 \in 0 .. n /\ p \in 0 .. n
             /\ UpTo(w, p) = UpTo(w, p - 1) + w[p] /\ w[p] \in Nat
  BY <1>1, UpToNext
<1> HIDE DEF n, N
<1>6. ASSUME NEW slot \in 1 .. N PROVE \E p \in 1 .. n : Holds(slot, p)
  <2> DEFINE I == {p \in 1 .. n : slot <= UpTo(w, p)}
  <2>1. I \in SUBSET Int /\ IsFiniteSet(I)
    <3>1. I \in SUBSET (1 .. n) /\ IsFiniteSet(1 .. n)
      BY <1>1, FS_Interval
    <3>2. IsFiniteSet(I)
      BY <3>1, FS_Subset
    <3> QED BY <3>2
  <2>2. n \in I
    <3>1. n # 0
      BY <1>2, <1>6
    <3> QED BY <1>1, <1>2, <3>1
  <2>3. PICK p \in I : \A q \in I : p <= q
    <3> HIDE DEF I
    <3> QED BY <2>1, <2>2, LeastIndex
  <2>4. p \in 1 .. n /\ slot <= UpTo(w, p)
    OBVIOUS
  <2>5. UpTo(w, p - 1) < slot
    <3>1. CASE p = 1
      <4>1. p - 1 = 0
        BY <3>1
      <4> QED BY <1>2, <4>1
    <3>2. CASE p # 1
      <4>1. p - 1 \in 1 .. n /\ ~(p <= p - 1)
        BY <1>1, <2>4, <3>2
      <4>2. p - 1 \notin I
        BY <2>3, <4>1
      <4>3. ~(slot <= UpTo(w, p - 1)) /\ UpTo(w, p - 1) \in Nat
        BY <1>3, <1>5, <2>4, <4>1, <4>2
      <4> QED BY <4>3
    <3> QED BY <3>1, <3>2
  <2> QED BY <2>4, <2>5
<1>7. ASSUME NEW slot \in 1 .. N, NEW p \in 1 .. n, NEW q \in 1 .. n, p < q,
             Holds(slot, p), Holds(slot, q)
      PROVE  FALSE
  <2>1. p \in 0 .. n /\ q - 1 \in 0 .. n /\ p <= q - 1
    BY <1>5, <1>7
  <2>2. UpTo(w, p) <= UpTo(w, q - 1) /\ UpTo(w, p) \in Nat /\ UpTo(w, q - 1) \in Nat
    BY <1>3, <1>4, <2>1
  <2> QED BY <1>7, <2>2
<1>8. ASSUME NEW slot \in 1 .. N, NEW p \in 1 .. n
      PROVE  /\ buildCycle(w)[slot] \in 1 .. n
             /\ buildCycle(w)[slot] = p <=> Holds(slot, p)
  <2> DEFINE c == CHOOSE q \in 1 .. n : Holds(slot, q)
  <2>1. buildCycle(w)[slot] = c
    BY <1>1 DEF buildCycle, N
  <2>2. c \in 1 .. n /\ Holds(slot, c)
    <3> HIDE DEF Holds
    <3> QED BY <1>6
  <2>3. Holds(slot, p) => c = p
    <3> HIDE DEF c, Holds
    <3>1. ~(c < p /\ Holds(slot, p)) /\ ~(p < c /\ Holds(slot, p))
      BY <1>7, <2>2
    <3>2. c \in Int /\ p \in Int
      BY <2>2
    <3> QED BY <3>1, <3>2
  <2> HIDE DEF c, Holds
  <2> QED BY <2>1, <2>2, <2>3
<1>9. buildCycle(w) \in [1 .. N -> DOMAIN w]
  <2>1. ASSUME NEW slot \in 1 .. N PROVE buildCycle(w)[slot] \in 1 .. n
    <3>1. n # 0
      BY <1>2, <2>1
    <3>2. n \in 1 .. n
      BY <1>1, <3>1
    <3> QED BY <1>8, <3>2
  <2>2. buildCycle(w) = [slot \in 1 .. N |-> buildCycle(w)[slot]]
    BY DEF buildCycle, N
  <2> QED BY <1>1, <2>1, <2>2
<1>10. ASSUME NEW p \in 1 .. n
       PROVE  /\ {slot \in 1 .. N : buildCycle(w)[slot] = p} = Slots(w, p)
              /\ IsFiniteSet(Slots(w, p))
              /\ Cardinality(Slots(w, p)) = w[p]
  <2>1. /\ UpTo(w, p) \in Nat /\ UpTo(w, p - 1) \in Nat /\ UpTo(w, p) <= N
        /\ UpTo(w, p) = UpTo(w, p - 1) + w[p] /\ w[p] \in Nat
    <3>1. n \in 0 .. n /\ p <= n
      BY <1>1
    <3> QED BY <1>2, <1>3, <1>4, <1>5, <3>1
  <2>2. ASSUME NEW slot
        PROVE  slot \in Slots(w, p) <=> slot \in 1 .. N /\ Holds(slot, p)
    <3> DEFINE lo == UpTo(w, p - 1)
               hi == UpTo(w, p)
    <3>1. lo \in Nat /\ hi \in Nat /\ hi <= N /\ N \in Nat
      BY <1>2, <2>1
    <3> HIDE DEF lo, hi, N
    <3>2. slot \in lo + 1 .. hi <=> slot \in 1 .. N /\ lo < slot /\ slot <= hi
      BY <3>1
    <3> QED BY <3>2 DEF lo, hi, Slots
  <2>3. {slot \in 1 .. N : buildCycle(w)[slot] = p} = Slots(w, p)
    <3> HIDE DEF Holds
    <3> QED BY <1>8, <2>2
  <2>4. /\ IsFiniteSet(Slots(w, p))
        /\ Cardinality(Slots(w, p)) = w[p]
    <3>1. UpTo(w, p - 1) + 1 \in Int /\ UpTo(w, p) \in Int
      BY <2>1
    <3>2. /\ IsFiniteSet(Slots(w, p))
          /\ Cardinality(Slots(w, p)) = IF UpTo(w, p - 1) + 1 > UpTo(w, p) THEN 0
                                        ELSE UpTo(w, p) - (UpTo(w, p - 1) + 1) + 1
      BY <3>1, FS_Interval DEF Slots
    <3> QED BY <2>1, <3>2
  <2> QED BY <2>3, <2>4
<1> QED BY <1>1, <1>2, <1>9, <1>10 DEF N
-----------------------------------------------------------------------------
\* Division with remainder, as the solver states it.
LEMMA DivMod ==
  ASSUME NEW a \in Int, NEW N \in Nat \ {0}
  PROVE  /\ a \div N \in Int /\ a % N \in 0 .. N - 1
         /\ a = N * (a \div N) + (a % N)
OBVIOUS

\* A positive multiple of a number is at least the number.
LEMMA TimesAtLeast ==
  ASSUME NEW N \in Nat \ {0}, NEW c \in Int, c >= 1
  PROVE  N * c >= N
<1>1. N * c = N * (c - 1) + N
  OBVIOUS
<1>2. N * (c - 1) >= 0
  OBVIOUS
<1>3. N * c \in Int /\ N * (c - 1) \in Int
  OBVIOUS
<1> QED BY <1>1, <1>2, <1>3

\* Quotient and remainder are the only ones.
LEMMA DivModUnique ==
  ASSUME NEW a \in Int, NEW N \in Nat \ {0}, NEW q \in Int, NEW t \in 0 .. N - 1, a = N * q + t
  PROVE  a \div N = q /\ a % N = t
<1> DEFINE d == a \div N
           m == a % N
<1>1. d \in Int /\ m \in 0 .. N - 1 /\ a = N * d + m
  BY DivMod
<1> HIDE DEF d, m
<1>2. N * (d - q) = t - m /\ N * (q - d) = m - t
  BY <1>1
<1>3. ~(d - q >= 1)
  <2> SUFFICES ASSUME d - q >= 1 PROVE FALSE
    OBVIOUS
  <2>1. N * (d - q) >= N
    BY <1>1, TimesAtLeast
  <2> QED BY <1>1, <1>2, <2>1
<1>4. ~(q - d >= 1)
  <2> SUFFICES ASSUME q - d >= 1 PROVE FALSE
    OBVIOUS
  <2>1. N * (q - d) >= N
    BY <1>1, TimesAtLeast
  <2> QED BY <1>1, <1>2, <2>1
<1>5. d = q
  BY <1>1, <1>3, <1>4
<1>6. m = t
  <2>1. N * q = N * d
    BY <1>5
  <2> QED BY <1>1, <2>1
<1> QED BY <1>5, <1>6 DEF d, m

\* From whichever cursor it starts, the walk meets each slot of a cycle.
LEMMA WalkMeets ==
  ASSUME NEW N \in Nat \ {0}, NEW start \in Nat, NEW slot \in 1 .. N
  PROVE  \E i \in 1 .. N : 1 + ((start + i - 1) % N) = slot
<1> DEFINE q == start \div N
           t == start % N
<1>1. q \in Int /\ t \in 0 .. N - 1 /\ start = N * q + t
  BY DivMod
<1> HIDE DEF q, t
<1>2. CASE t <= slot - 1
  <2> DEFINE i == slot - t
  <2>1. i \in 1 .. N /\ start + i - 1 \in Int /\ slot - 1 \in 0 .. N - 1
    BY <1>1, <1>2
  <2>2. start + i - 1 = N * q + (slot - 1)
    <3>1. N * q \in Int
      BY <1>1
    <3> QED BY <1>1, <3>1
  <2> HIDE DEF i
  <2>3. (start + i - 1) % N = slot - 1
    BY <1>1, <2>1, <2>2, DivModUnique
  <2> QED BY <2>1, <2>3
<1>3. CASE ~(t <= slot - 1)
  <2> DEFINE i == slot - t + N
  <2>1. i \in 1 .. N /\ start + i - 1 \in Int /\ slot - 1 \in 0 .. N - 1 /\ q + 1 \in Int
    BY <1>1, <1>3
  <2>2. start + i - 1 = N * (q + 1) + (slot - 1)
    <3>1. N * q \in Int /\ N * (q + 1) = N * q + N
      BY <1>1
    <3> QED BY <1>1, <3>1
  <2> HIDE DEF i
  <2>3. (start + i - 1) % N = slot - 1
    BY <2>1, <2>2, DivModUnique
  <2>4. 1 + ((start + i - 1) % N) = slot
    BY <2>3
  <2> QED BY <2>1, <2>4
<1> QED BY <1>2, <1>3

\* An order that names each of n providers once.
Complete(n, o) ==
    /\ o \in [1 .. n -> 1 .. n]
    /\ \A i, j \in 1 .. n : o[i] = o[j] => i = j
    /\ \A p \in 1 .. n : \E i \in 1 .. n : o[i] = p

\* The slots that a request comes to which found the cursor at start.
Walk(w, start) ==
    [i \in 1 .. Total(w) |-> buildCycle(w)[1 + ((start + i - 1) % Total(w))]]

\* Whichever cursor it finds, a round-robin request tries each provider once, and
\* first the one whose slot of the cycle it found.
LEMMA RoundRobinOrderIs ==
  ASSUME NEW w \in Seq(Nat \ {0}), w # <<>>, NEW start \in Nat
  PROVE  /\ Total(w) \in Nat \ {0}
         /\ Complete(Len(w), roundRobinOrder(w, start))
         /\ Walk(w, start) \in [1 .. Total(w) -> 1 .. Len(w)]
         /\ Deduped(roundRobinOrder(w, start), Len(w), Walk(w, start), Total(w), 1 .. Len(w))
         /\ roundRobinOrder(w, start)[1] = buildCycle(w)[1 + (start % Total(w))]
<1> DEFINE n == Len(w)
           N == Total(w)
           cycle == buildCycle(w)
           walk == [i \in 1 .. N |-> cycle[1 + ((start + i - 1) % N)]]
<1>1. /\ w \in Seq(Nat) /\ DOMAIN w = 1 .. n /\ n \in Nat \ {0}
      /\ \A p \in 1 .. n : w[p] \in Nat \ {0}
  OBVIOUS
<1>2. /\ N \in Nat /\ cycle \in [1 .. N -> 1 .. n]
      /\ \A p \in 1 .. n : {slot \in 1 .. N : cycle[slot] = p} # {}
  <2>1. N \in Nat /\ cycle \in [1 .. N -> 1 .. n]
    BY <1>1, CycleIs
  <2>2. ASSUME NEW p \in 1 .. n PROVE {slot \in 1 .. N : cycle[slot] = p} # {}
    <3>1. /\ {slot \in 1 .. N : cycle[slot] = p} = Slots(w, p)
          /\ Cardinality(Slots(w, p)) # 0
      BY <1>1, CycleIs
    <3> QED BY <3>1, FS_EmptySet
  <2> QED BY <2>1, <2>2
<1>3. N # 0
  <2>1. 1 \in 1 .. n
    BY <1>1
  <2> QED BY <1>2, <2>1
<1> HIDE DEF N, n, cycle
<1>4. DOMAIN cycle = 1 .. N /\ Len(cycle) = N
  BY <1>2
<1>5. roundRobinOrder(w, start) = FirstOccurrences(walk)
  BY <1>4 DEF roundRobinOrder, cycle
<1>6. ASSUME NEW i \in 1 .. N PROVE 1 + ((start + i - 1) % N) \in 1 .. N
  <2>1. start + i - 1 \in Int /\ N \in Nat \ {0}
    BY <1>2, <1>3
  <2>2. (start + i - 1) % N \in 0 .. N - 1
    BY <2>1, DivMod
  <2> QED BY <1>2, <2>2
<1>7. walk \in [1 .. N -> 1 .. n]
  BY <1>2, <1>6
<1>8. ASSUME NEW p \in 1 .. n PROVE \E i \in 1 .. N : walk[i] = p
  <2>1. PICK slot \in 1 .. N : cycle[slot] = p
    BY <1>2
  <2>2. PICK i \in 1 .. N : 1 + ((start + i - 1) % N) = slot
    BY <1>2, <1>3, WalkMeets
  <2> QED BY <2>1, <2>2
<1> DEFINE o == FirstOccurrences(walk)
<1>9. PICK m \in Nat \ {0} :
        /\ Deduped(o, m, walk, N, 1 .. n)
        /\ o \in [1 .. m -> 1 .. n]
        /\ \A k, l \in 1 .. m : o[k] = o[l] => k = l
        /\ \A i \in 1 .. N : \E k \in 1 .. m : o[k] = walk[i]
        /\ o[1] = walk[1]
  <2>1. N \in Nat \ {0}
    BY <1>2, <1>3
  <2> HIDE DEF walk
  <2>2. \E m \in Nat \ {0} : Deduped(o, m, walk, N, 1 .. n)
    BY <1>7, <2>1, FirstOccurrencesAre
  <2> QED BY <2>2 DEF Deduped
<1>10. walk[1] = cycle[1 + (start % N)]
  <2>1. 1 \in 1 .. N /\ start + 1 - 1 = start
    BY <1>2, <1>3
  <2> QED BY <2>1
<1> HIDE DEF walk, o
<1>11. ASSUME NEW p \in 1 .. n PROVE \E k \in 1 .. m : o[k] = p
  <2>1. PICK i \in 1 .. N : walk[i] = p
    BY <1>8
  <2> QED BY <1>9, <2>1
<1>12. m = n
  <2>1. o \in Surjection(1 .. m, 1 .. n) /\ o \in Injection(1 .. m, 1 .. n)
    BY <1>9, <1>11 DEF Surjection, Injection, IsInjective
  <2>2. IsFiniteSet(1 .. m) /\ Cardinality(1 .. m) = m /\ Cardinality(1 .. n) = n
    BY <1>1, <1>9, FS_Interval
  <2>3. Cardinality(1 .. n) = Cardinality(1 .. m)
    BY <2>1, <2>2, FS_Surjection
  <2> QED BY <2>2, <2>3
<1>13. Complete(n, o)
  BY <1>9, <1>11, <1>12 DEF Complete
<1>14. Walk(w, start) = walk
  BY DEF Walk, walk, N, cycle
<1>15. Deduped(o, n, walk, N, 1 .. n)
  BY <1>9, <1>12
<1>16. /\ N \in Nat \ {0}
       /\ Complete(n, roundRobinOrder(w, start))
       /\ Walk(w, start) \in [1 .. N -> 1 .. n]
       /\ Deduped(roundRobinOrder(w, start), n, Walk(w, start), N, 1 .. n)
       /\ roundRobinOrder(w, start)[1] = cycle[1 + (start % N)]
  BY <1>2, <1>3, <1>5, <1>7, <1>9, <1>10, <1>13, <1>14, <1>15 DEF o
<1> QED BY <1>16 DEF N, n, cycle
-----------------------------------------------------------------------------
\* Where a draw stops subtracting.
Stopped(w, left, draw, resolution, p) ==
    \/ draw * WeightOf(w, left) < resolution * WeightOf(w, {q \in left : q <= p})
    \/ \A q \in left : q <= p

\* A draw picks the first of those left at which it stops.
LEMMA PickIs ==
  ASSUME NEW w, NEW left \in SUBSET Int, IsFiniteSet(left), left # {},
         NEW draw, NEW resolution
  PROVE  /\ Pick(w, left, draw, resolution) \in left
         /\ Stopped(w, left, draw, resolution, Pick(w, left, draw, resolution))
         /\ \A q \in left : Stopped(w, left, draw, resolution, q)
                               => Pick(w, left, draw, resolution) <= q
<1> DEFINE Stops(p) == Stopped(w, left, draw, resolution, p)
           I == {p \in left : Stops(p)}
<1>1. PICK top \in left : \A q \in left : q <= top
  BY GreatestIndex
<1>2. top \in I
  BY <1>1 DEF Stopped
<1>3. I \in SUBSET Int /\ IsFiniteSet(I)
  BY FS_Subset
<1>4. PICK least \in I : \A q \in I : least <= q
  <2> HIDE DEF I
  <2> QED BY <1>2, <1>3, LeastIndex
<1>5. \E p \in left : Stops(p) /\ \A q \in left : Stops(q) => p <= q
  BY <1>4
<1>6. Pick(w, left, draw, resolution)
        = CHOOSE p \in left : Stops(p) /\ \A q \in left : Stops(q) => p <= q
  BY DEF Pick, Stopped
<1> HIDE DEF Stops, I
<1>7. /\ Pick(w, left, draw, resolution) \in left
      /\ Stops(Pick(w, left, draw, resolution))
      /\ \A q \in left : Stops(q) => Pick(w, left, draw, resolution) <= q
  BY <1>5, <1>6
<1> QED BY <1>7 DEF Stops

\* A function from 1 .. n into itself that repeats nothing leaves nothing out.
LEMMA OntoOnce ==
  ASSUME NEW n \in Nat, NEW o \in [1 .. n -> 1 .. n],
         \A i, j \in 1 .. n : i < j => o[i] # o[j]
  PROVE  Complete(n, o)
<1>1. \A i, j \in 1 .. n : o[i] = o[j] => i = j
  OBVIOUS
<1>2. o \in Injection(1 .. n, 1 .. n)
  BY <1>1 DEF Injection, IsInjective
<1>3. o \in Surjection(1 .. n, 1 .. n)
  <2>1. IsFiniteSet(1 .. n)
    BY FS_Interval
  <2> QED BY <1>2, <2>1, FS_Injection
<1> QED BY <1>1, <1>3 DEF Complete, Surjection

\* A random order tries each provider once, whatever the draws and the weights.
LEMMA RandomOrdersAre ==
  ASSUME NEW w \in Seq(Nat), NEW resolution, NEW o \in randomOrders(w, resolution)
  PROVE  Complete(Len(w), o)
<1> DEFINE n == Len(w)
           Picked(i) == {o[m] : m \in 1 .. i - 1}
           Left(i) == (1 .. n) \ Picked(i)
<1>1. DOMAIN w = 1 .. n /\ n \in Nat
  OBVIOUS
<1> HIDE DEF n
<1>2. o \in [1 .. n -> 1 .. n]
  BY <1>1 DEF randomOrders
<1>3. ASSUME NEW i \in 1 .. n PROVE \E draw : o[i] = Pick(w, Left(i), draw, resolution)
  BY <1>1 DEF randomOrders
<1>4. ASSUME NEW i \in 1 .. n PROVE o[i] \in Left(i)
  <2>1. PICK draw : o[i] = Pick(w, Left(i), draw, resolution)
    BY <1>3
  <2>2. IsFiniteSet(1 .. n) /\ Cardinality(1 .. n) = n
    BY <1>1, FS_Interval
  <2>3. IsFiniteSet(Left(i)) /\ Left(i) \in SUBSET Int
    <3>1. Left(i) \in SUBSET (1 .. n)
      OBVIOUS
    <3>2. IsFiniteSet(Left(i))
      <4> HIDE DEF Left
      <4> QED BY <2>2, <3>1, FS_Subset
    <3> QED BY <3>2
  <2>4. Left(i) # {}
    <3> DEFINE f == [m \in 1 .. i - 1 |-> o[m]]
    <3>1. f \in Surjection(1 .. i - 1, Picked(i))
      <4>1. f \in [1 .. i - 1 -> Picked(i)]
        OBVIOUS
      <4>2. \A y \in Picked(i) : \E m \in 1 .. i - 1 : f[m] = y
        OBVIOUS
      <4> HIDE DEF f, Picked
      <4> QED BY <4>1, <4>2 DEF Surjection
    <3>2. IsFiniteSet(1 .. i - 1) /\ Cardinality(1 .. i - 1) = i - 1
      BY <1>1, FS_Interval
    <3>3. IsFiniteSet(Picked(i)) /\ Cardinality(Picked(i)) <= i - 1
      <4> HIDE DEF f, Picked
      <4> QED BY <3>1, <3>2, FS_Surjection
    <3>4. Cardinality(Picked(i)) \in Nat
      <4> HIDE DEF f, Picked
      <4> QED BY <3>3, FS_CardinalityType
    <3>5. ~(Cardinality(Picked(i)) = n)
      BY <1>1, <3>3, <3>4
    <3>6. ~((1 .. n) \in SUBSET Picked(i))
      <4> SUFFICES ASSUME (1 .. n) \in SUBSET Picked(i) PROVE FALSE
        OBVIOUS
      <4> HIDE DEF f, Picked
      <4>1. Cardinality(1 .. n) <= Cardinality(Picked(i))
        BY <3>3, FS_Subset
      <4>2. n <= Cardinality(Picked(i))
        BY <2>2, <4>1
      <4> QED BY <1>1, <3>3, <3>4, <3>5, <4>2
    <3> QED BY <3>6
  <2>5. Pick(w, Left(i), draw, resolution) \in Left(i)
    <3> HIDE DEF Left
    <3> QED BY <2>3, <2>4, PickIs
  <2> QED BY <2>1, <2>5
<1>5. ASSUME NEW i \in 1 .. n, NEW j \in 1 .. n, i < j PROVE o[i] # o[j]
  <2>1. i \in 1 .. j - 1
    BY <1>5
  <2>2. o[j] \notin Picked(j)
    BY <1>4
  <2> QED BY <2>1, <2>2
<1>6. Complete(n, o)
  BY <1>1, <1>2, <1>5, OntoOnce
<1> QED BY <1>6 DEF n

\* Config order tries each provider once.
LEMMA IdentityOrderIs ==
  ASSUME NEW w \in Seq(Nat)
  PROVE  Complete(Len(w), identityOrder(w))
<1>1. DOMAIN w = 1 .. Len(w)
  OBVIOUS
<1> QED BY <1>1 DEF Complete, identityOrder

\* Whatever the algorithm, the cursor and the draws, the order of a request names
\* each provider once.
LEMMA AttemptOrderIs ==
  ASSUME NEW w \in Seq(Nat \ {0}), w # <<>>, NEW algorithm, NEW cursor_ \in Nat, NEW resolution,
         NEW o \in attemptOrder(algorithm, w, cursor_, resolution)
  PROVE  Complete(Len(w), o)
<1>1. w \in Seq(Nat)
  OBVIOUS
<1>2. CASE algorithm = "round_robin"
  BY <1>2, RoundRobinOrderIs DEF attemptOrder
<1>3. CASE algorithm = "random"
  <2>1. o \in randomOrders(w, resolution)
    BY <1>3 DEF attemptOrder
  <2> QED BY <1>1, <2>1, RandomOrdersAre
<1>4. CASE algorithm # "round_robin" /\ algorithm # "random"
  BY <1>1, <1>4, IdentityOrderIs DEF attemptOrder
<1> QED BY <1>2, <1>3, <1>4
-----------------------------------------------------------------------------
\* The cursors from one to another at which p has the slot.
Turns(w, p, from, to) == {c \in from .. to : buildCycle(w)[1 + (c % Total(w))] = p}

\* There are k numbers below k.
LEMMA FirstNaturals ==
  ASSUME NEW k \in Nat
  PROVE  IsFiniteSet(0 .. k - 1) /\ Cardinality(0 .. k - 1) = k
<1> DEFINE b == k - 1
<1>1. b \in Int /\ b + 1 = k /\ (0 > b => k = 0)
  OBVIOUS
<1> HIDE DEF b
<1>2. IsFiniteSet(0 .. b) /\ Cardinality(0 .. b) = IF 0 > b THEN 0 ELSE b - 0 + 1
  BY <1>1, FS_Interval
<1>3. IsFiniteSet(0 .. b) /\ Cardinality(0 .. b) = k
  BY <1>1, <1>2
<1> QED BY <1>3 DEF b

\* In k whole cycles each provider has its weight's number of turns, k times.
LEMMA TurnsInCycles ==
  ASSUME NEW w \in Seq(Nat), Total(w) # 0, NEW p \in DOMAIN w, NEW k \in Nat
  PROVE  /\ IsFiniteSet(Turns(w, p, 0, Total(w) * k - 1))
         /\ Cardinality(Turns(w, p, 0, Total(w) * k - 1)) = k * w[p]
<1> DEFINE N == Total(w)
           T == Turns(w, p, 0, N * k - 1)
           P == (0 .. k - 1) \X Slots(w, p)
           f == [x \in P |-> N * x[1] + x[2] - 1]
<1>1. N \in Nat \ {0} /\ N * k \in Nat
  BY CycleIs
<1>2. /\ {slot \in 1 .. N : buildCycle(w)[slot] = p} = Slots(w, p)
      /\ IsFiniteSet(Slots(w, p)) /\ Cardinality(Slots(w, p)) = w[p]
  BY CycleIs
<1> HIDE DEF N
<1>3. IsFiniteSet(P) /\ Cardinality(P) = k * w[p]
  <2> DEFINE A == 0 .. k - 1
             B == Slots(w, p)
  <2>1. /\ IsFiniteSet(A) /\ Cardinality(A) = k
        /\ IsFiniteSet(B) /\ Cardinality(B) = w[p]
    BY <1>2, FirstNaturals
  <2> HIDE DEF A, B
  <2>2. IsFiniteSet(A \X B) /\ Cardinality(A \X B) = Cardinality(A) * Cardinality(B)
    BY <2>1, FS_Product
  <2> QED BY <2>1, <2>2 DEF A, B
<1>4. ASSUME NEW x \in P
      PROVE  /\ x[1] \in 0 .. k - 1 /\ x[2] \in Slots(w, p) /\ x[2] \in 1 .. N /\ x = <<x[1], x[2]>>
             /\ buildCycle(w)[x[2]] = p
             /\ f[x] \in 0 .. N * k - 1
             /\ f[x] \div N = x[1] /\ f[x] % N = x[2] - 1
  <2>1. /\ x[1] \in 0 .. k - 1 /\ x[2] \in Slots(w, p) /\ x = <<x[1], x[2]>>
        /\ x[2] \in 1 .. N /\ buildCycle(w)[x[2]] = p
    BY <1>2
  <2>2. x[1] \in Int /\ x[2] - 1 \in 0 .. N - 1 /\ N * x[1] \in Int
    BY <1>1, <2>1
  <2>3. f[x] \in Int /\ f[x] = N * x[1] + (x[2] - 1)
    BY <2>1, <2>2
  <2>4. f[x] \div N = x[1] /\ f[x] % N = x[2] - 1
    <3> DEFINE v == f[x]
               q == x[1]
               t == x[2] - 1
    <3>1. v \in Int /\ q \in Int /\ t \in 0 .. N - 1 /\ v = N * q + t
      BY <2>2, <2>3
    <3> HIDE DEF v, q, t
    <3>2. v \div N = q /\ v % N = t
      BY <1>1, <3>1, DivModUnique
    <3> QED BY <3>2 DEF v, q, t
  <2>5. f[x] >= 0
    <3>1. N * x[1] >= 0
      BY <1>1, <2>1
    <3> QED BY <2>2, <2>3, <3>1
  <2>6. f[x] <= N * k - 1
    <3>1. N * (k - x[1]) >= N
      <4>1. k - x[1] \in Int /\ k - x[1] >= 1
        BY <2>1
      <4> QED BY <1>1, <4>1, TimesAtLeast
    <3>2. N * (k - x[1]) = N * k - N * x[1]
      BY <1>1, <2>1
    <3> DEFINE m == N * x[1]
               y == x[2]
               all == N * k
    <3>3. /\ m \in Int /\ y \in 1 .. N /\ all \in Int /\ f[x] = m + y - 1
          /\ all - m >= N
      BY <1>1, <2>1, <2>2, <2>3, <3>1, <3>2
    <3> HIDE DEF m, y, all, f
    <3>4. f[x] <= all - 1
      BY <1>1, <3>3
    <3> QED BY <3>4 DEF all
  <2> HIDE DEF f
  <2> QED BY <1>1, <2>1, <2>3, <2>4, <2>5, <2>6
<1>5. f \in [P -> T]
  <2>1. ASSUME NEW x \in P PROVE f[x] \in T
    <3>1. f[x] \in 0 .. N * k - 1 /\ buildCycle(w)[x[2]] = p /\ f[x] % N = x[2] - 1 /\ x[2] \in 1 .. N
      BY <1>4
    <3>2. 1 + (f[x] % N) = x[2]
      BY <1>1, <3>1
    <3> HIDE DEF f
    <3> QED BY <3>1, <3>2 DEF Turns, N
  <2> HIDE DEF P, T
  <2> QED BY <2>1
<1>6. ASSUME NEW x \in P, NEW y \in P, f[x] = f[y] PROVE x = y
  <2>1. x[1] = y[1] /\ x[2] - 1 = y[2] - 1 /\ x[2] \in Int /\ y[2] \in Int
    BY <1>4, <1>6
  <2>2. x[2] = y[2]
    BY <2>1
  <2> QED BY <1>4, <2>1, <2>2
<1>7. ASSUME NEW c \in T PROVE \E x \in P : f[x] = c
  <2> DEFINE q == c \div N
             t == c % N
  <2>1. c \in 0 .. N * k - 1 /\ c \in Int /\ buildCycle(w)[1 + (c % N)] = p
    BY <1>1 DEF Turns, N
  <2>2. q \in Int /\ t \in 0 .. N - 1 /\ c = N * q + t
    BY <1>1, <2>1, DivMod
  <2>3. 1 + t \in Slots(w, p)
    <3>1. buildCycle(w)[1 + t] = p
      BY <2>1
    <3>2. N \in Int /\ t \in 0 .. N - 1
      BY <1>1, <2>2
    <3> HIDE DEF t
    <3>3. 1 + t \in 1 .. N
      BY <3>2
    <3> QED BY <1>2, <3>1, <3>3
  <2> HIDE DEF q, t, T
  <2>4. q >= 0
    <3> SUFFICES ASSUME 0 - q >= 1 PROVE FALSE
      BY <2>2
    <3>1. N * (0 - q) >= N /\ N * (0 - q) = 0 - N * q /\ N * q \in Int
      BY <1>1, <2>2, TimesAtLeast
    <3> QED BY <1>1, <2>1, <2>2, <3>1
  <2>5. q < k
    <3> SUFFICES ASSUME q >= k PROVE FALSE
      BY <2>2
    <3>1. N * (q - k) >= 0 /\ N * (q - k) = N * q - N * k /\ N * q \in Int
      BY <1>1, <2>2
    <3> QED BY <1>1, <2>1, <2>2, <3>1
  <2>6. <<q, 1 + t>> \in P
    BY <2>2, <2>3, <2>4, <2>5
  <2>7. f[<<q, 1 + t>>] = N * q + (1 + t) - 1
    BY <2>6
  <2>8. f[<<q, 1 + t>>] = c
    <3>1. N * q \in Int
      BY <1>1, <2>2
    <3> QED BY <2>2, <2>7, <3>1
  <2> QED BY <2>6, <2>8
<1>8. f \in Bijection(P, T)
  <2> HIDE DEF f, P, T
  <2>1. f \in Injection(P, T)
    BY <1>5, <1>6 DEF Injection, IsInjective
  <2>2. f \in Surjection(P, T)
    BY <1>5, <1>7 DEF Surjection
  <2> QED BY <2>1, <2>2 DEF Bijection
<1>9. ExistsBijection(P, T)
  BY <1>8 DEF ExistsBijection
<1>10. IsFiniteSet(T) /\ Cardinality(T) = Cardinality(P)
  <2> HIDE DEF P, T
  <2> QED BY <1>3, <1>9, FS_Bijection
<1> QED BY <1>3, <1>10 DEF N

\* How far the slots w holds reach: none before the first, all with the last, and
\* each provider's begin where its predecessor's end.
LEMMA Bounds ==
  ASSUME NEW w \in Seq(Nat \ {0}), w # <<>>
  PROVE  /\ w \in Seq(Nat) /\ Len(w) \in Nat \ {0} /\ DOMAIN w = 1 .. Len(w)
         /\ Total(w) \in Nat \ {0}
         /\ UpTo(w, 0) = 0 /\ UpTo(w, Len(w)) = Total(w)
         /\ \A p \in 0 .. Len(w) : UpTo(w, p) \in 0 .. Total(w)
         /\ \A p \in 1 .. Len(w) : p - 1 \in 0 .. Len(w) /\ UpTo(w, p - 1) < UpTo(w, p)
         /\ \A p, q \in 0 .. Len(w) : p <= q => UpTo(w, p) <= UpTo(w, q)
         /\ \A slot \in 1 .. Total(w) : \A p \in 1 .. Len(w) :
               buildCycle(w)[slot] = p <=> UpTo(w, p - 1) < slot /\ slot <= UpTo(w, p)
<1>1. /\ w \in Seq(Nat) /\ Len(w) \in Nat \ {0} /\ DOMAIN w = 1 .. Len(w)
      /\ \A p \in 1 .. Len(w) : w[p] \in Nat \ {0}
  OBVIOUS
<1>2. Total(w) \in Nat \ {0}
  <2>1. 0 \in Nat
    OBVIOUS
  <2> QED BY <2>1, RoundRobinOrderIs
<1>3. UpTo(w, 0) = 0 /\ UpTo(w, Len(w)) = Total(w)
  BY <1>1, UpToZero, UpToAll
<1>4. \A p, q \in 0 .. Len(w) : p <= q => UpTo(w, p) <= UpTo(w, q)
  BY <1>1, UpToGrows
<1>5. ASSUME NEW p \in 0 .. Len(w) PROVE UpTo(w, p) \in 0 .. Total(w)
  <2>1. UpTo(w, p) \in Nat
    BY <1>1, UpToType
  <2>2. Len(w) \in 0 .. Len(w) /\ p <= Len(w)
    BY <1>1
  <2>3. UpTo(w, p) <= Total(w)
    BY <1>3, <1>4, <2>2
  <2> QED BY <1>2, <2>1, <2>3
<1>6. ASSUME NEW p \in 1 .. Len(w)
      PROVE  p - 1 \in 0 .. Len(w) /\ UpTo(w, p - 1) < UpTo(w, p)
  <2>1. /\ p - 1 \in 0 .. Len(w) /\ p \in 0 .. Len(w)
        /\ UpTo(w, p) = UpTo(w, p - 1) + w[p]
    BY <1>1, UpToNext
  <2>2. UpTo(w, p - 1) \in Nat /\ w[p] \in Nat \ {0}
    BY <1>1, <2>1, UpToType
  <2> QED BY <2>1, <2>2
<1>7. ASSUME NEW slot \in 1 .. Total(w), NEW p \in 1 .. Len(w)
      PROVE  buildCycle(w)[slot] = p <=> UpTo(w, p - 1) < slot /\ slot <= UpTo(w, p)
  <2>1. {s \in 1 .. Total(w) : buildCycle(w)[s] = p} = Slots(w, p)
    BY <1>1, CycleIs
  <2>2. slot \in Slots(w, p) <=> UpTo(w, p - 1) < slot /\ slot <= UpTo(w, p)
    <3>1. UpTo(w, p - 1) \in Int /\ UpTo(w, p) \in Int
      <4>1. p \in 0 .. Len(w) /\ p - 1 \in 0 .. Len(w)
        BY <1>1
      <4> QED BY <1>5, <4>1
    <3> QED BY <3>1 DEF Slots
  <2> QED BY <2>1, <2>2
<1> QED BY <1>1, <1>2, <1>3, <1>4, <1>5, <1>6, <1>7

\* The slot at which the walk is at its i-th step.
LEMMA WalkAt ==
  ASSUME NEW N \in Nat \ {0}, NEW start \in Nat, NEW i \in 1 .. N
  PROVE  LET t == start % N
         IN  /\ t \in 0 .. N - 1
             /\ 1 + ((start + i - 1) % N) = IF t + i <= N THEN t + i ELSE t + i - N
<1> DEFINE q == start \div N
           t == start % N
<1>1. q \in Int /\ t \in 0 .. N - 1 /\ start = N * q + t
  BY DivMod
<1> HIDE DEF q, t
<1>2. CASE t + i <= N
  <2> DEFINE u == t + i - 1
  <2>1. u \in 0 .. N - 1 /\ start + i - 1 \in Int
    BY <1>1, <1>2
  <2>2. start + i - 1 = N * q + u
    <3>1. N * q \in Int
      BY <1>1
    <3> QED BY <1>1, <3>1
  <2> HIDE DEF u
  <2>3. (start + i - 1) % N = u
    BY <1>1, <2>1, <2>2, DivModUnique
  <2>4. 1 + ((start + i - 1) % N) = t + i
    BY <1>1, <2>3 DEF u
  <2> QED BY <1>1, <1>2, <2>4 DEF t
<1>3. CASE ~(t + i <= N)
  <2> DEFINE u == t + i - 1 - N
  <2>1. u \in 0 .. N - 1 /\ start + i - 1 \in Int /\ q + 1 \in Int
    BY <1>1, <1>3
  <2>2. start + i - 1 = N * (q + 1) + u
    <3>1. N * q \in Int /\ N * (q + 1) = N * q + N
      BY <1>1
    <3> QED BY <1>1, <3>1
  <2> HIDE DEF u
  <2>3. (start + i - 1) % N = u
    BY <2>1, <2>2, DivModUnique
  <2>4. 1 + ((start + i - 1) % N) = t + i - N
    BY <1>1, <2>3 DEF u
  <2> QED BY <1>1, <1>3, <2>4 DEF t
<1> QED BY <1>2, <1>3

\* The slot of the i-th step of a walk round N slots that begins after slot t.
SlotAt(N, t, i) == IF t + i <= N THEN t + i ELSE t + i - N

\* The step at which that walk first comes to the slots after a, up to b.
Meets(N, t, a, b) ==
    IF a <= t /\ t < b THEN 1 ELSE IF t < a THEN a + 1 - t ELSE a + 1 - t + N

\* That is the step, and none before it.
LEMMA MeetsAt ==
  ASSUME NEW N \in Nat \ {0}, NEW t \in 0 .. N - 1, NEW a \in 0 .. N, NEW b \in 0 .. N, a < b
  PROVE  /\ Meets(N, t, a, b) \in 1 .. N
         /\ a < SlotAt(N, t, Meets(N, t, a, b)) /\ SlotAt(N, t, Meets(N, t, a, b)) <= b
         /\ \A j \in 1 .. N : j < Meets(N, t, a, b)
               => ~(a < SlotAt(N, t, j) /\ SlotAt(N, t, j) <= b)
<1> DEFINE f == Meets(N, t, a, b)
<1>0. N \in Int /\ t \in Int /\ a \in Int /\ b \in Int /\ 0 <= t /\ t < N /\ 0 <= a /\ b <= N
  OBVIOUS
<1>1. CASE a <= t /\ t < b
  <2>1. f = 1
    BY <1>1 DEF Meets
  <2>2. SlotAt(N, t, 1) = t + 1
    BY <1>0, <1>1 DEF SlotAt
  <2> HIDE DEF f
  <2> QED BY <1>0, <1>1, <2>1, <2>2 DEF f
<1>2. CASE t < a
  <2>1. f = a + 1 - t
    BY <1>0, <1>2 DEF Meets
  <2> HIDE DEF f
  <2>2. f \in 1 .. N /\ t + f = a + 1
    BY <1>0, <1>2, <2>1
  <2>3. SlotAt(N, t, f) = a + 1
    BY <1>0, <2>2 DEF SlotAt
  <2>4. ASSUME NEW j \in 1 .. N, j < f PROVE ~(a < SlotAt(N, t, j))
    <3>1. t + j <= a
      BY <1>0, <2>1, <2>4
    <3>2. SlotAt(N, t, j) = t + j
      BY <1>0, <3>1 DEF SlotAt
    <3> QED BY <1>0, <3>1, <3>2
  <2> QED BY <1>0, <2>2, <2>3, <2>4 DEF f
<1>3. CASE b <= t
  <2>1. f = a + 1 - t + N
    BY <1>0, <1>3 DEF Meets
  <2> HIDE DEF f
  <2>2. f \in 1 .. N /\ t + f = a + 1 + N
    BY <1>0, <1>3, <2>1
  <2>3. SlotAt(N, t, f) = a + 1
    BY <1>0, <2>2 DEF SlotAt
  <2>4. ASSUME NEW j \in 1 .. N, j < f
        PROVE  ~(a < SlotAt(N, t, j) /\ SlotAt(N, t, j) <= b)
    <3>1. t + j <= a + N
      BY <1>0, <2>1, <2>4
    <3>2. CASE t + j <= N
      BY <1>0, <1>3, <3>2 DEF SlotAt
    <3>3. CASE ~(t + j <= N)
      BY <1>0, <3>1, <3>3 DEF SlotAt
    <3> QED BY <3>2, <3>3
  <2> QED BY <1>0, <2>2, <2>3, <2>4 DEF f
<1> QED BY <1>0, <1>1, <1>2, <1>3

\* Of two runs of slots, the walk meets the one first that it begins in, or that
\* comes after its beginning and before the other.
LEMMA MeetsBefore ==
  ASSUME NEW N \in Nat \ {0}, NEW t \in 0 .. N - 1,
         NEW a \in 0 .. N, NEW b \in 0 .. N, a < b,
         NEW c \in 0 .. N, NEW d \in 0 .. N, c < d,
         \/ b <= c /\ t < b
         \/ b <= c /\ d <= t
         \/ d <= a /\ d <= t /\ t < b
  PROVE  Meets(N, t, a, b) < Meets(N, t, c, d)
<1>0. /\ N \in Int /\ t \in Int /\ a \in Int /\ b \in Int /\ 0 <= t /\ t < N /\ 0 <= a /\ b <= N
      /\ c \in Int /\ d \in Int /\ 0 <= c /\ d <= N
  OBVIOUS
<1> QED BY <1>0 DEF Meets

\* A request that falls back goes round the list of providers.
LEMMA FallbackOrderIs ==
  ASSUME NEW w \in Seq(Nat \ {0}), w # <<>>, NEW start \in Nat, NEW k \in 1 .. Len(w) - 1
  PROVE  roundRobinOrder(w, start)[k + 1] = 1 + (roundRobinOrder(w, start)[k] % Len(w))
<1> DEFINE n == Len(w)
           N == Total(w)
           t == start % N
           U(p) == UpTo(w, p)
           walk == Walk(w, start)
           o == roundRobinOrder(w, start)
           p0 == buildCycle(w)[t + 1]
           First(p) == Meets(N, t, U(p - 1), U(p))
           E(p) == IF p >= p0 THEN p - p0 ELSE p - p0 + n
<1>1. /\ n \in Nat \ {0} /\ N \in Nat \ {0}
      /\ \A p \in 0 .. n : U(p) \in 0 .. N
      /\ \A p \in 1 .. n : p - 1 \in 0 .. n /\ U(p - 1) < U(p)
      /\ \A p, q \in 0 .. n : p <= q => U(p) <= U(q)
      /\ \A slot \in 1 .. N : \A p \in 1 .. n :
            buildCycle(w)[slot] = p <=> U(p - 1) < slot /\ slot <= U(p)
  BY Bounds
<1>2. /\ Complete(n, o)
      /\ walk \in [1 .. N -> 1 .. n]
      /\ Deduped(o, n, walk, N, 1 .. n)
  BY RoundRobinOrderIs
<1>3. t \in 0 .. N - 1 /\ t \in Int
  <2>1. start \in Int /\ N \in Nat \ {0}
    BY <1>1
  <2> HIDE DEF N
  <2>2. start % N \in 0 .. N - 1
    BY <2>1, DivMod
  <2>3. start % N \in Int
    BY <2>1, <2>2
  <2> QED BY <2>2, <2>3
<1>4. ASSUME NEW i \in 1 .. N
      PROVE  /\ SlotAt(N, t, i) \in 1 .. N
             /\ walk[i] = buildCycle(w)[SlotAt(N, t, i)]
  <2>1. 1 + ((start + i - 1) % N) = SlotAt(N, t, i)
    <3>1. N \in Nat \ {0} /\ start \in Nat
      BY <1>1
    <3> HIDE DEF N
    <3>2. 1 + ((start + i - 1) % N) =
             IF (start % N) + i <= N THEN (start % N) + i ELSE (start % N) + i - N
      BY <3>1, WalkAt
    <3> QED BY <3>2 DEF SlotAt
  <2>2. walk[i] = buildCycle(w)[1 + ((start + i - 1) % N)]
    BY DEF Walk
  <2>3. SlotAt(N, t, i) \in 1 .. N
    <3> HIDE DEF N, t
    <3> QED BY <1>1, <1>3 DEF SlotAt
  <2> HIDE DEF walk, N, n, t
  <2> QED BY <2>1, <2>2, <2>3
<1>5. ASSUME NEW i \in 1 .. N, NEW p \in 1 .. n
      PROVE  walk[i] = p <=> U(p - 1) < SlotAt(N, t, i) /\ SlotAt(N, t, i) <= U(p)
  <2>1. SlotAt(N, t, i) \in 1 .. N /\ walk[i] = buildCycle(w)[SlotAt(N, t, i)]
    BY <1>4
  <2> HIDE DEF walk, N, n, t, U
  <2> QED BY <1>1, <2>1
<1>6. p0 \in 1 .. n /\ U(p0 - 1) < t + 1 /\ t + 1 <= U(p0)
  <2>1. t + 1 \in 1 .. N
    <3> HIDE DEF N, t
    <3> QED BY <1>1, <1>3
  <2>2. p0 \in 1 .. n
    <3>1. w \in Seq(Nat) /\ DOMAIN w = 1 .. n
      BY Bounds
    <3>2. buildCycle(w) \in [1 .. N -> 1 .. n]
      BY <3>1, CycleIs
    <3> HIDE DEF N, n, t
    <3> QED BY <2>1, <3>2
  <2> HIDE DEF U, t, N, n
  <2> QED BY <1>1, <2>1, <2>2
<1> HIDE DEF n, N, t, U, walk, o, p0
\* Where each provider's slots lie, seen from the start.
<1>7. ASSUME NEW p \in 1 .. n
      PROVE  /\ p - 1 \in 0 .. n /\ p \in 0 .. n /\ p \in Int
             /\ U(p - 1) \in 0 .. N /\ U(p) \in 0 .. N /\ U(p - 1) < U(p)
             /\ U(p - 1) \in Int /\ U(p) \in Int
  <2>1. p - 1 \in 0 .. n /\ p \in 0 .. n /\ p \in Int
    BY <1>1
  <2>2. U(p - 1) \in 0 .. N /\ U(p) \in 0 .. N /\ U(p - 1) < U(p)
    BY <1>1, <2>1
  <2>3. U(p - 1) \in Int /\ U(p) \in Int
    BY <2>2
  <2> QED BY <2>1, <2>2, <2>3
<1>8. ASSUME NEW p \in 1 .. n
      PROVE  /\ p < p0 => U(p) <= t
             /\ p >= p0 => t < U(p)
  <2>0. p0 \in 0 .. n /\ p0 - 1 \in 0 .. n /\ p0 \in Int /\ U(p0 - 1) \in Int /\ U(p0) \in Int
    BY <1>6, <1>7
  <2>1. p \in 0 .. n /\ p \in Int /\ U(p) \in Int
    BY <1>7
  <2>2. ASSUME p < p0 PROVE U(p) <= t
    <3>1. p <= p0 - 1
      BY <2>0, <2>1, <2>2
    <3>2. U(p) <= U(p0 - 1)
      BY <1>1, <2>0, <2>1, <3>1
    <3> QED BY <1>3, <1>6, <2>0, <2>1, <3>2
  <2>3. ASSUME p >= p0 PROVE t < U(p)
    <3>1. U(p0) <= U(p)
      BY <1>1, <2>0, <2>1, <2>3
    <3> QED BY <1>3, <1>6, <2>0, <2>1, <3>1
  <2> QED BY <2>2, <2>3
<1>9. ASSUME NEW p \in 1 .. n
      PROVE  /\ First(p) \in 1 .. N /\ First(p) \in Int
             /\ walk[First(p)] = p
             /\ \A j \in 1 .. N : j < First(p) => walk[j] # p
  <2> DEFINE f == First(p)
  <2>1. /\ f \in 1 .. N
        /\ U(p - 1) < SlotAt(N, t, f) /\ SlotAt(N, t, f) <= U(p)
        /\ \A j \in 1 .. N : j < f => ~(U(p - 1) < SlotAt(N, t, j) /\ SlotAt(N, t, j) <= U(p))
    BY <1>1, <1>3, <1>7, MeetsAt
  <2> HIDE DEF f
  <2>2. f \in Int /\ walk[f] = p /\ \A j \in 1 .. N : j < f => walk[j] # p
    BY <1>1, <1>5, <2>1
  <2> QED BY <2>1, <2>2 DEF f
<1>10. ASSUME NEW p \in 1 .. n, NEW q \in 1 .. n, E(p) < E(q)
       PROVE  First(p) < First(q)
  <2>0. n \in Int /\ p \in Int /\ q \in Int /\ p0 \in 1 .. n /\ p0 \in Int
    BY <1>1, <1>6
  <2>1. ASSUME p < q PROVE U(p) <= U(q - 1)
    <3>1. p \in 0 .. n /\ q - 1 \in 0 .. n /\ p <= q - 1
      BY <1>7, <2>0, <2>1
    <3> QED BY <1>1, <3>1
  <2>2. ASSUME q < p PROVE U(q) <= U(p - 1)
    <3>1. q \in 0 .. n /\ p - 1 \in 0 .. n /\ q <= p - 1
      BY <1>7, <2>0, <2>2
    <3> QED BY <1>1, <3>1
  <2>3. \/ p < q /\ p >= p0
        \/ p < q /\ q < p0
        \/ q < p /\ q < p0 /\ p >= p0
    <3>1. CASE p >= p0 /\ q >= p0
      BY <1>10, <2>0, <3>1
    <3>2. CASE p >= p0 /\ q < p0
      BY <2>0, <3>2
    <3>3. CASE p < p0 /\ q >= p0
      <4>1. p - p0 + n < q - p0
        BY <1>10, <2>0, <3>3
      <4> QED BY <2>0, <4>1
    <3>4. CASE p < p0 /\ q < p0
      BY <1>10, <2>0, <3>4
    <3> QED BY <2>0, <3>1, <3>2, <3>3, <3>4
  <2>4. \/ U(p) <= U(q - 1) /\ t < U(p)
        \/ U(p) <= U(q - 1) /\ U(q) <= t
        \/ U(q) <= U(p - 1) /\ U(q) <= t /\ t < U(p)
    <3>1. CASE p < q /\ p >= p0
      BY <1>8, <2>1, <3>1
    <3>2. CASE p < q /\ q < p0
      BY <1>8, <2>1, <3>2
    <3>3. CASE q < p /\ q < p0 /\ p >= p0
      BY <1>8, <2>2, <3>3
    <3> QED BY <2>3, <3>1, <3>2, <3>3
  <2> QED BY <1>1, <1>3, <1>7, <2>4, MeetsBefore
<1>11. /\ o \in [1 .. n -> 1 .. n]
       /\ \A x, y \in 1 .. n : o[x] = o[y] => x = y
       /\ \A p \in 1 .. n : \E x \in 1 .. n : o[x] = p
       /\ \A x, y \in 1 .. n : \A i \in 1 .. N :
            x < y /\ walk[i] = o[y] => \E j \in 1 .. i - 1 : walk[j] = o[x]
  BY <1>2 DEF Complete, Deduped
<1> HIDE DEF First
<1>12. ASSUME NEW p \in 1 .. n PROVE E(p) \in 0 .. n - 1 /\ E(p) \in Int
  <2>0. n \in Int /\ p \in Int /\ p0 \in 1 .. n /\ p0 \in Int
    BY <1>1, <1>6
  <2> QED BY <2>0
<1>13. ASSUME NEW x \in 1 .. n, NEW y \in 1 .. n, x < y
       PROVE  E(o[x]) < E(o[y])
  <2> DEFINE p == o[x]
             q == o[y]
  <2>1. p \in 1 .. n /\ q \in 1 .. n /\ p # q
    <3>1. x # y
      BY <1>1, <1>13
    <3> QED BY <1>11, <3>1
  <2>2. First(q) \in 1 .. N /\ walk[First(q)] = q
    BY <1>9, <2>1
  <2>3. PICK j \in 1 .. First(q) - 1 : walk[j] = p
    BY <1>11, <1>13, <2>2
  <2> HIDE DEF p, q
  <2>4. j \in 1 .. N /\ j < First(q)
    BY <1>1, <2>2, <2>3
  <2>5. ~(j < First(p))
    BY <1>9, <2>1, <2>3, <2>4
  <2>6. First(p) \in Int /\ First(q) \in Int
    BY <1>9, <2>1
  <2>7. First(p) < First(q)
    BY <1>1, <2>4, <2>5, <2>6
  <2>8. E(p) \in Int /\ E(q) \in Int
    BY <1>12, <2>1
  <2>9. ~(E(q) < E(p))
    <3> SUFFICES ASSUME E(q) < E(p) PROVE FALSE
      OBVIOUS
    <3>1. First(q) < First(p)
      BY <1>10, <2>1
    <3> QED BY <2>6, <2>7, <3>1
  <2>10. E(p) # E(q)
    <3>0. n \in Int /\ p0 \in Int /\ p0 \in 1 .. n /\ p \in Int /\ q \in Int /\ p \in 1 .. n /\ q \in 1 .. n
      BY <1>1, <1>6, <2>1
    <3> QED BY <2>1, <3>0
  <2>11. E(p) < E(q)
    <3> HIDE DEF E
    <3> QED BY <2>8, <2>9, <2>10
  <2> QED BY <2>11 DEF p, q
<1>14. k \in 1 .. n /\ k + 1 \in 1 .. n /\ k \in Int
  BY <1>1 DEF n
<1> DEFINE p == o[k]
           q == o[k + 1]
<1>15. p \in 1 .. n /\ q \in 1 .. n /\ p \in Int /\ q \in Int
  <2>1. p \in 1 .. n /\ q \in 1 .. n
    BY <1>11, <1>14
  <2> HIDE DEF p, q
  <2> QED BY <1>1, <2>1
<1>16. \A v \in 0 .. n - 1 : \E x \in 1 .. n : E(x) = v
  <2> SUFFICES ASSUME NEW v \in 0 .. n - 1 PROVE \E x \in 1 .. n : E(x) = v
    OBVIOUS
  <2>0. n \in Int /\ v \in Int /\ p0 \in 1 .. n /\ p0 \in Int
    BY <1>1, <1>6
  <2>1. CASE p0 + v <= n
    <3>1. p0 + v \in 1 .. n /\ E(p0 + v) = v
      BY <2>0, <2>1
    <3> QED BY <3>1
  <2>2. CASE ~(p0 + v <= n)
    <3>1. p0 + v - n \in 1 .. n /\ E(p0 + v - n) = v
      BY <2>0, <2>2
    <3> QED BY <3>1
  <2> QED BY <2>1, <2>2
<1>17. E(q) = E(p) + 1
  <2> HIDE DEF E
  <2>1. /\ E(p) \in 0 .. n - 1 /\ E(q) \in 0 .. n - 1
        /\ E(p) \in Int /\ E(q) \in Int
    BY <1>12, <1>15
  <2>2. E(p) < E(q)
    <3>1. k < k + 1
      BY <1>14
    <3> QED BY <1>13, <1>14, <3>1
  <2>3. ASSUME E(p) + 1 < E(q) PROVE FALSE
    <3>1. E(p) + 1 \in 0 .. n - 1
      <4>1. n \in Int
        BY <1>1
      <4> HIDE DEF p, q
      <4> QED BY <2>1, <2>3, <4>1
    <3>2. PICK x \in 1 .. n : E(x) = E(p) + 1
      BY <1>16, <3>1
    <3>3. PICK l \in 1 .. n : o[l] = x
      BY <1>11
    <3>4. ASSUME l < k PROVE FALSE
      <4>1. E(x) < E(p)
        BY <1>13, <1>14, <3>3, <3>4
      <4> HIDE DEF p, q
      <4> QED BY <2>1, <3>2, <4>1
    <3>5. ASSUME k + 1 < l PROVE FALSE
      <4>1. E(q) < E(x)
        BY <1>13, <1>14, <3>3, <3>5
      <4> HIDE DEF p, q
      <4> QED BY <2>1, <2>3, <3>2, <4>1
    <3>6. l # k
      <4> SUFFICES ASSUME l = k PROVE FALSE
        OBVIOUS
      <4>1. x = p
        BY <3>3
      <4> HIDE DEF p, q
      <4> QED BY <2>1, <3>2, <4>1
    <3>7. l # k + 1
      <4> SUFFICES ASSUME l = k + 1 PROVE FALSE
        OBVIOUS
      <4>1. x = q
        BY <3>3
      <4> HIDE DEF p, q
      <4> QED BY <2>1, <2>3, <3>2, <4>1
    <3>8. l \in Int
      BY <1>1
    <3> QED BY <1>14, <3>4, <3>5, <3>6, <3>7, <3>8
  <2> HIDE DEF p, q
  <2> QED BY <2>1, <2>2, <2>3
<1> HIDE DEF p, q
<1>18. n \in Int /\ p0 \in 1 .. n /\ p0 \in Int
  BY <1>1, <1>6
<1>19. q = 1 + (p % n)
  <2>1. CASE p < n
    <3>1. p % n = p
      <4>1. p = n * 0 + p /\ p \in 0 .. n - 1
        BY <1>1, <1>15, <2>1
      <4>2. 0 \in Int /\ n \in Nat \ {0}
        BY <1>1
      <4> QED BY <1>15, <4>1, <4>2, DivModUnique
    <3>2. q = 1 + p
      BY <1>15, <1>17, <1>18, <2>1
    <3> QED BY <3>1, <3>2
  <2>2. CASE p = n
    <3>1. p % n = 0
      <4>1. p = n * 1 + 0 /\ 0 \in 0 .. n - 1 /\ 1 \in Int
        BY <1>1, <1>15, <2>2
      <4> QED BY <1>1, <1>15, <4>1, DivModUnique
    <3>2. q = 1
      BY <1>15, <1>17, <1>18, <2>2
    <3> QED BY <3>1, <3>2
  <2> QED BY <1>1, <1>15, <2>1, <2>2
<1> QED BY <1>19 DEF p, q, o, n

\* In any whole cycle, wherever it begins, each provider has its weight's number
\* of turns.
LEMMA TurnsInWindow ==
  ASSUME NEW w \in Seq(Nat \ {0}), w # <<>>, NEW start \in Nat, NEW p \in DOMAIN w
  PROVE  Cardinality(Turns(w, p, start, start + Total(w) - 1)) = w[p]
<1> DEFINE N == Total(w)
           T == Turns(w, p, start, start + N - 1)
           S == Slots(w, p)
           f == [c \in T |-> 1 + (c % N)]
<1>1. w \in Seq(Nat) /\ N \in Nat \ {0}
  BY Bounds
<1>2. /\ {slot \in 1 .. N : buildCycle(w)[slot] = p} = S
      /\ IsFiniteSet(S) /\ Cardinality(S) = w[p]
  BY <1>1, CycleIs
<1>3. ASSUME NEW c
      PROVE  c \in T <=> c \in start .. start + N - 1 /\ buildCycle(w)[1 + (c % N)] = p
  BY DEF Turns
<1> HIDE DEF N, T, S
<1>4. ASSUME NEW c \in T
      PROVE  /\ c \in Int /\ start <= c /\ c < start + N
             /\ c \div N \in Int /\ c % N \in 0 .. N - 1 /\ c = N * (c \div N) + (c % N)
  <2>1. c \in Int /\ start <= c /\ c < start + N
    BY <1>1, <1>3
  <2> QED BY <1>1, <2>1, DivMod
<1>5. f \in [T -> S]
  <2>1. ASSUME NEW c \in T PROVE 1 + (c % N) \in S
    <3> DEFINE u == c % N
               slot == 1 + u
    <3>1. slot \in 1 .. N
      <4>1. u \in 0 .. N - 1
        BY <1>4
      <4> HIDE DEF u
      <4> QED BY <1>1, <4>1
    <3>2. buildCycle(w)[slot] = p
      BY <1>3
    <3> HIDE DEF slot
    <3>3. slot \in S
      BY <1>2, <3>1, <3>2
    <3> QED BY <3>3 DEF slot
  <2> QED BY <2>1
<1>6. ASSUME NEW c \in T, NEW d \in T, f[c] = f[d] PROVE c = d
  <2> DEFINE q == c \div N
             r == d \div N
             u == c % N
  <2>1. c % N \in Int /\ d % N \in Int /\ 1 + (c % N) = 1 + (d % N)
    <3>1. c % N \in Int /\ d % N \in Int
      BY <1>1, <1>4
    <3> QED BY <1>6, <3>1
  <2>2. c % N = d % N
    BY <2>1
  <2>3. /\ q \in Int /\ r \in Int /\ u \in Int /\ N \in Int
        /\ c \in Int /\ d \in Int /\ c - d < N /\ d - c < N
        /\ c = N * q + u /\ d = N * r + u
    <3>1. q \in Int /\ c = N * q + u /\ u \in 0 .. N - 1
      BY <1>4
    <3>2. r \in Int /\ d = N * r + u
      BY <1>4, <2>2
    <3>3. N \in Int /\ start \in Int
      BY <1>1
    <3>4. /\ c \in Int /\ start <= c /\ c < start + N
          /\ d \in Int /\ start <= d /\ d < start + N
      BY <1>4
    <3> HIDE DEF q, r, u, f
    <3>5. u \in Int
      BY <1>1, <3>1
    <3>6. c - d < N /\ d - c < N
      BY <3>3, <3>4
    <3> QED BY <3>1, <3>2, <3>3, <3>4, <3>5, <3>6
  <2> HIDE DEF q, r, u
  <2>4. N * q \in Int /\ N * r \in Int /\ N * (q - r) = N * q - N * r /\ N * (r - q) = N * r - N * q
    BY <2>3
  <2>5. ~(q - r >= 1)
    <3> SUFFICES ASSUME q - r >= 1 PROVE FALSE
      OBVIOUS
    <3>1. q - r \in Int
      BY <2>3
    <3>2. N * (q - r) >= N
      BY <1>1, <3>1, TimesAtLeast
    <3> QED BY <2>3, <2>4, <3>2
  <2>6. ~(r - q >= 1)
    <3> SUFFICES ASSUME r - q >= 1 PROVE FALSE
      OBVIOUS
    <3>1. r - q \in Int
      BY <2>3
    <3>2. N * (r - q) >= N
      BY <1>1, <3>1, TimesAtLeast
    <3> QED BY <2>3, <2>4, <3>2
  <2>7. q = r
    BY <2>3, <2>5, <2>6
  <2> QED BY <2>3, <2>7
<1>7. ASSUME NEW slot \in S PROVE \E c \in T : f[c] = slot
  <2>1. slot \in 1 .. N /\ buildCycle(w)[slot] = p
    BY <1>2
  <2>2. PICK i \in 1 .. N : 1 + ((start + i - 1) % N) = slot
    BY <1>1, <2>1, WalkMeets
  <2> DEFINE c == start + i - 1
  <2>3. c \in start .. start + N - 1
    BY <1>1
  <2>4. 1 + (c % N) = slot
    BY <2>2
  <2> HIDE DEF c
  <2>5. c \in T
    BY <1>3, <2>1, <2>3, <2>4
  <2> QED BY <2>4, <2>5
<1>8. f \in Bijection(T, S)
  <2> HIDE DEF f
  <2>1. f \in Injection(T, S)
    BY <1>5, <1>6 DEF Injection, IsInjective
  <2>2. f \in Surjection(T, S)
    BY <1>5, <1>7 DEF Surjection
  <2> QED BY <2>1, <2>2 DEF Bijection
<1>9. ExistsBijection(T, S)
  BY <1>8 DEF ExistsBijection
<1>10. IsFiniteSet(T)
  <2>1. T \in SUBSET (start .. start + N - 1)
    BY <1>3
  <2>2. IsFiniteSet(start .. start + N - 1)
    <3>1. start \in Int /\ start + N - 1 \in Int
      BY <1>1
    <3> QED BY <3>1, FS_Interval
  <2> QED BY <2>1, <2>2, FS_Subset
<1>11. Cardinality(T) = w[p]
  BY <1>2, <1>9, <1>10, FS_Bijection
<1> QED BY <1>11 DEF T, N

\* Where a draw among all stops: at the first p that the weights up to exceed it.
LEMMA StoppedAt ==
  ASSUME NEW w \in Seq(Nat \ {0}), w # <<>>, NEW d \in 0 .. 2 * Total(w) - 1, NEW p \in 1 .. Len(w)
  PROVE  Stopped(w, DOMAIN w, d, 2 * Total(w), p) <=> d < 2 * UpTo(w, p)
<1> DEFINE n == Len(w)
           N == Total(w)
           U == UpTo(w, p)
<1>1. /\ n \in Nat \ {0} /\ DOMAIN w = 1 .. n /\ N \in Nat \ {0}
      /\ UpTo(w, n) = N /\ U \in Nat
  <2>1. p \in 0 .. n
    BY Bounds
  <2> QED BY <2>1, Bounds
<1>2. {q \in DOMAIN w : q <= p} = 1 .. p
  BY <1>1
<1>3. WeightOf(w, DOMAIN w) = N /\ WeightOf(w, {q \in DOMAIN w : q <= p}) = U
  BY <1>2 DEF Total, UpTo
<1>4. (\A q \in DOMAIN w : q <= p) <=> p = n
  <2>1. n \in DOMAIN w /\ \A q \in DOMAIN w : q \in Int /\ q <= n
    BY <1>1
  <2>2. n \in Int /\ p \in Int /\ p <= n
    BY <1>1
  <2> HIDE DEF n
  <2> QED BY <2>1, <2>2
<1>5. p = n => U = N
  BY <1>1
<1>6. d \in Int /\ 0 <= d /\ d < 2 * N
  BY <1>1
<1> HIDE DEF n, N, U
<1>7. d * N < (2 * N) * U <=> d < 2 * U
  <2>1. N * (d - 2 * U) = d * N - (2 * N) * U /\ N * (2 * U - d) = (2 * N) * U - d * N
    BY <1>1, <1>6
  <2>2. d * N \in Int /\ (2 * N) * U \in Int
    BY <1>1, <1>6
  <2>3. d >= 2 * U => N * (d - 2 * U) >= 0
    <3>1. d - 2 * U \in Int
      BY <1>1, <1>6
    <3> QED BY <1>1, <3>1
  <2>4. d < 2 * U => N * (2 * U - d) >= N
    <3>1. 2 * U - d \in Int
      BY <1>1, <1>6
    <3> QED BY <1>1, <1>6, <3>1, TimesAtLeast
  <2> QED BY <1>1, <1>6, <2>1, <2>2, <2>3, <2>4
<1>8. Stopped(w, DOMAIN w, d, 2 * N, p) <=> d * N < (2 * N) * U \/ p = n
  BY <1>3, <1>4 DEF Stopped
<1>9. Stopped(w, DOMAIN w, d, 2 * N, p) <=> d < 2 * U
  BY <1>5, <1>6, <1>7, <1>8
<1> QED BY <1>9 DEF N, U

\* The draws that pick p among all.
Draws(w, p) == {d \in 0 .. 2 * Total(w) - 1 : Pick(w, DOMAIN w, d, 2 * Total(w)) = p}

\* With equally likely draws each is picked in proportion to its weight.
LEMMA PickShare ==
  ASSUME NEW w \in Seq(Nat \ {0}), w # <<>>, NEW p \in DOMAIN w
  PROVE  IsFiniteSet(Draws(w, p)) /\ Cardinality(Draws(w, p)) = 2 * w[p]
<1> DEFINE n == Len(w)
           N == Total(w)
           U(q) == UpTo(w, q)
           P(d) == Pick(w, DOMAIN w, d, 2 * N)
           picked == {d \in 0 .. 2 * N - 1 : P(d) = p}
<1>1. /\ n \in Nat \ {0} /\ DOMAIN w = 1 .. n /\ N \in Nat \ {0} /\ p \in 1 .. n
      /\ U(0) = 0 /\ U(n) = N
      /\ \A q \in 0 .. n : U(q) \in 0 .. N
      /\ \A q, r \in 0 .. n : q <= r => U(q) <= U(r)
  BY Bounds
<1>2. p - 1 \in 0 .. n /\ U(p) = U(p - 1) + w[p] /\ w[p] \in Nat
  <2>1. w \in Seq(Nat) /\ w[p] \in Nat
    OBVIOUS
  <2> QED BY <2>1, UpToNext
<1>3. U(p - 1) \in Int /\ U(p) \in Int /\ 0 <= U(p - 1) /\ U(p) <= N
  <2>1. p \in 0 .. n
    BY <1>1
  <2>2. U(p - 1) \in 0 .. N /\ U(p) \in 0 .. N
    BY <1>1, <1>2, <2>1
  <2> HIDE DEF U, N
  <2> QED BY <2>2
<1>4. ASSUME NEW d \in 0 .. 2 * N - 1
      PROVE  /\ P(d) \in 1 .. n /\ d < 2 * U(P(d))
             /\ \A q \in 1 .. n : d < 2 * U(q) => P(d) <= q
  <2>1. DOMAIN w \in SUBSET Int /\ IsFiniteSet(DOMAIN w) /\ DOMAIN w # {}
    BY <1>1, FS_Interval
  <2>2. /\ P(d) \in DOMAIN w
        /\ Stopped(w, DOMAIN w, d, 2 * N, P(d))
        /\ \A q \in DOMAIN w : Stopped(w, DOMAIN w, d, 2 * N, q) => P(d) <= q
    BY <2>1, PickIs
  <2>3. \A q \in 1 .. n : Stopped(w, DOMAIN w, d, 2 * N, q) <=> d < 2 * U(q)
    BY StoppedAt
  <2> HIDE DEF P, U, N, n
  <2> QED BY <1>1, <2>2, <2>3
<1> HIDE DEF n, N, U, P
<1>5. ASSUME NEW d \in 0 .. 2 * N - 1
      PROVE  P(d) = p <=> 2 * U(p - 1) <= d /\ d < 2 * U(p)
  <2>0. d \in Int /\ 0 <= d /\ P(d) \in Int /\ p \in Int
    BY <1>1, <1>4
  <2>1. ASSUME P(d) = p, ~(2 * U(p - 1) <= d) PROVE FALSE
    <3>1. p - 1 # 0
      <4> SUFFICES ASSUME p - 1 = 0 PROVE FALSE
        OBVIOUS
      <4>1. U(p - 1) = 0
        BY <1>1
      <4> QED BY <2>0, <2>1, <4>1
    <3>2. p - 1 \in 1 .. n
      BY <1>1, <1>2, <3>1
    <3>3. P(d) <= p - 1
      BY <1>3, <1>4, <2>0, <2>1, <3>2
    <3> QED BY <2>0, <2>1, <3>3
  <2>2. ASSUME 2 * U(p - 1) <= d, d < 2 * U(p) PROVE P(d) = p
    <3>1. P(d) <= p
      BY <1>1, <1>4, <2>2
    <3>2. ASSUME P(d) <= p - 1 PROVE FALSE
      <4>1. P(d) \in 0 .. n /\ d < 2 * U(P(d))
        <5> DEFINE v == P(d)
        <5>1. v \in 1 .. n /\ d < 2 * U(v)
          BY <1>4
        <5> HIDE DEF v
        <5> QED BY <1>1, <5>1 DEF v
      <4>2. U(P(d)) <= U(p - 1) /\ U(P(d)) \in Int
        <5>1. U(P(d)) \in 0 .. N
          BY <1>1, <4>1
        <5> QED BY <1>1, <1>2, <3>2, <4>1, <5>1
      <4> QED BY <1>3, <2>0, <2>2, <4>1, <4>2
    <3> QED BY <2>0, <3>1, <3>2
  <2>3. P(d) = p => d < 2 * U(p)
    BY <1>4
  <2> QED BY <2>1, <2>2, <2>3
<1>6. picked = 2 * U(p - 1) .. 2 * U(p) - 1
  <2>1. ASSUME NEW d \in 2 * U(p - 1) .. 2 * U(p) - 1 PROVE d \in 0 .. 2 * N - 1
    BY <1>1, <1>3
  <2>2. ASSUME NEW d \in 0 .. 2 * N - 1
        PROVE  P(d) = p <=> d \in 2 * U(p - 1) .. 2 * U(p) - 1
    <3>1. d \in Int
      BY <1>1
    <3> QED BY <1>3, <1>5, <3>1
  <2> QED BY <2>1, <2>2
<1>7. IsFiniteSet(picked) /\ Cardinality(picked) = 2 * w[p]
  <2> DEFINE a == 2 * U(p - 1)
             b == 2 * U(p) - 1
  <2>1. a \in Int /\ b \in Int /\ b = a + 2 * w[p] - 1
    <3> DEFINE x == U(p - 1)
               y == U(p)
               z == w[p]
    <3>1. x \in Int /\ y \in Int /\ z \in Nat /\ y = x + z
      BY <1>2, <1>3
    <3> HIDE DEF x, y, z
    <3>2. 2 * x \in Int /\ 2 * y - 1 \in Int /\ 2 * y - 1 = 2 * x + 2 * z - 1
      BY <3>1
    <3> QED BY <3>2 DEF x, y, z
  <2> HIDE DEF a, b
  <2>2. IsFiniteSet(a .. b) /\ Cardinality(a .. b) = IF a > b THEN 0 ELSE b - a + 1
    BY <2>1, FS_Interval
  <2>3. Cardinality(a .. b) = 2 * w[p]
    BY <1>2, <2>1, <2>2
  <2> QED BY <1>6, <2>2, <2>3 DEF a, b
<1> QED BY <1>7 DEF P, N, Draws
-----------------------------------------------------------------------------
N == Len(Weights)

\* A request at its attempts has an order that names each provider once; and one
\* that got no answer is at the last of them.
OrderInv ==
    /\ pc \in [Requests -> Steps]
    /\ cursor \in Nat
    /\ attempt \in [Requests -> Nat]
    /\ result \in [Requests -> {"none", "busy", "text", "unavailable"}]
    /\ order \in [Requests -> {<<>>} \union [1 .. N -> 1 .. N]]
    /\ \A r \in Requests :
          /\ pc[r] \in {"idle", "acquire", "inc", "order"} => order[r] = <<>>
          /\ pc[r] = "ask" => Complete(N, order[r]) /\ attempt[r] \in 1 .. N
          /\ result[r] = "unavailable" => Complete(N, order[r]) /\ attempt[r] = N

\* What LLM assumes of its weights, and what follows for the cycle.
LEMMA WeightsAre ==
  /\ Weights \in Seq(Nat \ {0}) /\ Weights \in Seq(Nat) /\ Weights # <<>>
  /\ N \in Nat \ {0} /\ DOMAIN Weights = 1 .. N
  /\ CycleLength \in Nat \ {0}
<1>1. Weights \in Seq(Nat \ {0}) /\ Weights # <<>>
  BY LLMAssumption
<1>2. Weights \in Seq(Nat) /\ N \in Nat \ {0} /\ DOMAIN Weights = 1 .. N
  BY <1>1 DEF N
<1>3. CycleLength \in Nat \ {0}
  <2>1. 0 \in Nat
    OBVIOUS
  <2>2. Total(Weights) \in Nat \ {0}
    BY <1>1, <2>1, RoundRobinOrderIs
  <2> QED BY <2>2 DEF CycleLength
<1> QED BY <1>1, <1>2, <1>3

\* An order that names each provider once has their number as its length.
LEMMA CompleteIs ==
  ASSUME NEW o, Complete(N, o)
  PROVE  o \in [1 .. N -> 1 .. N] /\ Len(o) = N /\ o # <<>>
<1>1. o \in [1 .. N -> 1 .. N]
  BY DEF Complete
<1>2. Len(o) = N
  BY <1>1, WeightsAre
<1> QED BY <1>1, <1>2, WeightsAre

\* No request has an order yet.
LEMMA OrderInit == Init => OrderInv
<1> SUFFICES ASSUME Init PROVE OrderInv
  OBVIOUS
<1>1. /\ pc = [r \in Requests |-> "idle"] /\ cursor = 0
      /\ attempt = [r \in Requests |-> 0] /\ result = [r \in Requests |-> "none"]
      /\ order = [r \in Requests |-> <<>>]
  BY DEF Init
<1> QED BY <1>1 DEF OrderInv, Steps

\* The order that a request gets.
LEMMA OrdersAtAre ==
  ASSUME cursor \in Nat, NEW o \in OrdersAt[cursor % CycleLength]
  PROVE  /\ Complete(N, o)
         /\ Algorithm = "round_robin" =>
               o[1] = buildCycle(Weights)[1 + (cursor % CycleLength)]
<1> DEFINE c == cursor % CycleLength
<1>1. c \in 0 .. CycleLength - 1
  <2>1. cursor \in Int /\ CycleLength \in Nat \ {0}
    BY WeightsAre
  <2> HIDE DEF CycleLength
  <2> QED BY <2>1, DivMod
<1>2. c \in Nat
  BY <1>1, WeightsAre
<1>3. c % CycleLength = c
  <2> DEFINE L == CycleLength
  <2>1. L \in Nat \ {0} /\ c \in Int /\ c \in 0 .. L - 1
    BY <1>1, <1>2, WeightsAre
  <2> HIDE DEF c, L
  <2>2. c = L * 0 + c
    BY <2>1
  <2>3. c % L = c
    BY <2>1, <2>2, DivModUnique
  <2> QED BY <2>3 DEF L
<1>4. o \in attemptOrder(Algorithm, Weights, c, Resolution)
  BY <1>1 DEF OrdersAt
<1> HIDE DEF c
<1>5. Complete(N, o)
  <2>1. Weights \in Seq(Nat \ {0}) /\ Weights # <<>>
    BY WeightsAre
  <2>2. Complete(Len(Weights), o)
    BY <1>2, <1>4, <2>1, AttemptOrderIs
  <2> QED BY <2>2 DEF N
<1>6. ASSUME Algorithm = "round_robin"
      PROVE  o[1] = buildCycle(Weights)[1 + c]
  <2>1. o = roundRobinOrder(Weights, c)
    BY <1>4, <1>6 DEF attemptOrder
  <2>2. o[1] = buildCycle(Weights)[1 + (c % CycleLength)]
    BY <1>2, <2>1, WeightsAre, RoundRobinOrderIs DEF CycleLength
  <2> QED BY <1>3, <2>2
<1> QED BY <1>5, <1>6 DEF c

\* A step that leaves orders, attempts and the cursor alone.
LEMMA OrderQuiet ==
  ASSUME OrderInv, NEW r \in Requests, NEW from, NEW to \in Steps, Goto(r, from, to),
         UNCHANGED <<order, attempt, cursor>>, to # "ask",
         to \in {"idle", "acquire", "inc", "order"} => from \in {"idle", "acquire", "inc", "order"},
         \/ UNCHANGED result
         \/ \E value \in {"busy", "text"} : result' = [result EXCEPT ![r] = value]
  PROVE  OrderInv'
<1>1. pc[r] = from /\ pc' = [pc EXCEPT ![r] = to] /\ pc' \in [Requests -> Steps]
  BY DEF Goto, OrderInv
<1>2. /\ result' \in [Requests -> {"none", "busy", "text", "unavailable"}]
      /\ \A q \in Requests : result'[q] = "unavailable" => result[q] = "unavailable"
  BY DEF OrderInv
<1>3. ASSUME NEW q \in Requests
      PROVE  /\ pc'[q] \in {"idle", "acquire", "inc", "order"} =>
                   pc[q] \in {"idle", "acquire", "inc", "order"}
             /\ pc'[q] = "ask" => pc[q] = "ask"
  BY <1>1 DEF OrderInv
<1>4. N' = N
  BY DEF N
<1> QED BY <1>1, <1>2, <1>3, <1>4 DEF OrderInv

\* A request gets an order, and goes to its first provider.
LEMMA OrderOrder ==
  ASSUME OrderInv, NEW r \in Requests, Order(r)
  PROVE  OrderInv'
<1>1. PICK o \in OrdersAt[cursor % CycleLength] : order' = [order EXCEPT ![r] = o]
  BY DEF Order
<1>2. /\ pc[r] = "order" /\ pc' = [pc EXCEPT ![r] = "ask"]
      /\ attempt' = [attempt EXCEPT ![r] = 1] /\ result' = result
      /\ cursor' = cursor \/ cursor' = cursor + 1
  BY DEF Order, Goto
<1>3. Complete(N, o)
  BY OrdersAtAre DEF OrderInv
<1>4. o \in [1 .. N -> 1 .. N]
  BY <1>3, CompleteIs
<1>5. /\ pc' \in [Requests -> Steps] /\ cursor' \in Nat
      /\ attempt' \in [Requests -> Nat]
      /\ order' \in [Requests -> {<<>>} \union [1 .. N -> 1 .. N]]
  <2> HIDE DEF N
  <2> QED BY <1>1, <1>2, <1>4 DEF OrderInv, Steps
<1>6. result[r] # "unavailable"
  <2>1. order[r] = <<>>
    BY <1>2 DEF OrderInv
  <2>2. ~Complete(N, order[r])
    BY <2>1, CompleteIs
  <2> QED BY <2>2 DEF OrderInv
<1>7. ASSUME NEW q \in Requests
      PROVE  /\ pc'[q] \in {"idle", "acquire", "inc", "order"} => order'[q] = <<>>
             /\ pc'[q] = "ask" => Complete(N, order'[q]) /\ attempt'[q] \in 1 .. N
             /\ result'[q] = "unavailable" => Complete(N, order'[q]) /\ attempt'[q] = N
  <2>1. CASE q = r
    <3>1. pc'[q] = "ask" /\ order'[q] = o /\ attempt'[q] = 1 /\ result'[q] # "unavailable"
      BY <1>1, <1>2, <1>6, <2>1 DEF OrderInv
    <3> QED BY <1>3, <3>1, WeightsAre
  <2>2. CASE q # r
    <3>1. /\ pc'[q] = pc[q] /\ order'[q] = order[q] /\ attempt'[q] = attempt[q]
          /\ result'[q] = result[q]
      BY <1>1, <1>2, <2>2 DEF OrderInv
    <3> QED BY <3>1 DEF OrderInv
  <2> QED BY <2>1, <2>2
<1>8. result' \in [Requests -> {"none", "busy", "text", "unavailable"}] /\ N' = N
  BY <1>2 DEF OrderInv, N
<1> QED BY <1>5, <1>7, <1>8 DEF OrderInv

\* A provider failed, and was the last of the order or was not.
LEMMA OrderFailed ==
  ASSUME OrderInv, NEW r \in Requests, Failed(r)
  PROVE  OrderInv'
<1>1. pc[r] = "ask" /\ UNCHANGED <<order, cursor>>
  BY DEF Failed, Goto
<1>2. Complete(N, order[r]) /\ attempt[r] \in 1 .. N /\ Len(order[r]) = N
  BY <1>1, CompleteIs DEF OrderInv
<1>3. CASE HasNext(r)
  <2>1. /\ pc' = [pc EXCEPT ![r] = "ask"] /\ attempt' = [attempt EXCEPT ![r] = attempt[r] + 1]
        /\ result' = result
    BY <1>3 DEF Failed, Goto
  <2>2. pc' = pc
    BY <1>1, <2>1 DEF OrderInv
  <2>3. attempt[r] + 1 \in 1 .. N /\ attempt[r] # N
    BY <1>2, <1>3, WeightsAre DEF HasNext
  <2>4. attempt' \in [Requests -> Nat] /\ N' = N
    BY <1>2, <2>1 DEF OrderInv, N
  <2>5. result[r] # "unavailable"
    BY <2>3 DEF OrderInv
  <2>6. ASSUME NEW q \in Requests
        PROVE  /\ pc'[q] \in {"idle", "acquire", "inc", "order"} => order'[q] = <<>>
               /\ pc'[q] = "ask" => Complete(N, order'[q]) /\ attempt'[q] \in 1 .. N
               /\ result'[q] = "unavailable" => Complete(N, order'[q]) /\ attempt'[q] = N
    <3>1. CASE q = r
      <4>1. attempt'[q] = attempt[r] + 1
        BY <2>1, <3>1 DEF OrderInv
      <4> QED BY <1>1, <1>2, <2>1, <2>2, <2>3, <2>5, <3>1, <4>1
    <3>2. CASE q # r
      <4>1. attempt'[q] = attempt[q]
        BY <2>1, <3>2 DEF OrderInv
      <4> QED BY <1>1, <2>1, <2>2, <4>1 DEF OrderInv
    <3> QED BY <3>1, <3>2
  <2> QED BY <1>1, <2>1, <2>2, <2>4, <2>6 DEF OrderInv
<1>4. CASE ~HasNext(r)
  <2>1. /\ pc' = [pc EXCEPT ![r] = "dec"] /\ attempt' = attempt
        /\ result' = [result EXCEPT ![r] = "unavailable"]
    BY <1>4 DEF Failed, Goto, Return
  <2>2. attempt[r] = N
    BY <1>2, <1>4, WeightsAre DEF HasNext
  <2>3. /\ pc' \in [Requests -> Steps] /\ N' = N
        /\ result' \in [Requests -> {"none", "busy", "text", "unavailable"}]
    BY <2>1 DEF OrderInv, Steps, N
  <2>4. ASSUME NEW q \in Requests
        PROVE  /\ pc'[q] \in {"idle", "acquire", "inc", "order"} => order'[q] = <<>>
               /\ pc'[q] = "ask" => Complete(N, order'[q]) /\ attempt'[q] \in 1 .. N
               /\ result'[q] = "unavailable" => Complete(N, order'[q]) /\ attempt'[q] = N
    <3>1. CASE q = r
      <4>1. pc'[q] = "dec"
        BY <2>1, <3>1 DEF OrderInv
      <4> QED BY <1>1, <1>2, <2>1, <2>2, <3>1, <4>1
    <3>2. CASE q # r
      <4>1. pc'[q] = pc[q] /\ result'[q] = result[q]
        BY <2>1, <3>2 DEF OrderInv
      <4> QED BY <1>1, <2>1, <4>1 DEF OrderInv
    <3> QED BY <3>1, <3>2
  <2> QED BY <1>1, <2>1, <2>3, <2>4 DEF OrderInv
<1> QED BY <1>3, <1>4

\* Whatever step is taken, orders stay complete and attempts within them.
LEMMA OrderStep == OrderInv /\ [Next]_vars => OrderInv'
<1> SUFFICES ASSUME OrderInv, [Next]_vars PROVE OrderInv'
  OBVIOUS
<1> USE DEF Steps, callVars
<1>1. ASSUME NEW r \in Requests, Arrive(r) \/ TryAcquire(r) PROVE OrderInv'
  <2>1. UNCHANGED <<order, attempt, cursor>>
    BY <1>1 DEF Arrive, TryAcquire
  <2>2. \/ Goto(r, "idle", "acquire") /\ UNCHANGED result
        \/ Goto(r, "acquire", "inc") /\ UNCHANGED result
        \/ Goto(r, "idle", "done") /\ result' = [result EXCEPT ![r] = "busy"]
        \/ Goto(r, "acquire", "done") /\ result' = [result EXCEPT ![r] = "busy"]
    BY <1>1 DEF Arrive, TryAcquire, Return
  <2> QED BY <2>1, <2>2, OrderQuiet
<1>2. ASSUME NEW r \in Requests,
             IncConcurrency(r) \/ ObserveFallback(r) \/ DecConcurrency(r) \/ Release(r)
      PROVE  OrderInv'
  <2>1. /\ UNCHANGED <<order, attempt, cursor, result>>
        /\ \/ Goto(r, "inc", "order")
           \/ Goto(r, "fallback", "dec")
           \/ Goto(r, "dec", "release")
           \/ Goto(r, "release", "done")
    BY <1>2 DEF IncConcurrency, ObserveFallback, DecConcurrency, Release
  <2> QED BY <2>1, OrderQuiet
<1>3. ASSUME NEW r \in Requests, Order(r) PROVE OrderInv'
  BY <1>3, OrderOrder
<1>4. ASSUME NEW r \in Requests, NEW outcome, Attempt(r, outcome) PROVE OrderInv'
  <2>1. CASE outcome = "text"
    <3>1. /\ UNCHANGED <<order, attempt, cursor>>
          /\ Goto(r, "ask", AfterAnswer(r)) /\ result' = [result EXCEPT ![r] = "text"]
      BY <1>4, <2>1 DEF Attempt, Answered, Return
    <3>2. AfterAnswer(r) \in {"fallback", "dec"}
      BY DEF AfterAnswer
    <3> QED BY <3>1, <3>2, OrderQuiet
  <2>2. CASE outcome # "text"
    BY <1>4, <2>2, OrderFailed DEF Attempt
  <2> QED BY <2>1, <2>2
<1>5. CASE Tick \/ UNCHANGED vars
  <2>1. UNCHANGED <<pc, cursor, attempt, result, order>>
    BY <1>5 DEF Tick, vars
  <2> QED BY <2>1 DEF OrderInv, N
<1> QED BY <1>1, <1>2, <1>3, <1>4, <1>5 DEF Next, Run

\* A request that took a token and a slot ends with a text that is not blank, or
\* after every provider failed it once: whatever the providers, the algorithm,
\* the draws and the other requests.
THEOREM TextOrAllFailed == Spec => []TextUnlessAllFailed
<1>1. OrderInv => TextUnlessAllFailed
  <2> SUFFICES ASSUME OrderInv, NEW r \in Requests
               PROVE  /\ result[r] # "blank"
                      /\ result[r] = "unavailable" =>
                            /\ {order[r][i] : i \in 1 .. attempt[r]} = DOMAIN Weights
                            /\ attempt[r] = Len(Weights)
    BY DEF TextUnlessAllFailed
  <2>1. result[r] # "blank"
    BY DEF OrderInv
  <2>2. ASSUME result[r] = "unavailable"
        PROVE  /\ {order[r][i] : i \in 1 .. attempt[r]} = DOMAIN Weights
               /\ attempt[r] = Len(Weights)
    <3>1. Complete(N, order[r]) /\ attempt[r] = N
      BY <2>2 DEF OrderInv
    <3>2. {order[r][i] : i \in 1 .. N} = 1 .. N
      <4>1. (\A i \in 1 .. N : order[r][i] \in 1 .. N) /\ \A p \in 1 .. N : \E i \in 1 .. N : order[r][i] = p
        BY <3>1 DEF Complete
      <4> HIDE DEF N
      <4> QED BY <4>1
    <3> QED BY <3>1, <3>2, WeightsAre DEF N
  <2> QED BY <2>1, <2>2
<1> QED BY <1>1, OrderInit, OrderStep, PTL DEF Spec

-----------------------------------------------------------------------------
Taken == {r \in Requests : order[r] # <<>>}
First(p) == {r \in Requests : order[r] # <<>> /\ order[r][1] = p}

\* Under round robin the cursor counts the requests that have an order, and each
\* provider was primary at its turns and at no other.
ShareInv ==
    Algorithm = "round_robin" =>
       /\ Cardinality(Taken) = cursor
       /\ \A p \in DOMAIN Weights :
             Cardinality(First(p)) = Cardinality(Turns(Weights, p, 0, cursor - 1))

\* There are finitely many turns between two cursors.
LEMMA TurnsFinite ==
  ASSUME NEW w, NEW p, NEW a \in Int, NEW b \in Int
  PROVE  IsFiniteSet(Turns(w, p, a, b)) /\ Cardinality(Turns(w, p, a, b)) \in Nat
<1>1. Turns(w, p, a, b) \in SUBSET (a .. b) /\ IsFiniteSet(a .. b)
  BY FS_Interval DEF Turns
<1> QED BY <1>1, FS_Subset, FS_CardinalityType

\* Nobody has had a turn.
LEMMA ShareInit == Init => ShareInv
<1> SUFFICES ASSUME Init PROVE ShareInv
  OBVIOUS
<1>1. order = [r \in Requests |-> <<>>] /\ cursor = 0
  BY DEF Init
<1>2. Taken = {} /\ \A p : First(p) = {}
  BY <1>1 DEF Taken, First
<1>3. \A p : Turns(Weights, p, 0, cursor - 1) = {}
  BY <1>1 DEF Turns
<1> QED BY <1>1, <1>2, <1>3, FS_EmptySet DEF ShareInv

\* A request gets its order: the cursor's next turn is its primary's.
LEMMA ShareOrder ==
  ASSUME OrderInv, ShareInv, NEW r \in Requests, Order(r)
  PROVE  ShareInv'
<1> SUFFICES ASSUME Algorithm = "round_robin"
             PROVE  /\ Cardinality(Taken') = cursor'
                    /\ \A p \in DOMAIN Weights :
                          Cardinality(First(p)') = Cardinality(Turns(Weights, p, 0, cursor' - 1))
  BY DEF ShareInv
<1>1. PICK o \in OrdersAt[cursor % CycleLength] : order' = [order EXCEPT ![r] = o]
  BY DEF Order
<1>2. pc[r] = "order" /\ cursor' = cursor + 1 /\ cursor \in Nat
  BY DEF Order, Goto, OrderInv
<1>3. /\ Complete(N, o) /\ o # <<>>
      /\ o[1] = buildCycle(Weights)[1 + (cursor % CycleLength)]
  BY <1>2, OrdersAtAre, CompleteIs
<1>4. order[r] = <<>> /\ order'[r] = o /\ \A q \in Requests : q # r => order'[q] = order[q]
  BY <1>1, <1>2 DEF OrderInv
<1>5. Cardinality(Taken') = cursor'
  <2>1. r \notin Taken /\ Taken' = Taken \union {r} /\ Taken \in SUBSET Requests
    BY <1>3, <1>4 DEF Taken
  <2>2. Cardinality(Taken \union {r}) = Cardinality(Taken) + 1
    <3>1. IsFiniteSet(Taken)
      BY <2>1, FS_Subset, LLMAssumption
    <3> QED BY <2>1, <3>1, FS_AddElement
  <2> QED BY <1>2, <2>1, <2>2 DEF ShareInv
<1>6. ASSUME NEW p \in DOMAIN Weights
      PROVE  Cardinality(First(p)') = Cardinality(Turns(Weights, p, 0, cursor' - 1))
  <2> DEFINE T == Turns(Weights, p, 0, cursor - 1)
             U == Turns(Weights, p, 0, cursor' - 1)
  <2>1. IsFiniteSet(T) /\ cursor \notin T /\ Cardinality(T) \in Nat
    <3>1. cursor - 1 \in Int /\ cursor \notin 0 .. cursor - 1
      BY <1>2
    <3>2. IsFiniteSet(T) /\ Cardinality(T) \in Nat
      BY <3>1, TurnsFinite
    <3> QED BY <3>1, <3>2 DEF Turns
  <2>2. 0 .. cursor' - 1 = (0 .. cursor - 1) \union {cursor}
    BY <1>2
  <2>3. r \notin First(p) /\ IsFiniteSet(First(p)) /\ Cardinality(First(p)) = Cardinality(T)
    <3>1. First(p) \in SUBSET Requests
      BY DEF First
    <3> QED BY <1>4, <3>1, FS_Subset, LLMAssumption DEF ShareInv, First
  <2>4. CASE o[1] = p
    <3>1. First(p)' = First(p) \union {r}
      BY <1>3, <1>4, <2>4 DEF First
    <3>2. U = T \union {cursor}
      BY <1>3, <2>2, <2>4 DEF Turns, CycleLength
    <3> HIDE DEF T, U
    <3>3. Cardinality(First(p) \union {r}) = Cardinality(First(p)) + 1
      BY <2>3, FS_AddElement
    <3>4. Cardinality(T \union {cursor}) = Cardinality(T) + 1
      BY <2>1, FS_AddElement
    <3>5. Cardinality(First(p)') = Cardinality(U)
      BY <2>3, <3>1, <3>2, <3>3, <3>4
    <3> QED BY <3>5 DEF U
  <2>5. CASE o[1] # p
    <3>1. First(p)' = First(p)
      BY <1>3, <1>4, <2>5 DEF First
    <3>2. U = T
      BY <1>3, <2>2, <2>5 DEF Turns, CycleLength
    <3> QED BY <2>3, <3>1, <3>2
  <2> QED BY <2>4, <2>5
<1> QED BY <1>5, <1>6

\* Whatever step is taken, primaries go on being the turns' providers.
LEMMA ShareStep == OrderInv /\ ShareInv /\ [Next]_vars => ShareInv'
<1> SUFFICES ASSUME OrderInv, ShareInv, [Next]_vars PROVE ShareInv'
  OBVIOUS
<1> USE DEF callVars
<1>1. ASSUME UNCHANGED <<order, cursor>> PROVE ShareInv'
  BY <1>1 DEF ShareInv, Taken, First
<1>2. ASSUME NEW r \in Requests, Arrive(r) \/ TryAcquire(r) \/ IncConcurrency(r)
                \/ ObserveFallback(r) \/ DecConcurrency(r) \/ Release(r)
      PROVE  ShareInv'
  <2>1. UNCHANGED <<order, cursor>>
    BY <1>2 DEF Arrive, TryAcquire, IncConcurrency, ObserveFallback, DecConcurrency, Release
  <2> QED BY <1>1, <2>1
<1>3. ASSUME NEW r \in Requests, Order(r) PROVE ShareInv'
  BY <1>3, ShareOrder
<1>4. ASSUME NEW r \in Requests, NEW outcome, Attempt(r, outcome) PROVE ShareInv'
  <2>1. UNCHANGED <<order, cursor>>
    BY <1>4 DEF Attempt, Answered, Failed
  <2> QED BY <1>1, <2>1
<1>5. CASE Tick \/ UNCHANGED vars
  <2>1. UNCHANGED <<order, cursor>>
    BY <1>5 DEF Tick, vars
  <2> QED BY <1>1, <2>1
<1> QED BY <1>2, <1>3, <1>4, <1>5 DEF Next, Run

\* After each whole cycle of requests every provider was primary exactly its
\* weight times as often, however the requests interleave and fail.
THEOREM CyclesAreShared == Spec => []RoundRobinShare
<1>1. OrderInv /\ ShareInv => RoundRobinShare
  <2> SUFFICES ASSUME OrderInv, ShareInv, Algorithm = "round_robin", NEW p \in DOMAIN Weights
               PROVE  /\ (Cardinality(Taken) \div CycleLength) * Weights[p] <= Primaries(p)
                      /\ Primaries(p) <= (Cardinality(Taken) \div CycleLength + 1) * Weights[p]
    BY DEF RoundRobinShare, Taken
  <2> DEFINE k == cursor \div CycleLength
             t == cursor % CycleLength
             L == CycleLength
             T(b) == Turns(Weights, p, 0, b - 1)
  <2>1. Cardinality(Taken) = cursor /\ cursor \in Nat
    BY DEF OrderInv, ShareInv
  <2>2. Primaries(p) = Cardinality(T(cursor))
    BY DEF ShareInv, Primaries, First
  <2>3. L \in Nat \ {0} /\ k \in Int /\ t \in 0 .. L - 1 /\ cursor = L * k + t
    <3>1. cursor \in Int /\ CycleLength \in Nat \ {0}
      BY <2>1, WeightsAre
    <3> HIDE DEF CycleLength
    <3> QED BY <3>1, DivMod
  <2> HIDE DEF k, t, L, T
  <2>4. k \in Nat /\ L * k <= cursor /\ cursor <= L * (k + 1) /\ L * k \in Nat /\ L * (k + 1) \in Nat
    <3>1. k >= 0
      <4> SUFFICES ASSUME 0 - k >= 1 PROVE FALSE
        BY <2>3
      <4>1. L * (0 - k) >= L /\ L * (0 - k) = 0 - L * k /\ L * k \in Int
        BY <2>3, TimesAtLeast
      <4> QED BY <2>1, <2>3, <4>1
    <3>2. L * (k + 1) = L * k + L /\ L * k \in Int /\ L * k >= 0
      BY <2>3, <3>1
    <3> QED BY <2>1, <2>3, <3>1, <3>2
  <2>5. /\ Cardinality(T(L * k)) = k * Weights[p]
        /\ Cardinality(T(L * (k + 1))) = (k + 1) * Weights[p]
    <3>1. Weights \in Seq(Nat) /\ Total(Weights) # 0 /\ k + 1 \in Nat
      BY <2>4, WeightsAre DEF CycleLength
    <3> QED BY <2>4, <3>1, TurnsInCycles DEF T, L, CycleLength
  <2>6. ASSUME NEW a \in Nat, NEW b \in Nat, a <= b
        PROVE  Cardinality(T(a)) <= Cardinality(T(b))
    <3>1. 0 .. a - 1 \subseteq 0 .. b - 1
      BY <2>6
    <3>2. T(a) \in SUBSET T(b)
      BY <3>1 DEF T, Turns
    <3>3. IsFiniteSet(T(b))
      BY TurnsFinite DEF T
    <3> QED BY <3>2, <3>3, FS_Subset
  <2>7. Cardinality(T(L * k)) <= Cardinality(T(cursor))
    BY <2>1, <2>4, <2>6
  <2>8. Cardinality(T(cursor)) <= Cardinality(T(L * (k + 1)))
    BY <2>1, <2>4, <2>6
  <2>9. k * Weights[p] <= Primaries(p) /\ Primaries(p) <= (k + 1) * Weights[p]
    BY <2>2, <2>5, <2>7, <2>8
  <2> QED BY <2>1, <2>9 DEF k
<1> QED BY <1>1, OrderInit, OrderStep, ShareInit, ShareStep, PTL DEF Spec
-----------------------------------------------------------------------------
\* What was read is one of the inputs, and a configuration is what loadConfig
\* made of it.
StartInv ==
    /\ \E input \in Inputs : file = input[1] /\ env = input[2]
    /\ config \in {Unread, loadConfig(file, env)}
    /\ turn \in Nat

\* A configuration is always what loadConfig made of an input.
LEMMA StartIsInv == StartSpec => []StartInv
<1>1. StartInit => StartInv
  BY DEF StartInit, StartInv
<1>2. StartInv /\ [StartNext]_startVars => StartInv'
  <2> SUFFICES ASSUME StartInv, [StartNext]_startVars PROVE StartInv'
    OBVIOUS
  <2>1. CASE Load
    BY <2>1 DEF StartInv, Load
  <2>2. CASE NextRequest
    BY <2>2 DEF StartInv, NextRequest
  <2>3. CASE UNCHANGED startVars
    BY <2>3 DEF StartInv, startVars
  <2> QED BY <2>1, <2>2, <2>3 DEF StartNext
<1> QED BY <1>1, <1>2, PTL DEF StartSpec

\* What an accepted file has in it, and what becomes of it.
LEMMA AcceptedIs ==
  ASSUME StartInv, Accepted
  PROVE  /\ turn \in Nat
         /\ IsList(file.providers)
         /\ \A i \in DOMAIN file.providers :
               file.providers[i].weight = Omitted \/ file.providers[i].weight \in Int
         /\ config.algorithm = ParseAlgorithm(file.algorithm)
         /\ config.providers = Providers(file.providers, env)
         /\ config.promotions = file.promotions
         /\ ~ProvidersRefused(file.providers, config.algorithm)
         /\ config.promotions # Omitted =>
               /\ config.promotions.frequency \in 0 .. 2
               /\ IsList(config.promotions.items)
               /\ \A i \in DOMAIN config.promotions.items :
                     config.promotions.items[i].weight \in Nat \ {0}
<1>1. PICK input \in Inputs : file = input[1] /\ env = input[2]
  BY DEF StartInv
<1>2. /\ IsList(file.providers)
      /\ \A i \in DOMAIN file.providers :
            file.providers[i].weight = Omitted \/ file.providers[i].weight \in Int
      /\ file.promotions # Omitted =>
            /\ file.promotions.frequency \in Int
            /\ IsList(file.promotions.items)
            /\ \A i \in DOMAIN file.promotions.items : file.promotions.items[i].weight \in Int
  BY <1>1, StartupAssumption
<1>3. config = loadConfig(file, env) /\ config # Refused /\ turn \in Nat
  BY DEF StartInv, Accepted
<1>4. /\ config.algorithm = ParseAlgorithm(file.algorithm)
      /\ config.providers = Providers(file.providers, env)
      /\ config.promotions = file.promotions
      /\ ~ProvidersRefused(file.providers, config.algorithm)
      /\ ~(file.promotions # Omitted /\ NewPromotionsRefused(file.promotions))
  BY <1>3 DEF loadConfig
<1>5. ASSUME config.promotions # Omitted
      PROVE  /\ config.promotions.frequency \in 0 .. 2
             /\ IsList(config.promotions.items)
             /\ \A i \in DOMAIN config.promotions.items :
                   config.promotions.items[i].weight \in Nat \ {0}
  <2> DEFINE p == config.promotions
  <2>1. ~NewPromotionsRefused(p) /\ p.frequency \in Int /\ IsList(p.items)
        /\ \A i \in DOMAIN p.items : p.items[i].weight \in Int
    BY <1>2, <1>4, <1>5
  <2> HIDE DEF p
  <2>2. p.frequency \in 0 .. 2
    <3> DEFINE x == p.frequency
    <3>1. x \in Int /\ ~(x < 0) /\ ~(x > 2)
      BY <2>1 DEF NewPromotionsRefused
    <3> HIDE DEF x
    <3>2. x \in 0 .. 2
      BY <3>1
    <3> QED BY <3>2 DEF x
  <2>3. ASSUME NEW i \in DOMAIN p.items PROVE p.items[i].weight \in Nat \ {0}
    <3>1. ~(p.items[i].weight <= 0) /\ p.items[i].weight \in Int
      BY <2>1 DEF NewPromotionsRefused
    <3> QED BY <3>1
  <2> QED BY <2>1, <2>2, <2>3 DEF p
<1> QED BY <1>2, <1>3, <1>4, <1>5

\* The weights that an accepted configuration gives the providers it keeps: none
\* below 1, but where the algorithm takes no account of them.
LEMMA WeightsAccepted ==
  ASSUME StartInv, Accepted
  PROVE  /\ DOMAIN weights = 1 .. Len(weights) /\ Len(weights) \in Nat
         /\ DOMAIN weights = DOMAIN config.providers
         /\ config.algorithm # "order" => weights \in Seq(Nat \ {0})
<1> DEFINE entries == file.providers
           I == {i \in DOMAIN entries : HasKey(entries[i], env)}
           kept == EntriesAt(entries, I)
           m == Cardinality(I)
<1>1. /\ IsList(entries)
      /\ \A i \in DOMAIN entries : entries[i].weight = Omitted \/ entries[i].weight \in Int
      /\ config.providers = Providers(entries, env)
      /\ ~ProvidersRefused(entries, config.algorithm)
  BY AcceptedIs
<1>2. I \in SUBSET Int /\ IsFiniteSet(I) /\ I \in SUBSET DOMAIN entries
  <2>1. DOMAIN entries = 1 .. Len(entries) /\ Len(entries) \in Nat
    BY <1>1 DEF IsList
  <2>2. IsFiniteSet(1 .. Len(entries))
    BY <2>1, FS_Interval
  <2>3. I \in SUBSET DOMAIN entries
    OBVIOUS
  <2> HIDE DEF I
  <2>4. IsFiniteSet(I)
    BY <2>1, <2>2, <2>3, FS_Subset
  <2> QED BY <2>1, <2>3, <2>4
<1>3. config.providers = [i \in DOMAIN kept |-> buildProvider(kept[i])]
  BY <1>1 DEF Providers
<1> HIDE DEF entries, I
<1>4. PICK at : Listed(kept, entries, I, at)
  BY <1>2, EntriesAtAre
<1>5. /\ m \in Nat /\ at \in [1 .. m -> I]
      /\ kept = [k \in 1 .. m |-> entries[at[k]]]
  BY <1>2, <1>4, FS_CardinalityType DEF Listed
<1> HIDE DEF kept, m
<1>6. weights = [i \in 1 .. m |-> buildProvider(entries[at[i]]).weight]
      /\ DOMAIN config.providers = 1 .. m
  BY <1>3, <1>5 DEF weights, WeightsOf
<1>7. DOMAIN weights = 1 .. m /\ Len(weights) = m
  <2>1. weights \in Seq({buildProvider(entries[at[i]]).weight : i \in 1 .. m})
    BY <1>5, <1>6
  <2>2. DOMAIN weights = 1 .. m
    BY <1>6
  <2> QED BY <1>5, <2>1, <2>2
<1>8. ASSUME config.algorithm # "order", NEW i \in 1 .. m
      PROVE  weights[i] \in Nat \ {0}
  <2> DEFINE e == entries[at[i]]
  <2>1. at[i] \in DOMAIN entries
    BY <1>2, <1>5
  <2>2. /\ e.weight = Omitted \/ e.weight \in Int
        /\ ~(e.weight # Omitted /\ e.weight < 1)
    BY <1>1, <1>8, <2>1 DEF ProvidersRefused
  <2> HIDE DEF e
  <2>3. buildProvider(e).weight = IF e.weight = Omitted THEN 1 ELSE e.weight
    BY DEF buildProvider
  <2>4. buildProvider(e).weight \in Nat \ {0}
    <3>1. CASE e.weight = Omitted
      BY <2>3, <3>1
    <3>2. CASE e.weight # Omitted
      BY <2>2, <2>3, <3>2
    <3> QED BY <3>1, <3>2
  <2> QED BY <1>6, <2>4 DEF e
<1>9. ASSUME config.algorithm # "order" PROVE weights \in Seq(Nat \ {0})
  <2>1. weights \in [1 .. m -> Nat \ {0}]
    BY <1>6, <1>8, <1>9
  <2> QED BY <1>5, <2>1
<1> QED BY <1>5, <1>6, <1>7, <1>9

\* "Each provider is tried at most once" and none left out, whatever the config
\* file, the environment, the cursor and the random numbers.
THEOREM EveryOrderIsComplete == StartSpec => []OrdersNameEveryProviderOnce
<1>1. StartInv => OrdersNameEveryProviderOnce
  <2> SUFFICES ASSUME StartInv, Accepted, config.providers # <<>>,
                      NEW o \in attemptOrder(config.algorithm, weights, turn, 1 + Total(weights))
               PROVE  Names(o)
    BY DEF OrdersNameEveryProviderOnce
  <2> DEFINE n == Len(weights)
  <2>1. /\ DOMAIN weights = 1 .. n /\ n \in Nat
        /\ DOMAIN weights = DOMAIN config.providers
        /\ config.algorithm # "order" => weights \in Seq(Nat \ {0})
        /\ turn \in Nat
    BY WeightsAccepted, AcceptedIs
  <2>2. weights # <<>>
    <3> SUFFICES ASSUME weights = <<>> PROVE FALSE
      OBVIOUS
    <3>1. DOMAIN config.providers = {}
      BY <2>1
    <3>2. config.providers = <<>>
      <4>1. config.providers = [i \in DOMAIN config.providers |-> config.providers[i]]
        BY AcceptedIs DEF Providers
      <4> QED BY <3>1, <4>1
    <3> QED BY <3>2
  <2>3. Complete(n, o)
    <3>1. CASE config.algorithm # "order"
      BY <2>1, <2>2, <3>1, AttemptOrderIs
    <3>2. CASE config.algorithm = "order"
      <4>1. o = [p \in 1 .. n |-> p]
        BY <2>1, <3>2 DEF attemptOrder, identityOrder
      <4> HIDE DEF n
      <4> QED BY <4>1 DEF Complete
    <3> QED BY <3>1, <3>2
  <2> HIDE DEF n
  <2>4. o \in [1 .. n -> 1 .. n] /\ Len(o) = n
    <3>1. o \in [1 .. n -> 1 .. n]
      BY <2>3 DEF Complete
    <3> QED BY <2>1, <3>1
  <2>5. Range(o) = 1 .. n
    <3>1. DOMAIN o = 1 .. n /\ (\A i \in 1 .. n : o[i] \in 1 .. n)
          /\ \A p \in 1 .. n : \E i \in 1 .. n : o[i] = p
      BY <2>3, <2>4 DEF Complete
    <3> QED BY <3>1 DEF Range
  <2> QED BY <2>1, <2>4, <2>5 DEF Names, n
<1> QED BY <1>1, StartIsInv, PTL

\* Under round robin the weights decide the primaries of any cycle of requests
\* and the list the fallbacks, whatever providers the configuration has.
THEOREM PrimariesFollowWeights == StartSpec => []WeightsDecidePrimaries
<1>1. StartInv => WeightsDecidePrimaries
  <2> SUFFICES ASSUME StartInv, RoundRobin
               PROVE  /\ \A p \in DOMAIN weights :
                            Cardinality({c \in turn .. turn + Total(weights) - 1 :
                                            roundRobinOrder(weights, c)[1] = p}) = weights[p]
                      /\ \A i \in 1 .. Len(roundRobinOrder(weights, turn)) - 1 :
                            roundRobinOrder(weights, turn)[i + 1]
                              = 1 + (roundRobinOrder(weights, turn)[i] % Len(weights))
    BY DEF WeightsDecidePrimaries
  <2>0. Accepted /\ config.providers # <<>> /\ config.algorithm = "round_robin"
    BY DEF RoundRobin
  <2>1. weights \in Seq(Nat \ {0}) /\ turn \in Nat
    BY <2>0, WeightsAccepted, AcceptedIs
  <2>2. weights # <<>>
    <3> SUFFICES ASSUME weights = <<>> PROVE FALSE
      OBVIOUS
    <3>1. DOMAIN config.providers = {}
      BY <2>0, WeightsAccepted
    <3>2. config.providers = <<>>
      <4>1. config.providers = [i \in DOMAIN config.providers |-> config.providers[i]]
        BY <2>0, AcceptedIs DEF Providers
      <4> QED BY <3>1, <4>1
    <3> QED BY <2>0, <3>2
  <2>3. ASSUME NEW p \in DOMAIN weights
        PROVE  Cardinality({c \in turn .. turn + Total(weights) - 1 :
                               roundRobinOrder(weights, c)[1] = p}) = weights[p]
    <3>1. Total(weights) \in Nat
      BY <2>1, <2>2, Bounds
    <3>2. ASSUME NEW c \in turn .. turn + Total(weights) - 1
          PROVE  roundRobinOrder(weights, c)[1] = buildCycle(weights)[1 + (c % Total(weights))]
      <4>1. c \in Nat
        BY <2>1, <3>1
      <4> QED BY <2>1, <2>2, <4>1, RoundRobinOrderIs
    <3>3. {c \in turn .. turn + Total(weights) - 1 : roundRobinOrder(weights, c)[1] = p}
            = Turns(weights, p, turn, turn + Total(weights) - 1)
      BY <3>2 DEF Turns
    <3> QED BY <2>1, <2>2, <3>3, TurnsInWindow
  <2>4. ASSUME NEW i \in 1 .. Len(roundRobinOrder(weights, turn)) - 1
        PROVE  roundRobinOrder(weights, turn)[i + 1]
                 = 1 + (roundRobinOrder(weights, turn)[i] % Len(weights))
    <3>1. Len(roundRobinOrder(weights, turn)) = Len(weights)
      <4>1. Complete(Len(weights), roundRobinOrder(weights, turn)) /\ Len(weights) \in Nat
        BY <2>1, <2>2, RoundRobinOrderIs
      <4>2. roundRobinOrder(weights, turn) \in [1 .. Len(weights) -> 1 .. Len(weights)]
        BY <4>1 DEF Complete
      <4> QED BY <4>1, <4>2
    <3>2. i \in 1 .. Len(weights) - 1
      BY <3>1
    <3> QED BY <2>1, <2>2, <3>2, FallbackOrderIs
  <2> QED BY <2>3, <2>4
<1> QED BY <1>1, StartIsInv, PTL

\* Among positive weights every pick is in proportion.
LEMMA InProportionAlways ==
  ASSUME NEW w \in Seq(Nat \ {0})
  PROVE  InProportion(w)
<1> SUFFICES ASSUME NEW p \in DOMAIN w
             PROVE  Cardinality({d \in 0 .. 2 * Total(w) - 1 :
                                    Pick(w, DOMAIN w, d, 2 * Total(w)) = p}) = 2 * w[p]
  BY DEF InProportion
<1>1. w # <<>>
  OBVIOUS
<1> QED BY <1>1, PickShare DEF Draws

\* Random orders begin with, and promotions are, what the weights say, whatever
\* the configuration that was accepted.
THEOREM DrawsFollowWeights == StartSpec => []PicksFollowWeights
<1>1. StartInv => PicksFollowWeights
  <2> SUFFICES ASSUME StartInv, Accepted PROVE PicksFollowWeights
    BY DEF PicksFollowWeights
  <2>1. ASSUME config.algorithm # "order" PROVE InProportion(weights)
    BY <2>1, WeightsAccepted, InProportionAlways
  <2>2. ASSUME config.promotions # Omitted,
               NEW w, w = [i \in DOMAIN config.promotions.items |-> config.promotions.items[i].weight],
               NEW p \in DOMAIN w,
               NEW frequency, frequency = config.promotions.frequency * Total(w),
               NEW resolution, resolution = 2 * Total(w)
        PROVE  Cardinality({d \in (0 .. resolution - 1) \X (0 .. resolution - 1) :
                               PromotionPick(frequency, w, d[1], d[2], resolution) = <<p>>})
                 = frequency * 2 * w[p]
    <3> DEFINE items == config.promotions.items
               share == config.promotions.frequency
               draws == 0 .. resolution - 1
               hits == {x \in draws \X draws :
                           PromotionPick(frequency, w, x[1], x[2], resolution) = <<p>>}
    <3>1. /\ share \in 0 .. 2 /\ IsList(items)
          /\ \A i \in DOMAIN items : items[i].weight \in Nat \ {0}
      BY <2>2, AcceptedIs
    <3>2. w \in Seq(Nat \ {0}) /\ w # <<>> /\ p \in DOMAIN w
      <4>1. DOMAIN items = 1 .. Len(items) /\ Len(items) \in Nat
        BY <3>1 DEF IsList
      <4>2. w \in [1 .. Len(items) -> Nat \ {0}]
        BY <2>2, <3>1, <4>1
      <4> QED BY <2>2, <4>1, <4>2
    <3>3. Total(w) \in Nat \ {0} /\ w[p] \in Nat
      BY <3>2, Bounds
    <3> HIDE DEF items, share
    <3>4. frequency \in Nat /\ frequency <= resolution /\ resolution \in Nat
      <4> DEFINE T == Total(w)
      <4>1. T \in Nat /\ frequency = share * T /\ resolution = 2 * T
        BY <2>2, <3>3 DEF share
      <4> HIDE DEF T
      <4>2. share = 0 \/ share = 1 \/ share = 2
        BY <3>1
      <4>3. frequency = 0 \/ frequency = T \/ frequency = 2 * T
        BY <4>1, <4>2
      <4> QED BY <4>1, <4>3
    <3>5. hits = (0 .. frequency - 1) \X Draws(w, p)
      <4>1. ASSUME NEW shown \in draws, NEW d \in draws
            PROVE  PromotionPick(frequency, w, shown, d, resolution) = <<p>>
                     <=> shown \in 0 .. frequency - 1 /\ d \in Draws(w, p)
        <5>1. shown >= frequency <=> ~(shown \in 0 .. frequency - 1)
          BY <3>4
        <5>2. d \in Draws(w, p) <=> Pick(w, DOMAIN w, d, resolution) = p
          BY <2>2 DEF Draws
        <5> QED BY <3>2, <5>1, <5>2 DEF PromotionPick
      <4>2. (0 .. frequency - 1) \in SUBSET draws /\ Draws(w, p) \in SUBSET draws
        BY <2>2, <3>4 DEF Draws
      <4> HIDE DEF draws
      <4> QED BY <4>1, <4>2
    <3>6. Cardinality(hits) = frequency * (2 * w[p])
      <4>1. IsFiniteSet(Draws(w, p)) /\ Cardinality(Draws(w, p)) = 2 * w[p]
        BY <3>2, PickShare
      <4>2. IsFiniteSet(0 .. frequency - 1) /\ Cardinality(0 .. frequency - 1) = frequency
        BY <3>4, FirstNaturals
      <4> DEFINE A == 0 .. frequency - 1
                 B == Draws(w, p)
      <4>3. hits = A \X B
        BY <3>5
      <4> HIDE DEF hits, A, B
      <4>4. Cardinality(A \X B) = Cardinality(A) * Cardinality(B)
        <5>1. IsFiniteSet(A) /\ IsFiniteSet(B)
          BY <4>1, <4>2 DEF A, B
        <5> QED BY <5>1, FS_Product
      <4>5. Cardinality(A) = frequency /\ Cardinality(B) = 2 * w[p]
        BY <4>1, <4>2 DEF A, B
      <4> QED BY <4>3, <4>4, <4>5
    <3>7. frequency * (2 * w[p]) = frequency * 2 * w[p]
      <4> DEFINE x == w[p]
      <4>1. x \in Nat
        BY <3>3
      <4> HIDE DEF x
      <4>2. frequency * (2 * x) = frequency * 2 * x
        BY <3>4, <4>1
      <4> QED BY <4>2 DEF x
    <3> QED BY <3>6, <3>7
  <2> QED BY <2>1, <2>2 DEF PicksFollowWeights
<1> QED BY <1>1, StartIsInv, PTL
-----------------------------------------------------------------------------
\* Numbers are odd in turns.
LEMMA EveryOtherIsOdd ==
  ASSUME NEW z \in Int
  PROVE  z % 2 = 1 <=> ~((z - 1) % 2 = 1)
<1> DEFINE q == z \div 2
           r == z % 2
<1>1. q \in Int /\ r \in 0 .. 1 /\ z = 2 * q + r
  BY SMT
<1> HIDE DEF q, r
<1>2. CASE r = 0
  <2>1. z - 1 = 2 * (q - 1) + 1 /\ z = 2 * q
    BY <1>1, <1>2
  <2>2. (2 * (q - 1) + 1) % 2 = 1 /\ (2 * q) % 2 = 0
    BY <1>1, SMT
  <2> QED BY <2>1, <2>2
<1>3. CASE r = 1
  <2>1. z - 1 = 2 * q /\ z = 2 * q + 1
    BY <1>1, <1>3
  <2>2. (2 * q + 1) % 2 = 1 /\ (2 * q) % 2 = 0
    BY <1>1, SMT
  <2> QED BY <2>1, <2>2
<1> QED BY <1>1, <1>2, <1>3

\* Along a run of "%" every other one is the second of a pair.
LEMMA EveryOther ==
  ASSUME NEW S, NEW tmpl \in Seq(S), NEW seconds, Seconds(tmpl, seconds),
         NEW a \in DOMAIN tmpl, NEW b \in DOMAIN tmpl, a <= b,
         \A i \in a .. b : tmpl[i] = "%", a = 1 \/ tmpl[a - 1] # "%"
  PROVE  b \in seconds <=> (b - a) % 2 = 1
<1> DEFINE Wrong == {i \in a .. b : ~(i \in seconds <=> (i - a) % 2 = 1)}
<1>1. DOMAIN tmpl = 1 .. Len(tmpl) /\ Len(tmpl) \in Nat /\ a \in Int /\ b \in Int
  OBVIOUS
<1>2. Wrong \in SUBSET Int /\ IsFiniteSet(Wrong)
  <2>1. Wrong \in SUBSET (a .. b) /\ IsFiniteSet(a .. b)
    BY <1>1, FS_Interval
  <2> QED BY <2>1, FS_Subset
<1>3. Wrong = {}
  <2> SUFFICES ASSUME Wrong # {} PROVE FALSE
    OBVIOUS
  <2>1. PICK i \in Wrong : \A j \in Wrong : i <= j
    <3> HIDE DEF Wrong
    <3> QED BY <1>2, LeastIndex
  <2>2. i \in a .. b /\ i \in DOMAIN tmpl /\ i \in Int /\ ~(i \in seconds <=> (i - a) % 2 = 1)
    BY <1>1
  <2>3. i \in seconds <=> i > 1 /\ tmpl[i - 1] = "%" /\ i - 1 \notin seconds
    BY <2>2 DEF Seconds
  <2>4. i # a
    <3> SUFFICES ASSUME i = a PROVE FALSE
      OBVIOUS
    <3>1. i \notin seconds
      BY <1>1, <2>3
    <3>2. (i - a) % 2 = 0
      BY <1>1
    <3> QED BY <2>2, <3>1, <3>2
  <2>5. i - 1 \in a .. b /\ ~(i <= i - 1)
    BY <1>1, <2>2, <2>4
  <2>6. i - 1 \in seconds <=> (i - 1 - a) % 2 = 1
    BY <2>1, <2>5
  <2>7. (i - a) % 2 = 1 <=> ~((i - 1 - a) % 2 = 1)
    <3> DEFINE z == i - a
    <3>1. z \in Int /\ i - 1 - a = z - 1
      BY <1>1, <2>2
    <3> HIDE DEF z
    <3>2. z % 2 = 1 <=> ~((z - 1) % 2 = 1)
      BY <3>1, EveryOtherIsOdd
    <3> QED BY <3>1, <3>2 DEF z
  <2>8. i > 1 /\ tmpl[i - 1] = "%"
    BY <1>1, <2>2, <2>5
  <2> QED BY <2>2, <2>3, <2>6, <2>7, <2>8
<1>4. b \in a .. b
  BY <1>1
<1> QED BY <1>3, <1>4

\* A run of odd length ends with a sign that begins a pair.
LEMMA OddRunEnds ==
  ASSUME NEW S, NEW tmpl \in Seq(S), NEW seconds, Seconds(tmpl, seconds),
         NEW i \in DOMAIN tmpl, NEW j \in DOMAIN tmpl, OddRun(tmpl, i, j)
  PROVE  j \notin seconds
<1>1. i <= j /\ (j - i) % 2 = 0 /\ (\A m \in i .. j : tmpl[m] = "%") /\ (i = 1 \/ tmpl[i - 1] # "%")
  BY DEF OddRun
<1>2. j \in seconds <=> (j - i) % 2 = 1
  BY <1>1, EveryOther
<1> QED BY <1>1, <1>2

\* A template that was accepted has one verb, "%s": one run of "%" is of odd
\* length, and an "s" follows it.
LEMMA TemplateFilledOnce ==
  ASSUME NEW S, NEW tmpl \in Seq(S), validateAIJokePromptTemplate(tmpl)
  PROVE  FilledOnce(tmpl)
<1> DEFINE n == Len(tmpl)
           Ends == {j \in DOMAIN tmpl : \E i \in DOMAIN tmpl : OddRun(tmpl, i, j)}
<1>1. DOMAIN tmpl = 1 .. n /\ n \in Nat
  OBVIOUS
<1>2. PICK seconds \in SUBSET DOMAIN tmpl :
         /\ Seconds(tmpl, seconds)
         /\ \A i \in seconds : tmpl[i] \in {"%", "s"}
         /\ Cardinality({i \in seconds : tmpl[i] = "s"}) = 1
         /\ \A i \in DOMAIN tmpl \ seconds : tmpl[i] = "%" => i < n
  BY DEF validateAIJokePromptTemplate
<1>3. PICK e : {i \in seconds : tmpl[i] = "s"} = {e}
  <2>1. IsFiniteSet({i \in seconds : tmpl[i] = "s"})
    <3>1. IsFiniteSet(1 .. n)
      BY <1>1, FS_Interval
    <3>2. {i \in seconds : tmpl[i] = "s"} \in SUBSET (1 .. n)
      BY <1>1
    <3> QED BY <3>1, <3>2, FS_Subset
  <2> QED BY <1>2, <2>1, FS_Singleton
<1> DEFINE d == e - 1
<1>4. e \in seconds /\ e \in 1 .. n /\ tmpl[e] = "s"
  BY <1>1, <1>3
<1>5. e > 1 /\ tmpl[d] = "%" /\ d \notin seconds
  BY <1>1, <1>2, <1>4 DEF Seconds
<1>6. d \in 1 .. n /\ d < n /\ d + 1 = e /\ d \in Int /\ d \in DOMAIN tmpl
  BY <1>1, <1>4, <1>5
<1> HIDE DEF d, n
<1>7. d \in Ends
  <2> DEFINE Starts == {i \in 1 .. d : \A m \in i .. d : tmpl[m] = "%"}
  <2>1. Starts \in SUBSET Int /\ IsFiniteSet(Starts) /\ Starts # {}
    <3>1. Starts \in SUBSET (1 .. d) /\ IsFiniteSet(1 .. d)
      BY <1>6, FS_Interval
    <3>2. d \in Starts
      <4>1. d \in 1 .. d /\ \A m \in d .. d : m = d
        BY <1>6
      <4> QED BY <1>5, <4>1
    <3>3. IsFiniteSet(Starts)
      BY <3>1, FS_Subset
    <3> QED BY <3>1, <3>2, <3>3
  <2>2. PICK a \in Starts : \A i \in Starts : a <= i
    <3> HIDE DEF Starts
    <3> QED BY <2>1, LeastIndex
  <2>3. /\ a \in 1 .. d /\ a \in Int /\ a <= d /\ a \in DOMAIN tmpl
        /\ \A m \in a .. d : tmpl[m] = "%"
    BY <1>1, <1>6, <2>2
  <2>4. a = 1 \/ tmpl[a - 1] # "%"
    <3> SUFFICES ASSUME a # 1, tmpl[a - 1] = "%" PROVE FALSE
      OBVIOUS
    <3>1. a - 1 \in 1 .. d /\ ~(a <= a - 1)
      BY <1>6, <2>3
    <3>2. ASSUME NEW m \in a - 1 .. d PROVE tmpl[m] = "%"
      <4>1. m = a - 1 \/ m \in a .. d
        BY <1>6, <2>3
      <4> QED BY <2>3, <4>1
    <3>3. a - 1 \in Starts
      BY <3>1, <3>2
    <3> HIDE DEF Starts
    <3> QED BY <2>2, <3>1, <3>3
  <2>5. ~((d - a) % 2 = 1)
    BY <1>2, <1>5, <1>6, <2>3, <2>4, EveryOther
  <2>6. (d - a) % 2 = 0
    <3> DEFINE z == d - a
    <3>1. z \in Int
      BY <1>6, <2>3
    <3> HIDE DEF z
    <3>2. z % 2 = 0 \/ z % 2 = 1
      BY <3>1
    <3> QED BY <2>5, <3>2 DEF z
  <2>7. tmpl[d + 1] # "%"
    BY <1>4, <1>6
  <2>8. OddRun(tmpl, a, d)
    BY <2>3, <2>4, <2>6, <2>7 DEF OddRun
  <2> QED BY <1>6, <2>3, <2>8
<1>8. ASSUME NEW j \in Ends PROVE j = d
  <2>1. PICK i \in DOMAIN tmpl : OddRun(tmpl, i, j)
    OBVIOUS
  <2>2. /\ j \in DOMAIN tmpl /\ i <= j /\ (j - i) % 2 = 0
        /\ \A m \in i .. j : tmpl[m] = "%"
        /\ i = 1 \/ tmpl[i - 1] # "%"
        /\ j = n \/ tmpl[j + 1] # "%"
    BY <2>1 DEF OddRun, n
  <2>3. j \notin seconds
    BY <1>2, <2>1, OddRunEnds
  <2>4. i \in Int /\ j \in Int /\ 1 <= j /\ tmpl[j] = "%"
    <3>1. i \in Int /\ j \in Int /\ 1 <= j
      BY <1>1
    <3>2. j \in i .. j
      BY <2>2, <3>1
    <3> QED BY <2>2, <3>1, <3>2
  <2>5. j < n
    BY <1>2, <2>2, <2>3, <2>4
  <2>6. j + 1 \in DOMAIN tmpl /\ j + 1 > 1 /\ j + 1 - 1 = j
    BY <1>1, <2>4, <2>5
  <2>7. j + 1 \in seconds
    <3> DEFINE k == j + 1
    <3>1. k \in DOMAIN tmpl /\ k > 1 /\ k - 1 = j
      BY <2>6
    <3> HIDE DEF k, Ends
    <3>2. k \in seconds <=> k > 1 /\ tmpl[k - 1] = "%" /\ k - 1 \notin seconds
      BY <1>2, <3>1 DEF Seconds
    <3>3. k \in seconds
      BY <2>3, <2>4, <3>1, <3>2
    <3> QED BY <3>3 DEF k
  <2>8. tmpl[j + 1] # "%"
    BY <2>2, <2>5, <2>4
  <2>9. j + 1 = e
    BY <1>2, <1>3, <2>7, <2>8
  <2> QED BY <1>6, <2>4, <2>9
<1>9. Ends = {d}
  BY <1>7, <1>8
<1> QED BY <1>4, <1>6, <1>9 DEF FilledOnce, n

-----------------------------------------------------------------------------
\* A configuration that was accepted can be taken for granted by the rest of the
\* bot, whatever the config file and the environment.
THEOREM AcceptedServes == StartSpec => []AcceptedIsUsable
<1>1. StartInv => AcceptedIsUsable
  <2> SUFFICES ASSUME StartInv, Accepted PROVE Usable
    BY DEF AcceptedIsUsable
  <2>1. /\ config = loadConfig(file, env) /\ config # Refused
        /\ config.providers = Providers(file.providers, env)
    BY AcceptedIs DEF StartInv, Accepted
  <2>2. /\ config.limits = withDefaults(file.limits)
        /\ config.settings = Settings(file, env) /\ ~SettingsRefused(config.settings)
    BY <2>1 DEF loadConfig
  <2>3. ASSUME NEW i \in DOMAIN config.providers, NEW j \in DOMAIN config.providers,
               config.providers[i].name = config.providers[j].name
        PROVE  i = j
    <3> DEFINE entries == file.providers
               I == {l \in DOMAIN entries : HasKey(entries[l], env)}
               kept == EntriesAt(entries, I)
               m == Cardinality(I)
    <3>1. /\ DOMAIN entries = 1 .. Len(entries) /\ Len(entries) \in Nat
          /\ \A a \in DOMAIN entries : \A b \in 1 .. a - 1 : entries[b].name # entries[a].name
      <4>1. IsList(entries) /\ ~ProvidersRefused(entries, config.algorithm)
        BY AcceptedIs
      <4> HIDE DEF entries
      <4>2. DOMAIN entries = 1 .. Len(entries) /\ Len(entries) \in Nat
        BY <4>1 DEF IsList
      <4>3. \A a \in DOMAIN entries : \A b \in 1 .. a - 1 : entries[b].name # entries[a].name
        BY <4>1 DEF ProvidersRefused
      <4> QED BY <4>2, <4>3
    <3>2. I \in SUBSET Int /\ IsFiniteSet(I) /\ I \in SUBSET DOMAIN entries
      <4>1. IsFiniteSet(1 .. Len(entries))
        BY <3>1, FS_Interval
      <4>2. I \in SUBSET DOMAIN entries
        OBVIOUS
      <4> HIDE DEF I
      <4>3. IsFiniteSet(I)
        BY <3>1, <4>1, <4>2, FS_Subset
      <4> QED BY <3>1, <4>2, <4>3
    <3>3. config.providers = [l \in DOMAIN kept |-> buildProvider(kept[l])]
      BY <2>1 DEF Providers
    <3> HIDE DEF entries, I
    <3>4. PICK at : Listed(kept, entries, I, at)
      BY <3>2, EntriesAtAre
    <3>5. /\ m \in Nat /\ at \in [1 .. m -> I]
          /\ kept = [l \in 1 .. m |-> entries[at[l]]]
          /\ \A a, b \in 1 .. m : a < b => at[a] < at[b]
      BY <3>2, <3>4, FS_CardinalityType DEF Listed
    <3> HIDE DEF kept, m
    <3>6. ASSUME NEW a \in 1 .. m, NEW b \in 1 .. m, a < b
          PROVE  config.providers[a].name # config.providers[b].name
      <4>1. at[a] \in DOMAIN entries /\ at[b] \in DOMAIN entries /\ at[a] < at[b]
        BY <3>2, <3>5, <3>6
      <4>2. at[a] \in 1 .. at[b] - 1
        BY <3>1, <4>1
      <4>3. entries[at[a]].name # entries[at[b]].name
        BY <3>1, <4>1, <4>2
      <4> QED BY <3>3, <3>5, <4>3 DEF buildProvider
    <3>7. i \in 1 .. m /\ j \in 1 .. m
      BY <3>3, <3>5
    <3> QED BY <2>3, <3>5, <3>6, <3>7
  <2>4. ASSUME NEW field \in DOMAIN config.limits PROVE config.limits[field] > 0
    <3>1. PICK input \in Inputs : file = input[1]
      BY DEF StartInv
    <3>2. \A any \in DOMAIN file.limits : file.limits[any] \in Int
      BY <3>1, StartupAssumption
    <3>3. /\ field \in DOMAIN file.limits /\ file.limits[field] \in Int
          /\ config.limits[field] =
                IF file.limits[field] <= 0 THEN DefaultLimit ELSE file.limits[field]
      BY <2>2, <3>2 DEF withDefaults
    <3>4. DefaultLimit \in Nat \ {0}
      BY ConfigAssumption
    <3> DEFINE x == file.limits[field]
    <3> HIDE DEF x
    <3>5. x \in Int /\ config.limits[field] = IF x <= 0 THEN DefaultLimit ELSE x
      BY <3>3 DEF x
    <3> QED BY <3>4, <3>5
  <2>5. ASSUME config.settings.mode = "webhook", config.settings.webhookPath # "/healthz",
               NEW i \in DOMAIN Routes(config), NEW j \in DOMAIN Routes(config),
               Routes(config)[i] = Routes(config)[j]
        PROVE  i = j
    <3> DEFINE hook == config.settings.webhookPath
               metrics == config.settings.prometheusPath
               has == config.settings.prometheus
    <3>1. has => metrics # hook /\ metrics # "/healthz"
      BY <2>2, <2>5 DEF SettingsRefused
    <3>2. Routes(config) = <<hook, "/healthz">> \o (IF has THEN <<metrics>> ELSE <<>>)
      BY DEF Routes
    <3> HIDE DEF hook, metrics, has
    <3>3. hook # "/healthz"
      BY <2>5 DEF hook
    <3>4. CASE has
      <4> DEFINE paths == <<hook, "/healthz">> \o <<metrics>>
      <4>1. Routes(config) = paths
        BY <3>2, <3>4
      <4>2. DOMAIN paths = 1 .. 3 /\ paths[1] = hook /\ paths[2] = "/healthz" /\ paths[3] = metrics
        OBVIOUS
      <4> HIDE DEF paths
      <4>3. i \in 1 .. 3 /\ j \in 1 .. 3
        BY <4>1, <4>2
      <4> QED BY <2>5, <3>1, <3>3, <3>4, <4>1, <4>2, <4>3
    <3>5. CASE ~has
      <4>1. Routes(config) = <<hook, "/healthz">>
        BY <3>2, <3>5
      <4>2. i \in 1 .. 2 /\ j \in 1 .. 2
        BY <4>1
      <4> QED BY <2>5, <3>3, <4>1, <4>2
    <3> QED BY <3>4, <3>5
  <2>6. HelpText(config) \ {"inline"} = Handlers(config) \ {"help", "stats"}
    BY DEF HelpText, Handlers
  <2>7. FilledOnce(config.settings.template)
    <3> DEFINE tmpl == config.settings.template
    <3>1. PICK input \in Inputs : file = input[1]
      BY DEF StartInv
    <3>2. IsList(file.template)
      BY <3>1, StartupAssumption
    <3>3. tmpl = (IF file.template = <<>> THEN DefaultTemplate ELSE file.template)
      <4>1. tmpl = Settings(file, env).template
        BY <2>2
      <4>2. Settings(file, env).template =
               (IF file.template = <<>> THEN DefaultTemplate ELSE file.template)
        BY DEF Settings
      <4> QED BY <4>1, <4>2
    <3>4. DefaultTemplate \in Seq({"x", "%", "s"})
      BY DEF DefaultTemplate
    <3>5. validateAIJokePromptTemplate(tmpl)
      BY <2>2 DEF SettingsRefused
    <3> HIDE DEF tmpl
    <3>6. file.template = <<>> => FilledOnce(tmpl)
      <4> SUFFICES ASSUME file.template = <<>> PROVE FilledOnce(tmpl)
        OBVIOUS
      <4>1. tmpl \in Seq({"x", "%", "s"})
        BY <3>3, <3>4
      <4> QED BY <3>5, <4>1, TemplateFilledOnce
    <3>7. file.template # <<>> => FilledOnce(tmpl)
      <4> SUFFICES ASSUME file.template # <<>> PROVE FilledOnce(tmpl)
        OBVIOUS
      <4>1. tmpl \in Seq(Range(file.template))
        BY <3>2, <3>3 DEF IsList
      <4> QED BY <3>5, <4>1, TemplateFilledOnce
    <3> QED BY <3>6, <3>7 DEF tmpl
  <2> QED BY <2>3, <2>4, <2>5, <2>6, <2>7 DEF Usable
<1> QED BY <1>1, StartIsInv, PTL
=============================================================================

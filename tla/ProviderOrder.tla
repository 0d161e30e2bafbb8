---------------------------- MODULE ProviderOrder ----------------------------
(***************************************************************************)
(* In which order a request tries the LLM providers: internal/llm/llm.go,  *)
(* buildCycle, attemptOrder and the three orders it chooses between; and   *)
(* internal/anekbot/promotions.go, whose Pick draws the same way.          *)
(*                                                                         *)
(* `weights` is the sequence of the providers' Weight() in config order,   *)
(* and a provider is its index there, from 1.  A random number randFloat() *)
(* is a draw out of 0 .. resolution - 1, standing for draw / resolution.   *)
(***************************************************************************)
EXTENDS Integers, Sequences, SequencesExt, Sums

\* The entries of s at the given indices, in their order.
EntriesAt(s, indices) ==
    [k \in 1 .. Cardinality(indices) |->
        s[CHOOSE i \in indices : Cardinality({j \in indices : j <= i}) = k]]

\* The entries of s without repetitions, each where it first occurs.
Firsts(s) == {i \in DOMAIN s : \A j \in 1 .. i - 1 : s[j] # s[i]}
FirstOccurrences(s) == EntriesAt(s, Firsts(s))

\* The weights of some providers together, and of the first p.
WeightOf(weights, some) == Sum([p \in some |-> weights[p]])
UpTo(weights, p) == WeightOf(weights, 1 .. p)
Total(weights) == WeightOf(weights, DOMAIN weights)

\* buildCycle: each provider as many times as its weight, in config order.
buildCycle(weights) ==
    [slot \in 1 .. Total(weights) |->
        CHOOSE p \in DOMAIN weights : UpTo(weights, p - 1) < slot /\ slot <= UpTo(weights, p)]

identityOrder(weights) == [p \in DOMAIN weights |-> p]

\* Mutant of roundRobinOrder: the walk ends with the cycle, without wrapping.
roundRobinOrderNoWrap(weights, start) ==
    LET cycle == buildCycle(weights)
        walk  == SubSeq(cycle, 1 + (start % Len(cycle)), Len(cycle))
    IN  FirstOccurrences(walk)

\* Mutant of roundRobinOrder: a provider is a slot of the order, not of the
\* cycle, so that weights no longer matter.
roundRobinOrderUnweighted(weights, start) ==
    [i \in DOMAIN weights |-> 1 + ((start + i - 1) % Len(weights))]

\* Mutant of roundRobinOrder: the primary first, then the list as configured.
roundRobinOrderThenConfig(weights, start) ==
    LET cycle   == buildCycle(weights)
        primary == cycle[1 + (start % Len(cycle))]
    IN  <<primary>> \o EntriesAt(identityOrder(weights), DOMAIN weights \ {primary})

\* The cycle from `start` on, each provider where it first occurs.  `start` is
\* the value of the shared cursor before this request advanced it.
roundRobinOrder(weights, start) ==
    LET cycle == buildCycle(weights)
        walk  == [i \in DOMAIN cycle |-> cycle[1 + ((start + i - 1) % Len(cycle))]]
    IN  FirstOccurrences(walk)

\* Mutant of Pick: target <= 0 in the place of target < 0.
PickInclusive(weights, left, draw, resolution) ==
    LET Stops(p) == \/ draw * WeightOf(weights, left)
                          <= resolution * WeightOf(weights, {q \in left : q <= p})
                    \/ \A q \in left : q <= p
    IN  CHOOSE p \in left : Stops(p) /\ \A q \in left : Stops(q) => p <= q

\* "Subtract weight until negative": of those left, the first at which the
\* weights so far exceed the target, the last if none does.
Pick(weights, left, draw, resolution) ==
    LET Stops(p) == \/ draw * WeightOf(weights, left)
                          < resolution * WeightOf(weights, {q \in left : q <= p})
                    \/ \A q \in left : q <= p
    IN  CHOOSE p \in left : Stops(p) /\ \A q \in left : Stops(q) => p <= q

\* The orders that randomOrder can return: in each round one of those not yet
\* picked, by a draw of its own.
randomOrders(weights, resolution) ==
    {order \in [DOMAIN weights -> DOMAIN weights] :
       \A n \in DOMAIN weights :
          \E draw \in 0 .. resolution - 1 :
             order[n] = Pick(weights, DOMAIN weights \ {order[m] : m \in 1 .. n - 1},
                             draw, resolution)}

\* attemptOrder: the orders a request can get when it finds `cursor`.
attemptOrder(algorithm, weights, cursor, resolution) ==
    CASE algorithm = "round_robin" -> {roundRobinOrder(weights, cursor)}
      [] algorithm = "random"      -> randomOrders(weights, resolution)
      [] OTHER                     -> {identityOrder(weights)}

\* Promotions.Pick: a button on a share of the results, then an item by weight,
\* the float weights in a common unit. <<>> is "no promotion"; frequency and the
\* draw `shown` that is compared with it are out of resolution too.
PromotionPick(frequency, weights, shown, draw, resolution) ==
    IF weights = <<>> \/ shown >= frequency
    THEN <<>>
    ELSE <<Pick(weights, DOMAIN weights, draw, resolution)>>
=============================================================================

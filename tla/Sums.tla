-------------------------------- MODULE Sums --------------------------------
(***************************************************************************)
(* Sums of functions into the natural numbers, as the number of the units  *)
(* they hold: a definition that needs no recursion, so that facts about     *)
(* sums of any number of counters can be proved (SumTheorems).              *)
(***************************************************************************)
EXTENDS Integers, FiniteSets

\* f[x] units at each x.
Units(f) == UNION {{<<x, i>> : i \in 1 .. f[x]} : x \in DOMAIN f}

Sum(f) == Cardinality(Units(f))
=============================================================================

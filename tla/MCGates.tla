------------------------------- MODULE MCGates -------------------------------
(* Small instances of the sentiment gates. *)
EXTENDS SentimentGates

\* An engine without history, and a strategy that never traded in the regime.
MCQuiet == {[engine |-> [f \in Futures |-> [fng |-> "none", chop |-> "unknown"]],
             fit |-> [f \in Futures |-> [n |-> 0, score |-> 0]]]}

\* One that loses in the regime beside a blocked one, and a halved one that never
\* traded beside one that wins.
Lost == [n |-> 5, score |-> -1]
Won == [n |-> 5, score |-> 1]
Untraded == [n |-> 0, score |-> 0]
Pair(es, nq) == [f \in Futures |-> IF f = "es" THEN es ELSE nq]
MCHistories ==
  {[engine |-> Pair([fng |-> "none", chop |-> "unknown"], [fng |-> "fear", chop |-> "choppy"]),
    fit |-> Pair(Lost, Won)],
   [engine |-> Pair([fng |-> "fear", chop |-> "unknown"], [fng |-> "none", chop |-> "choppy"]),
    fit |-> Pair(Untraded, Won)]}

MCOverrides ==
  {[gate |-> "kill", action |-> "FORCE_OPEN", code |-> "all"],
   [gate |-> "data", action |-> "FORCE_OPEN", code |-> "all"],
   [gate |-> "kill", action |-> "FORCE_HALT", code |-> "nq"]}
=============================================================================

-------------------------- MODULE ThresholdSigning --------------------------
(* What a FROST group promises a query: its signatures are handed out only *)
(* after Threshold different nodes found the result good for themselves.   *)
EXTENDS Naturals, FiniteSets

CONSTANTS Nodes, Queries, Threshold

VARIABLES
  endorsed,   \* <<node, query>>: the node accepted the query's result
  granted     \* <<coordinator, query>>: all of the query's signatures returned

Init == endorsed = {} /\ granted = {}

Endorse(n, q) == endorsed' = endorsed \union {<<n, q>>} /\ UNCHANGED granted

Endorsers(q) == {n \in Nodes : <<n, q>> \in endorsed}

Grant(n, q) ==
  /\ n \in Endorsers(q)
  /\ Cardinality(Endorsers(q)) >= Threshold
  /\ granted' = granted \union {<<n, q>>}
  /\ UNCHANGED endorsed

Next == \E n \in Nodes, q \in Queries : Endorse(n, q) \/ Grant(n, q)

Spec == Init /\ [][Next]_<<endorsed, granted>>
=============================================================================

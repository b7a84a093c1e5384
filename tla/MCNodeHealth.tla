---------------------------- MODULE MCNodeHealth ----------------------------
(***************************************************************************)
(* Instances of NodeHealth: two nodes of one product, which is the case    *)
(* where one of them can hide the other.                                   *)
(***************************************************************************)
EXTENDS NodeHealth

CONSTANTS n1, n2, p1

MCNodes == {n1, n2}
MCProducts == {p1}
MCProductOf == [n \in Nodes |-> p1]

\* The nodes are alike: the first is there from the beginning, the second perhaps.
TwoNodesInit == Init /\ node[n1].status # "none"

TwoNodesSpec == TwoNodesInit /\ [][Next]_vars /\ Fairness

=============================================================================

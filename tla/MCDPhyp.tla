------------------------------ MODULE MCDPhyp ------------------------------
(***************************************************************************)
(* Values for TLC.  Integers stand for the code's doubles: the product of   *)
(* two or more of these cardinalities is a multiple of the divisors that    *)
(* apply to it.  A small relation, two middle ones and a large one make the *)
(* order of joins matter; a hyperedge is more selective than an edge.       *)
(***************************************************************************)
EXTENDS DPhyp

CONSTANT MaxEdges  \* bound: the number of hyperedges

(* The sets of at most n hyperedges.                                        *)
UpToEdges[n \in Nat] ==
  IF n = 0 THEN {{}}
  ELSE UpToEdges[n - 1] \cup {E \cup {e} : E \in UpToEdges[n - 1], e \in Edges}

MCGraphs == UpToEdges[MaxEdges]
MCCard(i) == <<2, 8, 16, 32>>[i + 1]
MCSel(e) == IF Cardinality(UNION e) = 2 THEN 2 ELSE 4
=============================================================================

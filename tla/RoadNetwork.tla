----------------------------- MODULE RoadNetwork -----------------------------
(***************************************************************************)
(* The road graph parseNetXml() builds: the edges of the network (without  *)
(* the internal ones of junctions) in the order of their ids, and as       *)
(* adjacency the connections between them that are not turnarounds.        *)
(* VehicleApp::parseEdgeIndex() numbers the same edges in the same order.  *)
(***************************************************************************)
EXTENDS Integers, Sequences, FiniteSets

CONSTANTS
  Edges,            \* indices of the edges
  Roads             \* adjacency: pairs of consecutive edges

ASSUME NetworkAssumption ==
  /\ IsFiniteSet(Edges) /\ Edges \subseteq Nat
  /\ Roads \subseteq Edges \X Edges

(***************************************************************************)
(* The loop-free paths over the roads.                                     *)
(***************************************************************************)
PathsOfLength(n) ==
  {p \in [1 .. n -> Edges] :
     /\ \A i \in 1 .. n - 1 : <<p[i], p[i + 1]>> \in Roads
     /\ \A i, j \in 1 .. n : p[i] = p[j] => i = j}

Paths == UNION {PathsOfLength(n) : n \in 1 .. Cardinality(Edges)}

PathsBetween(src, dst) == {p \in Paths : p[1] = src /\ p[Len(p)] = dst}

(***************************************************************************)
(* What dijkstra(src, dst) can return, for some weights: a loop-free path, *)
(* or the empty path when dst cannot be reached.  Module Dijkstra shows    *)
(* that the algorithm returns one of these, and a shortest one.            *)
(***************************************************************************)
dijkstra(src, dst) ==
  IF PathsBetween(src, dst) = {} THEN {<<>>} ELSE PathsBetween(src, dst)
=============================================================================

--------------------------- MODULE MCTrafficServer ---------------------------
(* Small road networks for TrafficServer.                                   *)
EXTENDS TrafficServer, TLC

(* 1 leads to 3 directly, a short trip, or through the longer 2; 2 leads to *)
(* 3; nothing leads back, so some destinations cannot be reached.           *)
FunnelEdges  == 1 .. 3
FunnelRoads  == {<<1, 2>>, <<1, 3>>, <<2, 3>>}
FunnelLength == [e \in FunnelEdges |-> IF e = 2 THEN 2 ELSE 1]
FunnelBase   == [e \in FunnelEdges |-> 1]
FunnelLimit  == [e \in FunnelEdges |-> 1]

(* Two consecutive edges, one of them without a speed limit.                *)
PairEdges  == 1 .. 2
PairRoads  == {<<1, 2>>}
PairLength == [e \in PairEdges |-> 1]
PairBase   == [e \in PairEdges |-> 1]
PairLimit  == [e \in PairEdges |-> IF e = 1 THEN 2 ELSE 0]

KeySymmetry == Permutations(Keys)

UnknownTT == {-1}
MixedTT   == {-1, 1, 4, 6}
=============================================================================

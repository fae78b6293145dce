------------------------------ MODULE MCDijkstra ------------------------------
(* A small network with two ways, a cycle and a way back for Dijkstra.       *)
EXTENDS Dijkstra

CityEdges == 1 .. 4
CityRoads == {<<1, 2>>, <<1, 3>>, <<2, 3>>, <<3, 2>>, <<2, 4>>, <<3, 4>>,
              <<4, 3>>}

Edge(base, speed, count) ==
  [baseTT |-> base, avgSpeed |-> speed, speedLimit |-> 10,
   vehicleCount |-> count, length |-> 100, aoiDecay |-> 100]

(* Long but free, slowed to just over the threshold, and crawling.           *)
CityStates == {Edge(2, 10, 0), Edge(1, 8, 1), Edge(1, 1, 4)}

(* One vehicle has reported from the edge, standing.                         *)
LockedStates == {Edge(1, 10, 0), Edge(1, 0, 1)}
=============================================================================

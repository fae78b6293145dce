------------------------------- MODULE Dijkstra -------------------------------
(***************************************************************************)
(* TrafficServer::dijkstra() and getEdgeWeight(): one call, from a source  *)
(* to a different destination.  Entries of the queue are never updated, an *)
(* outdated one is skipped when it is popped; the search stops at the      *)
(* destination, and the path is read back from prev.  Traffic does not     *)
(* change during the call, so the weights are fixed when it starts.        *)
(*                                                                         *)
(* Ratios are in percent; a weight is in 10^-6 of a travel time.           *)
(***************************************************************************)
EXTENDS RoadNetwork

CONSTANTS
  EdgeStates,        \* what may be known of an edge: see EdgeState
  Noises,            \* per-vehicle noise of an edge, in percent
  K                  \* weight of congestion, in percent

(***************************************************************************)
(* What getEdgeWeight() reads of an edge.  baseTT is the measured travel   *)
(* time if there is one, else the edge's own; aoiDecay is exp(-0.1 * aoi), *)
(* how fresh the last report is, in percent.                               *)
(***************************************************************************)
EdgeState == [baseTT : Nat \ {0}, avgSpeed : Nat, speedLimit : Nat,
              vehicleCount : Nat, length : Nat, aoiDecay : 0 .. 100]

ASSUME CostAssumption ==
  /\ EdgeStates \subseteq EdgeState
  /\ Noises \subseteq 82 .. 118
  /\ K \in Nat

VARIABLES
  state, noise,      \* per edge: its statistics, and this vehicle's noise
  src, dst,
  dist, prev, visited, pq,
  pc,                \* search, trace (the loop over prev), done
  path               \* what is returned, built from its end

vars == <<state, noise, src, dst, dist, prev, visited, pq, pc, path>>

NoEdge == -1

(* Infinity is the distance of an edge no way has been found to.           *)
Infinity == -1

LesserOf(x, y) == IF x < y THEN x ELSE y
GreaterOf(x, y) == IF x > y THEN x ELSE y
-----------------------------------------------------------------------------
(***************************************************************************)
(* getEdgeWeight(): the congestion is the larger of what speed and density *)
(* say, faded with the age of the information; below the threshold it is   *)
(* ignored, above it the travel time grows with it and is varied by noise. *)
(***************************************************************************)
CONGESTION_THR == 20
DENSITY_REF    == 10      \* metres per vehicle, 1 / 0.10

SpeedCongestion(s) ==
  IF s.speedLimit > 0 /\ s.avgSpeed > 0
  THEN 100 - LesserOf((s.avgSpeed * 100) \div s.speedLimit, 100)
  ELSE 0

DensityRatio(s) ==
  IF s.length > 0
  THEN LesserOf((s.vehicleCount * DENSITY_REF * 100) \div s.length, 100)
  ELSE 0

Congestion(s) ==
  (GreaterOf(SpeedCongestion(s), DensityRatio(s)) * s.aoiDecay) \div 100

(* Mutant: no threshold, the noise varies free edges too.                  *)
NoThreshold(s, n) == s.baseTT * (10000 + Congestion(s) * K) * n
getEdgeWeight(s, n) ==
  IF Congestion(s) < CONGESTION_THR
  THEN s.baseTT * 1000000
  ELSE s.baseTT * (10000 + Congestion(s) * K) * n

weight == [e \in Edges |-> getEdgeWeight(state[e], noise[e])]
-----------------------------------------------------------------------------
Init ==
  /\ state \in [Edges -> EdgeStates]
  /\ noise \in [Edges -> Noises]
  /\ src \in Edges /\ dst \in Edges \ {src}
  /\ dist = [e \in Edges |-> IF e = src THEN 0 ELSE Infinity]
  /\ prev = [e \in Edges |-> NoEdge]
  /\ visited = {}
  /\ pq = {<<0, src>>}
  /\ pc = "search"
  /\ path = <<>>

(***************************************************************************)
(* pq.top(): pairs are ordered by distance, then by edge.                  *)
(***************************************************************************)
(* Mutant: a queue with the greatest pair on top (std::less).              *)
IsLast(entry) ==
  \A other \in pq : \/ other[1] < entry[1]
                    \/ other[1] = entry[1] /\ other[2] <= entry[2]
IsTop(entry) ==
  \A other \in pq : \/ entry[1] < other[1]
                    \/ entry[1] = other[1] /\ entry[2] <= other[2]

(* Mutant: the last way found is taken, not the shorter one.               *)
AnyWay(d, v) == TRUE
(* d < dist[v]: any distance is less than infinity.                        *)
Closer(d, v) == dist[v] = Infinity \/ d < dist[v]

(* The neighbours of u that a way through u is shorter for; none if the     *)
(* entry of u is outdated, or the search is over.                           *)
Relaxed(u) ==
  {v \in Edges : /\ u \notin visited \cup {dst}
                 /\ <<u, v>> \in Roads
                 /\ v \notin visited \cup {u}
                 /\ Closer(dist[u] + weight[v], v)}

(* Mutant: the popped entry stays in the queue.                            *)
KeepEntry(entry) == pq
Popped(entry) == pq \ {entry}

(***************************************************************************)
(* One turn of the while loop.                                             *)
(***************************************************************************)
Search ==
  /\ pc = "search"
  /\ \E entry \in pq :
       LET u == entry[2] IN
       /\ IsTop(entry)
       /\ visited' = visited \cup {u}
       /\ dist' = [v \in Edges |-> IF v \in Relaxed(u)
                                  THEN dist[u] + weight[v] ELSE dist[v]]
       /\ prev' = [v \in Edges |-> IF v \in Relaxed(u) THEN u ELSE prev[v]]
       /\ pq' = Popped(entry) \cup {<<dist'[v], v>> : v \in Relaxed(u)}
       /\ pc' = IF u = dst THEN "trace" ELSE "search"
  /\ UNCHANGED <<state, noise, src, dst, path>>

(* The queue ran empty: dist[dst] is still infinite, the path is empty.    *)
Unreachable ==
  /\ pc = "search" /\ pq = {}
  /\ pc' = IF dist[dst] = Infinity THEN "done" ELSE "trace"
  /\ UNCHANGED <<state, noise, src, dst, dist, prev, visited, pq, path>>

(***************************************************************************)
(* for (at = dst; at != -1; at = prev[at]), and the final reverse.         *)
(***************************************************************************)
At == IF path = <<>> THEN dst ELSE prev[path[1]]

Trace ==
  /\ pc = "trace"
  /\ IF At # NoEdge THEN path' = <<At>> \o path /\ UNCHANGED pc
                    ELSE pc' = "done" /\ UNCHANGED path
  /\ UNCHANGED <<state, noise, src, dst, dist, prev, visited, pq>>

Done == pc = "done" /\ UNCHANGED vars

Next == Search \/ Unreachable \/ Trace \/ Done

Spec == Init /\ [][Next]_vars

(* A call runs to its end.                                                 *)
FairSpec == Spec /\ WF_vars(Search \/ Unreachable \/ Trace)
-----------------------------------------------------------------------------
(***************************************************************************)
(* The reference: distances are sums of weights without the source's own.  *)
(***************************************************************************)
PathCosts(p) ==
  LET cost[i \in DOMAIN p] == IF i = 1 THEN 0 ELSE cost[i - 1] + weight[p[i]]
  IN  cost

PathWeight(p) == PathCosts(p)[Len(p)]

(* What TrafficServer assumes of the result.                                *)
ShortestPaths(e) ==
  {p \in PathsBetween(src, e) :
     \A q \in PathsBetween(src, e) : PathWeight(p) <= PathWeight(q)}

(***************************************************************************)
(* dijkstra() returns a shortest path, and nothing only when there is none;*)
(* in particular it is one of the paths TrafficServer reckons with.        *)
(***************************************************************************)
ReturnsShortestPath ==
  pc = "done" => IF PathsBetween(src, dst) = {} THEN path = <<>>
                 ELSE path \in ShortestPaths(dst) /\ path \in dijkstra(src, dst)

(***************************************************************************)
(* When an edge is settled its distance is that of a shortest path.  The   *)
(* weight of a step depends on its end alone, so the first way found to an *)
(* edge is never improved on: no entry of the queue is outdated.           *)
(***************************************************************************)
SettledIsFinal ==
  /\ \A e \in visited : \E p \in ShortestPaths(e) : PathWeight(p) = dist[e]
  /\ \A entry \in pq : entry[2] \notin visited /\ entry[1] = dist[entry[2]]

(***************************************************************************)
(* Noise never hides congestion: an edge over the threshold costs at least *)
(* its travel time, so it never attracts traffic because it is congested.  *)
(***************************************************************************)
CongestionNeverCheaper ==
  \A e \in Edges : weight[e] >= state[e].baseTT * 1000000

(***************************************************************************)
(* A bound on the turns of the two loops that are left, and that each turn *)
(* brings the call closer to its end: a turn of the first settles another  *)
(* edge, none is spent on an outdated entry, and a turn of the second adds *)
(* an edge that is not on the path yet.  A call takes at most 2 |E| + 2.   *)
(***************************************************************************)
TurnsLeft ==
  CASE pc = "search" -> 2 * Cardinality(Edges) + 2 - Cardinality(visited)
    [] pc = "trace"  -> Cardinality(Edges) + 1 - Len(path)
    [] OTHER         -> 0

NoTurnIsWasted == [][TurnsLeft' < TurnsLeft /\ TurnsLeft' >= 0]_vars

(* The call returns: neither loop runs forever.                             *)
Terminates == <>(pc = "done")

(***************************************************************************)
(* "cong=1.0 (kilitli) -> carpan 1+K" (TrafficServer.cc:189): an edge that *)
(* stands still by the latest report is charged as fully congested, up to  *)
(* the noise.                                                              *)
(***************************************************************************)
LockedEdgePenalised ==
  \A e \in Edges :
    state[e].avgSpeed = 0 /\ state[e].speedLimit > 0 /\ state[e].aoiDecay = 100
      => weight[e] >= state[e].baseTT * (10000 + 100 * K) * 82
=============================================================================

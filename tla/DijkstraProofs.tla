---------------------------- MODULE DijkstraProofs ----------------------------
(***************************************************************************)
(* The shortest-path search is correct, and noise never hides congestion,  *)
(* for every network, every traffic and, in the second case, every weight  *)
(* K of congestion that is large enough.                                   *)
(***************************************************************************)
EXTENDS Dijkstra, RoadNetworkProofs

(* The arithmetic of the bound: at the threshold, a factor of 1.22 for the  *)
(* congestion makes up for 0.82 of noise.                                   *)
LEMMA NoiseBound ==
  ASSUME NEW base \in Nat, NEW c \in Nat, NEW n \in 82 .. 118,
         c >= CONGESTION_THR, K \in Nat, K >= 110
  PROVE  base * (10000 + c * K) * n >= base * 1000000
<1>1. c * K >= 20 * 110
  <2>1. c * K >= 20 * K
    BY SMT DEF CONGESTION_THR
  <2> QED BY SMT, <2>1
<1>2. PICK f \in Nat : f = 10000 + c * K /\ f >= 12200
  BY SMT, <1>1
<1>3. f * n >= 12200 * 82
  <2>1. f * n >= 12200 * n
    BY SMT, <1>2
  <2> QED BY SMT, <2>1
<1>4. PICK g \in Nat : g = f * n /\ g >= 1000000
  BY SMT, <1>2, <1>3
<1>5. base * g >= base * 1000000
  BY SMT, <1>4
<1>6. (base * f) * n = base * (f * n)
  BY SMT, <1>2
<1> QED BY SMT, <1>2, <1>4, <1>5, <1>6

(* A congestion is a percentage, whatever the statistics of an edge are.    *)
LEMMA CongestionType ==
  ASSUME NEW s \in EdgeState
  PROVE  Congestion(s) \in Nat
<1>1. /\ s.avgSpeed \in Nat /\ s.speedLimit \in Nat
      /\ s.vehicleCount \in Nat /\ s.length \in Nat /\ s.aoiDecay \in Nat
  BY DEF EdgeState
<1>2. SpeedCongestion(s) \in Nat
  <2>1. CASE s.speedLimit > 0 /\ s.avgSpeed > 0
    <3>1. (s.avgSpeed * 100) \div s.speedLimit \in Nat
      BY <1>1, <2>1
    <3> QED BY <2>1, <3>1 DEF SpeedCongestion, LesserOf
  <2>2. CASE ~ (s.speedLimit > 0 /\ s.avgSpeed > 0)
    BY <2>2 DEF SpeedCongestion
  <2> QED BY <2>1, <2>2
<1>3. DensityRatio(s) \in Nat
  <2>1. CASE s.length > 0
    <3>1. (s.vehicleCount * DENSITY_REF * 100) \div s.length \in Nat
      BY <1>1, <2>1 DEF DENSITY_REF
    <3> QED BY <2>1, <3>1 DEF DensityRatio, LesserOf
  <2>2. CASE ~ (s.length > 0)
    BY <2>2 DEF DensityRatio
  <2> QED BY <2>1, <2>2
<1>4. PICK m \in Nat : m = GreaterOf(SpeedCongestion(s), DensityRatio(s))
  BY <1>2, <1>3 DEF GreaterOf
<1>5. m * s.aoiDecay \in Nat
  BY <1>1, <1>4
<1>6. (m * s.aoiDecay) \div 100 \in Nat
  BY <1>5
<1> QED BY <1>4, <1>6 DEF Congestion

(* The statistics and the noise a call works with never change.             *)
InputsOK == state \in [Edges -> EdgeStates] /\ noise \in [Edges -> Noises]

LEMMA InputsAreFixed == Spec => []InputsOK
<1>1. Init => InputsOK
  BY DEF Init, InputsOK
<1>2. InputsOK /\ [Next]_vars => InputsOK'
  BY DEF InputsOK, Next, Search, Unreachable, Trace, Done, vars
<1> QED BY <1>1, <1>2, PTL DEF Spec

(***************************************************************************)
(* getEdgeWeight() never makes an edge cheaper for being congested, as     *)
(* long as K is at least 1.1 (the runs use 1.5 and 2, the default is 3).   *)
(***************************************************************************)
THEOREM NoiseNeverHidesCongestion ==
  ASSUME K >= 110
  PROVE  Spec => []CongestionNeverCheaper
<1>1. InputsOK => CongestionNeverCheaper
  <2> SUFFICES ASSUME InputsOK, NEW e \in Edges
               PROVE  weight[e] >= state[e].baseTT * 1000000
    BY SMT DEF CongestionNeverCheaper
  <2>1. state[e] \in EdgeState /\ noise[e] \in 82 .. 118 /\ K \in Nat
    <3>1. state[e] \in EdgeStates /\ noise[e] \in Noises
      BY DEF InputsOK
    <3> QED BY <3>1, CostAssumption DEF CostAssumption
  <2>2. state[e].baseTT \in Nat
    BY SMT, <2>1 DEF EdgeState
  <2>3. weight[e] = getEdgeWeight(state[e], noise[e])
    BY SMT DEF weight
  <2>4. CASE Congestion(state[e]) < CONGESTION_THR
    BY SMT, <2>2, <2>3, <2>4 DEF getEdgeWeight
  <2>5. CASE ~ (Congestion(state[e]) < CONGESTION_THR)
    <3>1. Congestion(state[e]) >= CONGESTION_THR
      BY SMT, <2>1, <2>5, CongestionType DEF CONGESTION_THR
    <3>2. state[e].baseTT * (10000 + Congestion(state[e]) * K) * noise[e]
            >= state[e].baseTT * 1000000
      <4> DEFINE b == state[e].baseTT
                 c == Congestion(state[e])
                 n == noise[e]
      <4>1. b \in Nat /\ c \in Nat /\ n \in 82 .. 118 /\ c >= CONGESTION_THR
        BY SMT, <2>1, <2>2, <3>1, CongestionType
      <4> HIDE DEF b, c, n
      <4>2. b * (10000 + c * K) * n >= b * 1000000
        BY SMT, <2>1, <4>1, NoiseBound
      <4> QED BY SMT, <4>2 DEF b, c, n
    <3> QED BY SMT, <2>3, <2>5, <3>2 DEF getEdgeWeight
  <2> QED BY SMT, <2>4, <2>5
<1> QED BY <1>1, InputsAreFixed, PTL
-----------------------------------------------------------------------------
(***************************************************************************)
(* The inductive invariant of the search, in parts.                        *)
(***************************************************************************)
Reached(e) == dist[e] # Infinity

SearchTypeOK ==
  /\ InputsOK
  /\ src \in Edges /\ dst \in Edges \ {src}
  /\ dist \in [Edges -> Nat \cup {Infinity}]
  /\ prev \in [Edges -> Edges \cup {NoEdge}]
  /\ visited \subseteq Edges
  /\ pq \subseteq Nat \X Edges
  /\ pc \in {"search", "trace", "done"}
  /\ path \in Seq(Edges)

(* The queue holds the edges that are reached and not settled, once each.  *)
QueueIsFrontier ==
  /\ \A entry \in pq : entry[2] \notin visited /\ entry[1] = dist[entry[2]]
  /\ \A e \in Edges \ visited : Reached(e) => <<dist[e], e>> \in pq

(* prev is a tree of settled edges, and dist adds up along it.             *)
PrevIsTree ==
  /\ dist[src] = 0 /\ prev[src] = NoEdge
  /\ \A e \in visited : Reached(e)
  /\ \A e \in Edges \ {src} : Reached(e) =>
       /\ prev[e] \in visited
       /\ <<prev[e], e>> \in Roads
       /\ dist[e] = dist[prev[e]] + weight[e]

(* Edges are settled in the order of their distances, dst the last.        *)
SettledInOrder ==
  /\ \A u \in visited, e \in Edges \ visited : Reached(e) => dist[u] <= dist[e]
  /\ dst \in visited => \A u \in visited : dist[u] <= dist[dst]

(* The roads out of a settled edge have been relaxed.                      *)
SettledAreRelaxed ==
  \A u \in visited \ {dst}, v \in Edges : <<u, v>> \in Roads =>
    Reached(v) /\ dist[v] <= dist[u] + weight[v]

(* path is the end of the branch of prev that leads to dst.                *)
PathIsBranch ==
  /\ pc = "search" => dst \notin visited /\ path = <<>>
  /\ pc = "trace" => dst \in visited
  /\ path # <<>> => path[Len(path)] = dst
  /\ \A i \in 1 .. Len(path) : Reached(path[i])
  /\ \A i \in 1 .. Len(path) - 1 : path[i] = prev[path[i + 1]]

SearchInv ==
  /\ SearchTypeOK /\ QueueIsFrontier /\ PrevIsTree /\ SettledInOrder
  /\ SettledAreRelaxed /\ PathIsBranch /\ ReturnsShortestPath
-----------------------------------------------------------------------------
(***************************************************************************)
(* Weights are positive: no percentage of noise or congestion makes one 0. *)
(***************************************************************************)
LEMMA WeightPositive ==
  ASSUME InputsOK
  PROVE  weight \in [Edges -> Nat \ {0}]
<1>1. ASSUME NEW e \in Edges
      PROVE  getEdgeWeight(state[e], noise[e]) \in Nat \ {0}
  <2>1. state[e] \in EdgeState /\ noise[e] \in 82 .. 118 /\ K \in Nat
    <3>1. state[e] \in EdgeStates /\ noise[e] \in Noises
      BY DEF InputsOK
    <3> QED BY <3>1, CostAssumption DEF CostAssumption
  <2>2. PICK b \in Nat \ {0} : b = state[e].baseTT
    BY <2>1 DEF EdgeState
  <2>3. PICK c \in Nat : c = Congestion(state[e])
    BY <2>1, CongestionType
  <2>4. PICK n \in Nat \ {0} : n = noise[e]
    BY <2>1
  <2>5. PICK f \in Nat \ {0} : f = 10000 + c * K
    <3>1. c * K \in Nat
      BY <2>1
    <3> QED BY <3>1
  <2>6. b * f * n \in Nat \ {0}
    <3>1. PICK g \in Nat \ {0} : g = b * f
      OBVIOUS
    <3>2. g * n \in Nat \ {0}
      OBVIOUS
    <3> QED BY <3>1, <3>2
  <2>7. b * 1000000 \in Nat \ {0}
    OBVIOUS
  <2> QED BY <2>2, <2>3, <2>4, <2>5, <2>6, <2>7 DEF getEdgeWeight
<1> QED BY <1>1 DEF weight

(***************************************************************************)
(* The recursive sum PathCosts(p) satisfies its equation.                  *)
(***************************************************************************)
LEMMA PathCostsEquation ==
  ASSUME InputsOK, NEW p \in Seq(Edges)
  PROVE  /\ PathCosts(p) \in [1 .. Len(p) -> Nat]
         /\ \A i \in 1 .. Len(p) : PathCosts(p)[i] =
              IF i = 1 THEN 0 ELSE PathCosts(p)[i - 1] + weight[p[i]]
<1> DEFINE n == Len(p)
           w == [i \in 1 .. n |-> weight[p[i]]]
           Solves(c) == c = [i \in DOMAIN p |->
                              IF i = 1 THEN 0 ELSE c[i - 1] + weight[p[i]]]
<1>1. n \in Nat /\ DOMAIN p = 1 .. n
  OBVIOUS
<1>2. w \in [1 .. n -> Nat]
  BY WeightPositive
<1>3. PICK c : IsRunningSum(c, w, n)
  BY <1>1, <1>2, RunningSumExists
<1>4. Solves(c)
  BY <1>1, <1>3 DEF IsRunningSum
<1>5. PathCosts(p) = CHOOSE d : Solves(d)
  BY DEF PathCosts
<1>6. Solves(PathCosts(p))
  BY <1>4, <1>5
<1> DEFINE q == PathCosts(p)
<1>7. q = [i \in 1 .. n |-> IF i = 1 THEN 0 ELSE q[i - 1] + weight[p[i]]]
  BY <1>1, <1>6
<1> HIDE DEF q, n
<1> DEFINE T == {i \in 1 .. n : q[i] \in Nat}
<1>8. CASE n = 0
  BY <1>7, <1>8 DEF q, n
<1>9. CASE n # 0
  <2>1. 1 \in T
    BY <1>1, <1>7, <1>9
  <2>2. ASSUME NEW i \in 1 .. n - 1, i \in T
        PROVE  i + 1 \in T
    <3>1. i + 1 \in 1 .. n /\ i + 1 # 1 /\ (i + 1) - 1 = i
      BY <1>1
    <3>2. q[i + 1] = q[i] + weight[p[i + 1]]
      BY <1>7, <3>1
    <3>3. weight[p[i + 1]] \in Nat
      BY <3>1, WeightPositive DEF n
    <3> QED BY <2>2, <3>1, <3>2, <3>3
  <2> HIDE DEF T
  <2>3. \A i \in 1 .. n : i \in T
    BY <1>1, <2>1, <2>2, ForwardInduction
  <2>4. \A i \in 1 .. n : q[i] \in Nat
    BY <2>3 DEF T
  <2>5. q \in [1 .. n -> Nat]
    BY <1>7, <2>4
  <2>6. \A i \in 1 .. n :
          q[i] = IF i = 1 THEN 0 ELSE q[i - 1] + weight[p[i]]
    BY <1>7
  <2> QED BY <2>5, <2>6 DEF q, n
<1> QED BY <1>8, <1>9
-----------------------------------------------------------------------------
(***************************************************************************)
(* A branch of prev: every edge but the first comes after its prev.        *)
(***************************************************************************)
Branch(p) ==
  /\ p \in Seq(Edges) /\ p # <<>>
  /\ \A i \in 1 .. Len(p) : Reached(p[i])
  /\ \A i \in 1 .. Len(p) - 1 : p[i] = prev[p[i + 1]]

(* Along a branch there are roads, and distances add up and grow.          *)
LEMMA BranchStep ==
  ASSUME SearchTypeOK, PrevIsTree, NEW p, Branch(p), NEW i \in 1 .. Len(p) - 1
  PROVE  /\ p[i] \in Edges /\ p[i + 1] \in Edges
         /\ <<p[i], p[i + 1]>> \in Roads
         /\ dist[p[i]] \in Nat /\ dist[p[i + 1]] \in Nat
         /\ weight[p[i + 1]] \in Nat \ {0}
         /\ dist[p[i + 1]] = dist[p[i]] + weight[p[i + 1]]
         /\ dist[p[i]] < dist[p[i + 1]]
<1> DEFINE u == p[i]
           v == p[i + 1]
<1>1. /\ u \in Edges /\ v \in Edges /\ Reached(u) /\ Reached(v)
      /\ u = prev[v]
  BY DEF Branch
<1>2. v # src
  <2>1. prev[src] = NoEdge /\ NoEdge \notin Edges
    BY NetworkAssumption DEF PrevIsTree, NetworkAssumption, NoEdge
  <2> QED BY <1>1, <2>1
<1>3. <<u, v>> \in Roads /\ dist[v] = dist[u] + weight[v]
  BY <1>1, <1>2 DEF PrevIsTree
<1>4. dist[u] \in Nat /\ dist[v] \in Nat
  BY <1>1 DEF SearchTypeOK, Reached
<1>5. weight[v] \in Nat \ {0}
  BY <1>1, WeightPositive DEF SearchTypeOK
<1> HIDE DEF u, v
<1>6. dist[u] < dist[v]
  BY <1>3, <1>4, <1>5
<1> QED BY <1>1, <1>3, <1>4, <1>5, <1>6 DEF u, v

(* So a branch is a loop-free path.                                        *)
LEMMA BranchIsLoopFree ==
  ASSUME SearchTypeOK, PrevIsTree, NEW p, Branch(p)
  PROVE  Len(p) \in 1 .. Cardinality(Edges) /\ p \in PathsOfLength(Len(p))
<1> DEFINE n == Len(p)
<1>1. /\ n \in Nat \ {0} /\ p \in [1 .. n -> Edges] /\ p \in Seq(Edges)
      /\ \A i \in 1 .. n : p[i] \in Edges /\ dist[p[i]] \in Nat
  BY DEF Branch, SearchTypeOK, Reached
<1>2. \A i \in 1 .. n - 1 :
        /\ <<p[i], p[i + 1]>> \in Roads
        /\ dist[p[i + 1]] = dist[p[i]] + weight[p[i + 1]]
        /\ dist[p[i]] < dist[p[i + 1]]
  BY BranchStep
<1> HIDE DEF n
<1>3. ASSUME NEW i \in 1 .. n, NEW j \in 1 .. n, i < j
      PROVE  dist[p[i]] < dist[p[j]]
  <2> DEFINE T == {k \in 1 .. n : i < k => dist[p[i]] < dist[p[k]]}
  <2>1. 1 \in T
    BY <1>1
  <2>2. ASSUME NEW k \in 1 .. n - 1, k \in T
        PROVE  k + 1 \in T
    <3>1. k \in 1 .. n /\ k + 1 \in 1 .. n
      BY <1>1
    <3>2. CASE i < k
      <4>1. dist[p[i]] < dist[p[k]] /\ dist[p[k]] < dist[p[k + 1]]
        BY <1>2, <2>2, <3>2
      <4>2. dist[p[i]] \in Nat /\ dist[p[k]] \in Nat /\ dist[p[k + 1]] \in Nat
        BY <1>1, <3>1
      <4> QED BY <3>1, <4>1, <4>2
    <3>3. CASE i = k
      BY <1>2, <3>1, <3>3
    <3>4. CASE i > k
      BY <1>1, <3>1, <3>4
    <3> QED BY <1>1, <3>1, <3>2, <3>3, <3>4
  <2> HIDE DEF T
  <2>3. j \in T
    BY <1>1, <2>1, <2>2, ForwardInduction
  <2> QED BY <1>3, <2>3 DEF T
<1>4. ASSUME NEW i \in 1 .. n, NEW j \in 1 .. n, p[i] = p[j]
      PROVE  i = j
  <2>1. ~ (i < j) /\ ~ (j < i)
    <3>1. dist[p[i]] \in Nat /\ dist[p[j]] = dist[p[i]]
      BY <1>1, <1>4
    <3> QED BY <1>3, <3>1
  <2> QED BY <1>1, <2>1
<1>5. n \in 1 .. Cardinality(Edges)
  <2>1. p \in Injection(1 .. n, Edges)
    BY <1>1, <1>4 DEF Injection, IsInjective
  <2>2. IsFiniteSet(Edges)
    BY NetworkAssumption DEF NetworkAssumption
  <2>3. Cardinality(1 .. n) <= Cardinality(Edges) /\ Cardinality(Edges) \in Nat
    BY <2>1, <2>2, FS_Injection, FS_CardinalityType
  <2>4. Cardinality(1 .. n) = n
    BY <1>1, FS_Interval
  <2> QED BY <1>1, <2>3, <2>4
<1>6. p \in PathsOfLength(n)
  BY <1>1, <1>2, <1>4 DEF PathsOfLength
<1> QED BY <1>5, <1>6 DEF n

(* From src, the weight of a branch is the distance of its end.            *)
LEMMA BranchIsPath ==
  ASSUME SearchTypeOK, PrevIsTree, NEW p, Branch(p), p[1] = src
  PROVE  /\ p \in PathsBetween(src, p[Len(p)])
         /\ PathWeight(p) = dist[p[Len(p)]]
<1> DEFINE n == Len(p)
<1>1. n \in Nat \ {0} /\ p \in Seq(Edges)
  BY DEF Branch
<1>2. \A i \in 1 .. n - 1 : dist[p[i + 1]] = dist[p[i]] + weight[p[i + 1]]
  BY BranchStep
<1>3. n \in 1 .. Cardinality(Edges) /\ p \in PathsOfLength(n)
  BY BranchIsLoopFree
<1> HIDE DEF n
<1>4. p \in PathsBetween(src, p[n])
  BY <1>3 DEF Paths, PathsBetween, n
<1>5. \A i \in 1 .. n : PathCosts(p)[i] = dist[p[i]]
  <2> DEFINE T == {i \in 1 .. n : PathCosts(p)[i] = dist[p[i]]}
             c == PathCosts(p)
  <2>1. \A i \in 1 .. n : c[i] = IF i = 1 THEN 0 ELSE c[i - 1] + weight[p[i]]
    BY <1>1, PathCostsEquation DEF SearchTypeOK, n
  <2> HIDE DEF c
  <2>2. 1 \in T
    BY <1>1, <2>1 DEF PrevIsTree, c
  <2>3. ASSUME NEW i \in 1 .. n - 1, i \in T
        PROVE  i + 1 \in T
    <3>1. i \in 1 .. n /\ i + 1 \in 1 .. n /\ i + 1 # 1 /\ (i + 1) - 1 = i
      BY <1>1
    <3>2. c[i + 1] = c[i] + weight[p[i + 1]]
      BY <2>1, <3>1
    <3>3. c[i] = dist[p[i]]
      BY <2>3 DEF c
    <3>4. dist[p[i + 1]] = dist[p[i]] + weight[p[i + 1]]
      BY <1>2
    <3> QED BY <3>1, <3>2, <3>3, <3>4 DEF c
  <2> HIDE DEF T
  <2>4. \A i \in 1 .. n : i \in T
    BY <1>1, <2>2, <2>3, ForwardInduction
  <2> QED BY <2>4 DEF T
<1>6. PathWeight(p) = dist[p[n]]
  BY <1>1, <1>5 DEF PathWeight, n
<1> QED BY <1>4, <1>6 DEF n

(* Every edge that is reached is the end of a branch from src.             *)
LEMMA BranchExists ==
  ASSUME SearchTypeOK, PrevIsTree, NEW e \in Edges, Reached(e)
  PROVE  \E p : Branch(p) /\ p[1] = src /\ p[Len(p)] = e
<1> DEFINE HasBranch(f) == \E p : Branch(p) /\ p[1] = src /\ p[Len(p)] = f
           Bad == {d \in Nat : \E f \in Edges : dist[f] = d /\ ~ HasBranch(f)}
<1>1. \A f \in Edges : Reached(f) => dist[f] \in Nat
  BY DEF SearchTypeOK, Reached
<1> SUFFICES ASSUME ~ HasBranch(e) PROVE FALSE
  OBVIOUS
<1> HIDE DEF HasBranch
<1>2. Bad \in SUBSET Nat /\ Bad # {}
  BY <1>1
<1>3. PICK d \in Bad : \A k \in Bad : d <= k
  <2> HIDE DEF Bad
  <2> QED BY <1>2, LeastNatural
<1>4. PICK f \in Edges : dist[f] = d /\ ~ HasBranch(f)
  BY <1>3
<1>5. d \in Nat /\ Reached(f)
  BY <1>3, <1>4 DEF Reached, Infinity
<1>6. f # src
  <2>1. Branch(<<src>>)
    BY <1>5 DEF Branch, Reached, PrevIsTree, SearchTypeOK, Infinity
  <2>2. HasBranch(src)
    BY <2>1 DEF HasBranch
  <2> QED BY <1>4, <2>2
<1> DEFINE u == prev[f]
<1>7. /\ u \in Edges /\ Reached(u) /\ dist[u] \in Nat
      /\ dist[f] = dist[u] + weight[f]
      /\ weight[f] \in Nat \ {0}
  BY <1>1, <1>5, <1>6, WeightPositive DEF PrevIsTree, SearchTypeOK
<1> HIDE DEF u
<1>8. HasBranch(u)
  <2>1. dist[u] < d
    BY <1>4, <1>5, <1>7
  <2>2. dist[u] \notin Bad
    BY <1>3, <1>5, <1>7, <2>1
  <2> QED BY <1>7, <2>2
<1>9. PICK p : Branch(p) /\ p[1] = src /\ p[Len(p)] = u
  BY <1>8 DEF HasBranch
<1> DEFINE q == Append(p, f)
<1>10. /\ p \in Seq(Edges) /\ Len(p) \in Nat \ {0}
       /\ q \in Seq(Edges) /\ Len(q) = Len(p) + 1
       /\ \A i \in 1 .. Len(p) : q[i] = p[i]
       /\ q[Len(p) + 1] = f
  BY <1>9 DEF Branch
<1> HIDE DEF q
<1>11. Branch(q)
  <2>1. q # <<>>
    BY <1>10
  <2>2. ASSUME NEW i \in 1 .. Len(q)
        PROVE  Reached(q[i])
    <3>1. CASE i \in 1 .. Len(p)
      BY <1>9, <1>10, <3>1 DEF Branch
    <3>2. CASE i = Len(p) + 1
      BY <1>5, <1>10, <3>2
    <3> QED BY <1>10, <3>1, <3>2
  <2>3. ASSUME NEW i \in 1 .. Len(q) - 1
        PROVE  q[i] = prev[q[i + 1]]
    <3>1. CASE i = Len(p)
      BY <1>9, <1>10, <3>1 DEF u
    <3>2. CASE i # Len(p)
      <4>1. i \in 1 .. Len(p) - 1 /\ i \in 1 .. Len(p) /\ i + 1 \in 1 .. Len(p)
        BY <1>10, <3>2
      <4> QED BY <1>9, <1>10, <4>1 DEF Branch
    <3> QED BY <3>1, <3>2
  <2> QED BY <1>10, <2>1, <2>2, <2>3 DEF Branch
<1>12. q[1] = src /\ q[Len(q)] = f
  BY <1>9, <1>10
<1> QED BY <1>4, <1>11, <1>12 DEF HasBranch

(***************************************************************************)
(* No path to a settled edge is shorter than its distance.  Following the  *)
(* path, as long as its cost is below that distance, it runs through edges *)
(* that are settled and were relaxed, so dist never exceeds the cost.      *)
(***************************************************************************)
LEMMA SettledIsLowerBound ==
  ASSUME SearchTypeOK, PrevIsTree, SettledInOrder, SettledAreRelaxed,
         NEW e \in visited, NEW q \in PathsBetween(src, e)
  PROVE  dist[e] <= PathWeight(q)
<1> DEFINE n == Len(q)
           c == PathCosts(q)
           T == {i \in 1 .. n : \/ dist[e] <= c[i]
                                \/ Reached(q[i]) /\ dist[q[i]] <= c[i]}
<1>1. /\ q \in Paths /\ q[1] = src /\ q[n] = e
      /\ e \in Edges /\ dist[e] \in Nat
  BY DEF PathsBetween, SearchTypeOK, PrevIsTree, Reached
<1>2. /\ q \in Seq(Edges) /\ n \in Nat \ {0}
      /\ \A i \in 1 .. n : q[i] \in Edges
      /\ \A i \in 1 .. n - 1 : <<q[i], q[i + 1]>> \in Roads
  <2>1. q \in Seq(Edges) /\ n \in 1 .. Cardinality(Edges)
        /\ Cardinality(Edges) \in Nat /\ q \in PathsOfLength(n)
    BY <1>1, PathFacts
  <2> QED BY <2>1 DEF PathsOfLength
<1>3. \A i \in 1 .. n :
        c[i] \in Nat /\ c[i] = IF i = 1 THEN 0 ELSE c[i - 1] + weight[q[i]]
  BY <1>2, PathCostsEquation DEF SearchTypeOK
<1>4. \A v \in Edges : weight[v] \in Nat
  BY WeightPositive DEF SearchTypeOK
<1>5. \A v \in Edges : Reached(v) => dist[v] \in Nat
  BY DEF SearchTypeOK, Reached
<1> HIDE DEF n, c
<1>6. 1 \in T
  BY <1>1, <1>2, <1>3 DEF PrevIsTree, Reached, Infinity
<1>7. ASSUME NEW i \in 1 .. n - 1, i \in T
      PROVE  i + 1 \in T
  <2> DEFINE u == q[i]
             v == q[i + 1]
  <2>1. /\ i \in 1 .. n /\ i + 1 \in 1 .. n /\ i + 1 # 1 /\ (i + 1) - 1 = i
    BY <1>2
  <2>2. /\ u \in Edges /\ v \in Edges /\ <<u, v>> \in Roads
        /\ c[i] \in Nat /\ c[i + 1] = c[i] + weight[v] /\ weight[v] \in Nat
    BY <1>2, <1>3, <1>4, <2>1
  <2>3. dist[e] <= c[i] \/ (Reached(u) /\ dist[u] <= c[i])
    BY <1>7
  <2> HIDE DEF u, v
  <2>4. CASE dist[e] <= c[i]
    <3>1. dist[e] <= c[i + 1]
      BY <1>1, <2>2, <2>4
    <3> QED BY <2>1, <3>1
  <2>5. CASE ~ (dist[e] <= c[i])
    <3>1. Reached(u) /\ dist[u] <= c[i] /\ dist[u] \in Nat
      BY <1>5, <2>2, <2>3, <2>5
    <3>2. dist[u] < dist[e]
      BY <1>1, <2>2, <2>5, <3>1
    <3>3. u \in visited
      BY <1>1, <2>2, <3>1, <3>2 DEF SettledInOrder
    <3>4. u # dst
      BY <1>1, <3>1, <3>2, <3>3 DEF SettledInOrder
    <3>5. Reached(v) /\ dist[v] <= dist[u] + weight[v]
      BY <2>2, <3>3, <3>4 DEF SettledAreRelaxed
    <3>6. dist[v] <= c[i + 1]
      BY <1>5, <2>2, <3>1, <3>5
    <3> QED BY <2>1, <3>5, <3>6 DEF v
  <2> QED BY <2>4, <2>5
<1> HIDE DEF T
<1>8. n \in T
  <2>1. n \in 1 .. n
    BY <1>2
  <2> QED BY <1>2, <1>6, <1>7, <2>1, ForwardInduction
<1>9. dist[e] <= c[n]
  BY <1>1, <1>8 DEF T
<1> QED BY <1>9 DEF PathWeight, n, c

(* When the queue has run empty without dst, there is no way to dst.       *)
LEMMA EmptyQueueMeansNoWay ==
  ASSUME SearchTypeOK, QueueIsFrontier, PrevIsTree, SettledAreRelaxed,
         pq = {}, dst \notin visited
  PROVE  dist[dst] = Infinity /\ PathsBetween(src, dst) = {}
<1>1. \A e \in Edges : Reached(e) => e \in visited
  BY DEF QueueIsFrontier
<1>2. ~ Reached(dst)
  BY <1>1 DEF SearchTypeOK
<1>3. ASSUME NEW q \in PathsBetween(src, dst)
      PROVE  FALSE
  <2> DEFINE n == Len(q)
             T == {i \in 1 .. n : Reached(q[i])}
  <2>1. q \in Paths /\ q[1] = src /\ q[n] = dst
    BY DEF PathsBetween
  <2>2. /\ n \in Nat \ {0}
        /\ \A i \in 1 .. n : q[i] \in Edges
        /\ \A i \in 1 .. n - 1 : <<q[i], q[i + 1]>> \in Roads
    <3>1. q \in Seq(Edges) /\ n \in 1 .. Cardinality(Edges)
          /\ Cardinality(Edges) \in Nat /\ q \in PathsOfLength(n)
      BY <2>1, PathFacts
    <3> QED BY <3>1 DEF PathsOfLength
  <2> HIDE DEF n
  <2>3. 1 \in T
    BY <2>1, <2>2 DEF PrevIsTree, Reached, Infinity
  <2>4. ASSUME NEW i \in 1 .. n - 1, i \in T
        PROVE  i + 1 \in T
    <3>1. i \in 1 .. n /\ i + 1 \in 1 .. n
      BY <2>2
    <3>2. q[i] \in visited \ {dst}
      BY <1>1, <1>2, <2>2, <2>4, <3>1
    <3>3. Reached(q[i + 1])
      BY <2>2, <3>1, <3>2 DEF SettledAreRelaxed
    <3> QED BY <3>1, <3>3
  <2> HIDE DEF T
  <2>5. n \in T
    <3>1. n \in 1 .. n
      BY <2>2
    <3> QED BY <2>2, <2>3, <2>4, <3>1, ForwardInduction
  <2> QED BY <1>2, <2>1, <2>5 DEF T
<1> QED BY <1>2, <1>3 DEF Reached

(* The branch to a settled edge is a shortest path.                        *)
LEMMA BranchIsShortest ==
  ASSUME SearchTypeOK, PrevIsTree, SettledInOrder, SettledAreRelaxed,
         NEW p, Branch(p), p[1] = src, p[Len(p)] \in visited
  PROVE  /\ p \in ShortestPaths(p[Len(p)])
         /\ PathWeight(p) = dist[p[Len(p)]]
<1> DEFINE e == p[Len(p)]
<1>1. p \in PathsBetween(src, e) /\ PathWeight(p) = dist[e]
  BY BranchIsPath
<1>2. \A q \in PathsBetween(src, e) : dist[e] <= PathWeight(q)
  BY SettledIsLowerBound
<1> HIDE DEF e
<1> QED BY <1>1, <1>2 DEF ShortestPaths, e
-----------------------------------------------------------------------------
LEMMA SearchInitHolds == Init => SearchInv
<1> SUFFICES ASSUME Init PROVE SearchInv
  OBVIOUS
<1>1. NoEdge \notin Edges
  BY NetworkAssumption DEF NetworkAssumption, NoEdge
<1>2. SearchTypeOK
  BY DEF Init, SearchTypeOK, InputsOK
<1>3. QueueIsFrontier
  BY DEF Init, QueueIsFrontier, Reached
<1>4. PrevIsTree
  BY DEF Init, PrevIsTree, Reached
<1>5. SettledInOrder /\ SettledAreRelaxed
  BY DEF Init, SettledInOrder, SettledAreRelaxed
<1>6. PathIsBranch
  BY DEF Init, PathIsBranch
<1>7. ReturnsShortestPath
  BY DEF Init, ReturnsShortestPath
<1> QED BY <1>2, <1>3, <1>4, <1>5, <1>6, <1>7 DEF SearchInv

(* Weights, and so shortest paths, do not change during a call.            *)
LEMMA WeightsAreFixed ==
  ASSUME UNCHANGED <<state, noise, src, dst>>
  PROVE  weight' = weight /\ ShortestPaths(dst)' = ShortestPaths(dst)
BY DEF weight, ShortestPaths, PathWeight, PathCosts

(***************************************************************************)
(* A turn of the loop.  The edge relaxed had no distance yet: had it one,  *)
(* it would have come from an edge settled earlier, at no greater distance,*)
(* and the last step to it costs the same from wherever it is taken.       *)
(***************************************************************************)
LEMMA SearchKeepsInvariant ==
  ASSUME SearchInv, Search
  PROVE  SearchInv'
<1> USE DEF SearchInv
<1>1. PICK entry \in pq :
        LET u == entry[2] IN
        /\ IsTop(entry)
        /\ visited' = visited \cup {u}
        /\ dist' = [v \in Edges |-> IF v \in Relaxed(u)
                                   THEN dist[u] + weight[v] ELSE dist[v]]
        /\ prev' = [v \in Edges |-> IF v \in Relaxed(u) THEN u ELSE prev[v]]
        /\ pq' = Popped(entry) \cup {<<dist'[v], v>> : v \in Relaxed(u)}
        /\ pc' = IF u = dst THEN "trace" ELSE "search"
  BY DEF Search
<1> DEFINE u == entry[2]
           R == Relaxed(u)
<1>2. /\ pc = "search" /\ UNCHANGED <<state, noise, src, dst, path>>
      /\ dst \notin visited /\ path = <<>>
  BY DEF Search, PathIsBranch
<1>3. weight' = weight
  BY <1>2, WeightsAreFixed
<1>4. /\ u \in Edges /\ u \notin visited /\ dist[u] \in Nat /\ Reached(u)
      /\ entry = <<dist[u], u>>
  BY DEF SearchTypeOK, QueueIsFrontier, Reached, Infinity
<1>5. /\ \A v \in Edges : weight[v] \in Nat
      /\ \A v \in Edges : Reached(v) => dist[v] \in Nat
      /\ \A v \in visited : v \in Edges /\ Reached(v) /\ dist[v] \in Nat
  BY WeightPositive DEF SearchTypeOK, PrevIsTree, Reached
<1>6. \A v \in Edges \ visited : Reached(v) => dist[u] <= dist[v]
  <2> SUFFICES ASSUME NEW v \in Edges \ visited, Reached(v)
               PROVE  dist[u] <= dist[v]
    OBVIOUS
  <2>1. <<dist[v], v>> \in pq
    BY DEF QueueIsFrontier
  <2>2. \/ entry[1] < dist[v]
        \/ entry[1] = dist[v]
    BY <1>1, <2>1 DEF IsTop
  <2> QED BY <1>4, <1>5, <2>2
<1>7. \A v \in visited : dist[v] <= dist[u]
  BY <1>4 DEF SettledInOrder
<1>8. ASSUME NEW v \in R
      PROVE  /\ v \in Edges /\ v \notin visited /\ v # u /\ u # dst
             /\ <<u, v>> \in Roads /\ ~ Reached(v)
  <2>1. /\ v \in Edges /\ v \notin visited /\ v # u /\ u # dst
        /\ <<u, v>> \in Roads /\ Closer(dist[u] + weight[v], v)
    BY DEF Relaxed
  <2>2. CASE Reached(v)
    <3>1. dist[u] + weight[v] < dist[v] /\ dist[v] \in Nat /\ weight[v] \in Nat
      BY <1>5, <2>1, <2>2 DEF Closer, Reached
    <3>2. v # src
      BY <1>4, <3>1 DEF PrevIsTree
    <3>3. /\ prev[v] \in visited /\ dist[v] = dist[prev[v]] + weight[v]
      BY <2>1, <2>2, <3>2 DEF PrevIsTree
    <3>4. dist[prev[v]] <= dist[u] /\ dist[prev[v]] \in Nat
      BY <1>5, <1>7, <3>3
    <3> QED BY <1>4, <3>1, <3>3, <3>4
  <2> QED BY <2>1, <2>2
<1>9. ASSUME NEW v \in Edges, <<u, v>> \in Roads, v \notin visited, v # u,
             u # dst, v \notin R
      PROVE  Reached(v) /\ dist[v] <= dist[u] + weight[v]
  <2>1. ~ Closer(dist[u] + weight[v], v)
    BY <1>4, <1>9 DEF Relaxed
  <2>2. Reached(v) /\ ~ (dist[u] + weight[v] < dist[v])
    BY <2>1 DEF Closer, Reached
  <2> QED BY <1>4, <1>5, <2>2
<1> HIDE DEF R
<1>10. /\ visited' = visited \cup {u}
       /\ \A v \in Edges : dist'[v] = IF v \in R THEN dist[u] + weight[v]
                                                   ELSE dist[v]
       /\ \A v \in Edges : prev'[v] = IF v \in R THEN u ELSE prev[v]
       /\ pq' = (pq \ {entry}) \cup {<<dist'[v], v>> : v \in R}
       /\ dist' \in [Edges -> Nat \cup {Infinity}]
       /\ prev' \in [Edges -> Edges \cup {NoEdge}]
       /\ pc' = IF u = dst THEN "trace" ELSE "search"
  BY <1>1, <1>4, <1>5 DEF R, SearchTypeOK, Popped
<1>11. /\ \A v \in Edges : Reached(v) => v \notin R /\ dist'[v] = dist[v]
       /\ \A v \in R : dist'[v] = dist[u] + weight[v] /\ dist'[v] \in Nat
       /\ \A v \in Edges : dist'[v] # Infinity <=> Reached(v) \/ v \in R
  <2>1. \A v \in Edges : Reached(v) => v \notin R /\ dist'[v] = dist[v]
    BY <1>8, <1>10
  <2>2. ASSUME NEW v \in R
        PROVE  dist'[v] = dist[u] + weight[v] /\ dist'[v] \in Nat
    <3>1. v \in Edges /\ weight[v] \in Nat
      BY <1>5, <1>8
    <3>2. dist'[v] = dist[u] + weight[v]
      BY <1>10, <3>1
    <3> QED BY <1>4, <3>1, <3>2
  <2>3. ASSUME NEW v \in Edges
        PROVE  dist'[v] # Infinity <=> Reached(v) \/ v \in R
    <3>1. CASE v \in R
      BY <2>2, <3>1 DEF Infinity
    <3>2. CASE v \notin R
      BY <1>10, <3>2 DEF Reached
    <3> QED BY <3>1, <3>2
  <2> QED BY <2>1, <2>2, <2>3
<1>12. SearchTypeOK'
  <2>1. pq' \subseteq Nat \X Edges
    <3>1. ASSUME NEW v \in R
          PROVE  <<dist'[v], v>> \in Nat \X Edges
      BY <1>8, <1>11
    <3> QED BY <1>10, <3>1 DEF SearchTypeOK
  <2> QED BY <1>2, <1>4, <1>10, <2>1 DEF SearchTypeOK, InputsOK
<1>13. QueueIsFrontier'
  <2>1. ASSUME NEW x \in pq'
        PROVE  x[2] \notin visited' /\ x[1] = dist'[x[2]]
    <3>1. CASE x \in pq \ {entry}
      <4>1. x[2] \in Edges /\ x[2] \notin visited /\ x[1] = dist[x[2]]
            /\ x = <<x[1], x[2]>> /\ x[1] \in Nat
        BY <3>1 DEF QueueIsFrontier, SearchTypeOK
      <4>2. x[2] # u
        BY <1>4, <3>1, <4>1
      <4>3. Reached(x[2])
        BY <4>1 DEF Reached, Infinity
      <4> QED BY <1>10, <1>11, <4>1, <4>2, <4>3
    <3>2. CASE \E v \in R : x = <<dist'[v], v>>
      <4>1. PICK v \in R : x = <<dist'[v], v>>
        BY <3>2
      <4>2. v \notin visited'
        BY <1>8, <1>10
      <4> QED BY <4>1, <4>2
    <3> QED BY <1>10, <3>1, <3>2
  <2>2. ASSUME NEW e \in Edges \ visited', dist'[e] # Infinity
        PROVE  <<dist'[e], e>> \in pq'
    <3>1. CASE e \in R
      BY <1>10, <3>1
    <3>2. CASE Reached(e)
      <4>1. <<dist[e], e>> \in pq /\ e # u
        BY <1>10, <3>2 DEF QueueIsFrontier
      <4> QED BY <1>4, <1>10, <1>11, <3>2, <4>1
    <3> QED BY <1>11, <2>2, <3>1, <3>2
  <2> QED BY <2>1, <2>2 DEF QueueIsFrontier, Reached
<1>14. PrevIsTree'
  <2>1. dist'[src'] = 0 /\ prev'[src'] = NoEdge
    BY <1>2, <1>10, <1>11 DEF PrevIsTree, SearchTypeOK, Reached, Infinity
  <2>2. \A e \in visited' : dist'[e] # Infinity
    BY <1>4, <1>5, <1>10, <1>11
  <2>3. ASSUME NEW e \in Edges \ {src}, dist'[e] # Infinity
        PROVE  /\ prev'[e] \in visited'
               /\ <<prev'[e], e>> \in Roads
               /\ dist'[e] = dist'[prev'[e]] + weight[e]
    <3>1. CASE e \in R
      BY <1>4, <1>8, <1>10, <1>11, <3>1
    <3>2. CASE e \notin R
      <4>1. Reached(e)
        BY <1>11, <2>3, <3>2
      <4>2. /\ prev[e] \in visited /\ <<prev[e], e>> \in Roads
            /\ dist[e] = dist[prev[e]] + weight[e]
        BY <4>1 DEF PrevIsTree
      <4>3. dist'[prev[e]] = dist[prev[e]]
        BY <1>5, <1>11, <4>2
      <4> QED BY <1>10, <1>11, <3>2, <4>1, <4>2, <4>3
    <3> QED BY <3>1, <3>2
  <2> QED BY <1>2, <1>3, <2>1, <2>2, <2>3 DEF PrevIsTree, Reached
<1>15. SettledInOrder'
  <2>1. ASSUME NEW v \in visited', NEW e \in Edges \ visited',
               dist'[e] # Infinity
        PROVE  dist'[v] <= dist'[e]
    <3>1. dist'[v] = dist[v] /\ dist[v] <= dist[u] /\ dist[v] \in Nat
      BY <1>4, <1>5, <1>7, <1>10, <1>11
    <3>2. dist[u] <= dist'[e] /\ dist'[e] \in Nat
      <4>1. CASE e \in R
        BY <1>4, <1>5, <1>8, <1>11, <4>1
      <4>2. CASE Reached(e)
        BY <1>5, <1>6, <1>10, <1>11, <4>2
      <4> QED BY <1>11, <2>1, <4>1, <4>2
    <3> QED BY <1>4, <3>1, <3>2
  <2>2. ASSUME dst \in visited'
        PROVE  \A v \in visited' : dist'[v] <= dist'[dst]
    <3>1. dst = u
      BY <1>2, <1>10, <2>2
    <3> QED BY <1>4, <1>5, <1>7, <1>10, <1>11, <3>1
  <2> QED BY <1>2, <2>1, <2>2 DEF SettledInOrder, Reached
<1>16. SettledAreRelaxed'
  <2>1. ASSUME NEW x \in visited' \ {dst}, NEW v \in Edges, <<x, v>> \in Roads
        PROVE  dist'[v] # Infinity /\ dist'[v] <= dist'[x] + weight[v]
    <3>1. CASE x \in visited
      <4>1. Reached(v) /\ dist[v] <= dist[x] + weight[v]
        BY <2>1, <3>1 DEF SettledAreRelaxed
      <4> QED BY <1>5, <1>11, <3>1, <4>1
    <3>2. CASE x = u
      <4>1. u # dst /\ dist'[u] = dist[u]
        BY <1>4, <1>11, <2>1, <3>2
      <4>2. CASE v \in R
        BY <1>4, <1>5, <1>11, <3>2, <4>1, <4>2
      <4>3. CASE v \in visited \cup {u}
        <5>1. Reached(v) /\ dist[v] <= dist[u] /\ dist[v] \in Nat
          BY <1>4, <1>5, <1>7, <4>3
        <5> QED BY <1>4, <1>5, <1>11, <3>2, <4>1, <5>1
      <4>4. CASE v \notin R /\ v \notin visited \cup {u}
        <5>1. Reached(v) /\ dist[v] <= dist[u] + weight[v]
          BY <1>9, <2>1, <3>2, <4>1, <4>4
        <5> QED BY <1>11, <3>2, <4>1, <5>1
      <4> QED BY <4>2, <4>3, <4>4
    <3> QED BY <1>10, <3>1, <3>2
  <2> QED BY <1>2, <1>3, <2>1 DEF SettledAreRelaxed, Reached
<1>17. PathIsBranch'
  BY <1>2, <1>10 DEF PathIsBranch
<1>18. ReturnsShortestPath'
  BY <1>10 DEF ReturnsShortestPath
<1> QED BY <1>12, <1>13, <1>14, <1>15, <1>16, <1>17, <1>18

(* The parts of the invariant that do not depend on pc and path.           *)
TreeInv ==
  /\ SearchTypeOK /\ QueueIsFrontier /\ PrevIsTree /\ SettledInOrder
  /\ SettledAreRelaxed

LEMMA TreeUnchanged ==
  ASSUME TreeInv, pc' \in {"search", "trace", "done"}, path' \in Seq(Edges),
         UNCHANGED <<state, noise, src, dst, dist, prev, visited, pq>>
  PROVE  TreeInv'
<1>1. weight' = weight
  BY WeightsAreFixed
<1>2. SearchTypeOK'
  BY DEF TreeInv, SearchTypeOK, InputsOK
<1>3. QueueIsFrontier' /\ SettledInOrder'
  BY DEF TreeInv, QueueIsFrontier, SettledInOrder, Reached
<1>4. PrevIsTree'
  BY <1>1 DEF TreeInv, PrevIsTree, Reached
<1>5. SettledAreRelaxed'
  BY <1>1 DEF TreeInv, SettledAreRelaxed, Reached
<1> QED BY <1>2, <1>3, <1>4, <1>5 DEF TreeInv

LEMMA UnreachableKeepsInvariant ==
  ASSUME SearchInv, Unreachable
  PROVE  SearchInv'
<1>1. /\ pc = "search" /\ pq = {} /\ dst \notin visited /\ path = <<>>
      /\ UNCHANGED <<state, noise, src, dst, dist, prev, visited, pq, path>>
  BY DEF SearchInv, Unreachable, PathIsBranch
<1>2. dist[dst] = Infinity /\ PathsBetween(src, dst) = {}
  BY <1>1, EmptyQueueMeansNoWay DEF SearchInv
<1>3. pc' = "done"
  BY <1>2 DEF Unreachable
<1>4. TreeInv'
  BY <1>1, <1>3, TreeUnchanged DEF SearchInv, TreeInv, SearchTypeOK
<1>5. PathIsBranch'
  BY <1>1, <1>3 DEF PathIsBranch
<1>6. ReturnsShortestPath'
  BY <1>1, <1>2 DEF ReturnsShortestPath
<1> QED BY <1>4, <1>5, <1>6 DEF SearchInv, TreeInv

LEMMA TraceKeepsInvariant ==
  ASSUME SearchInv, Trace
  PROVE  SearchInv'
<1>1. /\ pc = "trace" /\ dst \in visited
      /\ UNCHANGED <<state, noise, src, dst, dist, prev, visited, pq>>
      /\ TreeInv /\ PathIsBranch
      /\ path \in Seq(Edges) /\ dst \in Edges /\ Reached(dst)
  BY DEF SearchInv, TreeInv, Trace, PathIsBranch, SearchTypeOK, PrevIsTree
<1>2. NoEdge \notin Edges
  BY NetworkAssumption DEF NetworkAssumption, NoEdge
<1>3. path # <<>> =>
        /\ path[1] \in Edges /\ Reached(path[1])
        /\ prev[path[1]] # NoEdge => prev[path[1]] \in visited
        /\ prev[path[1]] = NoEdge => path[1] = src
  <2> SUFFICES ASSUME path # <<>>
               PROVE  /\ path[1] \in Edges /\ Reached(path[1])
                      /\ prev[path[1]] # NoEdge => prev[path[1]] \in visited
                      /\ prev[path[1]] = NoEdge => path[1] = src
    OBVIOUS
  <2>1. 1 \in 1 .. Len(path)
    BY <1>1
  <2>2. path[1] \in Edges /\ Reached(path[1])
    BY <1>1, <2>1 DEF PathIsBranch
  <2>3. path[1] # src => prev[path[1]] \in visited /\ prev[path[1]] \in Edges
    BY <1>1, <2>2 DEF TreeInv, PrevIsTree, SearchTypeOK
  <2>4. prev[src] = NoEdge
    BY <1>1 DEF TreeInv, PrevIsTree
  <2> QED BY <1>2, <2>2, <2>3, <2>4
<1>4. CASE At # NoEdge
  <2>1. path' = <<At>> \o path /\ pc' = pc
    BY <1>4 DEF Trace
  <2>2. At \in visited
    BY <1>1, <1>3, <1>4 DEF At
  <2>3. At \in Edges /\ Reached(At)
    BY <1>1, <2>2 DEF TreeInv, SearchTypeOK, PrevIsTree
  <2>4. /\ path' \in Seq(Edges) /\ Len(path') = Len(path) + 1
        /\ path'[1] = At /\ Len(path) \in Nat
        /\ \A i \in 2 .. Len(path) + 1 : path'[i] = path[i - 1]
    BY <1>1, <2>1, <2>3
  <2>5. TreeInv'
    BY <1>1, <2>1, <2>4, TreeUnchanged
  <2>6. path'[Len(path')] = dst'
    <3>1. CASE path = <<>>
      BY <1>1, <2>4, <3>1 DEF At
    <3>2. CASE path # <<>>
      <4>1. Len(path) + 1 \in 2 .. Len(path) + 1
        BY <1>1, <3>2
      <4>2. path'[Len(path')] = path[(Len(path) + 1) - 1]
        BY <2>4, <4>1
      <4> QED BY <1>1, <2>4, <3>2, <4>2 DEF PathIsBranch
    <3> QED BY <3>1, <3>2
  <2>7. ASSUME NEW i \in 1 .. Len(path')
        PROVE  Reached(path'[i])
    <3>1. CASE i = 1
      BY <2>3, <2>4, <3>1
    <3>2. CASE i # 1
      <4>1. i \in 2 .. Len(path) + 1 /\ i - 1 \in 1 .. Len(path)
        BY <2>4, <3>2
      <4> QED BY <1>1, <2>4, <4>1 DEF PathIsBranch
    <3> QED BY <3>1, <3>2
  <2>8. ASSUME NEW i \in 1 .. Len(path') - 1
        PROVE  path'[i] = prev[path'[i + 1]]
    <3>1. i + 1 \in 2 .. Len(path) + 1 /\ (i + 1) - 1 = i /\ i \in 1 .. Len(path)
      BY <2>4
    <3>2. path'[i + 1] = path[i]
      BY <2>4, <3>1
    <3>3. CASE i = 1
      <4>1. path # <<>>
        BY <1>1, <3>1
      <4> QED BY <2>4, <3>2, <3>3, <4>1 DEF At
    <3>4. CASE i # 1
      <4>1. /\ i \in 2 .. Len(path) + 1 /\ i - 1 \in 1 .. Len(path) - 1
            /\ (i - 1) + 1 = i
        BY <2>4, <3>1, <3>4
      <4>2. path'[i] = path[i - 1]
        BY <2>4, <4>1
      <4>3. path[i - 1] = prev[path[(i - 1) + 1]]
        BY <1>1, <4>1 DEF PathIsBranch
      <4> QED BY <3>2, <4>1, <4>2, <4>3
    <3> QED BY <3>3, <3>4
  <2>9. PathIsBranch'
    BY <1>1, <2>1, <2>6, <2>7, <2>8 DEF PathIsBranch, Reached
  <2>10. ReturnsShortestPath'
    BY <1>1, <2>1 DEF ReturnsShortestPath
  <2> QED BY <2>5, <2>9, <2>10 DEF SearchInv, TreeInv
<1>5. CASE At = NoEdge
  <2>1. path' = path /\ pc' = "done"
    BY <1>5 DEF Trace
  <2>2. path # <<>> /\ path[1] = src
    BY <1>1, <1>2, <1>3, <1>5 DEF At
  <2>3. Branch(path) /\ path[Len(path)] = dst
    BY <1>1, <2>2 DEF Branch, PathIsBranch
  <2>4. path \in ShortestPaths(dst)
    BY <1>1, <2>2, <2>3, BranchIsShortest DEF TreeInv
  <2>5. path \in PathsBetween(src, dst)
    BY <2>4 DEF ShortestPaths
  <2>6. TreeInv'
    BY <1>1, <2>1, TreeUnchanged
  <2>7. PathIsBranch'
    BY <1>1, <2>1 DEF PathIsBranch, Reached
  <2>8. path' \in ShortestPaths(dst)'
    BY <1>1, <2>1, <2>4, WeightsAreFixed
  <2>9. ReturnsShortestPath'
    BY <1>1, <2>1, <2>5, <2>8 DEF ReturnsShortestPath, dijkstra
  <2> QED BY <2>6, <2>7, <2>9 DEF SearchInv, TreeInv
<1> QED BY <1>4, <1>5

LEMMA SearchStepHolds == SearchInv /\ [Next]_vars => SearchInv'
<1> SUFFICES ASSUME SearchInv, [Next]_vars PROVE SearchInv'
  OBVIOUS
<1>1. CASE Search
  BY <1>1, SearchKeepsInvariant
<1>2. CASE Unreachable
  BY <1>2, UnreachableKeepsInvariant
<1>3. CASE Trace
  BY <1>3, TraceKeepsInvariant
<1>4. CASE UNCHANGED vars
  <2>1. TreeInv'
    BY <1>4, TreeUnchanged DEF SearchInv, TreeInv, SearchTypeOK, vars
  <2>2. PathIsBranch'
    BY <1>4 DEF SearchInv, PathIsBranch, Reached, vars
  <2>3. ReturnsShortestPath'
    BY <1>4, WeightsAreFixed DEF SearchInv, ReturnsShortestPath, vars
  <2> QED BY <2>1, <2>2, <2>3 DEF SearchInv, TreeInv
<1> QED BY <1>1, <1>2, <1>3, <1>4 DEF Next, Done

THEOREM SearchInvariance == Spec => []SearchInv
BY SearchInitHolds, SearchStepHolds, PTL DEF Spec

(***************************************************************************)
(* dijkstra() is correct on every network and for all traffic: the path it *)
(* returns is a shortest one, loop-free, from source to destination, and   *)
(* it returns none only when there is none (TrafficServer.cc:240-284).     *)
(***************************************************************************)
THEOREM SearchIsCorrect == Spec => []ReturnsShortestPath
BY SearchInvariance, PTL DEF SearchInv

(***************************************************************************)
(* visited[u] is set only once dist[u] is the length of a shortest path,   *)
(* and no entry of the queue is ever outdated: the test of visited[] after *)
(* pq.pop() (TrafficServer.cc:257) never skips anything.                   *)
(***************************************************************************)
THEOREM SettledDistancesAreFinal == Spec => []SettledIsFinal
<1>1. SearchInv => SettledIsFinal
  <2> SUFFICES ASSUME SearchInv PROVE SettledIsFinal
    OBVIOUS
  <2>1. ASSUME NEW e \in visited
        PROVE  \E p \in ShortestPaths(e) : PathWeight(p) = dist[e]
    <3>1. e \in Edges /\ Reached(e)
      BY DEF SearchInv, SearchTypeOK, PrevIsTree
    <3>2. PICK p : Branch(p) /\ p[1] = src /\ p[Len(p)] = e
      BY <3>1, BranchExists DEF SearchInv
    <3>3. p \in ShortestPaths(e) /\ PathWeight(p) = dist[e]
      BY <3>2, BranchIsShortest DEF SearchInv
    <3> QED BY <3>3
  <2> QED BY <2>1 DEF SettledIsFinal, SearchInv, QueueIsFrontier
<1> QED BY <1>1, SearchInvariance, PTL

(***************************************************************************)
(* The loops of dijkstra() are bounded on every network.  With the         *)
(* fairness of FairSpec this is what makes a call return.                  *)
(***************************************************************************)
LEMMA PathIsBounded ==
  ASSUME SearchInv
  PROVE  Len(path) \in 0 .. Cardinality(Edges) /\ Cardinality(Edges) \in Nat
<1>1. path \in Seq(Edges) /\ Cardinality(Edges) \in Nat
  BY NetworkAssumption, FS_CardinalityType
     DEF NetworkAssumption, SearchInv, SearchTypeOK
<1>2. CASE path = <<>>
  BY <1>1, <1>2
<1>3. CASE path # <<>>
  <2>1. Branch(path)
    BY <1>1, <1>3 DEF SearchInv, PathIsBranch, Branch
  <2>2. Len(path) \in 1 .. Cardinality(Edges)
    BY <2>1, BranchIsLoopFree DEF SearchInv
  <2> QED BY <1>1, <2>2
<1> QED BY <1>2, <1>3

LEMMA VisitedIsBounded ==
  ASSUME SearchInv
  PROVE  IsFiniteSet(visited) /\ Cardinality(visited) \in 0 .. Cardinality(Edges)
<1>1. IsFiniteSet(Edges) /\ visited \in SUBSET Edges
  BY NetworkAssumption DEF NetworkAssumption, SearchInv, SearchTypeOK
<1>2. /\ IsFiniteSet(visited)
      /\ Cardinality(visited) <= Cardinality(Edges)
  BY <1>1, FS_Subset
<1>3. Cardinality(visited) \in Nat /\ Cardinality(Edges) \in Nat
  BY <1>1, <1>2, FS_CardinalityType
<1> QED BY <1>2, <1>3

THEOREM LoopsAreBounded == Spec => NoTurnIsWasted
<1>1. SearchInv /\ SearchInv' /\ [Next]_vars =>
        [TurnsLeft' < TurnsLeft /\ TurnsLeft' >= 0]_vars
  <2> SUFFICES ASSUME SearchInv, SearchInv', Next, ~ UNCHANGED vars
               PROVE  TurnsLeft' < TurnsLeft /\ TurnsLeft' >= 0
    OBVIOUS
  <2> DEFINE n == Cardinality(Edges)
             k == Cardinality(visited)
  <2>1. /\ n \in Nat /\ k \in 0 .. n /\ Len(path) \in 0 .. n
        /\ IsFiniteSet(visited)
    BY PathIsBounded, VisitedIsBounded
  <2>2. k' \in 0 .. n /\ Len(path') \in 0 .. n
    <3>1. (Len(path) \in 0 .. n)'
      BY PathIsBounded, PTL
    <3>2. (k \in 0 .. n)'
      BY VisitedIsBounded, PTL
    <3> QED BY <3>1, <3>2
  <2>3. CASE Search
    <3>1. PICK u : u \notin visited /\ visited' = visited \cup {u}
      BY <2>3 DEF Search, SearchInv, QueueIsFrontier
    <3>2. k' = k + 1
      BY <2>1, <3>1, FS_AddElement
    <3>3. pc = "search" /\ pc' \in {"search", "trace"} /\ Len(path') = 0
      BY <2>3 DEF Search, SearchInv, PathIsBranch
    <3> HIDE DEF n, k
    <3> QED BY <2>1, <2>2, <3>2, <3>3 DEF TurnsLeft, n, k
  <2>4. CASE Unreachable
    <3>1. pc = "search" /\ pc' = "done"
      <4>1. dist[dst] = Infinity
        BY <2>4, EmptyQueueMeansNoWay DEF Unreachable, SearchInv, PathIsBranch
      <4> QED BY <2>4, <4>1 DEF Unreachable
    <3> HIDE DEF n, k
    <3> QED BY <2>1, <3>1 DEF TurnsLeft, n, k
  <2>5. CASE Trace
    <3>1. pc = "trace"
      BY <2>5 DEF Trace
    <3>2. CASE At # NoEdge
      <4>1. pc' = "trace" /\ path' = <<At>> \o path /\ path \in Seq(Edges)
            /\ Len(path) \in Nat
        BY <2>5, <3>1, <3>2 DEF Trace, SearchInv, SearchTypeOK
      <4>2. Len(path') = Len(path) + 1
        BY <4>1
      <4> HIDE DEF n, k
      <4> QED BY <2>1, <2>2, <3>1, <4>1, <4>2 DEF TurnsLeft, n, k
    <3>3. CASE At = NoEdge
      <4>1. pc' = "done"
        BY <2>5, <3>3 DEF Trace
      <4> HIDE DEF n, k
      <4> QED BY <2>1, <3>1, <4>1 DEF TurnsLeft, n, k
    <3> QED BY <3>2, <3>3
  <2> QED BY <2>3, <2>4, <2>5 DEF Next, Done
<1> QED BY <1>1, SearchInvariance, PTL DEF Spec, NoTurnIsWasted
=============================================================================

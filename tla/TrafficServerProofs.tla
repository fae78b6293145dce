------------------------- MODULE TrafficServerProofs -------------------------
(***************************************************************************)
(* Theorems about the route server for every road network, every number of *)
(* vehicles and every choice of the intervals and limits.                  *)
(***************************************************************************)
EXTENDS TrafficServer, RoadNetworkProofs

(***************************************************************************)
(* Paths are sequences of edges, and so is a truncated one.                *)
(***************************************************************************)
LEMMA DijkstraReturnsEdges ==
  ASSUME NEW src, NEW dst, NEW route \in dijkstra(src, dst)
  PROVE  route \in Seq(Edges)
<1>1. CASE route = <<>>
  BY <1>1
<1>2. CASE route \in Paths
  <2>1. PICK n \in 1 .. Cardinality(Edges) : route \in [1 .. n -> Edges]
    BY <1>2 DEF Paths, PathsOfLength
  <2>2. n \in Nat
    BY <2>1, FS_CardinalityType, NetworkAssumption DEF NetworkAssumption
  <2> QED BY <2>1, <2>2
<1> QED BY <1>1, <1>2 DEF dijkstra, PathsBetween

LEMMA TruncatedType ==
  ASSUME NEW route \in Seq(Edges)
  PROVE  Truncated(route) \in Seq(Edges)
<1> DEFINE n == IF Len(route) < MaxRouteEdges THEN Len(route) ELSE MaxRouteEdges
<1>1. n \in 0 .. Len(route)
  BY ConstantsAssumption DEF ConstantsAssumption
<1>2. SubSeq(route, 1, n) \in Seq(Edges)
  BY <1>1
<1> QED BY <1>2 DEF Truncated

(***************************************************************************)
(* An average lies between what it averages.                               *)
(***************************************************************************)
LEMMA EwmaBetween ==
  ASSUME NEW old \in Nat, NEW sample \in Nat, NEW x \in Ewma(old, sample)
  PROVE  /\ x \in Nat
         /\ old <= x \/ sample <= x
         /\ x <= old \/ x <= sample
BY DEF Ewma

(***************************************************************************)
(* Truncating decay keeps counts natural, keeps their order, and clears    *)
(* nothing that is not small.                                              *)
(***************************************************************************)
LEMMA DecayedMonotone ==
  ASSUME NEW m \in Nat, NEW n \in Nat, m <= n
  PROVE  /\ Decayed(m) \in Nat
         /\ Decayed(n) \in Nat
         /\ Decayed(m) <= Decayed(n)
         /\ m = 0 => Decayed(m) = 0
BY DEF Decayed, DECAY_PERCENT

(***************************************************************************)
(* Statistics: type and agreement of one edge's record, so that the steps  *)
(* below reason about one record at a time.                                *)
(***************************************************************************)
EdgeOK(e, tr) ==
  /\ tr \in EdgeTraffic
  /\ tr.realTTCount = 0 <=> tr.realTravelTime = 0
  /\ tr.realTravelTime <= BaseTravelTime[e] * REAL_TT_MAX_RATIO
  /\ tr.realTTCount <= tr.vehicleCount

TrafficOK == traffic \in [Edges -> EdgeTraffic] /\ EdgeStatisticsAgree

LEMMA UpdateKeepsTraffic ==
  ASSUME TrafficOK, NEW r \in Report, ~ OutOfRange(r), UpdateTraffic(r)
  PROVE  TrafficOK'
<1> DEFINE e == r.edge
           tr == traffic[e]
           keeps == KeepsTravelTime(e, r.realTT)
<1>1. /\ e \in Edges /\ r.speed \in Nat /\ r.realTT \in Int
      /\ BaseTravelTime[e] \in Nat
  BY ConstantsAssumption DEF OutOfRange, Report, ConstantsAssumption
<1>2. EdgeOK(e, tr)
  BY <1>1 DEF TrafficOK, EdgeStatisticsAgree, EdgeOK
<1>3. PICK speed \in IF tr.vehicleCount = 0 THEN {r.speed}
                                            ELSE Ewma(tr.avgSpeed, r.speed),
           tt \in IF ~ keeps THEN {tr.realTravelTime}
                  ELSE IF tr.realTTCount = 0 THEN {r.realTT}
                  ELSE Ewma(tr.realTravelTime, r.realTT) :
        traffic' = [traffic EXCEPT ![e] =
          [vehicleCount   |-> tr.vehicleCount + 1,
           avgSpeed       |-> speed,
           realTravelTime |-> tt,
           realTTCount    |-> IF keeps THEN tr.realTTCount + 1
                                       ELSE tr.realTTCount]]
  BY DEF UpdateTraffic
<1>4. tr.vehicleCount \in Nat /\ tr.avgSpeed \in Nat
      /\ tr.realTravelTime \in Nat /\ tr.realTTCount \in Nat
  BY <1>2 DEF EdgeOK, EdgeTraffic
<1>5. speed \in Nat
  BY <1>1, <1>3, <1>4, EwmaBetween
<1>6. /\ tt \in Nat
      /\ ~ keeps => tt = tr.realTravelTime
      /\ keeps => tt > 0 /\ tt <= BaseTravelTime[e] * REAL_TT_MAX_RATIO
  <2>1. CASE ~ keeps
    BY <2>1, <1>3, <1>4
  <2>2. CASE keeps
    <3>1. r.realTT \in Nat /\ r.realTT > 0
          /\ r.realTT <= BaseTravelTime[e] * REAL_TT_MAX_RATIO
      BY <2>2, <1>1 DEF KeepsTravelTime, REAL_TT_MIN_SEC
    <3>2. CASE tr.realTTCount = 0
      BY <2>2, <3>1, <3>2, <1>3
    <3>3. CASE tr.realTTCount # 0
      <4>1. tt \in Ewma(tr.realTravelTime, r.realTT)
        BY <2>2, <3>3, <1>3
      <4>2. /\ tt \in Nat
            /\ tr.realTravelTime <= tt \/ r.realTT <= tt
            /\ tt <= tr.realTravelTime \/ tt <= r.realTT
        BY <4>1, <3>1, <1>4, EwmaBetween
      <4>3. tr.realTravelTime > 0
            /\ tr.realTravelTime <= BaseTravelTime[e] * REAL_TT_MAX_RATIO
        BY <3>3, <1>2, <1>4 DEF EdgeOK
      <4> QED BY <4>2, <4>3, <3>1, <2>2, <1>1, <1>4 DEF REAL_TT_MAX_RATIO
    <3> QED BY <3>2, <3>3
  <2> QED BY <2>1, <2>2
<1>7. EdgeOK(e, traffic'[e])
  <2>1. traffic'[e] = [vehicleCount   |-> tr.vehicleCount + 1,
                       avgSpeed       |-> speed,
                       realTravelTime |-> tt,
                       realTTCount    |-> IF keeps THEN tr.realTTCount + 1
                                                   ELSE tr.realTTCount]
    BY <1>1, <1>3 DEF TrafficOK
  <2> HIDE DEF keeps, tr
  <2> QED BY <2>1, <1>2, <1>4, <1>5, <1>6 DEF EdgeOK, EdgeTraffic
<1>8. \A f \in Edges : EdgeOK(f, traffic'[f])
  BY <1>3, <1>7 DEF TrafficOK, EdgeStatisticsAgree, EdgeOK
<1>9. traffic' \in [Edges -> EdgeTraffic]
  BY <1>3, <1>8 DEF TrafficOK, EdgeOK
<1> QED BY <1>8, <1>9 DEF TrafficOK, EdgeStatisticsAgree, EdgeOK

LEMMA DecayKeepsTraffic ==
  ASSUME TrafficOK, decayEdgeInfo
  PROVE  TrafficOK'
<1>1. PICK speed : /\ \A e \in Edges : speed[e] \in RelaxedSpeeds(e)
                   /\ traffic' = [e \in Edges |-> DecayedEdge(e, speed[e])]
  BY DEF decayEdgeInfo
<1>2. ASSUME NEW e \in Edges
      PROVE  EdgeOK(e, traffic'[e])
  <2> DEFINE tr == traffic[e]
  <2>1. EdgeOK(e, tr)
    BY DEF TrafficOK, EdgeStatisticsAgree, EdgeOK
  <2>2. tr.vehicleCount \in Nat /\ tr.avgSpeed \in Nat
        /\ tr.realTravelTime \in Nat /\ tr.realTTCount \in Nat
    BY <2>1 DEF EdgeOK, EdgeTraffic
  <2> DEFINE s == speed[e]
  <2>3. /\ s \in IF Decayed(tr.vehicleCount) = 0
               THEN Ewma(tr.avgSpeed, RelaxTarget(e)) ELSE {tr.avgSpeed}
        /\ traffic'[e] =
            [vehicleCount   |-> Decayed(tr.vehicleCount),
             avgSpeed       |-> s,
             realTravelTime |-> IF Decayed(tr.realTTCount) = 0
                                THEN 0 ELSE tr.realTravelTime,
             realTTCount    |-> Decayed(tr.realTTCount)]
    BY <1>1 DEF DecayedEdge, RelaxedSpeeds
  <2>4. RelaxTarget(e) \in Nat
    BY ConstantsAssumption DEF ConstantsAssumption, RelaxTarget
  <2>5. s \in Nat
    BY <2>2, <2>3, <2>4, EwmaBetween
  <2>6. /\ Decayed(tr.realTTCount) \in Nat /\ Decayed(tr.vehicleCount) \in Nat
        /\ Decayed(tr.realTTCount) <= Decayed(tr.vehicleCount)
        /\ tr.realTTCount = 0 => Decayed(tr.realTTCount) = 0
    BY <2>1, <2>2, DecayedMonotone DEF EdgeOK
  <2>7. BaseTravelTime[e] \in Nat
    BY ConstantsAssumption DEF ConstantsAssumption
  <2> HIDE DEF tr
  <2> QED BY <2>1, <2>2, <2>3, <2>5, <2>6, <2>7
          DEF EdgeOK, EdgeTraffic, REAL_TT_MAX_RATIO
<1>3. traffic' \in [Edges -> EdgeTraffic]
  BY <1>1, <1>2 DEF EdgeOK
<1> QED BY <1>2, <1>3 DEF TrafficOK, EdgeStatisticsAgree, EdgeOK
-----------------------------------------------------------------------------
(***************************************************************************)
(* The inductive invariant of the server.                                  *)
(***************************************************************************)
IInv == TypeOK /\ EdgeStatisticsAgree /\ DecisionFollowsRoute /\ RouteSpacing

(***************************************************************************)
(* The part of it the decision variables make up.                          *)
(***************************************************************************)
DecisionOK ==
  /\ lastRouteSent \in [Keys -> Ages \cup {Never}]
  /\ lastRouteEdge \in [Keys -> Edges \cup {Never}]
  /\ rerouteCountThisSecond \in 0 .. MaxReroutes
  /\ routes \subseteq RouteMsg
  /\ routeAge \in [Keys -> Ages \cup {Never}]
  /\ routeGap \in [Keys -> Ages \cup {Never}]
  /\ recent \in [0 .. Second - 1 -> Nat]
  /\ DecisionFollowsRoute
  /\ RouteSpacing

(***************************************************************************)
(* A sender that is due has had no route, or its last one is a full        *)
(* interval old: the hysteresis works on lastRouteSent, which can only be  *)
(* younger than the route.                                                 *)
(***************************************************************************)
LEMMA DueIsSpaced ==
  ASSUME DecisionOK, NEW k \in Keys, NEW e \in Edges, DueForRoute(k, e)
  PROVE  routeAge[k] \in {Never, RerouteInterval}
<1>1. lastRouteSent[k] = Never \/ lastRouteSent[k] >= RerouteInterval
  BY ConstantsAssumption
  DEF DueForRoute, IsFirstReport, TimeElapsed, EdgeChanged,
      HYSTERESIS_PERCENT, DecisionOK, Ages, ConstantsAssumption
<1>2. routeAge[k] # Never =>
        lastRouteSent[k] # Never /\ lastRouteSent[k] <= routeAge[k]
  BY DEF DecisionOK, DecisionFollowsRoute
<1>3. /\ routeAge[k] \in Ages \cup {Never}
      /\ lastRouteSent[k] \in Ages \cup {Never}
  BY DEF DecisionOK
<1> QED BY <1>1, <1>2, <1>3, ConstantsAssumption DEF Ages, ConstantsAssumption

LEMMA DecideKeepsDecisions ==
  ASSUME DecisionOK, NEW k \in Keys, NEW r \in Report, ~ OutOfRange(r),
         Decide(k, r)
  PROVE  DecisionOK'
<1>1. r.edge \in Edges
  BY DEF OutOfRange
<1>2. CASE UNCHANGED decisionVars
  BY <1>2 DEF decisionVars, DecisionOK, DecisionFollowsRoute, RouteSpacing
<1>3. ASSUME DueForRoute(k, r.edge), Remember(k, r.edge),
             UNCHANGED <<rerouteCountThisSecond, routes, routeAge, routeGap,
                         recent>>
      PROVE  DecisionOK'
  BY <1>1, <1>3, ConstantsAssumption
  DEF DecisionOK, DecisionFollowsRoute, RouteSpacing, Remember, Ages, Never,
      ConstantsAssumption
<1>4. ASSUME DueForRoute(k, r.edge), ~ StaggerLimited,
             NEW route \in dijkstra(r.edge, r.dest),
             sendRoute(k, route), Remember(k, r.edge),
             rerouteCountThisSecond' = rerouteCountThisSecond + 1
      PROVE  DecisionOK'
  <2>1. rerouteCountThisSecond' \in 0 .. MaxReroutes
    BY <1>4, ConstantsAssumption
    DEF StaggerLimited, DecisionOK, ConstantsAssumption
  <2>2. /\ lastRouteSent' \in [Keys -> Ages \cup {Never}]
        /\ lastRouteEdge' \in [Keys -> Edges \cup {Never}]
    BY <1>1, <1>4, ConstantsAssumption
    DEF Remember, DecisionOK, Ages, ConstantsAssumption
  <2>3. CASE UNCHANGED <<routes, routeAge, routeGap, recent>>
    BY <2>1, <2>2, <2>3, <1>4, ConstantsAssumption
    DEF DecisionOK, DecisionFollowsRoute, RouteSpacing, Remember, Ages, Never,
        ConstantsAssumption
  <2>4. CASE /\ routes' = routes \cup {[to |-> k, route |-> Truncated(route)]}
             /\ routeAge' = [routeAge EXCEPT ![k] = 0]
             /\ routeGap' = [routeGap EXCEPT ![k] = routeAge[k]]
             /\ recent' = [recent EXCEPT ![0] = @ + 1]
    <3>1. routes' \subseteq RouteMsg
      BY <2>4, DijkstraReturnsEdges, TruncatedType DEF DecisionOK, RouteMsg
    <3>2. recent' \in [0 .. Second - 1 -> Nat]
      <4>1. recent \in [0 .. Second - 1 -> Nat] /\ 0 \in 0 .. Second - 1
        BY ConstantsAssumption DEF DecisionOK, ConstantsAssumption
      <4>2. recent[0] + 1 \in Nat
        BY <4>1
      <4> QED BY <2>4, <4>1, <4>2
    <3>3. /\ routeAge' \in [Keys -> Ages \cup {Never}]
          /\ routeGap' \in [Keys -> Ages \cup {Never}]
      BY <2>4, ConstantsAssumption DEF DecisionOK, Ages, ConstantsAssumption
    <3>4. RouteSpacing'
      BY <2>4, <1>1, <1>4, DueIsSpaced DEF DecisionOK, RouteSpacing
    <3>5. DecisionFollowsRoute'
      BY <2>4, <1>4 DEF DecisionOK, DecisionFollowsRoute, Remember, Never
    <3> QED BY <2>1, <2>2, <3>1, <3>2, <3>3, <3>4, <3>5 DEF DecisionOK
  <2> QED BY <2>3, <2>4, <1>4 DEF sendRoute
<1> QED BY <1>2, <1>3, <1>4 DEF Decide

LEMMA TickKeepsDecisions ==
  ASSUME DecisionOK, Tick
  PROVE  DecisionOK'
<1>1. \A a \in Ages \cup {Never} : Older(a) \in Ages \cup {Never}
  BY ConstantsAssumption DEF Older, Ages, Never, ConstantsAssumption
<1>2. /\ lastRouteSent' \in [Keys -> Ages \cup {Never}]
      /\ routeAge' \in [Keys -> Ages \cup {Never}]
  BY <1>1 DEF Tick, DecisionOK
<1>3. DecisionFollowsRoute'
  <2>1. \A a, b \in Ages \cup {Never} :
          (b # Never => a # Never /\ a <= b)
            => (Older(b) # Never => Older(a) # Never /\ Older(a) <= Older(b))
    BY ConstantsAssumption DEF Older, Ages, Never, ConstantsAssumption
  <2> QED BY <2>1 DEF Tick, DecisionOK, DecisionFollowsRoute
<1>4. recent' \in [0 .. Second - 1 -> Nat]
  BY ConstantsAssumption DEF Tick, DecisionOK, ConstantsAssumption
<1>5. RouteSpacing'
  BY DEF Tick, DecisionOK, RouteSpacing
<1> QED BY <1>2, <1>3, <1>4, <1>5 DEF Tick, DecisionOK

LEMMA InvariantParts ==
  IInv <=> /\ TrafficOK /\ DecisionOK
           /\ vehicleMap \subseteq Keys
           /\ resetAge \in 0 .. Second
           /\ decayAge \in 0 .. DecayInterval
BY DEF IInv, TypeOK, TrafficOK, DecisionOK

LEMMA InitHolds == Init => IInv
<1> SUFFICES ASSUME Init PROVE IInv
  OBVIOUS
<1>1. TrafficOK
  BY ConstantsAssumption
  DEF Init, TrafficOK, EdgeStatisticsAgree, NoTraffic, EdgeTraffic,
      REAL_TT_MAX_RATIO, ConstantsAssumption
<1>2. DecisionOK
  BY ConstantsAssumption
  DEF Init, DecisionOK, DecisionFollowsRoute, RouteSpacing, ConstantsAssumption
<1> QED BY <1>1, <1>2, InvariantParts, ConstantsAssumption
        DEF Init, ConstantsAssumption

LEMMA ReportKeepsInvariant ==
  ASSUME IInv, NEW k \in Keys, NEW r \in Report, socketDataArrived(k, r)
  PROVE  IInv'
<1> DEFINE TimersOK == resetAge \in 0 .. Second /\ decayAge \in 0 .. DecayInterval
<1>0. TrafficOK /\ DecisionOK /\ vehicleMap \subseteq Keys /\ TimersOK
  BY InvariantParts
<1>1. ASSUME TrafficOK', DecisionOK', (vehicleMap \subseteq Keys)', TimersOK'
      PROVE  IInv'
  BY <1>1, PTL, InvariantParts
<1>2. TimersOK'
  BY <1>0 DEF socketDataArrived, timerVars
<1>3. CASE OutOfRange(r) /\ UNCHANGED <<trafficVars, decisionVars>>
  <2>1. TrafficOK'
    BY <1>0, <1>3 DEF trafficVars, TrafficOK, EdgeStatisticsAgree
  <2>2. DecisionOK'
    BY <1>0, <1>3
    DEF decisionVars, DecisionOK, DecisionFollowsRoute, RouteSpacing
  <2> QED BY <1>0, <1>1, <1>2, <1>3, <2>1, <2>2 DEF trafficVars
<1>4. CASE ~ OutOfRange(r) /\ UpdateTraffic(r) /\ Decide(k, r)
           /\ vehicleMap' = vehicleMap \cup {k}
  <2>1. TrafficOK'
    BY <1>4, <1>0, UpdateKeepsTraffic
  <2>2. DecisionOK'
    BY <1>4, <1>0, DecideKeepsDecisions
  <2> QED BY <1>2, <1>4, <2>1, <2>2, <1>0, <1>1
<1> QED BY <1>3, <1>4 DEF socketDataArrived

LEMMA StepHolds == IInv /\ [Next]_serverVars => IInv'
<1> SUFFICES ASSUME IInv, [Next]_serverVars PROVE IInv'
  OBVIOUS
<1> DEFINE TimersOK == resetAge \in 0 .. Second /\ decayAge \in 0 .. DecayInterval
<1>0. TrafficOK /\ DecisionOK /\ vehicleMap \subseteq Keys /\ TimersOK
  BY InvariantParts
<1>1. ASSUME TrafficOK', DecisionOK', (vehicleMap \subseteq Keys)', TimersOK'
      PROVE  IInv'
  BY <1>1, PTL, InvariantParts
<1>2. UNCHANGED traffic => TrafficOK'
  BY <1>0 DEF TrafficOK, EdgeStatisticsAgree
<1>3. UNCHANGED decisionVars => DecisionOK'
  BY <1>0 DEF decisionVars, DecisionOK, DecisionFollowsRoute, RouteSpacing
<1>4. CASE ReportArrives
  BY <1>4, ReportKeepsInvariant DEF ReportArrives
<1>5. CASE RouteLeaves
  <2>1. DecisionOK'
    BY <1>5, <1>0
    DEF RouteLeaves, DecisionOK, DecisionFollowsRoute, RouteSpacing
  <2> QED BY <1>5, <2>1, <1>0, <1>1, <1>2
          DEF RouteLeaves, trafficVars, timerVars
<1>6. CASE decayEdgeInfo
  <2>1. TrafficOK'
    BY <1>6, <1>0, DecayKeepsTraffic
  <2> QED BY <1>6, <2>1, <1>0, <1>1, <1>3, ConstantsAssumption
          DEF decayEdgeInfo, ConstantsAssumption
<1>7. CASE rerouteCounterReset
  <2>1. DecisionOK'
    BY <1>7, <1>0, ConstantsAssumption
    DEF rerouteCounterReset, DecisionOK, DecisionFollowsRoute, RouteSpacing,
        ConstantsAssumption
  <2> QED BY <1>7, <2>1, <1>0, <1>1, <1>2, ConstantsAssumption
          DEF rerouteCounterReset, trafficVars, ConstantsAssumption
<1>8. CASE Tick
  <2>1. DecisionOK'
    BY <1>8, <1>0, TickKeepsDecisions
  <2>2. TimersOK'
    BY <1>8, <1>0, ConstantsAssumption DEF Tick, ConstantsAssumption
  <2> QED BY <1>8, <2>1, <2>2, <1>0, <1>1, <1>2 DEF Tick, trafficVars
<1>9. CASE UNCHANGED serverVars
  BY <1>9, <1>0, <1>1, <1>2, <1>3 DEF serverVars, trafficVars, timerVars
<1> QED BY <1>4, <1>5, <1>6, <1>7, <1>8, <1>9 DEF Next, Timers

(***************************************************************************)
(* The invariant holds throughout every behaviour of the server.           *)
(***************************************************************************)
THEOREM Invariance == Spec => []IInv
BY InitHolds, StepHolds, PTL DEF Spec

(***************************************************************************)
(* Type correctness; the limiter's counter never exceeds                   *)
(* MAX_REROUTES_PER_SEC.                                                   *)
(***************************************************************************)
THEOREM TypeCorrect == Spec => []TypeOK
BY Invariance, PTL DEF IInv

(***************************************************************************)
(* Two routes to one address are at least rerouteInterval apart, for any   *)
(* mixture of first reports, edge changes, short trips and turned-away     *)
(* reports (socketDataArrived, TrafficServer.cc:412-460).                  *)
(***************************************************************************)
THEOREM RoutesAreSpaced == Spec => []RouteSpacing
BY Invariance, PTL DEF IInv

(***************************************************************************)
(* Counts and measured travel times of every edge agree under every order  *)
(* of reports and decays.                                                  *)
(***************************************************************************)
THEOREM StatisticsAgree == Spec => []EdgeStatisticsAgree
BY Invariance, PTL DEF IInv
-----------------------------------------------------------------------------
(***************************************************************************)
(* The limiter.  What the history of routes sent holds, as a set, and how  *)
(* its size changes when a route is sent and when the clock advances.      *)
(***************************************************************************)
Within(f, ticks) == UNION {{i} \X (1 .. f[i]) : i \in 0 .. ticks - 1}

LEMMA WithinMember ==
  \A h, t, z : z \in Within(h, t) <=>
    \E i \in 0 .. t - 1, n \in Int : n \in 1 .. h[i] /\ z = <<i, n>>
BY DEF Within

LEMMA WithinFinite ==
  ASSUME NEW ticks \in 0 .. Second, NEW f \in [0 .. Second - 1 -> Nat]
  PROVE  /\ IsFiniteSet(Within(f, ticks))
         /\ Cardinality(Within(f, ticks)) \in Nat
<1> DEFINE Parts == {{i} \X (1 .. f[i]) : i \in 0 .. ticks - 1}
           part  == [i \in 0 .. ticks - 1 |-> {i} \X (1 .. f[i])]
<1>1. Second \in Nat
  BY ConstantsAssumption DEF ConstantsAssumption
<1>2. IsFiniteSet(0 .. ticks - 1)
  BY <1>1, FS_Interval
<1>3. part \in Surjection(0 .. ticks - 1, Parts)
  BY DEF Surjection
<1>4. IsFiniteSet(Parts)
  BY <1>2, <1>3, FS_Surjection
<1>5. ASSUME NEW i \in 0 .. ticks - 1
      PROVE  IsFiniteSet({i} \X (1 .. f[i]))
  <2>1. PICK n \in Nat : n = f[i]
    BY <1>1
  <2>2. IsFiniteSet({i})
    BY FS_Singleton
  <2>3. IsFiniteSet(1 .. n)
    BY FS_Interval
  <2> QED BY <2>1, <2>2, <2>3, FS_Product
<1>6. IsFiniteSet(UNION Parts)
  BY <1>4, <1>5, FS_UNION
<1> QED BY <1>6, FS_CardinalityType DEF Within

(* One more route of age 0.                                                *)
LEMMA OneMoreRoute ==
  ASSUME NEW ticks \in 1 .. Second, NEW f \in [0 .. Second - 1 -> Nat]
  PROVE  Cardinality(Within([f EXCEPT ![0] = @ + 1], ticks))
           = Cardinality(Within(f, ticks)) + 1
<1> DEFINE g == [f EXCEPT ![0] = @ + 1]
           new == <<0, f[0] + 1>>
<1>1. /\ Second \in Nat /\ 0 \in 0 .. ticks - 1 /\ f[0] \in Nat
      /\ \A i \in 0 .. ticks - 1 :
           i \in 0 .. Second - 1 /\ f[i] \in Nat
             /\ g[i] = IF i = 0 THEN f[0] + 1 ELSE f[i]
  BY ConstantsAssumption DEF ConstantsAssumption
<1> HIDE DEF g
<1>2. Within(g, ticks) = Within(f, ticks) \cup {new}
  <2>1. ASSUME NEW x \in Within(g, ticks)
        PROVE  x \in Within(f, ticks) \cup {new}
    <3>1. PICK i \in 0 .. ticks - 1, n \in Int :
          n \in 1 .. g[i] /\ x = <<i, n>>
      BY <2>1, WithinMember
    <3>2. CASE i = 0 /\ n = f[0] + 1
      BY <3>1, <3>2
    <3>3. CASE ~ (i = 0 /\ n = f[0] + 1)
      <4>1. n \in 1 .. f[i]
        BY <1>1, <3>1, <3>3
      <4> QED BY <3>1, <4>1, WithinMember
    <3> QED BY <3>2, <3>3
  <2>2. ASSUME NEW x \in Within(f, ticks)
        PROVE  x \in Within(g, ticks)
    <3>1. PICK i \in 0 .. ticks - 1, n \in Int :
          n \in 1 .. f[i] /\ x = <<i, n>>
      BY <2>2 DEF Within
    <3>2. n \in 1 .. g[i]
      BY <1>1, <3>1
    <3> QED BY <3>1, <3>2, WithinMember
  <2>3. new \in Within(g, ticks)
    <3>1. f[0] + 1 \in 1 .. g[0]
      BY <1>1
    <3> QED BY <1>1, <3>1, WithinMember
  <2> QED BY <2>1, <2>2, <2>3
<1>3. new \notin Within(f, ticks)
  <2> SUFFICES ASSUME new \in Within(f, ticks) PROVE FALSE
    OBVIOUS
  <2>1. PICK i \in 0 .. ticks - 1, n \in Int :
          n \in 1 .. f[i] /\ new = <<i, n>>
    BY DEF Within
  <2> QED BY <1>1, <2>1
<1>4. IsFiniteSet(Within(f, ticks))
  BY <1>1, WithinFinite
<1> QED BY <1>2, <1>3, <1>4, FS_AddElement DEF g

(* A tick later the same routes are one tick older, and none is new.       *)
Shifted(f) == [i \in 0 .. Second - 1 |-> IF i = 0 THEN 0 ELSE f[i - 1]]

LEMMA OneTickLater ==
  ASSUME NEW ticks \in 0 .. Second - 1, NEW f \in [0 .. Second - 1 -> Nat]
  PROVE  Cardinality(Within(Shifted(f), ticks + 1))
           = Cardinality(Within(f, ticks))
<1> DEFINE S == Within(f, ticks)
           T == Within(Shifted(f), ticks + 1)
           older == [x \in S |-> <<x[1] + 1, x[2]>>]
<1>1. Second \in Nat /\ ticks \in Nat
  BY ConstantsAssumption DEF ConstantsAssumption
<1>2. ASSUME NEW x \in S
      PROVE  /\ x[1] \in Int /\ x = <<x[1], x[2]>>
             /\ <<x[1] + 1, x[2]>> \in T
  <2>1. PICK i \in 0 .. ticks - 1, n \in Int :
          n \in 1 .. f[i] /\ x = <<i, n>>
    BY <1>2 DEF Within
  <2>2. i + 1 \in 0 .. (ticks + 1) - 1 /\ n \in 1 .. Shifted(f)[i + 1]
    BY <1>1, <2>1 DEF Shifted
  <2> QED BY <2>1, <2>2, WithinMember
<1>3. ASSUME NEW y \in T
      PROVE  \E x \in S : <<x[1] + 1, x[2]>> = y
  <2>1. PICK i \in 0 .. (ticks + 1) - 1, n \in Int :
          n \in 1 .. Shifted(f)[i] /\ y = <<i, n>>
    BY <1>3, WithinMember
  <2>2. i # 0
    BY <1>1, <2>1 DEF Shifted
  <2>3. i - 1 \in 0 .. ticks - 1 /\ n \in 1 .. f[i - 1]
    BY <1>1, <2>1, <2>2 DEF Shifted
  <2>4. <<i - 1, n>> \in S
    BY <2>3, WithinMember
  <2>5. <<(i - 1) + 1, n>> = y
    BY <2>1
  <2> QED BY <2>4, <2>5
<1> HIDE DEF S, T
<1>4. older \in Bijection(S, T)
  <2>1. older \in [S -> T]
    BY <1>2
  <2>2. ASSUME NEW x \in S, NEW y \in S, older[x] = older[y]
        PROVE  x = y
    <3>1. x[1] + 1 = y[1] + 1 /\ x[2] = y[2]
      BY <2>2
    <3>2. /\ x = <<x[1], x[2]>> /\ x[1] \in Int
          /\ y = <<y[1], y[2]>> /\ y[1] \in Int
      BY <1>2
    <3>3. x[1] = y[1]
      BY <3>1, <3>2
    <3> QED BY <3>1, <3>2, <3>3
  <2>3. \A y \in T : \E x \in S : older[x] = y
    BY <1>3
  <2>4. IsInjective(older)
    BY <2>2 DEF IsInjective
  <2> QED BY <2>1, <2>3, <2>4 DEF Bijection, Injection, Surjection
<1>5. IsFiniteSet(S)
  BY <1>1, WithinFinite DEF S
<1>6. Cardinality(T) = Cardinality(S)
  BY <1>4, <1>5, FS_Bijection DEF ExistsBijection
<1> QED BY <1>6 DEF S, T

LEMMA RoutesWithinIsWithin ==
  /\ \A ticks : RoutesWithin(ticks) = Within(recent, ticks)
  /\ \A ticks : RoutesWithin(ticks)' = Within(recent', ticks)
BY DEF RoutesWithin, Within

(* The invariant of the limiter in terms of Within, before and after a step.*)
Covered(f, count, age) ==
  /\ Cardinality(Within(f, age)) <= count
  /\ Cardinality(Within(f, Second)) <= count + MaxReroutes

LEMMA CoveredIsCounterCovers ==
  /\ CounterCoversRoutes <=> Covered(recent, rerouteCountThisSecond, resetAge)
  /\ CounterCoversRoutes' <=>
       Covered(recent', rerouteCountThisSecond', resetAge')
BY DEF CounterCoversRoutes, RoutesWithin, Within, Covered

(* Sending a route counts it.                                              *)
LEMMA SendKeepsCovered ==
  ASSUME NEW f \in [0 .. Second - 1 -> Nat], NEW count \in Nat,
         NEW age \in 0 .. Second, Covered(f, count, age)
  PROVE  Covered([f EXCEPT ![0] = @ + 1], count + 1, age)
<1> DEFINE g == [f EXCEPT ![0] = @ + 1]
<1>1. Second \in Nat \ {0} /\ MaxReroutes \in Nat
  BY ConstantsAssumption DEF ConstantsAssumption
<1>2. Second \in 1 .. Second /\ Second \in 0 .. Second
  BY <1>1
<1>3. /\ Cardinality(Within(g, Second)) = Cardinality(Within(f, Second)) + 1
      /\ Cardinality(Within(f, Second)) \in Nat
      /\ Cardinality(Within(f, age)) \in Nat
  BY <1>2, OneMoreRoute, WithinFinite
<1>4. Cardinality(Within(g, age)) <= count + 1
  <2>1. CASE age = 0
    <3>1. Within(g, 0) = {}
      BY DEF Within
    <3>2. Cardinality(Within(g, age)) = 0
      BY <2>1, <3>1, FS_EmptySet
    <3> QED BY <3>2
  <2>2. CASE age # 0
    <3>1. age \in 1 .. Second
      BY <1>1, <2>2
    <3>2. Cardinality(Within(g, age)) = Cardinality(Within(f, age)) + 1
      BY <3>1, OneMoreRoute
    <3> QED BY <1>3, <3>2 DEF Covered
  <2> QED BY <2>1, <2>2
<1>5. Cardinality(Within(g, Second)) <= (count + 1) + MaxReroutes
  BY <1>1, <1>3 DEF Covered
<1> QED BY <1>4, <1>5 DEF Covered

(* A tick ages the routes and the last reset alike.                        *)
LEMMA TickKeepsCovered ==
  ASSUME NEW f \in [0 .. Second - 1 -> Nat], NEW count \in Nat,
         NEW age \in 0 .. Second - 1, Covered(f, count, age)
  PROVE  Covered(Shifted(f), count, age + 1)
<1>1. Second \in Nat \ {0} /\ MaxReroutes \in Nat
  BY ConstantsAssumption DEF ConstantsAssumption
<1>2. Cardinality(Within(Shifted(f), age + 1)) = Cardinality(Within(f, age))
  BY OneTickLater
<1>3. Cardinality(Within(Shifted(f), (Second - 1) + 1))
        = Cardinality(Within(f, Second - 1))
  <2>1. Second - 1 \in 0 .. Second - 1
    BY <1>1
  <2> QED BY <2>1, OneTickLater
<1>4. /\ Cardinality(Within(f, Second - 1)) <= Cardinality(Within(f, Second))
      /\ Cardinality(Within(f, Second - 1)) \in Nat
      /\ Cardinality(Within(f, Second)) \in Nat
  <2>1. Second \in 0 .. Second /\ Second - 1 \in 0 .. Second
    BY <1>1
  <2>2. IsFiniteSet(Within(f, Second))
    BY <2>1, WithinFinite
  <2>3. Within(f, Second - 1) \subseteq Within(f, Second)
    BY <1>1 DEF Within
  <2> QED BY <2>1, <2>2, <2>3, FS_Subset, WithinFinite
<1>5. (Second - 1) + 1 = Second
  BY <1>1
<1> QED BY <1>1, <1>2, <1>3, <1>4, <1>5 DEF Covered

(***************************************************************************)
(* Every step of the server, whatever the environment lets it receive,     *)
(* keeps the limiter's invariant.                                          *)
(***************************************************************************)
LEMMA LimiterStep ==
  ASSUME IInv, CounterCoversRoutes,
         \/ \E k \in Keys, r \in Report : socketDataArrived(k, r)
         \/ RouteLeaves
         \/ Timers
         \/ UNCHANGED <<recent, rerouteCountThisSecond, resetAge>>
  PROVE  CounterCoversRoutes'
<1> DEFINE count == rerouteCountThisSecond
<1>1. /\ recent \in [0 .. Second - 1 -> Nat] /\ resetAge \in 0 .. Second
      /\ count \in Nat /\ count <= MaxReroutes
      /\ Second \in Nat \ {0} /\ MaxReroutes \in Nat
  BY ConstantsAssumption DEF IInv, TypeOK, ConstantsAssumption
<1>2. Covered(recent, count, resetAge)
  BY CoveredIsCounterCovers
<1>3. SUFFICES Covered(recent', count', resetAge')
  BY CoveredIsCounterCovers
<1>4. CASE UNCHANGED <<recent, count, resetAge>>
  BY <1>2, <1>4
<1>5. ASSUME NEW k \in Keys, NEW r \in Report, socketDataArrived(k, r)
      PROVE  Covered(recent', count', resetAge')
  <2>1. resetAge' = resetAge
    BY <1>5 DEF socketDataArrived, timerVars
  <2>2. CASE UNCHANGED decisionVars
    BY <1>4, <2>1, <2>2 DEF decisionVars
  <2>3. CASE UNCHANGED <<count, routes, routeAge, routeGap, recent>>
    BY <1>4, <2>1, <2>3
  <2>4. ASSUME NEW route, sendRoute(k, route), count' = count + 1,
               vehicleMap' = vehicleMap \cup {k}
        PROVE  Covered(recent', count', resetAge')
    <3>1. recent' = [recent EXCEPT ![0] = @ + 1]
      BY <2>4 DEF sendRoute
    <3>2. Covered([recent EXCEPT ![0] = @ + 1], count + 1, resetAge)
      BY <1>1, <1>2, SendKeepsCovered
    <3> QED BY <2>1, <2>4, <3>1, <3>2
  <2> QED BY <1>5, <2>2, <2>3, <2>4 DEF socketDataArrived, Decide
<1>6. CASE RouteLeaves \/ decayEdgeInfo
  BY <1>4, <1>6 DEF RouteLeaves, decayEdgeInfo, decisionVars, timerVars
<1>7. CASE rerouteCounterReset
  <2>1. /\ recent' = recent /\ count' = 0 /\ resetAge' = 0
        /\ resetAge = Second
    BY <1>7 DEF rerouteCounterReset
  <2>2. Cardinality(Within(recent, 0)) = 0
    <3>1. Within(recent, 0) = {}
      BY DEF Within
    <3> QED BY <3>1, FS_EmptySet
  <2>3. /\ Cardinality(Within(recent, Second)) <= count
        /\ Cardinality(Within(recent, Second)) \in Nat
    BY <1>1, <1>2, <2>1, WithinFinite DEF Covered
  <2>4. Cardinality(Within(recent, Second)) <= 0 + MaxReroutes
    BY <1>1, <2>3
  <2>5. Covered(recent, 0, 0)
    BY <2>2, <2>4 DEF Covered
  <2> QED BY <2>1, <2>5
<1>8. CASE Tick
  <2>1. /\ count' = count /\ resetAge' = resetAge + 1
        /\ resetAge \in 0 .. Second - 1
        /\ recent' = Shifted(recent)
    BY <1>1, <1>8 DEF Tick, Shifted
  <2>2. Covered(Shifted(recent), count, resetAge + 1)
    BY <1>1, <1>2, <2>1, TickKeepsCovered
  <2> QED BY <2>1, <2>2
<1> QED BY <1>4, <1>5, <1>6, <1>7, <1>8 DEF Timers

LEMMA LimiterInit == Init => CounterCoversRoutes
<1> SUFFICES ASSUME Init PROVE CounterCoversRoutes
  OBVIOUS
<1>1. \A ticks \in {0, Second} : RoutesWithin(ticks) = {}
  BY ConstantsAssumption DEF Init, RoutesWithin, ConstantsAssumption
<1>2. Cardinality(RoutesWithin(0)) = 0 /\ Cardinality(RoutesWithin(Second)) = 0
  BY <1>1, FS_EmptySet
<1> QED BY <1>2, ConstantsAssumption
        DEF Init, CounterCoversRoutes, ConstantsAssumption

LEMMA CoverImpliesLimit == IInv /\ CounterCoversRoutes => StaggerLimit
<1> SUFFICES ASSUME IInv, CounterCoversRoutes PROVE StaggerLimit
  OBVIOUS
<1>1. /\ recent \in [0 .. Second - 1 -> Nat] /\ Second \in 0 .. Second
      /\ rerouteCountThisSecond \in 0 .. MaxReroutes /\ MaxReroutes \in Nat
  BY ConstantsAssumption DEF IInv, TypeOK, ConstantsAssumption
<1>2. Cardinality(RoutesWithin(Second)) \in Nat
  BY <1>1, WithinFinite, RoutesWithinIsWithin
<1>3. Cardinality(RoutesWithin(Second)) <= rerouteCountThisSecond + MaxReroutes
  BY DEF CounterCoversRoutes
<1> QED BY <1>1, <1>2, <1>3 DEF StaggerLimit

(***************************************************************************)
(* Whatever the limit and however long the second is in ticks, no second   *)
(* sees more than twice MAX_REROUTES_PER_SEC routes, bursts on both sides  *)
(* of a reset of the counter included (TrafficServer.cc:428-455).          *)
(***************************************************************************)
THEOREM RoutesAreStaggered == Spec => []StaggerLimit
<1>1. IInv /\ CounterCoversRoutes /\ [Next]_serverVars => CounterCoversRoutes'
  <2> SUFFICES ASSUME IInv, CounterCoversRoutes, [Next]_serverVars
               PROVE  CounterCoversRoutes'
    OBVIOUS
  <2>1. \/ \E k \in Keys, r \in Report : socketDataArrived(k, r)
        \/ RouteLeaves
        \/ Timers
        \/ UNCHANGED <<recent, rerouteCountThisSecond, resetAge>>
    BY DEF Next, ReportArrives, serverVars, decisionVars, timerVars
  <2> QED BY <2>1, LimiterStep
<1> QED BY <1>1, LimiterInit, CoverImpliesLimit, Invariance, PTL DEF Spec

(***************************************************************************)
(* decayEdgeInfo() never leaves a count where it is: each firing of the    *)
(* decay timer lowers it, until both it and the measured travel time are   *)
(* gone.  With the fairness of FairSpec an edge that is not reported from  *)
(* is forgotten (TrafficServer.cc:500-515).                                *)
(***************************************************************************)
LEMMA DecayedIsLess ==
  ASSUME NEW n \in Nat
  PROVE  Decayed(n) \in Nat /\ IF n = 0 THEN Decayed(n) = 0 ELSE Decayed(n) < n
BY DEF Decayed, DECAY_PERCENT

Forgets(e) ==
  \/ traffic'[e].vehicleCount < traffic[e].vehicleCount
  \/ /\ traffic[e].vehicleCount = 0 /\ traffic'[e].vehicleCount = 0
     /\ traffic'[e].realTravelTime = 0

THEOREM DecayForgets ==
  Spec => [][decayEdgeInfo => \A e \in Edges : Forgets(e)]_serverVars
<1>1. IInv /\ [Next]_serverVars =>
        [decayEdgeInfo => \A e \in Edges : Forgets(e)]_serverVars
  <2> SUFFICES ASSUME IInv, decayEdgeInfo, NEW e \in Edges
               PROVE  Forgets(e)
    OBVIOUS
  <2>1. PICK speed : traffic' = [f \in Edges |-> DecayedEdge(f, speed[f])]
    BY DEF decayEdgeInfo
  <2>2. /\ traffic[e] \in EdgeTraffic
        /\ traffic[e].realTTCount <= traffic[e].vehicleCount
    BY DEF IInv, TypeOK, EdgeStatisticsAgree
  <2>3. /\ traffic[e].vehicleCount \in Nat /\ traffic[e].realTTCount \in Nat
    BY <2>2 DEF EdgeTraffic
  <2>4. /\ traffic'[e].vehicleCount = Decayed(traffic[e].vehicleCount)
        /\ Decayed(traffic[e].realTTCount) = 0 =>
             traffic'[e].realTravelTime = 0
    BY <2>1 DEF DecayedEdge
  <2>5. traffic[e].vehicleCount = 0 => traffic[e].realTTCount = 0
    BY <2>2, <2>3
  <2> QED BY <2>3, <2>4, <2>5, DecayedIsLess DEF Forgets
<1> QED BY <1>1, Invariance, PTL DEF Spec
=============================================================================

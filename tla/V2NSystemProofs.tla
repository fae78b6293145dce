--------------------------- MODULE V2NSystemProofs ---------------------------
(***************************************************************************)
(* Proofs about the rerouting loop: what holds of the server alone holds   *)
(* in the loop, a vehicle's plan is always drivable, and, as long as no    *)
(* route to it was cut to the size of a packet, rerouting keeps a          *)
(* vehicle's destination and no route fails silently.                      *)
(***************************************************************************)
EXTENDS V2NSystem, TrafficServerProofs

(***************************************************************************)
(* A part of a path is a path.                                             *)
(***************************************************************************)
LEMMA PartOfPath ==
  ASSUME NEW p \in Paths, NEW i \in 1 .. Len(p), NEW j \in i .. Len(p)
  PROVE  /\ SubSeq(p, i, j) \in Paths
         /\ SubSeq(p, i, j)[1] = p[i]
         /\ Last(SubSeq(p, i, j)) = p[j]
<1> DEFINE q == SubSeq(p, i, j)
           n == j - i + 1
<1>1. /\ p \in Seq(Edges) /\ Len(p) \in 1 .. Cardinality(Edges)
      /\ Cardinality(Edges) \in Nat
      /\ p \in PathsOfLength(Len(p))
  BY PathFacts
<1>2. /\ q \in Seq(Edges) /\ Len(q) = n
      /\ \A x \in 1 .. n : q[x] = p[i + x - 1]
  BY <1>1
<1>3. n \in 1 .. Cardinality(Edges)
  BY <1>1
<1>4. q \in [1 .. n -> Edges]
  <2> HIDE DEF q, n
  <2> QED BY <1>2, SequenceIsFunction
<1>5. ASSUME NEW x \in 1 .. n - 1
      PROVE  <<q[x], q[x + 1]>> \in Roads
  <2>1. i + x - 1 \in 1 .. Len(p) - 1 /\ x \in 1 .. n /\ x + 1 \in 1 .. n
    BY <1>1, <1>3
  <2>2. <<p[i + x - 1], p[(i + x - 1) + 1]>> \in Roads
    BY <1>1, <2>1 DEF PathsOfLength
  <2>3. q[x] = p[i + x - 1] /\ q[x + 1] = p[(i + x - 1) + 1]
    BY <1>2, <2>1
  <2> QED BY <2>2, <2>3
<1>6. ASSUME NEW x \in 1 .. n, NEW y \in 1 .. n, q[x] = q[y]
      PROVE  x = y
  <2>1. i + x - 1 \in 1 .. Len(p) /\ i + y - 1 \in 1 .. Len(p)
    BY <1>1
  <2>2. p[i + x - 1] = p[i + y - 1]
    BY <1>2, <1>6
  <2>3. i + x - 1 = i + y - 1
    BY <1>1, <2>1, <2>2 DEF PathsOfLength
  <2> QED BY <2>3
<1>7. q \in PathsOfLength(n)
  BY <1>4, <1>5, <1>6 DEF PathsOfLength
<1>8. q \in Paths
  BY <1>3, <1>7 DEF Paths
<1>9. q[1] = p[i] /\ q[n] = p[j]
  BY <1>1, <1>2, <1>3
<1> QED BY <1>2, <1>8, <1>9 DEF Last

LEMMA TailOfPath ==
  ASSUME NEW p \in Paths, Len(p) > 1
  PROVE  /\ Tail(p) \in Paths
         /\ <<p[1], Tail(p)[1]>> \in Roads
         /\ Last(Tail(p)) = Last(p)
<1>1. /\ p \in Seq(Edges) /\ Len(p) \in Nat
      /\ p \in PathsOfLength(Len(p))
  BY PathFacts
<1>2. Tail(p) = SubSeq(p, 2, Len(p))
  BY <1>1
<1>3. <<p[1], p[2]>> \in Roads
  <2>1. <<p[1], p[1 + 1]>> \in Roads
    BY <1>1 DEF PathsOfLength
  <2> QED BY <2>1
<1>4. 2 \in 1 .. Len(p) /\ Len(p) \in 2 .. Len(p)
  BY <1>1
<1>5. LET q == SubSeq(p, 2, Len(p))
      IN  q \in Paths /\ q[1] = p[2] /\ Last(q) = p[Len(p)]
  BY <1>4, PartOfPath, Zenon
<1>6. LET q == Tail(p)
      IN  q \in Paths /\ q[1] = p[2] /\ Last(q) = p[Len(p)]
  BY <1>2, <1>5, Zenon
<1> QED BY <1>3, <1>6, Zenon DEF Last

(***************************************************************************)
(* A truncated path is a path.                                             *)
(***************************************************************************)
LEMMA TruncatedPath ==
  ASSUME NEW p \in Paths
  PROVE  Truncated(p) \in Paths
<1> DEFINE n == IF Len(p) < MaxRouteEdges THEN Len(p) ELSE MaxRouteEdges
<1>1. /\ p \in Seq(Edges) /\ Len(p) \in 1 .. Cardinality(Edges)
      /\ Cardinality(Edges) \in Nat
  BY PathFacts
<1>2. n \in 1 .. Len(p)
  BY <1>1, ConstantsAssumption DEF ConstantsAssumption
<1>3. Truncated(p) = SubSeq(p, 1, n)
  BY DEF Truncated
<1>4. 1 \in 1 .. Len(p)
  BY <1>1
<1> QED BY <1>2, <1>3, <1>4, PartOfPath

(***************************************************************************)
(* A report adds at most one packet, with a truncated path from the edge   *)
(* to the destination it named.                                            *)
(***************************************************************************)
LEMMA AnswerIsPath ==
  ASSUME NEW k \in Keys, NEW r \in Report, socketDataArrived(k, r)
  PROVE  \/ routes' = routes
         \/ \E p \in PathsBetween(r.edge, r.dest) :
              routes' = routes \cup {[to |-> k, route |-> Truncated(p)]}
<1>1. CASE OutOfRange(r) /\ UNCHANGED <<trafficVars, decisionVars>>
  BY <1>1 DEF decisionVars
<1>2. CASE Decide(k, r)
  <2>1. CASE UNCHANGED decisionVars
    BY <2>1 DEF decisionVars
  <2>2. CASE \E route \in dijkstra(r.edge, r.dest) :
               /\ Len(route) >= 2
               /\ UNCHANGED routes \/ sendRoute(k, route)
    <3>1. PICK route \in dijkstra(r.edge, r.dest) :
               /\ Len(route) >= 2
               /\ UNCHANGED routes \/ sendRoute(k, route)
      BY <2>2
    <3>2. route # <<>>
      BY <3>1
    <3>3. route \in PathsBetween(r.edge, r.dest)
      BY <3>1, <3>2 DEF dijkstra
    <3>4. CASE UNCHANGED routes
      BY <3>4
    <3>5. CASE sendRoute(k, route)
      BY <3>3, <3>5 DEF sendRoute
    <3> QED BY <3>1, <3>4, <3>5
  <2> QED BY <1>2, <2>1, <2>2 DEF Decide
<1> QED BY <1>1, <1>2 DEF socketDataArrived

(***************************************************************************)
(* The invariant that needs no assumption on the size of a packet: types,  *)
(* the server's own invariant, and paths in packets and plans.             *)
(***************************************************************************)
RoutesArePaths == \A m \in routes : m.route \in Paths

VehiclesOK ==
  /\ road \in [Keys -> Edges]
  /\ inJunction \in [Keys -> BOOLEAN]
  /\ plan \in [Keys -> Paths]
  /\ reports \subseteq ReportMsg
  /\ reportsSent \in [Keys -> Nat]
  /\ routesReceived \in [Keys -> Nat]
  /\ routesApplied \in [Keys -> Nat]
  /\ routesFallback \in [Keys -> Nat]
  /\ cut \subseteq Keys

SInv == IInv /\ VehiclesOK /\ RoutesArePaths /\ PlanIsDrivable

LEMMA SystemInitHolds == SystemInit => SInv
<1> SUFFICES ASSUME SystemInit PROVE SInv
  OBVIOUS
<1>1. IInv
  BY InitHolds DEF SystemInit
<1>2. VehiclesOK
  BY TripAssumption DEF SystemInit, VehicleInit, VehiclesOK, TripAssumption
<1>3. RoutesArePaths
  BY DEF SystemInit, Init, RoutesArePaths
<1>4. PlanIsDrivable
  BY DEF SystemInit, VehicleInit, PlanIsDrivable, PathsBetween
<1> QED BY <1>1, <1>2, <1>3, <1>4 DEF SInv

(***************************************************************************)
(* For the server, every step of the loop is one it could take on its own, *)
(* a report, or none.                                                      *)
(***************************************************************************)
LEMMA ServerPart ==
  ASSUME SInv, [SystemNext]_systemVars
  PROVE  IInv'
<1>0. IInv /\ VehiclesOK
  BY DEF SInv
<1>1. ASSUME UNCHANGED serverVars PROVE IInv'
  BY <1>0, <1>1, StepHolds
<1>2. CASE \E k \in Keys : EnterJunction(k) \/ LeaveJunction(k) \/ sendReport(k)
  BY <1>1, <1>2 DEF EnterJunction, LeaveJunction, sendReport
<1>3. CASE \E m \in reports : DeliverReport(m)
  <2>1. PICK m \in reports : DeliverReport(m)
    BY <1>3
  <2>2. m.from \in Keys /\ m.report \in Report
    BY <1>0 DEF VehiclesOK, ReportMsg
  <2> QED BY <1>0, <2>1, <2>2, ReportKeepsInvariant DEF DeliverReport
<1>4. CASE \E m \in reports : LoseReport(m)
  BY <1>1, <1>4 DEF LoseReport
<1>5. CASE \E m \in routes : DeliverRoute(m)
  <2>1. RouteLeaves
    BY <1>5 DEF DeliverRoute, RouteLeaves
  <2> QED BY <1>0, <2>1, StepHolds DEF Next
<1>6. CASE LoseRoute \/ ServerTimers
  BY <1>0, <1>6, StepHolds DEF LoseRoute, ServerTimers, Next
<1>7. CASE UNCHANGED systemVars
  BY <1>1, <1>7 DEF systemVars
<1> QED BY <1>2, <1>3, <1>4, <1>5, <1>6, <1>7 DEF SystemNext

(***************************************************************************)
(* A route reaches its vehicle: either the rest of it, from the edge the   *)
(* vehicle is on, becomes the plan, or SUMO finds a plan to its end, or    *)
(* there is none and nothing is counted.                                   *)
(***************************************************************************)
LEMMA RouteEffect ==
  ASSUME VehiclesOK, RoutesArePaths, PlanIsDrivable,
         NEW m \in routes, NEW k \in Keys, k = m.to, DeliverRoute(m)
  PROVE  \/ \E p \in Paths :
              /\ plan' = [plan EXCEPT ![k] = p]
              /\ p[1] = plan[k][1]
              /\ Last(p) = Last(m.route)
              /\ \/ /\ routesApplied' = [routesApplied EXCEPT ![k] = @ + 1]
                    /\ UNCHANGED routesFallback
                 \/ /\ routesFallback' = [routesFallback EXCEPT ![k] = @ + 1]
                    /\ UNCHANGED routesApplied
         \/ /\ PathsBetween(plan[k][1], Last(m.route)) = {}
            /\ UNCHANGED <<plan, routesApplied, routesFallback>>
<1>1. CASE \E i \in 1 .. Len(m.route) :
             TrimmedAt(k, m.route, i) /\ changeVehicleRoute(k, m.route, i)
  <2>1. PICK i \in 1 .. Len(m.route) :
             TrimmedAt(k, m.route, i) /\ changeVehicleRoute(k, m.route, i)
    BY <1>1
  <2> DEFINE p == SubSeq(m.route, i, Len(m.route))
  <2>2. m.route \in Paths
    BY DEF RoutesArePaths
  <2>3. Len(m.route) \in i .. Len(m.route)
    BY <2>1, <2>2, PathFacts
  <2>4. /\ p \in Paths /\ p[1] = m.route[i]
        /\ Last(p) = m.route[Len(m.route)]
    BY <2>2, <2>3, PartOfPath, Zenon
  <2>5. m.route[i] = plan[k][1]
    BY <2>1 DEF TrimmedAt, PlanIsDrivable
  <2> QED BY <2>1, <2>4, <2>5, Zenon DEF changeVehicleRoute, Last
<1>2. CASE changeTarget(k, Last(m.route))
  BY <1>2, Zenon DEF changeTarget, PathsBetween, Last
<1> QED BY <1>1, <1>2 DEF DeliverRoute, Fallback

LEMMA SystemStepHolds == SInv /\ [SystemNext]_systemVars => SInv'
<1> SUFFICES ASSUME SInv, [SystemNext]_systemVars PROVE SInv'
  OBVIOUS
<1>0. IInv' /\ VehiclesOK /\ RoutesArePaths /\ PlanIsDrivable
  BY ServerPart DEF SInv
<1>1. ASSUME VehiclesOK', RoutesArePaths', PlanIsDrivable' PROVE SInv'
  BY <1>0, <1>1 DEF SInv
<1>2. ASSUME NEW k \in Keys, EnterJunction(k) PROVE SInv'
  <2>1. /\ plan[k] \in Paths /\ Tail(plan[k]) \in Paths
        /\ <<plan[k][1], Tail(plan[k])[1]>> \in Roads
    BY <1>0, <1>2, TailOfPath DEF VehiclesOK, EnterJunction
  <2>2. VehiclesOK'
    BY <1>0, <1>2, <2>1 DEF VehiclesOK, EnterJunction, counters
  <2>3. RoutesArePaths'
    BY <1>0, <1>2
    DEF RoutesArePaths, EnterJunction, serverVars, decisionVars
  <2>4. PlanIsDrivable'
    BY <1>0, <1>2, <2>1 DEF VehiclesOK, EnterJunction, PlanIsDrivable
  <2> QED BY <1>1, <2>2, <2>3, <2>4
<1>3. ASSUME NEW k \in Keys, LeaveJunction(k) PROVE SInv'
  <2>1. plan[k][1] \in Edges
    <3>1. plan[k] \in Paths
      BY <1>0 DEF VehiclesOK
    <3>2. plan[k] \in Seq(Edges) /\ Len(plan[k]) >= 1
      BY <3>1, PathFacts
    <3> QED BY <3>2
  <2>2. VehiclesOK'
    BY <1>0, <1>3, <2>1 DEF VehiclesOK, LeaveJunction, counters
  <2>3. RoutesArePaths'
    BY <1>0, <1>3
    DEF RoutesArePaths, LeaveJunction, serverVars, decisionVars
  <2>4. PlanIsDrivable'
    BY <1>0, <1>3 DEF VehiclesOK, LeaveJunction, PlanIsDrivable
  <2> QED BY <1>1, <2>2, <2>3, <2>4
<1>4. ASSUME NEW k \in Keys, sendReport(k) PROVE SInv'
  <2>1. Last(plan[k]) \in ReportedEdges /\ road[k] \in ReportedEdges
    <3>1. plan[k] \in Paths /\ road[k] \in Edges
      BY <1>0 DEF VehiclesOK
    <3>2. plan[k] \in Seq(Edges) /\ Len(plan[k]) \in 1 .. Cardinality(Edges)
          /\ Cardinality(Edges) \in Nat
      BY <3>1, PathFacts
    <3>3. plan[k][Len(plan[k])] \in Edges
      BY <3>2
    <3> QED BY <3>1, <3>3, ConstantsAssumption DEF Last, ConstantsAssumption
  <2>2. reports' \subseteq ReportMsg
    BY <1>0, <1>4, <2>1
    DEF VehiclesOK, sendReport, ReportMsg, Report, ReportedDest
  <2>3. VehiclesOK'
    BY <1>0, <1>4, <2>2 DEF VehiclesOK, sendReport, counters
  <2>4. RoutesArePaths' /\ PlanIsDrivable'
    BY <1>0, <1>4
    DEF RoutesArePaths, PlanIsDrivable, sendReport, serverVars, decisionVars
  <2> QED BY <1>1, <2>3, <2>4
<1>5. ASSUME NEW m \in reports, DeliverReport(m) PROVE SInv'
  <2>1. m.from \in Keys /\ m.report \in Report
    BY <1>0 DEF VehiclesOK, ReportMsg
  <2>2. VehiclesOK' /\ PlanIsDrivable'
    <3>1. cut' \subseteq Keys
      BY <1>0, <1>5, <2>1 DEF VehiclesOK, DeliverReport
    <3> QED BY <1>0, <1>5, <3>1
            DEF VehiclesOK, PlanIsDrivable, DeliverReport, counters
  <2>3. RoutesArePaths'
    BY <1>0, <1>5, <2>1, AnswerIsPath, TruncatedPath
    DEF RoutesArePaths, DeliverReport, PathsBetween
  <2> QED BY <1>1, <2>2, <2>3
<1>6. ASSUME NEW m \in reports, LoseReport(m) PROVE SInv'
  <2>1. VehiclesOK' /\ PlanIsDrivable'
    BY <1>0, <1>6 DEF VehiclesOK, PlanIsDrivable, LoseReport, counters
  <2>2. RoutesArePaths'
    BY <1>0, <1>6 DEF RoutesArePaths, LoseReport, serverVars, decisionVars
  <2> QED BY <1>1, <2>1, <2>2
<1>7. ASSUME NEW m \in routes, DeliverRoute(m) PROVE SInv'
  <2>1. m.to \in Keys
    BY DEF SInv, IInv, TypeOK, RouteMsg
  <2>2. RoutesArePaths'
    BY <1>0, <1>7 DEF RoutesArePaths, DeliverRoute
  <2>3. /\ road' = road /\ inJunction' = inJunction
        /\ reports' = reports /\ reportsSent' = reportsSent /\ cut' = cut
        /\ routesReceived' \in [Keys -> Nat]
    BY <1>0, <1>7, <2>1 DEF VehiclesOK, DeliverRoute
  <2>4. CASE UNCHANGED <<plan, routesApplied, routesFallback>>
    BY <1>0, <1>1, <2>2, <2>3, <2>4 DEF VehiclesOK, PlanIsDrivable
  <2>5. ASSUME NEW p \in Paths, plan' = [plan EXCEPT ![m.to] = p],
               p[1] = plan[m.to][1],
               /\ routesApplied' \in [Keys -> Nat]
               /\ routesFallback' \in [Keys -> Nat]
        PROVE  SInv'
    <3>1. VehiclesOK'
      BY <1>0, <2>3, <2>5 DEF VehiclesOK
    <3>2. PlanIsDrivable'
      BY <1>0, <2>1, <2>3, <2>5 DEF VehiclesOK, PlanIsDrivable
    <3> QED BY <1>1, <2>2, <3>1, <3>2
  <2>6. CASE \E p \in Paths :
               /\ plan' = [plan EXCEPT ![m.to] = p]
               /\ p[1] = plan[m.to][1]
               /\ \/ /\ routesApplied' = [routesApplied EXCEPT ![m.to] = @ + 1]
                     /\ UNCHANGED routesFallback
                  \/ /\ routesFallback' = [routesFallback EXCEPT ![m.to] = @ + 1]
                     /\ UNCHANGED routesApplied
    <3>1. PICK p \in Paths :
               /\ plan' = [plan EXCEPT ![m.to] = p]
               /\ p[1] = plan[m.to][1]
               /\ \/ /\ routesApplied' = [routesApplied EXCEPT ![m.to] = @ + 1]
                     /\ UNCHANGED routesFallback
                  \/ /\ routesFallback' = [routesFallback EXCEPT ![m.to] = @ + 1]
                     /\ UNCHANGED routesApplied
      BY <2>6
    <3>2. /\ routesApplied' \in [Keys -> Nat]
          /\ routesFallback' \in [Keys -> Nat]
      BY <1>0, <2>1, <3>1 DEF VehiclesOK
    <3> QED BY <2>5, <3>1, <3>2, Zenon
  <2> QED BY <1>0, <1>7, <2>1, <2>4, <2>6, RouteEffect
<1>8. CASE LoseRoute \/ ServerTimers
  <2>1. VehiclesOK' /\ PlanIsDrivable'
    BY <1>0, <1>8
    DEF VehiclesOK, PlanIsDrivable, LoseRoute, ServerTimers, vehicleVars, counters
  <2>2. routes' \subseteq routes
    BY <1>8 DEF LoseRoute, ServerTimers, Timers, RouteLeaves, decayEdgeInfo,
                rerouteCounterReset, Tick, decisionVars
  <2>3. RoutesArePaths'
    BY <1>0, <2>2 DEF RoutesArePaths
  <2> QED BY <1>1, <2>1, <2>3
<1>9. CASE UNCHANGED systemVars
  BY <1>0, <1>1, <1>9
  DEF systemVars, vehicleVars, serverVars, decisionVars, counters, VehiclesOK,
      RoutesArePaths, PlanIsDrivable
<1> QED BY <1>2, <1>3, <1>4, <1>5, <1>6, <1>7, <1>8, <1>9 DEF SystemNext

THEOREM SystemInvariance == SystemSpec => []SInv
BY SystemInitHolds, SystemStepHolds, PTL DEF SystemSpec

(***************************************************************************)
(* Type correctness of the loop.                                           *)
(***************************************************************************)
THEOREM SystemTypeCorrect == SystemSpec => []SystemTypeOK
<1>1. SInv => SystemTypeOK
  BY DEF SInv, IInv, VehiclesOK, SystemTypeOK
<1> QED BY <1>1, SystemInvariance, PTL

(***************************************************************************)
(* However packets are lost, delayed and overtaken, a vehicle is not sent  *)
(* two routes within rerouteInterval, and what it is told leaves it with a *)
(* plan it can drive, truncated routes included.                           *)
(***************************************************************************)
THEOREM RoutesAreSpacedInTheLoop == SystemSpec => []RouteSpacing
<1>1. SInv => RouteSpacing
  BY DEF SInv, IInv
<1> QED BY <1>1, SystemInvariance, PTL

THEOREM PlansAreDrivable == SystemSpec => []PlanIsDrivable
<1>1. SInv => PlanIsDrivable
  BY DEF SInv
<1> QED BY <1>1, SystemInvariance, PTL

(***************************************************************************)
(* Unless a route is cut, the destination travels round the loop           *)
(* unchanged: from the plan into a report, from there into a route, and    *)
(* from the route back into the plan.  A fallback then always succeeds,    *)
(* since the plan the vehicle already has leads to the same target.        *)
(***************************************************************************)
DInv == /\ SInv
        /\ PacketsKeepDestination
        /\ DestinationKept
        /\ NoSilentFailure

LEMMA DestinationInit == SystemInit => DInv
<1> SUFFICES ASSUME SystemInit PROVE DInv
  OBVIOUS
<1>1. SInv
  BY SystemInitHolds
<1>2. PacketsKeepDestination
  BY DEF SystemInit, Init, VehicleInit, PacketsKeepDestination
<1>3. DestinationKept
  BY Zenon DEF SystemInit, VehicleInit, DestinationKept, PathsBetween, Last
<1>4. NoSilentFailure
  BY DEF SystemInit, VehicleInit, NoSilentFailure
<1> QED BY <1>1, <1>2, <1>3, <1>4 DEF DInv

LEMMA DestinationStep ==
  ASSUME DInv, [SystemNext]_systemVars
  PROVE  DInv'
<1>0. /\ SInv /\ SInv' /\ VehiclesOK /\ RoutesArePaths /\ PlanIsDrivable
      /\ PacketsKeepDestination /\ DestinationKept /\ NoSilentFailure
  BY SystemStepHolds DEF DInv, SInv
<1>1. ASSUME PacketsKeepDestination', DestinationKept', NoSilentFailure'
      PROVE  DInv'
  BY <1>0, <1>1 DEF DInv
<1>2. ASSUME NEW k \in Keys, EnterJunction(k) PROVE DInv'
  <2>1. plan[k] \in Paths /\ Last(Tail(plan[k])) = Last(plan[k])
    BY <1>0, <1>2, TailOfPath DEF VehiclesOK, EnterJunction
  <2>2. ASSUME NEW j \in Keys \ cut PROVE Last(plan[j])' = TripTo[j]
    <3>1. plan'[j] = plan[j] \/ (plan'[j] = Tail(plan[k]) /\ j = k)
      BY <1>0, <1>2 DEF VehiclesOK, EnterJunction
    <3>2. Last(plan[j]) = TripTo[j]
      BY <1>0 DEF DestinationKept
    <3> QED BY <2>1, <3>1, <3>2, Zenon DEF Last
  <2>3. PacketsKeepDestination' /\ NoSilentFailure'
    BY <1>0, <1>2 DEF EnterJunction, PacketsKeepDestination, NoSilentFailure,
                      serverVars, decisionVars, counters, Last
  <2>4. cut' = cut
    BY <1>2 DEF EnterJunction
  <2> QED BY <1>1, <2>2, <2>3, <2>4 DEF DestinationKept
<1>3. ASSUME NEW k \in Keys, LeaveJunction(k) PROVE DInv'
  BY <1>0, <1>1, <1>3
  DEF LeaveJunction, PacketsKeepDestination, NoSilentFailure, DestinationKept,
      serverVars, decisionVars, counters, Last
<1>4. ASSUME NEW k \in Keys, sendReport(k) PROVE DInv'
  <2>1. \A m \in reports' : m.from \notin cut => m.report.dest = TripTo[m.from]
    BY <1>0, <1>4
    DEF sendReport, PacketsKeepDestination, DestinationKept, ReportedDest
  <2>2. PacketsKeepDestination' /\ NoSilentFailure' /\ DestinationKept'
    BY <1>0, <1>4, <2>1
    DEF sendReport, PacketsKeepDestination, DestinationKept, NoSilentFailure,
        serverVars, decisionVars, counters, Last
  <2> QED BY <1>1, <2>2
<1>5. ASSUME NEW m \in reports, DeliverReport(m) PROVE DInv'
  <2>1. m.from \in Keys /\ m.report \in Report
    BY <1>0 DEF VehiclesOK, ReportMsg
  <2>2. cut \subseteq cut'
    BY <1>5 DEF DeliverReport
  <2>3. ASSUME NEW q \in routes', q.to \notin cut'
        PROVE  Last(q.route) = TripTo[q.to]
    <3>1. CASE q \in routes
      BY <1>0, <2>2, <2>3, <3>1 DEF PacketsKeepDestination
    <3>2. CASE q \in routes' \ routes
      <4>1. PICK p \in PathsBetween(m.report.edge, m.report.dest) :
                 routes' = routes \cup {[to |-> m.from, route |-> Truncated(p)]}
        BY <1>5, <2>1, <3>2, AnswerIsPath DEF DeliverReport
      <4>2. q.to = m.from
        BY <3>2, <4>1
      <4>3. Last(q.route) = m.report.dest
        BY <1>5, <2>3, <3>2, <4>2 DEF DeliverReport
      <4>4. m.from \notin cut
        BY <2>2, <2>3, <4>2
      <4> QED BY <1>0, <4>2, <4>3, <4>4 DEF PacketsKeepDestination
    <3> QED BY <3>1, <3>2
  <2>4. PacketsKeepDestination' /\ NoSilentFailure' /\ DestinationKept'
    BY <1>0, <1>5, <2>2, <2>3
    DEF DeliverReport, PacketsKeepDestination, DestinationKept,
        NoSilentFailure, counters, Last
  <2> QED BY <1>1, <2>4
<1>6. ASSUME NEW m \in reports, LoseReport(m) PROVE DInv'
  BY <1>0, <1>1, <1>6
  DEF LoseReport, PacketsKeepDestination, NoSilentFailure, DestinationKept,
      serverVars, decisionVars, counters, Last
<1>7. ASSUME NEW m \in routes, DeliverRoute(m) PROVE DInv'
  <2>1. m.to \in Keys
    BY <1>0 DEF SInv, IInv, TypeOK, RouteMsg
  <2> DEFINE k == m.to
  <2>2. cut' = cut /\ routesReceived' = [routesReceived EXCEPT ![k] = @ + 1]
    BY <1>7 DEF DeliverRoute
  <2>3. PacketsKeepDestination'
    BY <1>0, <1>7 DEF DeliverRoute, PacketsKeepDestination, Last
  <2>4. ASSUME k \in cut, NEW j \in Keys \ cut
        PROVE  /\ plan'[j] = plan[j]
               /\ routesReceived'[j] = routesReceived[j]
               /\ routesApplied'[j] = routesApplied[j]
               /\ routesFallback'[j] = routesFallback[j]
    <3>1. j # k
      BY <2>4
    <3>2. routesReceived'[j] = routesReceived[j]
      BY <1>0, <2>2, <3>1 DEF VehiclesOK
    <3> QED BY <1>0, <1>7, <2>1, <3>1, <3>2, RouteEffect DEF VehiclesOK
  <2>5. CASE k \in cut
    <3>1. DestinationKept'
      BY <1>0, <2>2, <2>4, <2>5, Zenon DEF DestinationKept, Last
    <3>2. NoSilentFailure'
      BY <1>0, <2>2, <2>4, <2>5 DEF NoSilentFailure
    <3> QED BY <1>1, <2>3, <3>1, <3>2
  <2>6. CASE k \notin cut
    <3>1. Last(m.route) = TripTo[k] /\ plan[k] \in Paths
          /\ Last(plan[k]) = TripTo[k]
      BY <1>0, <2>1, <2>6 DEF PacketsKeepDestination, VehiclesOK, DestinationKept
    <3>2. plan[k] \in PathsBetween(plan[k][1], Last(m.route))
      BY <3>1, Zenon DEF PathsBetween, Last
    <3>3. PICK p \in Paths :
              /\ plan' = [plan EXCEPT ![k] = p]
              /\ Last(p) = Last(m.route)
              /\ \/ /\ routesApplied' = [routesApplied EXCEPT ![k] = @ + 1]
                    /\ UNCHANGED routesFallback
                 \/ /\ routesFallback' = [routesFallback EXCEPT ![k] = @ + 1]
                    /\ UNCHANGED routesApplied
      BY <1>0, <1>7, <2>1, <3>2, RouteEffect, Zenon
    <3>4. DestinationKept'
      <4>1. ASSUME NEW j \in Keys \ cut PROVE Last(plan[j])' = TripTo[j]
        <5>1. plan'[j] = plan[j] \/ (plan'[j] = p /\ j = k)
          BY <1>0, <2>1, <3>3 DEF VehiclesOK
        <5>2. Last(plan[j]) = TripTo[j]
          BY <1>0 DEF DestinationKept
        <5> QED BY <3>1, <3>3, <5>1, <5>2, Zenon DEF Last
      <4> QED BY <2>2, <4>1 DEF DestinationKept
    <3>5. NoSilentFailure'
      BY <1>0, <2>1, <2>2, <3>3 DEF NoSilentFailure, VehiclesOK
    <3> QED BY <1>1, <2>3, <3>4, <3>5
  <2> QED BY <2>5, <2>6
<1>8. CASE LoseRoute \/ ServerTimers
  <2>1. routes' \subseteq routes /\ UNCHANGED vehicleVars
    BY <1>8 DEF LoseRoute, ServerTimers, Timers, RouteLeaves, decayEdgeInfo,
                rerouteCounterReset, Tick, decisionVars
  <2>2. PacketsKeepDestination' /\ NoSilentFailure' /\ DestinationKept'
    BY <1>0, <2>1
    DEF PacketsKeepDestination, DestinationKept, NoSilentFailure, vehicleVars,
        counters, Last
  <2> QED BY <1>1, <2>2
<1>9. CASE UNCHANGED systemVars
  BY <1>0, <1>1, <1>9
  DEF systemVars, vehicleVars, serverVars, decisionVars, counters,
      PacketsKeepDestination, DestinationKept, NoSilentFailure, Last
<1> QED BY <1>2, <1>3, <1>4, <1>5, <1>6, <1>7, <1>8, <1>9 DEF SystemNext

(***************************************************************************)
(* Rerouting never changes the destination of a vehicle, unless a route    *)
(* to it was cut ("en azindan hedef korunmus olur").                       *)
(***************************************************************************)
THEOREM DestinationIsKept == SystemSpec => []DestinationKept
<1>1. DInv /\ [SystemNext]_systemVars => DInv'
  BY DestinationStep
<1>2. DInv => DestinationKept
  BY DEF DInv
<1> QED BY <1>1, <1>2, DestinationInit, PTL DEF SystemSpec

(***************************************************************************)
(* And then every route received is applied or accepted as a target: the   *)
(* catch blocks of socketDataArrived() are never reached.                  *)
(***************************************************************************)
THEOREM RoutesNeverFailSilently == SystemSpec => []NoSilentFailure
<1>1. DInv /\ [SystemNext]_systemVars => DInv'
  BY DestinationStep
<1>2. DInv => NoSilentFailure
  BY DEF DInv
<1> QED BY <1>1, <1>2, DestinationInit, PTL DEF SystemSpec

(***************************************************************************)
(* To the server the loop is one of its environments: each step of the     *)
(* loop is a report from a vehicle, a packet that leaves the network, a    *)
(* timer, or nothing to it.  MaxCount, which bounds the reports of the     *)
(* server's own specification, plays no part here.                         *)
(***************************************************************************)
ServerStep ==
  \/ \E k \in Keys, r \in Report : socketDataArrived(k, r)
  \/ RouteLeaves
  \/ Timers

LEMMA LoopStepIsServerStep ==
  ASSUME SInv, [SystemNext]_systemVars
  PROVE  [ServerStep]_serverVars
<1>1. VehiclesOK
  BY DEF SInv
<1>2. CASE \E k \in Keys : EnterJunction(k) \/ LeaveJunction(k) \/ sendReport(k)
  BY <1>2 DEF EnterJunction, LeaveJunction, sendReport
<1>3. CASE \E m \in reports : DeliverReport(m)
  <2>1. PICK m \in reports : DeliverReport(m)
    BY <1>3
  <2>2. m.from \in Keys /\ m.report \in Report
    BY <1>1 DEF VehiclesOK, ReportMsg
  <2>3. socketDataArrived(m.from, m.report)
    BY <2>1 DEF DeliverReport
  <2> QED BY <2>2, <2>3 DEF ServerStep
<1>4. CASE (\E m \in reports : LoseReport(m)) \/ UNCHANGED systemVars
  BY <1>4 DEF LoseReport, systemVars
<1>5. CASE \E m \in routes : DeliverRoute(m)
  BY <1>5 DEF DeliverRoute, RouteLeaves, ServerStep
<1>6. CASE LoseRoute \/ ServerTimers
  BY <1>6 DEF LoseRoute, ServerTimers, ServerStep
<1> QED BY <1>2, <1>3, <1>4, <1>5, <1>6 DEF SystemNext

(***************************************************************************)
(* The loop implements the server with an unbounded number of reports.     *)
(***************************************************************************)
THEOREM LoopImplementsServer == SystemSpec => Init /\ [][ServerStep]_serverVars
<1>1. SInv /\ [SystemNext]_systemVars => [ServerStep]_serverVars
  BY LoopStepIsServerStep
<1>2. SystemInit => Init
  BY DEF SystemInit
<1> QED BY <1>1, <1>2, SystemInvariance, PTL DEF SystemSpec

(***************************************************************************)
(* The limiter holds in the loop: with any number of vehicles reporting    *)
(* and any packets lost or late, the server sends at most twice            *)
(* MAX_REROUTES_PER_SEC routes within a second.                            *)
(***************************************************************************)
THEOREM RoutesAreStaggeredInTheLoop == SystemSpec => []StaggerLimit
<1>1. SystemInit => CounterCoversRoutes
  BY LimiterInit DEF SystemInit
<1>2. SInv /\ CounterCoversRoutes /\ [ServerStep]_serverVars
        => CounterCoversRoutes'
  <2> SUFFICES ASSUME SInv, CounterCoversRoutes, [ServerStep]_serverVars
               PROVE  CounterCoversRoutes'
    OBVIOUS
  <2>1. ServerStep \/ UNCHANGED <<recent, rerouteCountThisSecond, resetAge>>
    BY DEF serverVars, decisionVars, timerVars
  <2> QED BY <2>1, LimiterStep DEF SInv, ServerStep
<1>3. SInv /\ CounterCoversRoutes => StaggerLimit
  BY CoverImpliesLimit DEF SInv
<1> QED BY <1>1, <1>2, <1>3, SystemInvariance, LoopImplementsServer, PTL
        DEF SystemSpec

(***************************************************************************)
(* Truncated routes without the history variable.  A packet shorter than   *)
(* MAX_ROUTE_EDGES was not cut (TrafficServer.cc:472), so a vehicle that   *)
(* is only sent such packets is never in `cut'.                            *)
(***************************************************************************)
RoomLeft(k) == \A m \in routes : m.to = k => Len(m.route) < MaxRouteEdges

GoesWhereItWas(k) ==
  /\ Last(plan[k]) = TripTo[k]
  /\ routesReceived[k] = routesApplied[k] + routesFallback[k]

LEMMA NeverCut ==
  ASSUME NEW k \in Keys, DInv, k \notin cut, [SystemNext]_systemVars,
         RoomLeft(k)'
  PROVE  k \notin cut'
<1>1. SInv /\ VehiclesOK
  BY DEF DInv, SInv
<1>2. ASSUME NEW m \in reports, DeliverReport(m), m.from = k
      PROVE  k \notin cut'
  <2>1. m.report \in Report
    BY <1>1 DEF VehiclesOK, ReportMsg
  <2>2. ASSUME NEW q \in routes' \ routes
        PROVE  Last(q.route) = m.report.dest
    <3>1. PICK p \in PathsBetween(m.report.edge, m.report.dest) :
             routes' = routes \cup {[to |-> k, route |-> Truncated(p)]}
      BY <1>2, <2>1, <2>2, AnswerIsPath DEF DeliverReport
    <3>2. p \in Paths /\ p[Len(p)] = m.report.dest
      BY <3>1 DEF PathsBetween
    <3>3. /\ p \in Seq(Edges) /\ Len(p) \in Nat /\ MaxRouteEdges \in Nat
          /\ 1 <= Len(p)
      BY <3>2, PathFacts, ConstantsAssumption DEF ConstantsAssumption
    <3>4. q.to = k /\ q.route = Truncated(p)
      BY <2>2, <3>1
    <3>5. Len(Truncated(p)) < MaxRouteEdges
      BY <2>2, <3>4 DEF RoomLeft
    <3>6. Truncated(p) = p
      <4>1. Len(p) <= MaxRouteEdges
        BY <3>3, <3>5 DEF Truncated
      <4>2. Truncated(p) = SubSeq(p, 1, Len(p))
        BY <3>3, <4>1 DEF Truncated
      <4> QED BY <3>3, <4>2
    <3> QED BY <3>2, <3>4, <3>6 DEF Last
  <2> QED BY <1>2, <2>2 DEF DeliverReport
<1>3. ASSUME NEW m \in reports, DeliverReport(m), m.from # k
      PROVE  k \notin cut'
  BY <1>3 DEF DeliverReport
<1>4. CASE ~ \E m \in reports : DeliverReport(m)
  <2>1. UNCHANGED cut
    BY <1>4 DEF SystemNext, EnterJunction, LeaveJunction, sendReport, LoseReport,
                DeliverRoute, LoseRoute, ServerTimers, systemVars, vehicleVars
  <2> QED BY <2>1
<1> QED BY <1>2, <1>3, <1>4

(***************************************************************************)
(* A vehicle that is never sent a full packet keeps its destination and    *)
(* loses no route silently (VehicleApp.cc:319), however large the network  *)
(* and whatever the other vehicles are sent.                               *)
(***************************************************************************)
THEOREM ShortRoutesKeepDestinations ==
  ASSUME NEW k \in Keys
  PROVE  SystemSpec /\ []RoomLeft(k) => []GoesWhereItWas(k)
<1>1. SystemInit => DInv /\ k \notin cut
  BY DestinationInit DEF SystemInit, VehicleInit
<1>2. DInv /\ k \notin cut /\ [SystemNext]_systemVars /\ RoomLeft(k)'
        => DInv' /\ (k \notin cut)'
  BY DestinationStep, NeverCut
<1>3. DInv /\ k \notin cut => GoesWhereItWas(k)
  BY DEF DInv, DestinationKept, NoSilentFailure, GoesWhereItWas
<1> QED BY <1>1, <1>2, <1>3, PTL DEF SystemSpec
=============================================================================

------------------------------ MODULE V2NSystem ------------------------------
(***************************************************************************)
(* The rerouting loop: equipped vehicles (VehicleApp.cc) and the route     *)
(* server exchange UDP packets over LTE while the vehicles drive on.       *)
(*                                                                         *)
(* Reports and routes are sets of packets in flight: each may be lost, or  *)
(* be overtaken by later ones and by the vehicle itself.  SUMO is external:*)
(* it moves a vehicle along its plan, edge by edge and through the         *)
(* junctions between them, and computes a new plan for changeTarget().     *)
(* The life of the modules is the subject of VehicleApp; here a vehicle    *)
(* that has reached its last edge stays there.                             *)
(***************************************************************************)
EXTENDS TrafficServer

CONSTANTS
  TripFrom, TripTo,     \* the trip each vehicle departs on
  MaxReports            \* bound on the reports of one vehicle

ASSUME TripAssumption ==
  /\ TripFrom \in [Keys -> Edges] /\ TripTo \in [Keys -> Edges]
  /\ \A k \in Keys : PathsBetween(TripFrom[k], TripTo[k]) # {}
  /\ MaxReports \in Nat

VARIABLES
  road,               \* the edge a vehicle is on, or the last one before
  inJunction,         \* getRoadId() is an internal edge
  plan,               \* the edges still to be driven, road first if on it
  reports,            \* VehicleReportMsg packets on their way
  reportsSent,
  routesReceived, routesApplied, routesFallback,
  cut                 \* history: vehicles that were sent a truncated route

counters    == <<routesReceived, routesApplied, routesFallback>>
vehicleVars == <<road, inJunction, plan, reports, reportsSent, counters,
                 cut>>
systemVars  == <<serverVars, vehicleVars>>

ReportMsg == [from : Keys, report : Report]

Last(s) == s[Len(s)]

VehicleInit ==
  /\ road = TripFrom
  /\ inJunction = [k \in Keys |-> FALSE]
  /\ plan \in {f \in [Keys -> Paths] :
                 \A k \in Keys : f[k] \in PathsBetween(TripFrom[k], TripTo[k])}
  /\ reports = {}
  /\ reportsSent = [k \in Keys |-> 0]
  /\ routesReceived = [k \in Keys |-> 0]
  /\ routesApplied = [k \in Keys |-> 0]
  /\ routesFallback = [k \in Keys |-> 0]
  /\ cut = {}

SystemInit == Init /\ VehicleInit
-----------------------------------------------------------------------------
(***************************************************************************)
(* External: SUMO drives the vehicle into the next junction, and out of it.*)
(***************************************************************************)
EnterJunction(k) ==
  /\ ~ inJunction[k] /\ Len(plan[k]) > 1
  /\ inJunction' = [inJunction EXCEPT ![k] = TRUE]
  /\ plan' = [plan EXCEPT ![k] = Tail(plan[k])]
  /\ UNCHANGED <<serverVars, road, reports, reportsSent, counters, cut>>

LeaveJunction(k) ==
  /\ inJunction[k]
  /\ inJunction' = [inJunction EXCEPT ![k] = FALSE]
  /\ road' = [road EXCEPT ![k] = plan[k][1]]
  /\ UNCHANGED <<serverVars, plan, reports, reportsSent, counters, cut>>

(***************************************************************************)
(* sendReport(): not from within a junction.  The destination reported is  *)
(* the end of the plan the vehicle has at that moment.                     *)
(***************************************************************************)
(* Mutant: the edge was not found in edgeToIndex, and it is sent anyway.    *)
UnknownDest(k) == Never
(* Mutant: the destination is the next edge of the plan.                   *)
NextOfPlan(k) == plan[k][IF Len(plan[k]) > 1 THEN 2 ELSE 1]
ReportedDest(k) == Last(plan[k])

sendReport(k) ==
  /\ ~ inJunction[k] /\ reportsSent[k] < MaxReports
  /\ \E speed \in Speeds, tt \in TravelTimes :
       reports' = reports \cup
         {[from |-> k, report |-> [edge |-> road[k], dest |-> ReportedDest(k),
                                   speed |-> speed, realTT |-> tt]]}
  /\ reportsSent' = [reportsSent EXCEPT ![k] = @ + 1]
  /\ UNCHANGED <<serverVars, road, inJunction, plan, counters, cut>>

(***************************************************************************)
(* A report reaches the server's socketDataArrived().  A route that does   *)
(* not end at the destination reported was cut to the size of a packet.    *)
(***************************************************************************)
DeliverReport(m) ==
  /\ m \in reports
  /\ reports' = reports \ {m}
  /\ socketDataArrived(m.from, m.report)
  /\ cut' = IF \E q \in routes' \ routes : Last(q.route) # m.report.dest
            THEN cut \cup {m.from} ELSE cut
  /\ UNCHANGED <<road, inJunction, plan, reportsSent, counters>>

(***************************************************************************)
(* Vehicle::changeTarget() in its try block: SUMO plans anew from the next *)
(* edge the vehicle can choose, or refuses a target it cannot reach; then  *)
(* the exception is swallowed and nothing is counted.                      *)
(***************************************************************************)
changeTarget(k, target) ==
  /\ \/ /\ PathsBetween(plan[k][1], target) = {}
        /\ UNCHANGED <<plan, routesFallback>>
     \/ \E p \in PathsBetween(plan[k][1], target) :
          /\ plan' = [plan EXCEPT ![k] = p]
          /\ routesFallback' = [routesFallback EXCEPT ![k] = @ + 1]
  /\ UNCHANGED routesApplied

(***************************************************************************)
(* changeVehicleRoute() with the part of the route from edge i on.  Its    *)
(* own checks, not in a junction and on the first edge of the list, hold   *)
(* for a route trimmed at the vehicle's edge.                              *)
(***************************************************************************)
changeVehicleRoute(k, route, i) ==
  /\ plan' = [plan EXCEPT ![k] = SubSeq(route, i, Len(route))]
  /\ routesApplied' = [routesApplied EXCEPT ![k] = @ + 1]
  /\ UNCHANGED routesFallback

(* The vehicle is on edge i of the route, and there is more of it to drive.*)
(* Mutant: the last edge driven is taken for the current one.              *)
TrimmedAtLastRoad(k, route, i) == route[i] = road[k] /\ i < Len(route)
TrimmedAt(k, route, i) ==
  ~ inJunction[k] /\ route[i] = road[k] /\ i < Len(route)

(***************************************************************************)
(* VehicleApp::socketDataArrived(): follow the route from the edge the     *)
(* vehicle is on by now; if it is not on it, or the rest is one edge only, *)
(* just take over the target.                                              *)
(***************************************************************************)
(* Mutant: a route the vehicle is not on is dropped.                       *)
SilentlyDropped(k, route) ==
  /\ \A i \in 1 .. Len(route) : ~ TrimmedAt(k, route, i)
  /\ UNCHANGED <<plan, routesApplied, routesFallback>>
Fallback(k, route) ==
  /\ \A i \in 1 .. Len(route) : ~ TrimmedAt(k, route, i)
  /\ changeTarget(k, Last(route))

DeliverRoute(m) ==
  /\ m \in routes
  /\ routes' = routes \ {m}
  /\ routesReceived' = [routesReceived EXCEPT ![m.to] = @ + 1]
  /\ \/ \E i \in 1 .. Len(m.route) :
          /\ TrimmedAt(m.to, m.route, i)
          /\ changeVehicleRoute(m.to, m.route, i)
     \/ Fallback(m.to, m.route)
  /\ UNCHANGED <<trafficVars, lastRouteSent, lastRouteEdge,
                 rerouteCountThisSecond, routeAge, routeGap, recent,
                 timerVars, road, inJunction, reports, reportsSent, cut>>

(***************************************************************************)
(* The network loses a packet.                                             *)
(***************************************************************************)
LoseReport(m) ==
  /\ m \in reports
  /\ reports' = reports \ {m}
  /\ UNCHANGED <<serverVars, road, inJunction, plan, reportsSent, counters,
                 cut>>

LoseRoute == RouteLeaves /\ UNCHANGED vehicleVars

ServerTimers == Timers /\ UNCHANGED vehicleVars

SystemNext ==
  \/ \E k \in Keys : EnterJunction(k) \/ LeaveJunction(k) \/ sendReport(k)
  \/ \E m \in reports : DeliverReport(m) \/ LoseReport(m)
  \/ \E m \in routes : DeliverRoute(m)
  \/ LoseRoute
  \/ ServerTimers

SystemSpec == SystemInit /\ [][SystemNext]_systemVars
-----------------------------------------------------------------------------
SystemTypeOK ==
  /\ TypeOK
  /\ road \in [Keys -> Edges]
  /\ inJunction \in [Keys -> BOOLEAN]
  /\ plan \in [Keys -> Paths]
  /\ reports \subseteq ReportMsg
  /\ reportsSent \in [Keys -> Nat]
  /\ routesReceived \in [Keys -> Nat]
  /\ routesApplied \in [Keys -> Nat]
  /\ routesFallback \in [Keys -> Nat]
  /\ cut \subseteq Keys

(***************************************************************************)
(* "en azindan hedef korunmus olur" (VehicleApp.cc:320): rerouting never   *)
(* changes where a vehicle is going, whichever packets are lost, late or   *)
(* overtaken, and whether a route is applied or falls back to its target.  *)
(* The exception is a vehicle that was sent a truncated route.             *)
(***************************************************************************)
DestinationKept == \A k \in Keys \ cut : Last(plan[k]) = TripTo[k]

(***************************************************************************)
(* The comment's own claim, about the fallback alone: a vehicle that has   *)
(* only ever fallen back to a route's target is still going where it was.  *)
(***************************************************************************)
FallbackKeepsDestination ==
  \A k \in Keys : routesFallback[k] > 0 /\ routesApplied[k] = 0 =>
    Last(plan[k]) = TripTo[k]

(***************************************************************************)
(* "sessiz fail yerine" (VehicleApp.cc:319): no route fails silently; each *)
(* one received was applied, or SUMO accepted its target.  Again with the  *)
(* exception of truncated routes.                                          *)
(***************************************************************************)
NoSilentFailure ==
  \A k \in Keys \ cut : routesReceived[k] = routesApplied[k] + routesFallback[k]

(***************************************************************************)
(* Whatever a route says and wherever the vehicle has got to, the plan     *)
(* SUMO is left with continues the road the vehicle is on.                 *)
(***************************************************************************)
PlanIsDrivable ==
  \A k \in Keys : IF inJunction[k] THEN <<road[k], plan[k][1]>> \in Roads
                                   ELSE plan[k][1] = road[k]

(***************************************************************************)
(* What makes DestinationKept inductive: so do the packets in flight.      *)
(***************************************************************************)
PacketsKeepDestination ==
  /\ \A m \in reports : m.from \notin cut => m.report.dest = TripTo[m.from]
  /\ \A m \in routes : m.to \notin cut => Last(m.route) = TripTo[m.to]
=============================================================================

---------------------------- MODULE TrafficServer ----------------------------
(***************************************************************************)
(* The route server (simulte/src/apps/TrafficApp/TrafficServer.cc).  It    *)
(* receives vehicle reports over UDP, keeps per-edge traffic statistics,   *)
(* decides with a hysteresis and a per-second limiter whether the sender   *)
(* is due for a route, and answers with the edges of a shortest path.      *)
(*                                                                         *)
(* Time is counted in ticks, and every stored instant is kept as its AGE,  *)
(* saturating at the largest value the code compares it with: lastRouteSent*)
(* is only ever compared with rerouteInterval.  The two self-messages are  *)
(* the ages of their last firing; time cannot pass a timer that is due.    *)
(*                                                                         *)
(* Doubles are abstracted: an EWMA of two values is any value between them *)
(* (the property used is that the average is convex), and the shortest     *)
(* path is any loop-free path (what module Dijkstra shows of the real one).*)
(***************************************************************************)
EXTENDS RoadNetwork, Functions

CONSTANTS
  Keys,             \* source addresses of vehicles, the keys of vehicleMap
  ReportedEdges,    \* indices a report can carry
  EdgeLength,       \* edges[e].length
  BaseTravelTime,   \* edges[e].baseTravelTime
  SpeedLimit,       \* edges[e].speedLimit
  DefaultSpeed,     \* 13.9, the speed of an edge nothing is known about
  Speeds,           \* speeds a report can carry
  TravelTimes,      \* realTravelTime values a report can carry, -1 if unknown
  MinRouteDistance, \* minRouteDistance
  MaxRouteEdges,    \* size of ServerRouteMsg.routeEdges (64)
  MaxReroutes,      \* MAX_REROUTES_PER_SEC
  RerouteInterval, DecayInterval, Second,   \* durations in ticks
  MaxCount          \* bound on the reports counted on one edge

(* Never: the key is absent from lastRouteSent and lastRouteEdge.          *)
Never == -1

ASSUME ConstantsAssumption ==
  /\ Edges \subseteq ReportedEdges
  /\ Never \notin Edges
  /\ EdgeLength \in [Edges -> Nat]
  /\ BaseTravelTime \in [Edges -> Nat]
  /\ SpeedLimit \in [Edges -> Nat]
  /\ DefaultSpeed \in Nat
  /\ Speeds \subseteq Nat
  /\ TravelTimes \subseteq Int
  /\ MinRouteDistance \in Nat
  /\ MaxRouteEdges \in Nat \ {0, 1}
  /\ MaxReroutes \in Nat \ {0}
  /\ RerouteInterval \in Nat \ {0}
  /\ DecayInterval \in Nat \ {0}
  /\ Second \in Nat \ {0}
  /\ MaxCount \in Nat

VARIABLES
  traffic,                 \* [Edges -> EdgeTraffic]
  vehicleMap,              \* keys the server has an address and a port for
  lastRouteSent,           \* per key: age of the last decision, or Never
  lastRouteEdge,           \* per key: edge of the last decision, or Never
  rerouteCountThisSecond,
  resetAge, decayAge,      \* ticks since the two timers last fired
  routes,                  \* ServerRouteMsg packets on their way
  routeAge,                \* history: age of the last route sent to a key
  routeGap,                \* history: time between its last two routes
  recent                   \* history: recent[i] routes were sent i ticks ago

trafficVars  == <<traffic, vehicleMap>>
decisionVars == <<lastRouteSent, lastRouteEdge, rerouteCountThisSecond,
                  routes, routeAge, routeGap, recent>>
timerVars    == <<resetAge, decayAge>>
serverVars   == <<trafficVars, decisionVars, timerVars>>

Ages == 0 .. RerouteInterval

Report == [edge : ReportedEdges, dest : ReportedEdges,
           speed : Speeds, realTT : TravelTimes]

EdgeTraffic == [vehicleCount : Nat, avgSpeed : Nat,
                realTravelTime : Nat, realTTCount : Nat]

RouteMsg == [to : Keys, route : Seq(Edges)]
-----------------------------------------------------------------------------
(***************************************************************************)
(* Constants of the code, in integers.                                     *)
(***************************************************************************)
REAL_TT_MAX_RATIO == 5
REAL_TT_MIN_SEC   == 0      \* 0.5 s: the shortest time kept is one unit
DECAY_PERCENT     == 92     \* DECAY_MULT 0.92

(* Mutant: after an edge change half the interval is enough.               *)
HalfHysteresis == 50
HYSTERESIS_PERCENT == 100   \* HYSTERESIS_RATIO 1.0

(***************************************************************************)
(* (int)(count * DECAY_MULT)                                               *)
(***************************************************************************)
(* Mutant: rounding up, as ceil() would.                                    *)
DecayedUp(count) == (count * DECAY_PERCENT + 99) \div 100
Decayed(count) == (count * DECAY_PERCENT) \div 100

(***************************************************************************)
(* The values (1 - alpha) * old + alpha * sample can be rounded to.        *)
(***************************************************************************)
Ewma(old, sample) == (old .. sample) \cup (sample .. old)

(***************************************************************************)
(* EdgeTraffic as its constructor leaves it.                               *)
(***************************************************************************)
NoTraffic == [vehicleCount |-> 0, avgSpeed |-> DefaultSpeed,
              realTravelTime |-> 0, realTTCount |-> 0]

Init ==
  /\ traffic = [e \in Edges |-> NoTraffic]
  /\ vehicleMap = {}
  /\ lastRouteSent = [k \in Keys |-> Never]
  /\ lastRouteEdge = [k \in Keys |-> Never]
  /\ rerouteCountThisSecond = 0
  /\ resetAge = 0
  /\ decayAge = 0
  /\ routes = {}
  /\ routeAge = [k \in Keys |-> Never]
  /\ routeGap = [k \in Keys |-> Never]
  /\ recent = [i \in 0 .. Second - 1 |-> 0]
-----------------------------------------------------------------------------
(***************************************************************************)
(* Sum of the lengths of the edges of a route.                             *)
(***************************************************************************)
RouteDistance(route) ==
  SumFunction([i \in DOMAIN route |-> EdgeLength[route[i]]])

(***************************************************************************)
(* The packet sendRoute() builds: at most MaxRouteEdges leading edges.     *)
(***************************************************************************)
Truncated(route) ==
  SubSeq(route, 1, IF Len(route) < MaxRouteEdges THEN Len(route)
                                                 ELSE MaxRouteEdges)

(***************************************************************************)
(* The statistics of an edge after one report: the speed is averaged, the  *)
(* report is counted, and a travel time is kept unless it is an outlier.   *)
(***************************************************************************)
(* Mutant: the lower bound of the filter forgotten.                         *)
KeepsUnknownTime(e, tt) == tt <= BaseTravelTime[e] * REAL_TT_MAX_RATIO
KeepsTravelTime(e, tt) ==
  tt > REAL_TT_MIN_SEC /\ tt <= BaseTravelTime[e] * REAL_TT_MAX_RATIO

UpdateTraffic(r) ==
  LET tr == traffic[r.edge] IN
  \E speed \in IF tr.vehicleCount = 0 THEN {r.speed}
                                      ELSE Ewma(tr.avgSpeed, r.speed),
     tt \in IF ~ KeepsTravelTime(r.edge, r.realTT) THEN {tr.realTravelTime}
            ELSE IF tr.realTTCount = 0 THEN {r.realTT}
            ELSE Ewma(tr.realTravelTime, r.realTT) :
    traffic' = [traffic EXCEPT ![r.edge] =
      [vehicleCount   |-> tr.vehicleCount + 1,
       avgSpeed       |-> speed,
       realTravelTime |-> tt,
       realTTCount    |-> IF KeepsTravelTime(r.edge, r.realTT)
                          THEN tr.realTTCount + 1 ELSE tr.realTTCount]]

(***************************************************************************)
(* The hysteresis: is the sender of this report due for a route?           *)
(***************************************************************************)
IsFirstReport(k) == lastRouteSent[k] = Never

TimeElapsed(k) == ~ IsFirstReport(k) /\ lastRouteSent[k] >= RerouteInterval

EdgeChanged(k, e) ==
  /\ ~ IsFirstReport(k)
  /\ lastRouteEdge[k] # Never
  /\ lastRouteEdge[k] # e
  /\ lastRouteSent[k] * 100 >= RerouteInterval * HYSTERESIS_PERCENT

DueForRoute(k, e) == IsFirstReport(k) \/ TimeElapsed(k) \/ EdgeChanged(k, e)

(* The stagger limit of this second is used up.                             *)
(* Mutant: off by one.                                                      *)
LimitedLate == rerouteCountThisSecond > MaxReroutes
StaggerLimited == rerouteCountThisSecond >= MaxReroutes

(***************************************************************************)
(* The decision is remembered whether or not a route went out.             *)
(***************************************************************************)
Remember(k, e) ==
  /\ lastRouteSent' = [lastRouteSent EXCEPT ![k] = 0]
  /\ lastRouteEdge' = [lastRouteEdge EXCEPT ![k] = e]

sendRoute(k, route) ==
  IF k \in vehicleMap'
  THEN /\ routes' = routes \cup {[to |-> k, route |-> Truncated(route)]}
       /\ routeAge' = [routeAge EXCEPT ![k] = 0]
       /\ routeGap' = [routeGap EXCEPT ![k] = routeAge[k]]
       /\ recent' = [recent EXCEPT ![0] = @ + 1]
  ELSE UNCHANGED <<routes, routeAge, routeGap, recent>>

(***************************************************************************)
(* One report's way through socketDataArrived(): dropped when an index is  *)
(* out of range; otherwise counted, and then not due, limited, unroutable, *)
(* too short a trip, or answered.                                          *)
(***************************************************************************)
OutOfRange(r) == r.edge \notin Edges \/ r.dest \notin Edges

Decide(k, r) ==
  \/ /\ r.edge = r.dest \/ ~ DueForRoute(k, r.edge)
     /\ UNCHANGED decisionVars
  \/ /\ r.edge # r.dest /\ DueForRoute(k, r.edge)
     /\ StaggerLimited
     /\ UNCHANGED decisionVars
  \/ /\ r.edge # r.dest /\ DueForRoute(k, r.edge)
     /\ ~ StaggerLimited
     /\ \E route \in dijkstra(r.edge, r.dest) :
          \/ Len(route) < 2 /\ UNCHANGED decisionVars
          \/ /\ Len(route) >= 2 /\ RouteDistance(route) < MinRouteDistance
             /\ Remember(k, r.edge)
             /\ UNCHANGED <<rerouteCountThisSecond, routes, routeAge,
                            routeGap, recent>>
          \/ /\ Len(route) >= 2 /\ RouteDistance(route) >= MinRouteDistance
             /\ sendRoute(k, route)
             /\ Remember(k, r.edge)
             /\ rerouteCountThisSecond' = rerouteCountThisSecond + 1

socketDataArrived(k, r) ==
  /\ \/ OutOfRange(r) /\ UNCHANGED <<trafficVars, decisionVars>>
     \/ /\ ~ OutOfRange(r)
        /\ UpdateTraffic(r)
        /\ vehicleMap' = vehicleMap \cup {k}
        /\ Decide(k, r)
  /\ UNCHANGED timerVars

(***************************************************************************)
(* decayTimer: the counts shrink, an edge nobody reports from relaxes to   *)
(* its speed limit and forgets its measured travel time.                   *)
(***************************************************************************)
RelaxTarget(e) == IF SpeedLimit[e] > 0 THEN SpeedLimit[e] ELSE DefaultSpeed

RelaxedSpeeds(e) ==
  IF Decayed(traffic[e].vehicleCount) = 0
  THEN Ewma(traffic[e].avgSpeed, RelaxTarget(e)) ELSE {traffic[e].avgSpeed}

DecayedEdge(e, speed) ==
  LET tr == traffic[e] IN
  [vehicleCount   |-> Decayed(tr.vehicleCount),
   avgSpeed       |-> speed,
   realTravelTime |-> IF Decayed(tr.realTTCount) = 0 THEN 0
                                                     ELSE tr.realTravelTime,
   realTTCount    |-> Decayed(tr.realTTCount)]

decayEdgeInfo ==
  /\ decayAge = DecayInterval
  /\ \E speed \in [Edges -> UNION {RelaxedSpeeds(e) : e \in Edges}] :
       /\ \A e \in Edges : speed[e] \in RelaxedSpeeds(e)
       /\ traffic' = [e \in Edges |-> DecayedEdge(e, speed[e])]
  /\ decayAge' = 0
  /\ UNCHANGED <<vehicleMap, decisionVars, resetAge>>

(***************************************************************************)
(* rerouteCounterResetTimer                                                *)
(***************************************************************************)
rerouteCounterReset ==
  /\ resetAge = Second
  /\ rerouteCountThisSecond' = 0
  /\ resetAge' = 0
  /\ UNCHANGED <<trafficVars, lastRouteSent, lastRouteEdge, routes, routeAge,
                 routeGap, recent, decayAge>>
-----------------------------------------------------------------------------
(***************************************************************************)
(* The simulation kernel advances the clock by one tick, never past a      *)
(* self-message that is due.                                               *)
(***************************************************************************)
Older(age) == IF age = Never \/ age = RerouteInterval THEN age ELSE age + 1

Tick ==
  /\ resetAge < Second /\ decayAge < DecayInterval
  /\ resetAge' = resetAge + 1
  /\ decayAge' = decayAge + 1
  /\ lastRouteSent' = [k \in Keys |-> Older(lastRouteSent[k])]
  /\ routeAge' = [k \in Keys |-> Older(routeAge[k])]
  /\ recent' = [i \in DOMAIN recent |-> IF i = 0 THEN 0 ELSE recent[i - 1]]
  /\ UNCHANGED <<trafficVars, lastRouteEdge, rerouteCountThisSecond, routes,
                 routeGap>>

(***************************************************************************)
(* The environment of the server alone: any vehicle reports at any time    *)
(* (up to MaxCount counted reports on an edge), packets leave the network. *)
(***************************************************************************)
ReportArrives ==
  \E k \in Keys, r \in Report :
    /\ r.edge \in Edges => traffic[r.edge].vehicleCount < MaxCount
    /\ socketDataArrived(k, r)

RouteLeaves ==
  \E m \in routes :
    /\ routes' = routes \ {m}
    /\ UNCHANGED <<trafficVars, lastRouteSent, lastRouteEdge,
                   rerouteCountThisSecond, routeAge, routeGap, recent,
                   timerVars>>

Timers == decayEdgeInfo \/ rerouteCounterReset \/ Tick

Next == ReportArrives \/ RouteLeaves \/ Timers

Spec == Init /\ [][Next]_serverVars

(***************************************************************************)
(* The event loop always reaches the next self-message.                    *)
(***************************************************************************)
FairSpec == Spec /\ WF_serverVars(decayEdgeInfo)
                 /\ WF_serverVars(rerouteCounterReset)
                 /\ WF_serverVars(Tick)
-----------------------------------------------------------------------------
TypeOK ==
  /\ traffic \in [Edges -> EdgeTraffic]
  /\ vehicleMap \subseteq Keys
  /\ lastRouteSent \in [Keys -> Ages \cup {Never}]
  /\ lastRouteEdge \in [Keys -> Edges \cup {Never}]
  /\ rerouteCountThisSecond \in 0 .. MaxReroutes
  /\ resetAge \in 0 .. Second
  /\ decayAge \in 0 .. DecayInterval
  /\ routes \subseteq RouteMsg
  /\ routeAge \in [Keys -> Ages \cup {Never}]
  /\ routeGap \in [Keys -> Ages \cup {Never}]
  /\ recent \in [0 .. Second - 1 -> Nat]

(***************************************************************************)
(* Two routes to one address are at least rerouteInterval apart, whatever  *)
(* edges it reports from and however many of its trips were found short    *)
(* ("Oscillation engellenir", TrafficServer.cc:423).                       *)
(***************************************************************************)
RouteSpacing == \A k \in Keys : routeGap[k] \in {Never, RerouteInterval}

(***************************************************************************)
(* What makes it inductive: every route refreshed lastRouteSent, and later *)
(* decisions can only have refreshed it again.                             *)
(***************************************************************************)
DecisionFollowsRoute ==
  \A k \in Keys : routeAge[k] # Never =>
    lastRouteSent[k] # Never /\ lastRouteSent[k] <= routeAge[k]

(***************************************************************************)
(* The routes sent less than so many ticks ago, each as a pair of its age  *)
(* and its number among those of that age.                                 *)
(***************************************************************************)
RoutesWithin(ticks) == UNION {{i} \X (1 .. recent[i]) : i \in 0 .. ticks - 1}

(***************************************************************************)
(* The limiter counts between resets, so a burst at the end of one second  *)
(* and one at the start of the next can meet: any interval of one second   *)
(* holds at most twice MAX_REROUTES_PER_SEC routes.                        *)
(***************************************************************************)
StaggerLimit == Cardinality(RoutesWithin(Second)) <= 2 * MaxReroutes

(***************************************************************************)
(* What makes it inductive: routes younger than the last reset have been   *)
(* counted since, and of the others within a second, all sent before that  *)
(* reset, there are no more than the limit.                                *)
(***************************************************************************)
CounterCoversRoutes ==
  /\ Cardinality(RoutesWithin(resetAge)) <= rerouteCountThisSecond
  /\ Cardinality(RoutesWithin(Second)) <= rerouteCountThisSecond + MaxReroutes

(***************************************************************************)
(* The statistics of an edge agree with each other through every order of  *)
(* reports and decays: no measured time without a count (getEdgeWeight()   *)
(* would fall back silently), no count without a time, every kept time     *)
(* passed the outlier filter, and no more times than reports.              *)
(***************************************************************************)
EdgeStatisticsAgree ==
  \A e \in Edges : LET tr == traffic[e] IN
    /\ tr.realTTCount = 0 <=> tr.realTravelTime = 0
    /\ tr.realTravelTime <= BaseTravelTime[e] * REAL_TT_MAX_RATIO
    /\ tr.realTTCount <= tr.vehicleCount

(***************************************************************************)
(* Once an edge is no longer reported from, decay forgets it: the count    *)
(* truncates to zero instead of sticking at a small value.                 *)
(***************************************************************************)
ReportedFrom(e) == traffic'[e].vehicleCount > traffic[e].vehicleCount

QuietEdgeForgotten ==
  \A e \in Edges :
    <>[][~ ReportedFrom(e)]_serverVars
      => <>[](/\ traffic[e].vehicleCount = 0
              /\ traffic[e].realTravelTime = 0)
=============================================================================

\* Two vehicles: hysteresis, short, unreachable and out-of-range trips, bursts.
SPECIFICATION Spec
CONSTANTS
  Keys = {k1, k2}
  Edges <- FunnelEdges
  ReportedEdges = {1, 2, 3, 4}
  Roads <- FunnelRoads
  EdgeLength <- FunnelLength
  BaseTravelTime <- FunnelBase
  SpeedLimit <- FunnelLimit
  DefaultSpeed = 1
  Speeds = {1}
  TravelTimes <- UnknownTT
  MinRouteDistance = 3
  MaxRouteEdges = 2
  MaxReroutes = 1
  RerouteInterval = 3
  DecayInterval = 1
  Second = 4
  MaxCount = 1
INVARIANTS TypeOK RouteSpacing StaggerLimit
SYMMETRY KeySymmetry

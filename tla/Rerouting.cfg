\* One vehicle, packets with room for three edges: some routes are cut.
SPECIFICATION SystemSpec
CONSTANTS
  Keys = {k1}
  Edges <- DiamondEdges
  ReportedEdges <- DiamondEdges
  Roads <- DiamondRoads
  EdgeLength <- DiamondLength
  BaseTravelTime <- DiamondBase
  SpeedLimit <- DiamondLimit
  DefaultSpeed = 1
  Speeds = {1}
  TravelTimes <- UnknownTT
  MinRouteDistance = 2
  MaxRouteEdges = 3
  MaxReroutes = 1
  RerouteInterval = 1
  DecayInterval = 1
  Second = 1
  MaxCount = 9
  TripFrom <- FromFirst
  TripTo <- ToLast
  MaxReports = 3
INVARIANTS SystemTypeOK DestinationKept NoSilentFailure PlanIsDrivable

\* Routes longer than the packet has room for.
SPECIFICATION SystemSpec
CONSTANTS
  Keys = {k1}
  Edges <- DiamondEdges
  ReportedEdges <- DiamondEdges
  Roads <- DiamondRoads
  EdgeLength <- DiamondLength
  BaseTravelTime <- DiamondBase
  SpeedLimit <- DiamondLimit
  DefaultSpeed = 1
  Speeds = {1}
  TravelTimes <- UnknownTT
  MinRouteDistance = 2
  MaxRouteEdges = 2
  MaxReroutes = 1
  RerouteInterval = 1
  DecayInterval = 1
  Second = 1
  MaxCount = 9
  TripFrom <- FromFirst
  TripTo <- ToLast
  MaxReports = 2
INVARIANTS FallbackKeepsDestination

\* One vehicle on two edges: speed and travel-time statistics under decay.
SPECIFICATION FairSpec
CONSTANTS
  Keys = {k1}
  Edges <- PairEdges
  ReportedEdges <- PairEdges
  Roads <- PairRoads
  EdgeLength <- PairLength
  BaseTravelTime <- PairBase
  SpeedLimit <- PairLimit
  DefaultSpeed = 1
  Speeds = {0, 2}
  TravelTimes <- MixedTT
  MinRouteDistance = 5
  MaxRouteEdges = 2
  MaxReroutes = 1
  RerouteInterval = 1
  DecayInterval = 1
  Second = 1
  MaxCount = 3
INVARIANTS EdgeStatisticsAgree
PROPERTIES QuietEdgeForgotten

\* Every choice of edge states, noise, source and destination.
SPECIFICATION FairSpec
CONSTANTS
  Edges <- CityEdges
  Roads <- CityRoads
  EdgeStates <- CityStates
  Noises = {82, 117}
  K = 150
INVARIANTS ReturnsShortestPath SettledIsFinal CongestionNeverCheaper
PROPERTIES NoTurnIsWasted Terminates

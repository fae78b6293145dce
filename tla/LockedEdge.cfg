\* An edge whose only report says that the vehicle stands.
SPECIFICATION FairSpec
CONSTANTS
  Edges <- CityEdges
  Roads <- CityRoads
  EdgeStates <- LockedStates
  Noises = {82, 117}
  K = 150
INVARIANTS LockedEdgePenalised

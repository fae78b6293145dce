\* The links of Highway.ned between eNodeB1, 2, 5 and 9.
SPECIFICATION Spec
CONSTANTS
  Ues = {u1}
  Enbs = {1, 2, 5, 9}
  NoCell = 0
  X2Peers <- HighwayLinks
  Rssi <- Readings
INVARIANTS OnlyTheTargetHolds
CHECK_DEADLOCK FALSE

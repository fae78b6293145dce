\* A handover between linked eNBs, and what the binder says afterwards.
SPECIFICATION Spec
CONSTANTS
  Ues = {u1}
  Enbs = {1, 2, 3}
  NoCell = 0
  X2Peers <- FullMesh
  Rssi <- Readings
INVARIANTS NextHopSynchronised
CHECK_DEADLOCK FALSE

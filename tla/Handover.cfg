\* One UE among three fully linked eNBs: every broadcast, packet, departure.
SPECIFICATION FairSpec
CONSTANTS
  Ues = {u1}
  Enbs = {1, 2, 3}
  NoCell = 0
  X2Peers <- FullMesh
  Rssi <- Readings
INVARIANTS TypeOK NeverToItself OneServingCell DeletedLeavesNothing HoldsAreReleased OnlyTheTargetHolds ForwardingIsTransient NotHeldWhereRouted CandidateOutranksMaster
PROPERTIES HandoverEnds ImplementsServingCell
CHECK_DEADLOCK FALSE

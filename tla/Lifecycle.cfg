\* Three vehicles, two modules: teleports, releases, late routes, deletions in every order.
SPECIFICATION FairSpec
CONSTANTS
  Vehicles = {v1, v2, v3}
  MaxModules = 2
  PenNum = 2
  PenDen = 3
  Teleporters = {v1}
  Wanderers = {v2}
  ReportInterval = 2
  AppEquipped = {TRUE, FALSE}
INVARIANTS TypeOK ActiveCountMatches HostsPartitionTraffic PenetrationTracked ManagedModulesAreAlive NoDanglingNode OneRowPerModule OneRowPerVehicle OnlyComebacksHaunt
PROPERTIES DepartedModulesAreDeleted

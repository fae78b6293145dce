\* A teleport shorter than the report interval.
SPECIFICATION Spec
CONSTANTS
  Vehicles = {v1}
  MaxModules = 2
  PenNum = 2
  PenDen = 2
  Teleporters = {v1}
  Wanderers = {}
  ReportInterval = 2
  AppEquipped = {TRUE}
INVARIANTS ReleasedModulesAreSilent

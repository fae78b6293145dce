\* A route overtaken by the vehicle's arrival.
SPECIFICATION Spec
CONSTANTS
  Vehicles = {v1}
  MaxModules = 1
  PenNum = 2
  PenDen = 2
  Teleporters = {v1}
  Wanderers = {}
  ReportInterval = 2
  AppEquipped = {TRUE}
INVARIANTS NeverQueriesDeparted

----------------------------- MODULE MCVehicleApp -----------------------------
(* The life of host modules: the constants are all given in the .cfg files.  *)
EXTENDS VehicleApp
=============================================================================

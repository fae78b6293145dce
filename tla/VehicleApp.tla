------------------------------ MODULE VehicleApp ------------------------------
(***************************************************************************)
(* VehicleApp (simulte/src/apps/TrafficApp/VehicleApp.cc), one instance in *)
(* every host module, composed with the manager that creates and releases  *)
(* the modules.  The app reports to the server every reportInterval, and   *)
(* it is the app that finds out that its vehicle has left: only then does  *)
(* it write its statistics, take the LTE stack down and delete the module  *)
(* with a deferred self-message.                                           *)
(*                                                                         *)
(* The server and the network are external here: a report may or may not   *)
(* be answered with a route, which arrives at any later time or never.     *)
(* What a route does to the vehicle is the subject of module V2NSystem.    *)
(***************************************************************************)
EXTENDS ScenarioManager

CONSTANTS
  ReportInterval,    \* reportInterval / updateInterval
  AppEquipped        \* results of the app's own penetration draw

ASSUME AppAssumption ==
  /\ ReportInterval \in Nat \ {0}
  /\ AppEquipped \subseteq BOOLEAN /\ AppEquipped # {}

VARIABLES
  phase,             \* module: none, alive, deleting (deleteSelf scheduled),
                     \* deleted, finished (alive at the end of the simulation)
  vehicle,           \* module -> the id its mobility was created with
  isEquipped,
  statsInitialized,
  statsWritten,
  reportIn,          \* ticks until reportTimer fires
  ttiTicking,        \* modules whose MAC reschedules its TTI tick
  binderNodes,       \* modules registered with the LTE binder
  routes,            \* modules a route is on its way to
  rows,              \* module -> rows it has appended to the CSV file
  aborted,           \* an uncaught exception has ended the simulation
  ghostReports       \* history: modules that reported after their release

appVars == <<phase, vehicle, isEquipped, statsInitialized, statsWritten,
             reportIn, ttiTicking, binderNodes, routes, rows,
             aborted, ghostReports>>

vars == <<managerVars, appVars>>

NoVehicle == "none"

AppInit ==
  /\ phase = [m \in Modules |-> "none"]
  /\ vehicle = [m \in Modules |-> NoVehicle]
  /\ isEquipped = [m \in Modules |-> FALSE]
  /\ statsInitialized = [m \in Modules |-> FALSE]
  /\ statsWritten = [m \in Modules |-> FALSE]
  /\ reportIn = [m \in Modules |-> 0]
  /\ ttiTicking = {}
  /\ binderNodes = {}
  /\ routes = {}
  /\ rows = [m \in Modules |-> 0]
  /\ aborted = FALSE
  /\ ghostReports = {}

Init == ManagerInit /\ AppInit

Running == stage = "idle" /\ ~ ended /\ ~ aborted
-----------------------------------------------------------------------------
(***************************************************************************)
(* initialize(), within the manager's addModule(): the NIC registers with  *)
(* the binder, the MAC starts ticking, the report timer is armed.          *)
(***************************************************************************)
(* Mutant: the first report one interval too late.                         *)
LateFirstReport == 2 * ReportInterval
FirstReportIn == ReportInterval

initialize(m, v) ==
  /\ phase' = [phase EXCEPT ![m] = "alive"]
  /\ vehicle' = [vehicle EXCEPT ![m] = v]
  /\ \E e \in AppEquipped : isEquipped' = [isEquipped EXCEPT ![m] = e]
  /\ reportIn' = [reportIn EXCEPT ![m] = FirstReportIn]
  /\ ttiTicking' = ttiTicking \cup {m}
  /\ binderNodes' = binderNodes \cup {m}
  /\ UNCHANGED <<statsInitialized, statsWritten, routes, rows,
                 aborted, ghostReports>>

ManagerStep ==
  /\ ~ aborted
  /\ \/ /\ executeOneTimestep \/ processSimSubscription \/ processIdList
        /\ UNCHANGED appVars
     \/ \E v \in Vehicles :
          /\ processVehicleSubscription(v)
          /\ IF nextNodeVectorIndex' = nextNodeVectorIndex
             THEN UNCHANGED appVars
             ELSE initialize(nextNodeVectorIndex', v)

(***************************************************************************)
(* writeStatsRow(): once per module, and only if the app has ever seen its *)
(* vehicle on a road.                                                      *)
(***************************************************************************)
(* Mutant: without the guard against a second row.                         *)
WriteAlways(ms) == {m \in ms : statsInitialized[m]}
MustWrite(ms) == {m \in ms : statsInitialized[m] /\ ~ statsWritten[m]}

writeStatsRow(ms) ==
  /\ statsWritten' = [m \in Modules |-> statsWritten[m] \/ m \in MustWrite(ms)]
  /\ rows' = [m \in Modules |-> IF m \in MustWrite(ms) THEN rows[m] + 1
                                                       ELSE rows[m]]

(***************************************************************************)
(* shutdownLteStack(): leave the binder, stop the TTI tick, cancel the     *)
(* report timer, schedule deleteSelf at the current time.                  *)
(***************************************************************************)
(* Mutant: the stack is left registered.                                   *)
DeleteOnly(m) ==
  /\ phase' = [phase EXCEPT ![m] = "deleting"]
  /\ UNCHANGED <<binderNodes, ttiTicking>>
(* Mutant: nothing is taken down, as before Wave 4.                        *)
KeepStack(m) == UNCHANGED <<binderNodes, ttiTicking, phase>>
shutdownLteStack(m) ==
  /\ binderNodes' = binderNodes \ {m}
  /\ ttiTicking' = ttiTicking \ {m}
  /\ phase' = [phase EXCEPT ![m] = "deleting"]

(***************************************************************************)
(* reportTimer when the id is no longer in getManagedHosts().              *)
(***************************************************************************)
(* Mutant: the application does not look.                                  *)
NeverLooks(m) == FALSE
LeftSumo(m) == hosts[vehicle[m]] = NoModule

TimerFires(m) == Running /\ phase[m] = "alive" /\ reportIn[m] = 0

sendReportGone(m) ==
  /\ TimerFires(m) /\ LeftSumo(m)
  /\ writeStatsRow({m})
  /\ shutdownLteStack(m)
  /\ isEquipped' = [isEquipped EXCEPT ![m] = FALSE]
  /\ UNCHANGED <<managerVars, vehicle, statsInitialized, reportIn, routes,
                 aborted, ghostReports>>

(***************************************************************************)
(* reportTimer otherwise.  SUMO says whether the vehicle is on an edge of  *)
(* the network or inside a junction; only from an edge is a report sent.   *)
(***************************************************************************)
sendReport(m) ==
  /\ TimerFires(m) /\ ~ LeftSumo(m)
  /\ \E onEdge \in BOOLEAN :
       /\ statsInitialized' = [statsInitialized EXCEPT ![m] = @ \/ onEdge]
       /\ IF onEdge /\ isEquipped[m]
          THEN /\ routes' \in {routes, routes \cup {m}}
               /\ ghostReports' = IF hosts[vehicle[m]] = m THEN ghostReports
                                  ELSE ghostReports \cup {m}
          ELSE UNCHANGED <<routes, ghostReports>>
  /\ reportIn' = [reportIn EXCEPT ![m] = ReportInterval]
  /\ UNCHANGED <<managerVars, phase, vehicle, isEquipped, statsWritten,
                 ttiTicking, binderNodes, rows, aborted>>

(***************************************************************************)
(* The deferred deleteSelf message: callFinish() and deleteModule().       *)
(***************************************************************************)
deleteSelf(m) ==
  /\ Running /\ phase[m] = "deleting"
  /\ writeStatsRow({m})
  /\ binderNodes' = binderNodes \ {m}
  /\ ttiTicking' = ttiTicking \ {m}
  /\ phase' = [phase EXCEPT ![m] = "deleted"]
  /\ UNCHANGED <<managerVars, vehicle, isEquipped, statsInitialized, reportIn,
                 routes, aborted, ghostReports>>

(***************************************************************************)
(* socketDataArrived(): an equipped app asks SUMO for the vehicle's edge   *)
(* without looking at the managed hosts first.  SUMO refuses an id it no   *)
(* longer knows; TraCIConnection::query() throws and nobody catches it.    *)
(***************************************************************************)
socketDataArrived(m) ==
  /\ Running /\ m \in routes
  /\ routes' = routes \ {m}
  /\ aborted' = /\ phase[m] \in {"alive", "deleting"}
                /\ isEquipped[m]
                /\ sumo[vehicle[m]] = "gone"
  /\ UNCHANGED <<managerVars, phase, vehicle, isEquipped, statsInitialized,
                 statsWritten, reportIn, ttiTicking, binderNodes, rows,
                 ghostReports>>

(***************************************************************************)
(* Time passes when everything scheduled for this instant has run.         *)
(***************************************************************************)
Advance ==
  /\ ~ aborted
  /\ NextInstant
  /\ \A m \in Modules : /\ phase[m] # "deleting"
                        /\ phase[m] = "alive" => reportIn[m] > 0
  /\ reportIn' = [m \in Modules |-> IF phase[m] = "alive" THEN reportIn[m] - 1
                                                          ELSE reportIn[m]]
  /\ UNCHANGED <<phase, vehicle, isEquipped, statsInitialized, statsWritten,
                 ttiTicking, binderNodes, routes, rows, aborted,
                 ghostReports>>

(***************************************************************************)
(* The end of the simulation: every module that still exists runs finish().*)
(***************************************************************************)
finish ==
  /\ ~ aborted
  /\ preNetworkFinish
  /\ LET ms == {m \in Modules : phase[m] \in {"alive", "deleting"}} IN
       /\ writeStatsRow(ms)
       /\ phase' = [m \in Modules |-> IF m \in ms THEN "finished" ELSE phase[m]]
       /\ binderNodes' = binderNodes \ ms
       /\ ttiTicking' = ttiTicking \ ms
  /\ UNCHANGED <<vehicle, isEquipped, statsInitialized, reportIn, routes,
                 aborted, ghostReports>>

Stopped == (ended \/ aborted) /\ UNCHANGED vars

AppStep(m) ==
  sendReportGone(m) \/ sendReport(m) \/ deleteSelf(m) \/ socketDataArrived(m)

Next ==
  \/ ManagerStep
  \/ \E m \in Modules : AppStep(m)
  \/ Advance
  \/ finish
  \/ Stopped

Spec == Init /\ [][Next]_vars

(***************************************************************************)
(* The kernel executes every event it has scheduled and then moves on.     *)
(***************************************************************************)
FairSpec ==
  /\ Spec
  /\ WF_vars(ManagerStep)
  /\ WF_vars(Advance)
  /\ \A m \in Modules :
       /\ WF_vars(sendReportGone(m) \/ sendReport(m))
       /\ WF_vars(deleteSelf(m))
-----------------------------------------------------------------------------
TypeOK ==
  /\ ManagerTypeOK
  /\ phase \in [Modules -> {"none", "alive", "deleting", "deleted", "finished"}]
  /\ vehicle \in [Modules -> Vehicles \cup {NoVehicle}]
  /\ isEquipped \in [Modules -> BOOLEAN]
  /\ statsInitialized \in [Modules -> BOOLEAN]
  /\ statsWritten \in [Modules -> BOOLEAN]
  /\ reportIn \in [Modules -> 0 .. ReportInterval]
  /\ ttiTicking \subseteq Modules
  /\ binderNodes \subseteq Modules
  /\ routes \subseteq Modules
  /\ rows \in [Modules -> Nat]
  /\ aborted \in BOOLEAN
  /\ ghostReports \subseteq Modules

(***************************************************************************)
(* Wave 5, "Safe Module Deletion": a module the manager still hands out is *)
(* never one that is deleted or about to be; it belongs to that vehicle    *)
(* and its LTE stack is up.                                                *)
(***************************************************************************)
ManagedModulesAreAlive ==
  \A v \in Vehicles : hosts[v] # NoModule =>
    /\ phase[hosts[v]] = "alive"
    /\ vehicle[hosts[v]] = v
    /\ hosts[v] \in binderNodes /\ hosts[v] \in ttiTicking

(***************************************************************************)
(* "unregisterNode() detaches the UE [...] before the module is destroyed, *)
(* so no dangling reference remains" (README.md:222): whatever is in the   *)
(* binder or still ticks is a module that exists.                          *)
(***************************************************************************)
NoDanglingNode ==
  \A m \in binderNodes \cup ttiTicking : phase[m] = "alive"

(***************************************************************************)
(* Data collection: a module writes at most one row, whichever of the      *)
(* departure check, the deferred deletion and the end of the simulation    *)
(* come first, and none is lost once it has started its statistics.        *)
(***************************************************************************)
OneRowPerModule ==
  \A m \in Modules :
    /\ rows[m] <= 1
    /\ phase[m] \in {"deleting", "deleted", "finished"} =>
         (rows[m] = 1 <=> statsInitialized[m])

(***************************************************************************)
(* Every module whose vehicle has left for good is deleted in the end.     *)
(***************************************************************************)
DepartedModulesAreDeleted ==
  \A m \in Modules :
    (phase[m] = "alive" /\ sumo[vehicle[m]] = "gone")
      ~> (phase[m] \in {"deleted", "finished"} \/ aborted)

(***************************************************************************)
(* "When the vehicle is gone the app stops reporting [...] without ever    *)
(* touching TraCI" (README.md:172): no app asks SUMO for a vehicle SUMO    *)
(* no longer knows.                                                        *)
(***************************************************************************)
NeverQueriesDeparted == ~ aborted

(***************************************************************************)
(* "deleteManagedModule() erased this id from hosts, so getManagedModule   *)
(* returns nullptr once the vehicle has left" (VehicleApp.cc:206): a       *)
(* module that was released does not go on reporting.                      *)
(***************************************************************************)
ReleasedModulesAreSilent == ghostReports = {}

(***************************************************************************)
(* What can be said instead.  A vehicle is put back on the road, under a   *)
(* second module, only by a teleport or by re-entering the region of       *)
(* interest.                                                               *)
(***************************************************************************)
MayComeBack == Teleporters \cup Wanderers

(***************************************************************************)
(* The departure check of VehicleApp.cc:213 is fooled by comebacks only: a *)
(* module that reports after its release is one of a vehicle that may come *)
(* back, whatever the other vehicles do in the meantime.                   *)
(***************************************************************************)
OnlyComebacksHaunt == \A m \in ghostReports : vehicle[m] \in MayComeBack

(***************************************************************************)
(* The results file has one row per vehicle: the guard against a second    *)
(* row (VehicleApp.cc:407) is one per module, and yet two modules with a   *)
(* row are never of the same vehicle unless that vehicle may come back.    *)
(***************************************************************************)
OneRowPerVehicle ==
  \A m, n \in Modules :
    /\ rows[m] > 0 /\ rows[n] > 0 /\ vehicle[m] = vehicle[n]
    /\ vehicle[m] \notin MayComeBack
    => m = n
=============================================================================

--------------------------- MODULE ScenarioManager ---------------------------
(***************************************************************************)
(* TraCIScenarioManager (veins/.../traci/TraCIScenarioManager.cc): once    *)
(* per update interval it lets SUMO advance, reads the subscription        *)
(* results and creates or releases one host module per managed vehicle.    *)
(*                                                                         *)
(* One time step is one event of the simulation kernel, but its results    *)
(* are processed one after the other; the steps are the actions below, and *)
(* `stage' keeps every other event out until the last one is done.         *)
(*                                                                         *)
(* SUMO is external: vehicles depart, drive, teleport when they are stuck  *)
(* (time-to-teleport) and arrive.  A teleport ends before the vehicle      *)
(* arrives.                                                                *)
(***************************************************************************)
EXTENDS Integers, FiniteSets

CONSTANTS
  Vehicles,          \* SUMO vehicle ids
  MaxModules,        \* bound on the host modules a behaviour creates
  PenNum, PenDen,    \* penetrationRate = PenNum / PenDen
  Teleporters,       \* vehicles SUMO may teleport
  Wanderers          \* vehicles that may leave the region of interest

ASSUME ManagerAssumption ==
  /\ IsFiniteSet(Vehicles)
  /\ MaxModules \in Nat
  /\ PenDen \in Nat \ {0} /\ PenNum \in 0 .. PenDen
  /\ Teleporters \subseteq Vehicles /\ Wanderers \subseteq Vehicles

NoModule == 0
Modules == 1 .. MaxModules      \* car[0], car[1], ... in order of creation

VARIABLES
  sumo,                 \* external: where each vehicle is
  events,               \* what the simulation subscription reports
  stage,                \* what executeOneTimestep() is processing
  todo,                 \* vehicles whose subscription result is still unread
  hosts,                \* vehicle -> its module, or NoModule
  unEquippedHosts,
  subscribedVehicles,
  activeVehicleCount,
  nextNodeVectorIndex,
  stepDue,              \* the time step of this instant has still to run
  ended,                \* the simulation has finished
  churned               \* history: some vehicle has been released

managerVars == <<sumo, events, stage, todo, hosts, unEquippedHosts,
                 subscribedVehicles, activeVehicleCount, nextNodeVectorIndex,
                 stepDue, ended, churned>>

In(state) == {v \in Vehicles : sumo[v] = state}

Managed == {v \in Vehicles : hosts[v] # NoModule}

NoEvents == [departed |-> {}, arrived |-> {}, telStart |-> {}, telEnd |-> {}]

ManagerInit ==
  /\ sumo = [v \in Vehicles |-> "waiting"]
  /\ events = NoEvents
  /\ stage = "idle"
  /\ todo = {}
  /\ hosts = [v \in Vehicles |-> NoModule]
  /\ unEquippedHosts = {}
  /\ subscribedVehicles = {}
  /\ activeVehicleCount = 0
  /\ nextNodeVectorIndex = 0
  /\ stepDue = TRUE
  /\ ended = FALSE
  /\ churned = FALSE
-----------------------------------------------------------------------------
(***************************************************************************)
(* External: SUMO executes one step (CMD_SIMSTEP2).  MaxModules bounds how *)
(* often vehicles come back: each vehicle the manager has to decide about  *)
(* after the step may take one more module.                                *)
(***************************************************************************)
AfterStep(ev) ==
  [v \in Vehicles |-> IF v \in ev.arrived THEN "gone"
                      ELSE IF v \in ev.departed \cup ev.telEnd THEN "driving"
                      ELSE IF v \in ev.telStart THEN "teleporting"
                      ELSE sumo[v]]

StepEvents ==
  {ev \in [departed : SUBSET In("waiting"), arrived : SUBSET In("driving"),
           telStart : SUBSET (In("driving") \cap Teleporters),
           telEnd : SUBSET (In("driving") \cup In("teleporting"))] :
     /\ ev.telStart \cap ev.arrived = {}
     /\ ev.telEnd \subseteq In("teleporting") \cup ev.telStart
     /\ nextNodeVectorIndex
          + Cardinality({v \in Vehicles : /\ AfterStep(ev)[v] = "driving"
                                          /\ \/ v \notin Managed \cup unEquippedHosts
                                             \/ v \in ev.telStart})
        <= MaxModules}

executeOneTimestep ==
  /\ stage = "idle" /\ stepDue /\ ~ ended
  /\ \E ev \in StepEvents :
       /\ events' = ev
       /\ sumo' = AfterStep(ev)
  /\ stage' = "simulation"
  /\ stepDue' = FALSE
  /\ UNCHANGED <<todo, hosts, unEquippedHosts, subscribedVehicles,
                 activeVehicleCount, nextNodeVectorIndex, ended, churned>>

(***************************************************************************)
(* deleteManagedModule() for every vehicle of a set: the id leaves the map *)
(* of hosts, the module itself is kept.                                    *)
(***************************************************************************)
(* Mutant: the id stays in the map.                                        *)
KeepManagedModules(vs) == UNCHANGED hosts
deleteManagedModules(vs) ==
  hosts' = [v \in Vehicles |-> IF v \in vs THEN NoModule ELSE hosts[v]]

(***************************************************************************)
(* processSimSubscription(): departed, arrived and teleporting vehicles.   *)
(***************************************************************************)
(* Mutant: a vehicle that starts a teleport is still counted as active.    *)
ActiveDeltaNoTeleport(ev) ==
  Cardinality(ev.departed) - Cardinality(ev.arrived) + Cardinality(ev.telEnd)
ActiveDelta(ev) ==
  Cardinality(ev.departed) - Cardinality(ev.arrived)
    - Cardinality(ev.telStart) + Cardinality(ev.telEnd)

processSimSubscription ==
  /\ stage = "simulation"
  /\ LET removed == events.arrived \cup events.telStart IN
       /\ deleteManagedModules(removed)
       /\ unEquippedHosts' = unEquippedHosts \ removed
       /\ churned' = (churned \/ removed # {})
  /\ subscribedVehicles' = subscribedVehicles \ events.arrived
  /\ activeVehicleCount' = activeVehicleCount + ActiveDelta(events)
  /\ events' = NoEvents
  /\ stage' = "idlist"
  /\ UNCHANGED <<sumo, todo, nextNodeVectorIndex, stepDue, ended>>

(***************************************************************************)
(* processVehicleSubscription() of the ID_LIST: subscribe to what is new,  *)
(* unsubscribe from what is gone; every subscribed vehicle then reports.   *)
(***************************************************************************)
processIdList ==
  /\ stage = "idlist"
  /\ subscribedVehicles' = In("driving")
  /\ todo' = In("driving")
  /\ stage' = IF In("driving") = {} THEN "idle" ELSE "vehicles"
  /\ UNCHANGED <<sumo, events, hosts, unEquippedHosts, activeVehicleCount,
                 nextNodeVectorIndex, stepDue, ended, churned>>

(***************************************************************************)
(* addModule(): equip the vehicle unless the equipped share is closer to   *)
(* the penetration rate without it.  Shares are compared over the common   *)
(* denominator (hosts + unequipped + 1) * PenDen.                          *)
(***************************************************************************)
Abs(x) == IF x < 0 THEN 0 - x ELSE x

(* Mutant: the vehicle being added is not counted in the total.            *)
LeaveUnequippedShort(h, u) ==
  Abs(h * PenDen - PenNum * (h + u)) < Abs((h + 1) * PenDen - PenNum * (h + u))
LeaveUnequipped(h, u) ==
  Abs(h * PenDen - PenNum * (h + u + 1))
    < Abs((h + 1) * PenDen - PenNum * (h + u + 1))

(* Mutant: the module of the previous index is stored.                     *)
addPreviousModule(v) ==
  /\ nextNodeVectorIndex' = nextNodeVectorIndex + 1
  /\ hosts' = [hosts EXCEPT ![v] = nextNodeVectorIndex]
  /\ UNCHANGED unEquippedHosts
addModule(v) ==
  IF LeaveUnequipped(Cardinality(Managed), Cardinality(unEquippedHosts))
  THEN /\ unEquippedHosts' = unEquippedHosts \cup {v}
       /\ UNCHANGED <<hosts, nextNodeVectorIndex>>
  ELSE /\ nextNodeVectorIndex' = nextNodeVectorIndex + 1
       /\ hosts' = [hosts EXCEPT ![v] = nextNodeVectorIndex + 1]
       /\ UNCHANGED unEquippedHosts

(***************************************************************************)
(* processVehicleSubscription() of one vehicle.  The test of its position  *)
(* against the region of interest may fail for a wanderer only.            *)
(***************************************************************************)
InRoiResults(v) == IF v \in Wanderers THEN BOOLEAN ELSE {TRUE}

processVehicleSubscription(v) ==
  /\ stage = "vehicles" /\ v \in todo
  /\ todo' = todo \ {v}
  /\ stage' = IF todo' = {} THEN "idle" ELSE "vehicles"
  /\ \E inRoi \in InRoiResults(v) :
       \/ /\ ~ inRoi /\ v \in Managed \cup unEquippedHosts
          /\ deleteManagedModules({v})
          /\ unEquippedHosts' = unEquippedHosts \ {v}
          /\ churned' = TRUE
          /\ UNCHANGED nextNodeVectorIndex
       \/ /\ inRoi /\ v \notin Managed \cup unEquippedHosts
          /\ nextNodeVectorIndex < MaxModules
          /\ addModule(v)
          /\ UNCHANGED churned
       \/ /\ inRoi <=> v \in Managed \cup unEquippedHosts
          /\ UNCHANGED <<hosts, unEquippedHosts, nextNodeVectorIndex, churned>>
  /\ UNCHANGED <<sumo, events, subscribedVehicles, activeVehicleCount,
                 stepDue, ended>>

(***************************************************************************)
(* The trigger is rescheduled: the next instant has a time step to run.    *)
(***************************************************************************)
NextInstant ==
  /\ stage = "idle" /\ ~ stepDue /\ ~ ended
  /\ stepDue' = TRUE
  /\ UNCHANGED <<sumo, events, stage, todo, hosts, unEquippedHosts,
                 subscribedVehicles, activeVehicleCount, nextNodeVectorIndex,
                 ended, churned>>

(***************************************************************************)
(* preNetworkFinish(): the time limit is reached and every host released.  *)
(***************************************************************************)
preNetworkFinish ==
  /\ stage = "idle" /\ ~ ended
  /\ ended' = TRUE
  /\ deleteManagedModules(Vehicles)
  /\ churned' = TRUE
  /\ UNCHANGED <<sumo, events, stage, todo, unEquippedHosts,
                 subscribedVehicles, activeVehicleCount, nextNodeVectorIndex,
                 stepDue>>

Timestep ==
  \/ executeOneTimestep
  \/ processSimSubscription
  \/ processIdList
  \/ \E v \in Vehicles : processVehicleSubscription(v)
-----------------------------------------------------------------------------
ManagerTypeOK ==
  /\ sumo \in [Vehicles -> {"waiting", "driving", "teleporting", "gone"}]
  /\ events \in [departed : SUBSET Vehicles, arrived : SUBSET Vehicles,
                 telStart : SUBSET Vehicles, telEnd : SUBSET Vehicles]
  /\ stage \in {"idle", "simulation", "idlist", "vehicles"}
  /\ todo \subseteq Vehicles
  /\ hosts \in [Vehicles -> Modules \cup {NoModule}]
  /\ unEquippedHosts \subseteq Vehicles
  /\ subscribedVehicles \subseteq Vehicles
  /\ activeVehicleCount \in Nat
  /\ nextNodeVectorIndex \in 0 .. MaxModules
  /\ stepDue \in BOOLEAN
  /\ ended \in BOOLEAN
  /\ churned \in BOOLEAN

(***************************************************************************)
(* ASSERT(count == activeVehicleCount): the manager's own count of active  *)
(* vehicles, kept from departures, arrivals and teleports, is SUMO's.      *)
(***************************************************************************)
ActiveCountMatches ==
  stage = "idlist" => activeVehicleCount = Cardinality(In("driving"))

(***************************************************************************)
(* Between time steps the bookkeeping is a partition of the traffic: each  *)
(* vehicle on the road is either managed or known as unequipped, unless it *)
(* has left the region of interest, no other vehicle is, and no two        *)
(* vehicles share a module.                                                *)
(***************************************************************************)
HostsPartitionTraffic ==
  /\ Managed \cap unEquippedHosts = {}
  /\ \A v, w \in Managed : hosts[v] = hosts[w] => v = w
  /\ stage = "idle" /\ ~ ended =>
       /\ Managed \cup unEquippedHosts \subseteq In("driving")
       /\ In("driving") \ Wanderers \subseteq Managed \cup unEquippedHosts
       /\ subscribedVehicles = In("driving")

(***************************************************************************)
(* As long as no vehicle has been released, the number of equipped         *)
(* vehicles is the penetration rate's share of all of them, rounded.       *)
(***************************************************************************)
PenetrationTracked ==
  LET h == Cardinality(Managed)
      n == h + Cardinality(unEquippedHosts) IN
  ~ churned => 2 * Abs(h * PenDen - n * PenNum) <= PenDen
=============================================================================

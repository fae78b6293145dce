--------------------------- MODULE VehicleAppProofs ---------------------------
(***************************************************************************)
(* The manager's books and the life of host modules, for any number of     *)
(* vehicles and modules, any penetration rate and any region of interest.  *)
(***************************************************************************)
EXTENDS VehicleApp, FiniteSetTheorems, TLAPS

(***************************************************************************)
(* A managed module was created, is up, and knows its vehicle.             *)
(***************************************************************************)
Owned ==
  \A v \in Vehicles : hosts[v] # NoModule =>
    /\ hosts[v] \in 1 .. nextNodeVectorIndex
    /\ phase[hosts[v]] = "alive"
    /\ vehicle[hosts[v]] = v
    /\ hosts[v] \in binderNodes /\ hosts[v] \in ttiTicking

(***************************************************************************)
(* A module that is up has a vehicle, and one not created yet is not up.   *)
(***************************************************************************)
Created ==
  \A m \in Modules :
    /\ phase[m] = "alive" => vehicle[m] \in Vehicles
    /\ m > nextNodeVectorIndex => phase[m] = "none"

(***************************************************************************)
(* The flag counts the rows, and a module on its way out has set it if it  *)
(* ever will.                                                              *)
(***************************************************************************)
Rows ==
  \A m \in Modules :
    /\ rows[m] = IF statsWritten[m] THEN 1 ELSE 0
    /\ statsWritten[m] => statsInitialized[m]
    /\ phase[m] \in {"deleting", "deleted", "finished"} =>
         (statsInitialized[m] => statsWritten[m])

(***************************************************************************)
(* The vehicles the manager knows, at each stage of a time step.           *)
(***************************************************************************)
Known == Managed \cup unEquippedHosts

Books ==
  /\ Managed \cap unEquippedHosts = {}
  /\ stage = "simulation" /\ ~ ended =>
       Known \ (events.arrived \cup events.telStart) \subseteq In("driving")
  /\ stage # "simulation" /\ ~ ended => Known \subseteq In("driving")
  /\ stage \in {"idle", "vehicles"} /\ ~ ended =>
       subscribedVehicles = In("driving")
  /\ stage = "vehicles" =>
       todo \subseteq In("driving")
  /\ stage = "vehicles" /\ ~ ended =>
       In("driving") \ Wanderers \subseteq Known \cup todo
  /\ stage = "idle" /\ ~ ended =>
       In("driving") \ Wanderers \subseteq Known
  /\ ended => stage = "idle"

(***************************************************************************)
(* The count of active vehicles is SUMO's, once the events are accounted.  *)
(***************************************************************************)
Count ==
  /\ stage = "simulation" =>
       activeVehicleCount + ActiveDelta(events) = Cardinality(In("driving"))
  /\ stage # "simulation" =>
       activeVehicleCount = Cardinality(In("driving"))

IInv ==
  /\ TypeOK
  /\ Owned
  /\ Created
  /\ NoDanglingNode
  /\ Rows
  /\ Books
  /\ Count
-----------------------------------------------------------------------------
LEMMA Subsets ==
  ASSUME NEW S \in SUBSET Vehicles
  PROVE  IsFiniteSet(S) /\ Cardinality(S) \in Nat
BY FS_Subset, FS_CardinalityType, ManagerAssumption

(***************************************************************************)
(* A set gains the members of one set and loses those of another.          *)
(***************************************************************************)
LEMMA Gain ==
  ASSUME NEW S \in SUBSET Vehicles, NEW T \in SUBSET Vehicles, S \cap T = {}
  PROVE  Cardinality(S \cup T) = Cardinality(S) + Cardinality(T)
<1>1. IsFiniteSet(S) /\ IsFiniteSet(T) /\ Cardinality(S) \in Nat
      /\ Cardinality(T) \in Nat
  BY Subsets
<1>2. Cardinality(S \cup T)
        = Cardinality(S) + Cardinality(T) - Cardinality(S \cap T)
  BY <1>1, FS_Union
<1>3. Cardinality(S \cap T) = 0
  BY FS_EmptySet
<1> QED BY <1>1, <1>2, <1>3

LEMMA Loss ==
  ASSUME NEW S \in SUBSET Vehicles, NEW T \in SUBSET S
  PROVE  Cardinality(S \ T) = Cardinality(S) - Cardinality(T)
<1>1. S = (S \ T) \cup T
  OBVIOUS
<1>2. Cardinality(S) = Cardinality(S \ T) + Cardinality(T)
  BY <1>1, Gain
<1> QED BY <1>2, Subsets

(***************************************************************************)
(* One step of SUMO changes the number of driving vehicles by the delta.   *)
(***************************************************************************)
LEMMA StepCount ==
  ASSUME ManagerTypeOK, NEW ev \in StepEvents
  PROVE  /\ ev \in [departed : SUBSET Vehicles, arrived : SUBSET Vehicles,
                    telStart : SUBSET Vehicles, telEnd : SUBSET Vehicles]
         /\ AfterStep(ev) \in
              [Vehicles -> {"waiting", "driving", "teleporting", "gone"}]
         /\ Cardinality({v \in Vehicles : AfterStep(ev)[v] = "driving"})
              = Cardinality(In("driving")) + ActiveDelta(ev)
<1> DEFINE D == In("driving")
           kept == (D \ ev.arrived) \ ev.telStart
           with == kept \cup ev.departed
<1>1. /\ ev \in [departed : SUBSET Vehicles, arrived : SUBSET Vehicles,
                 telStart : SUBSET Vehicles, telEnd : SUBSET Vehicles]
      /\ ev.departed \subseteq In("waiting")
      /\ ev.arrived \subseteq D /\ ev.telStart \subseteq D \ ev.arrived
      /\ ev.telEnd \subseteq In("teleporting") \cup ev.telStart
  BY DEF StepEvents, In
<1>2. AfterStep(ev) \in
        [Vehicles -> {"waiting", "driving", "teleporting", "gone"}]
  BY DEF AfterStep, ManagerTypeOK
<1>3. {v \in Vehicles : AfterStep(ev)[v] = "driving"} = with \cup ev.telEnd
  BY <1>1 DEF AfterStep, ManagerTypeOK, In
<1>4. Cardinality(with \cup ev.telEnd) = Cardinality(with) + Cardinality(ev.telEnd)
  <2>1. with \cap ev.telEnd = {}
    BY <1>1 DEF In
  <2>2. with \in SUBSET Vehicles /\ ev.telEnd \in SUBSET Vehicles
    BY <1>1 DEF In
  <2> QED BY <2>1, <2>2, Gain
<1>5. Cardinality(with) = Cardinality(kept) + Cardinality(ev.departed)
  <2>1. kept \cap ev.departed = {}
    BY <1>1 DEF In
  <2>2. kept \in SUBSET Vehicles /\ ev.departed \in SUBSET Vehicles
    BY <1>1 DEF In
  <2> QED BY <2>1, <2>2, Gain
<1>6. Cardinality(kept)
        = Cardinality(D) - Cardinality(ev.arrived) - Cardinality(ev.telStart)
  <2>1. D \in SUBSET Vehicles /\ D \ ev.arrived \in SUBSET Vehicles
    BY DEF In
  <2>2. Cardinality(D \ ev.arrived) = Cardinality(D) - Cardinality(ev.arrived)
    BY <1>1, <2>1, Loss
  <2>3. Cardinality(kept)
          = Cardinality(D \ ev.arrived) - Cardinality(ev.telStart)
    BY <1>1, <2>1, Loss
  <2> QED BY <2>2, <2>3
<1>7. /\ Cardinality(D) \in Nat /\ Cardinality(ev.departed) \in Nat
      /\ Cardinality(ev.arrived) \in Nat /\ Cardinality(ev.telStart) \in Nat
      /\ Cardinality(ev.telEnd) \in Nat
  <2>1. D \in SUBSET Vehicles
    BY DEF In
  <2> QED BY <1>1, <2>1, Subsets
<1>8. Cardinality(with \cup ev.telEnd) = Cardinality(D) + ActiveDelta(ev)
  <2> HIDE DEF with, kept, D
  <2> QED BY <1>4, <1>5, <1>6, <1>7 DEF ActiveDelta
<1> QED BY <1>1, <1>2, <1>3, <1>8
-----------------------------------------------------------------------------
LEMMA InitInv == Init => IInv
<1> SUFFICES ASSUME Init PROVE IInv
  OBVIOUS
<1> USE ManagerAssumption, AppAssumption DEF Init, ManagerInit, AppInit
<1>1. In("driving") = {} /\ Managed = {}
  BY DEF In, Managed
<1>2. TypeOK
  <2>1. ManagerTypeOK
    <3>1. events \in [departed : SUBSET Vehicles, arrived : SUBSET Vehicles,
                     telStart : SUBSET Vehicles, telEnd : SUBSET Vehicles]
      BY DEF NoEvents
    <3>2. hosts \in [Vehicles -> Modules \cup {NoModule}]
      OBVIOUS
    <3>3. sumo \in [Vehicles -> {"waiting", "driving", "teleporting", "gone"}]
      OBVIOUS
    <3>4. activeVehicleCount \in Nat /\ nextNodeVectorIndex \in 0 .. MaxModules
      OBVIOUS
    <3>5. stepDue \in BOOLEAN /\ ended \in BOOLEAN /\ churned \in BOOLEAN
      OBVIOUS
    <3>6. /\ stage \in {"idle", "simulation", "idlist", "vehicles"}
          /\ todo \subseteq Vehicles /\ unEquippedHosts \subseteq Vehicles
          /\ subscribedVehicles \subseteq Vehicles
      OBVIOUS
    <3> QED BY <3>1, <3>2, <3>3, <3>4, <3>5, <3>6 DEF ManagerTypeOK
  <2>2. vehicle \in [Modules -> Vehicles \cup {NoVehicle}]
    OBVIOUS
  <2>3. rows \in [Modules -> Nat] /\ reportIn \in [Modules -> 0 .. ReportInterval]
    OBVIOUS
  <2>4. phase \in [Modules -> {"none", "alive", "deleting", "deleted", "finished"}]
    OBVIOUS
  <2> QED BY <2>1, <2>2, <2>3, <2>4 DEF TypeOK
<1>3. Owned /\ Created /\ NoDanglingNode
  BY DEF Owned, Created, NoDanglingNode, NoModule
<1>4. Rows
  BY DEF Rows
<1>5. Books
  BY <1>1 DEF Books, Known
<1>6. Count
  BY <1>1, FS_EmptySet DEF Count
<1> QED BY <1>2, <1>3, <1>4, <1>5, <1>6 DEF IInv

(***************************************************************************)
(* What is about the manager alone, or about the modules alone.            *)
(***************************************************************************)
LEMMA ManagerKept ==
  ASSUME IInv, UNCHANGED managerVars
  PROVE  ManagerTypeOK' /\ Books' /\ Count'
BY DEF IInv, TypeOK, managerVars, ManagerTypeOK, Books, Count, Known, Managed,
       In, ActiveDelta

LEMMA ModulesKept ==
  ASSUME IInv, ManagerTypeOK', UNCHANGED appVars,
         nextNodeVectorIndex' = nextNodeVectorIndex,
         \A v \in Vehicles : hosts'[v] \in {hosts[v], NoModule}
  PROVE  TypeOK' /\ Owned' /\ Created' /\ NoDanglingNode' /\ Rows'
<1>1. TypeOK'
  BY DEF IInv, TypeOK, appVars
<1>2. Owned'
  BY DEF IInv, Owned, appVars
<1>3. Created' /\ NoDanglingNode' /\ Rows'
  BY DEF IInv, Created, NoDanglingNode, Rows, appVars
<1> QED BY <1>1, <1>2, <1>3
-----------------------------------------------------------------------------
LEMMA TimestepInv ==
  ASSUME IInv, executeOneTimestep, UNCHANGED appVars
  PROVE  IInv'
<1>1. PICK ev \in StepEvents : events' = ev /\ sumo' = AfterStep(ev)
  BY DEF executeOneTimestep
<1>2. /\ stage = "idle" /\ ~ ended /\ stage' = "simulation" /\ stepDue' = FALSE
      /\ UNCHANGED <<todo, hosts, unEquippedHosts, subscribedVehicles,
                     activeVehicleCount, nextNodeVectorIndex, ended, churned>>
  BY DEF executeOneTimestep
<1>3. /\ ev \in [departed : SUBSET Vehicles, arrived : SUBSET Vehicles,
                 telStart : SUBSET Vehicles, telEnd : SUBSET Vehicles]
      /\ AfterStep(ev) \in
           [Vehicles -> {"waiting", "driving", "teleporting", "gone"}]
      /\ Cardinality({v \in Vehicles : AfterStep(ev)[v] = "driving"})
           = Cardinality(In("driving")) + ActiveDelta(ev)
  BY StepCount DEF IInv, TypeOK
<1>4. ManagerTypeOK'
  BY <1>1, <1>2, <1>3 DEF IInv, TypeOK, ManagerTypeOK
<1>5. TypeOK' /\ Owned' /\ Created' /\ NoDanglingNode' /\ Rows'
  BY <1>2, <1>4, ModulesKept DEF IInv
<1>6. Books'
  <2>1. Known \subseteq In("driving") /\ Managed \cap unEquippedHosts = {}
    BY <1>2 DEF IInv, Books
  <2>2. Known' = Known /\ Managed' = Managed
    BY <1>2 DEF Known, Managed
  <2>3. Known \ (ev.arrived \cup ev.telStart) \subseteq In("driving")'
    BY <1>1, <2>1 DEF In, AfterStep
  <2> QED BY <1>1, <1>2, <2>1, <2>2, <2>3 DEF Books
<1>7. Count'
  <2>1. In("driving")' = {v \in Vehicles : AfterStep(ev)[v] = "driving"}
    BY <1>1 DEF In
  <2>2. activeVehicleCount = Cardinality(In("driving"))
    BY <1>2 DEF IInv, Count
  <2>3. activeVehicleCount' + ActiveDelta(events)' = Cardinality(In("driving"))'
    BY <1>1, <1>2, <1>3, <2>1, <2>2 DEF ActiveDelta
  <2> QED BY <1>2, <2>3 DEF Count
<1> QED BY <1>5, <1>6, <1>7 DEF IInv

LEMMA SimSubscriptionInv ==
  ASSUME IInv, processSimSubscription, UNCHANGED appVars
  PROVE  IInv'
<1> DEFINE removed == events.arrived \cup events.telStart
<1>1. /\ stage = "simulation" /\ stage' = "idlist"
      /\ hosts' = [v \in Vehicles |-> IF v \in removed THEN NoModule ELSE hosts[v]]
      /\ unEquippedHosts' = unEquippedHosts \ removed
      /\ churned' = (churned \/ removed # {})
      /\ subscribedVehicles' = subscribedVehicles \ events.arrived
      /\ activeVehicleCount' = activeVehicleCount + ActiveDelta(events)
      /\ events' = NoEvents
      /\ UNCHANGED <<sumo, todo, nextNodeVectorIndex, stepDue, ended>>
  BY DEF processSimSubscription, deleteManagedModules
<1>2. In("driving")' = In("driving") /\ In("driving") \in SUBSET Vehicles
  BY <1>1 DEF In
<1>3. activeVehicleCount' = Cardinality(In("driving"))
  BY <1>1 DEF IInv, Count
<1>4. ManagerTypeOK'
  <2>1. activeVehicleCount' \in Nat
    BY <1>2, <1>3, Subsets
  <2>2. hosts' \in [Vehicles -> Modules \cup {NoModule}]
    BY <1>1 DEF IInv, TypeOK, ManagerTypeOK
  <2>3. churned' \in BOOLEAN
    BY <1>1
  <2>4. events' \in [departed : SUBSET Vehicles, arrived : SUBSET Vehicles,
                    telStart : SUBSET Vehicles, telEnd : SUBSET Vehicles]
    BY <1>1 DEF NoEvents
  <2> HIDE DEF removed
  <2> QED BY <1>1, <2>1, <2>2, <2>3, <2>4 DEF IInv, TypeOK, ManagerTypeOK
<1>5. TypeOK' /\ Owned' /\ Created' /\ NoDanglingNode' /\ Rows'
  BY <1>1, <1>4, ModulesKept DEF IInv
<1>6. Books'
  <2>1. Known' = Known \ removed /\ Managed' = Managed \ removed
    BY <1>1 DEF Known, Managed
  <2>2. ~ ended' => Known' \subseteq In("driving")'
    BY <1>1, <1>2, <2>1 DEF IInv, Books
  <2>3. Managed' \cap unEquippedHosts' = {}
    BY <1>1, <2>1 DEF IInv, Books
  <2>4. ended' => stage' = "idle"
    BY <1>1 DEF IInv, Books
  <2> QED BY <1>1, <2>2, <2>3, <2>4 DEF Books
<1>7. Count'
  BY <1>1, <1>2, <1>3 DEF Count
<1> QED BY <1>5, <1>6, <1>7 DEF IInv

LEMMA IdListInv ==
  ASSUME IInv, processIdList, UNCHANGED appVars
  PROVE  IInv'
<1>1. /\ stage = "idlist" /\ subscribedVehicles' = In("driving")
      /\ todo' = In("driving")
      /\ stage' = IF In("driving") = {} THEN "idle" ELSE "vehicles"
      /\ UNCHANGED <<sumo, events, hosts, unEquippedHosts, activeVehicleCount,
                     nextNodeVectorIndex, stepDue, ended, churned>>
  BY DEF processIdList
<1>2. /\ In("driving")' = In("driving") /\ In("driving") \subseteq Vehicles
      /\ Known' = Known /\ Managed' = Managed
  BY <1>1 DEF In, Known, Managed
<1>3. ManagerTypeOK'
  BY <1>1, <1>2 DEF IInv, TypeOK, ManagerTypeOK
<1>4. TypeOK' /\ Owned' /\ Created' /\ NoDanglingNode' /\ Rows'
  BY <1>1, <1>3, ModulesKept DEF IInv
<1>5. Books'
  BY <1>1, <1>2 DEF IInv, Books
<1>6. Count'
  BY <1>1, <1>2 DEF IInv, Count
<1> QED BY <1>4, <1>5, <1>6 DEF IInv
-----------------------------------------------------------------------------
(***************************************************************************)
(* The books after the result of one vehicle: the three cases of           *)
(* processVehicleSubscription() move it in or out, or leave it.            *)
(***************************************************************************)
LEMMA VehicleBooks ==
  ASSUME IInv, NEW v \in Vehicles, stage = "vehicles", v \in todo,
         todo' = todo \ {v}, stage' = IF todo' = {} THEN "idle" ELSE "vehicles",
         UNCHANGED <<sumo, subscribedVehicles, activeVehicleCount, ended>>,
         Managed' \cap unEquippedHosts' = {},
         \/ Known' = Known \ {v} /\ v \in Wanderers
         \/ Known' = Known \cup {v}
         \/ Known' = Known /\ (v \in Known \/ v \in Wanderers)
  PROVE  Books' /\ Count'
<1>1. In("driving")' = In("driving")
  BY DEF In
<1>2. /\ ~ ended /\ Known \subseteq In("driving")
      /\ subscribedVehicles = In("driving") /\ v \in In("driving")
      /\ todo \subseteq In("driving")
      /\ In("driving") \ Wanderers \subseteq Known \cup todo
  BY DEF IInv, Books
<1>3. Known' \subseteq In("driving")
  BY <1>2
<1>4. In("driving") \ Wanderers \subseteq Known' \cup todo'
  BY <1>2
<1>5. stage' \in {"idle", "vehicles"} /\ (stage' = "idle" => todo' = {})
  OBVIOUS
<1>6. Books'
  BY <1>1, <1>2, <1>3, <1>4, <1>5 DEF Books
<1>7. Count'
  BY <1>1, <1>5 DEF IInv, Count
<1> QED BY <1>6, <1>7

LEMMA VehicleLeavesOrStays ==
  ASSUME IInv, NEW v \in Vehicles, processVehicleSubscription(v),
         nextNodeVectorIndex' = nextNodeVectorIndex, UNCHANGED appVars
  PROVE  IInv'
<1>1. /\ stage = "vehicles" /\ v \in todo /\ todo' = todo \ {v}
      /\ stage' = IF todo' = {} THEN "idle" ELSE "vehicles"
      /\ UNCHANGED <<sumo, events, subscribedVehicles, activeVehicleCount,
                     stepDue, ended>>
  BY DEF processVehicleSubscription
<1>2. \/ /\ v \in Wanderers
         /\ hosts' = [w \in Vehicles |-> IF w = v THEN NoModule ELSE hosts[w]]
         /\ unEquippedHosts' = unEquippedHosts \ {v}
         /\ churned' = TRUE
      \/ /\ unEquippedHosts' = unEquippedHosts \cup {v}
         /\ v \notin Managed \cup unEquippedHosts
         /\ UNCHANGED <<hosts, churned>>
      \/ /\ v \in Wanderers \/ v \in Managed \cup unEquippedHosts
         /\ UNCHANGED <<hosts, unEquippedHosts, churned>>
  <2>1. PICK inRoi \in InRoiResults(v) :
          \/ /\ ~ inRoi /\ v \in Managed \cup unEquippedHosts
             /\ deleteManagedModules({v})
             /\ unEquippedHosts' = unEquippedHosts \ {v}
             /\ churned' = TRUE
          \/ /\ inRoi /\ v \notin Managed \cup unEquippedHosts
             /\ addModule(v)
             /\ UNCHANGED churned
          \/ /\ inRoi <=> v \in Managed \cup unEquippedHosts
             /\ UNCHANGED <<hosts, unEquippedHosts, churned>>
    BY DEF processVehicleSubscription
  <2>2. inRoi \in BOOLEAN /\ (inRoi = FALSE => v \in Wanderers)
    BY Zenon DEF InRoiResults
  <2>3. CASE ~ inRoi /\ deleteManagedModules({v})
             /\ unEquippedHosts' = unEquippedHosts \ {v} /\ churned' = TRUE
    <3>1. v \in Wanderers
      BY <2>2, <2>3, Zenon
    <3> QED BY <2>3, <3>1 DEF deleteManagedModules
  <2>4. CASE addModule(v) /\ UNCHANGED churned
             /\ v \notin Managed \cup unEquippedHosts
    <3>1. nextNodeVectorIndex' # nextNodeVectorIndex + 1
      BY DEF IInv, TypeOK, ManagerTypeOK
    <3> QED BY <2>4, <3>1 DEF addModule
  <2>5. CASE /\ inRoi <=> v \in Managed \cup unEquippedHosts
             /\ UNCHANGED <<hosts, unEquippedHosts, churned>>
    <3>1. v \in Wanderers \/ v \in Managed \cup unEquippedHosts
      BY <2>2, <2>5, Zenon
    <3> QED BY <2>5, <3>1
  <2> QED BY <2>1, <2>3, <2>4, <2>5
<1>3. ManagerTypeOK' /\ \A w \in Vehicles : hosts'[w] \in {hosts[w], NoModule}
  BY <1>1, <1>2 DEF IInv, TypeOK, ManagerTypeOK
<1>4. TypeOK' /\ Owned' /\ Created' /\ NoDanglingNode' /\ Rows'
  BY <1>3, ModulesKept DEF IInv
<1>5. Managed' \cap unEquippedHosts' = {}
  BY <1>2 DEF IInv, Books, Managed
<1>6. \/ Known' = Known \ {v} /\ v \in Wanderers
      \/ Known' = Known \cup {v}
      \/ Known' = Known /\ (v \in Known \/ v \in Wanderers)
  BY <1>2 DEF Known, Managed
<1>7. Books' /\ Count'
  BY <1>1, <1>5, <1>6, VehicleBooks
<1> QED BY <1>4, <1>7 DEF IInv

LEMMA VehicleAdded ==
  ASSUME IInv, NEW v \in Vehicles, processVehicleSubscription(v),
         nextNodeVectorIndex' # nextNodeVectorIndex,
         initialize(nextNodeVectorIndex', v)
  PROVE  IInv'
<1> DEFINE m == nextNodeVectorIndex + 1
<1>1. /\ stage = "vehicles" /\ v \in todo /\ todo' = todo \ {v}
      /\ stage' = IF todo' = {} THEN "idle" ELSE "vehicles"
      /\ UNCHANGED <<sumo, events, subscribedVehicles, activeVehicleCount,
                     stepDue, ended>>
  BY DEF processVehicleSubscription
<1>2. /\ v \notin Managed \cup unEquippedHosts /\ nextNodeVectorIndex < MaxModules
      /\ nextNodeVectorIndex' = m /\ hosts' = [hosts EXCEPT ![v] = m]
      /\ UNCHANGED <<unEquippedHosts, churned>>
  BY DEF processVehicleSubscription, addModule
<1>3. m \in Modules /\ m \in Nat /\ m # NoModule /\ nextNodeVectorIndex \in Nat
  BY <1>2, ManagerAssumption DEF IInv, TypeOK, ManagerTypeOK, Modules, NoModule
<1>4. /\ phase' = [phase EXCEPT ![m] = "alive"]
      /\ vehicle' = [vehicle EXCEPT ![m] = v]
      /\ reportIn' = [reportIn EXCEPT ![m] = ReportInterval]
      /\ ttiTicking' = ttiTicking \cup {m} /\ binderNodes' = binderNodes \cup {m}
      /\ UNCHANGED <<statsInitialized, statsWritten, routes, rows, aborted,
                     ghostReports>>
  BY <1>2 DEF initialize, FirstReportIn
<1>5. isEquipped' \in [Modules -> BOOLEAN]
  <2>1. PICK e \in AppEquipped : isEquipped' = [isEquipped EXCEPT ![m] = e]
    BY <1>2 DEF initialize
  <2>2. e \in BOOLEAN
    BY AppAssumption
  <2> QED BY <2>1, <2>2 DEF IInv, TypeOK
<1> HIDE DEF m
<1>6. TypeOK'
  <2>1. ManagerTypeOK'
    <3>1. hosts' \in [Vehicles -> Modules \cup {NoModule}]
      BY <1>2, <1>3 DEF IInv, TypeOK, ManagerTypeOK
    <3>2. nextNodeVectorIndex' \in 0 .. MaxModules
      BY <1>2, <1>3 DEF Modules
    <3>3. todo' \subseteq Vehicles
          /\ stage' \in {"idle", "simulation", "idlist", "vehicles"}
      BY <1>1 DEF IInv, TypeOK, ManagerTypeOK
    <3> QED BY <1>1, <1>2, <3>1, <3>2, <3>3 DEF IInv, TypeOK, ManagerTypeOK
  <2>2. reportIn' \in [Modules -> 0 .. ReportInterval]
    <3>1. ReportInterval \in 0 .. ReportInterval
      BY AppAssumption
    <3> QED BY <1>4, <3>1 DEF IInv, TypeOK
  <2>3. /\ phase' \in [Modules -> {"none", "alive", "deleting", "deleted", "finished"}]
        /\ vehicle' \in [Modules -> Vehicles \cup {NoVehicle}]
        /\ ttiTicking' \subseteq Modules /\ binderNodes' \subseteq Modules
    BY <1>3, <1>4 DEF IInv, TypeOK
  <2> QED BY <1>4, <1>5, <2>1, <2>2, <2>3 DEF IInv, TypeOK
<1>7. \A n \in Modules : n # m => phase'[n] = phase[n] /\ vehicle'[n] = vehicle[n]
  BY <1>4 DEF IInv, TypeOK
<1>8. phase'[m] = "alive" /\ vehicle'[m] = v
  BY <1>3, <1>4 DEF IInv, TypeOK
<1>9. Owned'
  <2> SUFFICES ASSUME NEW w \in Vehicles, hosts'[w] # NoModule
               PROVE  /\ hosts'[w] \in 1 .. m
                      /\ phase'[hosts'[w]] = "alive" /\ vehicle'[hosts'[w]] = w
                      /\ hosts'[w] \in binderNodes' /\ hosts'[w] \in ttiTicking'
    BY <1>2 DEF Owned
  <2>1. CASE w = v
    <3>1. hosts'[w] = m
      BY <1>2, <2>1 DEF IInv, TypeOK, ManagerTypeOK
    <3> QED BY <1>3, <1>4, <1>8, <2>1, <3>1 DEF Modules
  <2>2. CASE w # v
    <3>1. hosts'[w] = hosts[w] /\ hosts[w] \in 1 .. nextNodeVectorIndex
          /\ phase[hosts[w]] = "alive" /\ vehicle[hosts[w]] = w
          /\ hosts[w] \in binderNodes /\ hosts[w] \in ttiTicking
      BY <1>2, <2>2 DEF IInv, TypeOK, ManagerTypeOK, Owned
    <3>2. hosts[w] \in Modules /\ hosts[w] # m /\ hosts[w] \in 1 .. m
      BY <1>3, <3>1 DEF IInv, TypeOK, ManagerTypeOK, Modules, m
    <3> QED BY <1>4, <1>7, <3>1, <3>2
  <2> QED BY <2>1, <2>2
<1>10. Created'
  <2> SUFFICES ASSUME NEW n \in Modules
               PROVE  /\ phase'[n] = "alive" => vehicle'[n] \in Vehicles
                      /\ n > m => phase'[n] = "none"
    BY <1>2 DEF Created
  <2>1. CASE n = m
    BY <1>3, <1>8, <2>1
  <2>2. CASE n # m
    <3>1. n > m => n > nextNodeVectorIndex
      BY <1>3 DEF m, Modules
    <3> QED BY <1>7, <2>2, <3>1 DEF IInv, Created
  <2> QED BY <2>1, <2>2
<1>11. NoDanglingNode'
  BY <1>4, <1>7, <1>8 DEF IInv, NoDanglingNode, TypeOK
<1>12. Rows'
  <2>1. \A n \in Modules : phase'[n] \in {"deleting", "deleted", "finished"}
          => phase[n] \in {"deleting", "deleted", "finished"}
    BY <1>7, <1>8
  <2> QED BY <1>4, <2>1 DEF IInv, Rows
<1>13. Managed' = Managed \cup {v} /\ Known' = Known \cup {v}
       /\ Managed' \cap unEquippedHosts' = {}
  <2>1. Managed' = Managed \cup {v}
    BY <1>2, <1>3 DEF Managed, IInv, TypeOK, ManagerTypeOK
  <2> QED BY <1>2, <2>1 DEF Known, IInv, Books
<1>14. Books' /\ Count'
  BY <1>1, <1>13, VehicleBooks
<1> QED BY <1>6, <1>9, <1>10, <1>11, <1>12, <1>14 DEF IInv

LEMMA ManagerStepInv ==
  ASSUME IInv, ManagerStep
  PROVE  IInv'
<1>1. CASE executeOneTimestep /\ UNCHANGED appVars
  BY <1>1, TimestepInv
<1>2. CASE processSimSubscription /\ UNCHANGED appVars
  BY <1>2, SimSubscriptionInv
<1>3. CASE processIdList /\ UNCHANGED appVars
  BY <1>3, IdListInv
<1>4. ASSUME NEW v \in Vehicles, processVehicleSubscription(v),
             IF nextNodeVectorIndex' = nextNodeVectorIndex
             THEN UNCHANGED appVars
             ELSE initialize(nextNodeVectorIndex', v)
      PROVE  IInv'
  <2>1. CASE nextNodeVectorIndex' = nextNodeVectorIndex
    BY <1>4, <2>1, VehicleLeavesOrStays
  <2>2. CASE nextNodeVectorIndex' # nextNodeVectorIndex
    BY <1>4, <2>2, VehicleAdded
  <2> QED BY <2>1, <2>2
<1> QED BY <1>1, <1>2, <1>3, <1>4 DEF ManagerStep
-----------------------------------------------------------------------------
(***************************************************************************)
(* writeStatsRow() for the modules of a set.                               *)
(***************************************************************************)
LEMMA WriteRows ==
  ASSUME TypeOK, Rows, NEW ms \in SUBSET Modules, writeStatsRow(ms)
  PROVE  /\ statsWritten' \in [Modules -> BOOLEAN] /\ rows' \in [Modules -> Nat]
         /\ \A m \in Modules :
              /\ rows'[m] = IF statsWritten'[m] THEN 1 ELSE 0
              /\ statsWritten'[m] => statsInitialized[m]
              /\ statsWritten[m] => statsWritten'[m]
              /\ m \in ms => (statsInitialized[m] => statsWritten'[m])
<1>1. statsWritten' \in [Modules -> BOOLEAN]
  BY DEF writeStatsRow
<1>2. ASSUME NEW m \in Modules
      PROVE  /\ statsWritten'[m] <=> (statsWritten[m] \/ m \in MustWrite(ms))
             /\ rows'[m] = IF m \in MustWrite(ms) THEN rows[m] + 1 ELSE rows[m]
             /\ m \in MustWrite(ms)
                  <=> m \in ms /\ statsInitialized[m] /\ ~ statsWritten[m]
             /\ rows[m] = IF statsWritten[m] THEN 1 ELSE 0
             /\ statsWritten[m] => statsInitialized[m]
  <2>1. m \in MustWrite(ms)
          <=> m \in ms /\ statsInitialized[m] /\ ~ statsWritten[m]
    BY DEF MustWrite
  <2> QED BY <2>1 DEF writeStatsRow, Rows
<1>3. ASSUME NEW m \in Modules
      PROVE  /\ rows'[m] = IF statsWritten'[m] THEN 1 ELSE 0
             /\ statsWritten'[m] => statsInitialized[m]
             /\ statsWritten[m] => statsWritten'[m]
             /\ m \in ms => (statsInitialized[m] => statsWritten'[m])
  <2>1. CASE m \in MustWrite(ms)
    <3>1. rows'[m] = 1
      BY <1>2, <2>1
    <3> QED BY <1>2, <2>1, <3>1
  <2>2. CASE m \notin MustWrite(ms)
    BY <1>2, <2>2
  <2> QED BY <2>1, <2>2
<1>4. rows' \in [Modules -> Nat]
  <2>1. rows' = [m \in Modules |-> IF m \in MustWrite(ms) THEN rows[m] + 1
                                                           ELSE rows[m]]
    BY DEF writeStatsRow
  <2>2. \A m \in Modules : rows[m] \in Nat /\ rows[m] + 1 \in Nat
    BY DEF TypeOK
  <2> QED BY <2>1, <2>2
<1> QED BY <1>1, <1>3, <1>4

LEMMA ReportGoneInv ==
  ASSUME IInv, NEW m \in Modules, sendReportGone(m)
  PROVE  IInv'
<1>1. /\ phase[m] = "alive" /\ hosts[vehicle[m]] = NoModule
      /\ writeStatsRow({m})
      /\ binderNodes' = binderNodes \ {m} /\ ttiTicking' = ttiTicking \ {m}
      /\ phase' = [phase EXCEPT ![m] = "deleting"]
      /\ isEquipped' = [isEquipped EXCEPT ![m] = FALSE]
      /\ UNCHANGED <<managerVars, vehicle, statsInitialized, reportIn, routes,
                     aborted, ghostReports>>
  BY DEF sendReportGone, TimerFires, LeftSumo, shutdownLteStack
<1>2. ManagerTypeOK' /\ Books' /\ Count'
  BY <1>1, ManagerKept
<1>3. /\ statsWritten' \in [Modules -> BOOLEAN] /\ rows' \in [Modules -> Nat]
      /\ \A n \in Modules :
           /\ rows'[n] = IF statsWritten'[n] THEN 1 ELSE 0
           /\ statsWritten'[n] => statsInitialized[n]
           /\ statsWritten[n] => statsWritten'[n]
           /\ n \in {m} => (statsInitialized[n] => statsWritten'[n])
  BY <1>1, WriteRows DEF IInv
<1>4. isEquipped' \in [Modules -> BOOLEAN]
  BY <1>1 DEF IInv, TypeOK
<1>5. TypeOK'
  BY <1>1, <1>2, <1>3, <1>4 DEF IInv, TypeOK
<1>6. phase'[m] = "deleting" /\ \A n \in Modules : n # m => phase'[n] = phase[n]
  BY <1>1 DEF IInv, TypeOK
<1>7. \A v \in Vehicles : hosts[v] # m
  BY <1>1 DEF IInv, Owned, Modules, NoModule
<1>8. hosts' = hosts /\ nextNodeVectorIndex' = nextNodeVectorIndex
  BY <1>1 DEF managerVars
<1>9. Owned'
  BY <1>1, <1>6, <1>7, <1>8 DEF IInv, TypeOK, ManagerTypeOK, Owned
<1>10. Created'
  BY <1>1, <1>6, <1>8 DEF IInv, Created
<1>11. NoDanglingNode'
  BY <1>1, <1>6 DEF IInv, TypeOK, NoDanglingNode
<1>12. Rows'
  BY <1>1, <1>3, <1>6 DEF IInv, Rows
<1> QED BY <1>2, <1>5, <1>9, <1>10, <1>11, <1>12 DEF IInv

LEMMA ReportInv ==
  ASSUME IInv, NEW m \in Modules, sendReport(m)
  PROVE  IInv'
<1>1. /\ phase[m] = "alive"
      /\ reportIn' = [reportIn EXCEPT ![m] = ReportInterval]
      /\ UNCHANGED <<managerVars, phase, vehicle, isEquipped, statsWritten,
                     ttiTicking, binderNodes, rows, aborted>>
  BY DEF sendReport, TimerFires
<1>2. /\ statsInitialized' \in [Modules -> BOOLEAN]
      /\ \A n \in Modules : statsInitialized[n] => statsInitialized'[n]
      /\ \A n \in Modules : n # m => statsInitialized'[n] = statsInitialized[n]
      /\ routes' \subseteq Modules /\ ghostReports' \subseteq Modules
  <2>1. PICK onEdge \in BOOLEAN :
          /\ statsInitialized' = [statsInitialized EXCEPT ![m] = @ \/ onEdge]
          /\ IF onEdge /\ isEquipped[m]
             THEN /\ routes' \in {routes, routes \cup {m}}
                  /\ ghostReports' = IF hosts[vehicle[m]] = m THEN ghostReports
                                     ELSE ghostReports \cup {m}
             ELSE UNCHANGED <<routes, ghostReports>>
    BY DEF sendReport
  <2>2. statsInitialized' \in [Modules -> BOOLEAN]
    BY <2>1 DEF IInv, TypeOK
  <2>3. \A n \in Modules : statsInitialized[n] => statsInitialized'[n]
    BY <2>1 DEF IInv, TypeOK
  <2>4. \A n \in Modules : n # m => statsInitialized'[n] = statsInitialized[n]
    BY <2>1 DEF IInv, TypeOK
  <2>5. routes' \subseteq Modules /\ ghostReports' \subseteq Modules
    BY <2>1 DEF IInv, TypeOK
  <2> QED BY <2>2, <2>3, <2>4, <2>5
<1>3. ManagerTypeOK' /\ Books' /\ Count'
  BY <1>1, ManagerKept
<1>4. reportIn' \in [Modules -> 0 .. ReportInterval]
  <2>1. ReportInterval \in 0 .. ReportInterval
    BY AppAssumption
  <2> QED BY <1>1, <2>1 DEF IInv, TypeOK
<1>5. TypeOK'
  BY <1>1, <1>2, <1>3, <1>4 DEF IInv, TypeOK
<1>6. hosts' = hosts /\ nextNodeVectorIndex' = nextNodeVectorIndex
  BY <1>1 DEF managerVars
<1>7. Owned' /\ Created' /\ NoDanglingNode'
  BY <1>1, <1>6 DEF IInv, Owned, Created, NoDanglingNode
<1>8. Rows'
  BY <1>1, <1>2 DEF IInv, Rows
<1> QED BY <1>3, <1>5, <1>7, <1>8 DEF IInv

LEMMA DeleteSelfInv ==
  ASSUME IInv, NEW m \in Modules, deleteSelf(m)
  PROVE  IInv'
<1>1. /\ phase[m] = "deleting" /\ writeStatsRow({m})
      /\ binderNodes' = binderNodes \ {m} /\ ttiTicking' = ttiTicking \ {m}
      /\ phase' = [phase EXCEPT ![m] = "deleted"]
      /\ UNCHANGED <<managerVars, vehicle, isEquipped, statsInitialized, reportIn,
                     routes, aborted, ghostReports>>
  BY DEF deleteSelf
<1>2. ManagerTypeOK' /\ Books' /\ Count'
  BY <1>1, ManagerKept
<1>3. /\ statsWritten' \in [Modules -> BOOLEAN] /\ rows' \in [Modules -> Nat]
      /\ \A n \in Modules :
           /\ rows'[n] = IF statsWritten'[n] THEN 1 ELSE 0
           /\ statsWritten'[n] => statsInitialized[n]
           /\ statsWritten[n] => statsWritten'[n]
           /\ n \in {m} => (statsInitialized[n] => statsWritten'[n])
  BY <1>1, WriteRows DEF IInv
<1>4. TypeOK'
  BY <1>1, <1>2, <1>3 DEF IInv, TypeOK
<1>5. phase'[m] = "deleted" /\ \A n \in Modules : n # m => phase'[n] = phase[n]
  BY <1>1 DEF IInv, TypeOK
<1>6. hosts' = hosts /\ nextNodeVectorIndex' = nextNodeVectorIndex
  BY <1>1 DEF managerVars
<1>7. Owned'
  BY <1>1, <1>5, <1>6 DEF IInv, TypeOK, ManagerTypeOK, Owned
<1>8. Created'
  BY <1>1, <1>5, <1>6 DEF IInv, Created
<1>9. NoDanglingNode'
  BY <1>1, <1>5 DEF IInv, TypeOK, NoDanglingNode
<1>10. Rows'
  BY <1>1, <1>3, <1>5 DEF IInv, Rows
<1> QED BY <1>2, <1>4, <1>7, <1>8, <1>9, <1>10 DEF IInv

LEMMA RouteInv ==
  ASSUME IInv, NEW m \in Modules, socketDataArrived(m)
  PROVE  IInv'
<1>1. /\ routes' = routes \ {m} /\ aborted' \in BOOLEAN
      /\ UNCHANGED <<managerVars, phase, vehicle, isEquipped, statsInitialized,
                     statsWritten, reportIn, ttiTicking, binderNodes, rows,
                     ghostReports>>
  BY DEF socketDataArrived
<1>2. ManagerTypeOK' /\ Books' /\ Count'
  BY <1>1, ManagerKept
<1>3. TypeOK'
  BY <1>1, <1>2 DEF IInv, TypeOK
<1>4. hosts' = hosts /\ nextNodeVectorIndex' = nextNodeVectorIndex
  BY <1>1 DEF managerVars
<1>5. Owned' /\ Created' /\ NoDanglingNode' /\ Rows'
  BY <1>1, <1>4 DEF IInv, Owned, Created, NoDanglingNode, Rows
<1> QED BY <1>2, <1>3, <1>5 DEF IInv

LEMMA AdvanceInv ==
  ASSUME IInv, Advance
  PROVE  IInv'
<1>1. /\ stepDue' = TRUE
      /\ UNCHANGED <<sumo, events, stage, todo, hosts, unEquippedHosts,
                     subscribedVehicles, activeVehicleCount,
                     nextNodeVectorIndex, ended, churned>>
      /\ UNCHANGED <<phase, vehicle, isEquipped, statsInitialized, statsWritten,
                     ttiTicking, binderNodes, routes, rows, aborted,
                     ghostReports>>
  BY DEF Advance, NextInstant
<1>2. reportIn' \in [Modules -> 0 .. ReportInterval]
  <2>1. /\ reportIn' = [m \in Modules |-> IF phase[m] = "alive"
                                          THEN reportIn[m] - 1 ELSE reportIn[m]]
        /\ \A m \in Modules : phase[m] = "alive" => reportIn[m] > 0
    BY DEF Advance
  <2>2. \A m \in Modules : /\ reportIn[m] \in 0 .. ReportInterval
                           /\ phase[m] = "alive" =>
                                reportIn[m] - 1 \in 0 .. ReportInterval
    BY <2>1, AppAssumption DEF IInv, TypeOK
  <2> QED BY <2>1, <2>2
<1>3. ManagerTypeOK'
  BY <1>1 DEF IInv, TypeOK, ManagerTypeOK
<1>4. TypeOK'
  BY <1>1, <1>2, <1>3 DEF IInv, TypeOK
<1>5. Owned' /\ Created' /\ NoDanglingNode' /\ Rows'
  BY <1>1 DEF IInv, Owned, Created, NoDanglingNode, Rows
<1>6. Books' /\ Count'
  BY <1>1 DEF IInv, Books, Count, Known, Managed, In, ActiveDelta
<1> QED BY <1>4, <1>5, <1>6 DEF IInv

LEMMA FinishInv ==
  ASSUME IInv, finish
  PROVE  IInv'
<1> DEFINE ms == {m \in Modules : phase[m] \in {"alive", "deleting"}}
<1>1. /\ stage = "idle" /\ ended' = TRUE /\ churned' = TRUE
      /\ hosts' = [v \in Vehicles |-> NoModule]
      /\ UNCHANGED <<sumo, events, stage, todo, unEquippedHosts,
                     subscribedVehicles, activeVehicleCount,
                     nextNodeVectorIndex, stepDue>>
  BY DEF finish, preNetworkFinish, deleteManagedModules
<1>2. /\ writeStatsRow(ms)
      /\ phase' = [m \in Modules |-> IF m \in ms THEN "finished" ELSE phase[m]]
      /\ binderNodes' = binderNodes \ ms /\ ttiTicking' = ttiTicking \ ms
      /\ UNCHANGED <<vehicle, isEquipped, statsInitialized, reportIn, routes,
                     aborted, ghostReports>>
  BY DEF finish
<1>3. /\ statsWritten' \in [Modules -> BOOLEAN] /\ rows' \in [Modules -> Nat]
      /\ \A n \in Modules :
           /\ rows'[n] = IF statsWritten'[n] THEN 1 ELSE 0
           /\ statsWritten'[n] => statsInitialized[n]
           /\ statsWritten[n] => statsWritten'[n]
           /\ n \in ms => (statsInitialized[n] => statsWritten'[n])
  BY <1>2, WriteRows DEF IInv
<1>4. ManagerTypeOK'
  <2>1. hosts' \in [Vehicles -> Modules \cup {NoModule}]
    BY <1>1
  <2> QED BY <1>1, <2>1 DEF IInv, TypeOK, ManagerTypeOK
<1>5. TypeOK'
  <2>1. phase' \in [Modules -> {"none", "alive", "deleting", "deleted", "finished"}]
    BY <1>2 DEF IInv, TypeOK
  <2> HIDE DEF ms
  <2> QED BY <1>2, <1>3, <1>4, <2>1 DEF IInv, TypeOK
<1>6. Owned'
  BY <1>1 DEF Owned
<1>7. Created'
  BY <1>1, <1>2 DEF IInv, Created
<1>8. NoDanglingNode'
  BY <1>2 DEF IInv, TypeOK, NoDanglingNode
<1>9. Rows'
  BY <1>2, <1>3 DEF IInv, Rows
<1>10. Books'
  <2>1. Managed' = {}
    BY <1>1 DEF Managed
  <2> QED BY <1>1, <2>1 DEF Books
<1>11. Count'
  BY <1>1 DEF IInv, Count, In
<1> QED BY <1>5, <1>6, <1>7, <1>8, <1>9, <1>10, <1>11 DEF IInv

LEMMA StutterInv ==
  ASSUME IInv, UNCHANGED vars
  PROVE  IInv'
<1>1. UNCHANGED managerVars /\ UNCHANGED appVars
  BY DEF vars
<1>2. ManagerTypeOK' /\ Books' /\ Count'
  BY <1>1, ManagerKept
<1>3. TypeOK' /\ Owned' /\ Created' /\ NoDanglingNode' /\ Rows'
  BY <1>1, <1>2, ModulesKept DEF managerVars
<1> QED BY <1>2, <1>3 DEF IInv

LEMMA NextInv ==
  ASSUME IInv, [Next]_vars
  PROVE  IInv'
<1>1. CASE ManagerStep
  BY <1>1, ManagerStepInv
<1>2. ASSUME NEW m \in Modules, AppStep(m)
      PROVE  IInv'
  BY <1>2, ReportGoneInv, ReportInv, DeleteSelfInv, RouteInv DEF AppStep
<1>3. CASE Advance
  BY <1>3, AdvanceInv
<1>4. CASE finish
  BY <1>4, FinishInv
<1>5. CASE UNCHANGED vars
  BY <1>5, StutterInv
<1> QED BY <1>1, <1>2, <1>3, <1>4, <1>5 DEF Next, Stopped

(***************************************************************************)
(* The inductive invariant holds in every reachable state.                 *)
(***************************************************************************)
THEOREM Invariance == Spec => []IInv
<1>1. IInv /\ [Next]_vars => IInv'
  BY NextInv
<1> QED BY InitInv, <1>1, PTL DEF Spec
-----------------------------------------------------------------------------
(***************************************************************************)
(* The state of manager and applications keeps its types; in particular    *)
(* the count of active vehicles is never negative and no more modules are  *)
(* created than there are places for.                                      *)
(***************************************************************************)
THEOREM TypeCorrect == Spec => []TypeOK
<1>1. IInv => TypeOK
  BY DEF IInv
<1> QED BY Invariance, <1>1, PTL

(***************************************************************************)
(* ASSERT(count == activeVehicleCount) in processVehicleSubscription().    *)
(***************************************************************************)
THEOREM CountsAgree == Spec => []ActiveCountMatches
<1>1. IInv => ActiveCountMatches
  BY DEF IInv, Count, ActiveCountMatches
<1> QED BY Invariance, <1>1, PTL

(***************************************************************************)
(* Between time steps hosts and unEquippedHosts partition the traffic,     *)
(* and no two vehicles share a module.                                     *)
(***************************************************************************)
THEOREM BooksPartition == Spec => []HostsPartitionTraffic
<1>1. IInv => HostsPartitionTraffic
  <2> SUFFICES ASSUME IInv PROVE HostsPartitionTraffic
    OBVIOUS
  <2>1. \A v, w \in Managed : hosts[v] = hosts[w] => v = w
    BY DEF IInv, Owned, Managed
  <2>2. stage = "idle" /\ ~ ended =>
          /\ Known \subseteq In("driving") /\ subscribedVehicles = In("driving")
          /\ In("driving") \ Wanderers \subseteq Known
    BY DEF IInv, Books
  <2>3. Managed \cap unEquippedHosts = {}
    BY DEF IInv, Books
  <2> QED BY <2>1, <2>2, <2>3 DEF HostsPartitionTraffic, Known
<1> QED BY Invariance, <1>1, PTL

(***************************************************************************)
(* A module the manager hands out is up, with its LTE stack, and belongs   *)
(* to that vehicle, whatever order timers and deletions run in.            *)
(***************************************************************************)
THEOREM ManagedAreAlive == Spec => []ManagedModulesAreAlive
<1>1. IInv => ManagedModulesAreAlive
  BY DEF IInv, Owned, ManagedModulesAreAlive
<1> QED BY Invariance, <1>1, PTL

(***************************************************************************)
(* What the binder knows, and what ticks, exists.                          *)
(***************************************************************************)
THEOREM NothingDangles == Spec => []NoDanglingNode
<1>1. IInv => NoDanglingNode
  BY DEF IInv
<1> QED BY Invariance, <1>1, PTL

(***************************************************************************)
(* writeStatsRow() appends one row per module, and loses none.             *)
(***************************************************************************)
THEOREM OneRowEach == Spec => []OneRowPerModule
<1>1. IInv => OneRowPerModule
  <2> SUFFICES ASSUME IInv, NEW m \in Modules
               PROVE  /\ rows[m] <= 1
                      /\ phase[m] \in {"deleting", "deleted", "finished"} =>
                           (rows[m] = 1 <=> statsInitialized[m])
    BY DEF OneRowPerModule
  <2>1. CASE statsWritten[m]
    BY <2>1 DEF IInv, Rows
  <2>2. CASE ~ statsWritten[m]
    BY <2>2 DEF IInv, Rows
  <2> QED BY <2>1, <2>2
<1> QED BY Invariance, <1>1, PTL
-----------------------------------------------------------------------------
(***************************************************************************)
(* addModule() decides for the nearer of two shares that are one vehicle   *)
(* apart, so that the deviation is at most half a vehicle again.           *)
(***************************************************************************)
LEMMA Nearest ==
  ASSUME NEW x \in Int, NEW n \in Int, NEW d \in Int, 0 <= n, n <= d,
         2 * Abs(x) <= d
  PROVE  IF Abs(x - n) < Abs(x + d - n) THEN 2 * Abs(x - n) <= d
                                        ELSE 2 * Abs(x + d - n) <= d
BY DEF Abs

LEMMA Rounding ==
  ASSUME NEW h \in Nat, NEW u \in Nat,
         2 * Abs(h * PenDen - (h + u) * PenNum) <= PenDen
  PROVE  IF LeaveUnequipped(h, u)
         THEN 2 * Abs(h * PenDen - (h + u + 1) * PenNum) <= PenDen
         ELSE 2 * Abs((h + 1) * PenDen - (h + u + 1) * PenNum) <= PenDen
<1> DEFINE x == h * PenDen - (h + u) * PenNum
<1>1. PenDen \in Int /\ PenNum \in Int /\ 0 <= PenNum /\ PenNum <= PenDen
  BY ManagerAssumption
<1>2. x \in Int
  BY <1>1
<1>3. /\ h * PenDen - (h + u + 1) * PenNum = x - PenNum
      /\ (h + 1) * PenDen - (h + u + 1) * PenNum = x + PenDen - PenNum
      /\ h * PenDen - PenNum * (h + u + 1) = x - PenNum
      /\ (h + 1) * PenDen - PenNum * (h + u + 1) = x + PenDen - PenNum
  BY <1>1
<1>4. LeaveUnequipped(h, u) <=> Abs(x - PenNum) < Abs(x + PenDen - PenNum)
  BY <1>3 DEF LeaveUnequipped
<1>5. IF Abs(x - PenNum) < Abs(x + PenDen - PenNum)
      THEN 2 * Abs(x - PenNum) <= PenDen
      ELSE 2 * Abs(x + PenDen - PenNum) <= PenDen
  BY <1>1, <1>2, Nearest
<1> QED BY <1>3, <1>4, <1>5

LEMMA PenetrationStep ==
  ASSUME IInv, PenetrationTracked, [Next]_vars
  PROVE  PenetrationTracked'
<1> DEFINE h == Cardinality(Managed)
           u == Cardinality(unEquippedHosts)
<1>1. CASE UNCHANGED <<hosts, unEquippedHosts, churned>> \/ churned' = TRUE
  BY <1>1 DEF PenetrationTracked, Managed
<1>2. ASSUME NEW v \in Vehicles, processVehicleSubscription(v),
             ~ (UNCHANGED <<hosts, unEquippedHosts, churned>> \/ churned' = TRUE)
      PROVE  PenetrationTracked'
  <2>1. v \notin Managed \cup unEquippedHosts /\ addModule(v) /\ UNCHANGED churned
    BY <1>2 DEF processVehicleSubscription
  <2>2. /\ Managed \in SUBSET Vehicles /\ unEquippedHosts \in SUBSET Vehicles
        /\ {v} \in SUBSET Vehicles
        /\ Managed \cap {v} = {} /\ unEquippedHosts \cap {v} = {}
        /\ Cardinality({v}) = 1
    <3>1. Cardinality({v}) = 1
      BY FS_Singleton
    <3>2. unEquippedHosts \in SUBSET Vehicles /\ Managed \in SUBSET Vehicles
      BY DEF Managed, IInv, TypeOK, ManagerTypeOK
    <3> QED BY <2>1, <3>1, <3>2
  <2>3. h \in Nat /\ u \in Nat
    BY <2>2, Subsets
  <2>4. Cardinality(Managed \cup {v}) = h + 1
        /\ Cardinality(unEquippedHosts \cup {v}) = u + 1
    BY <2>2, Gain
  <2>5. SUFFICES ASSUME ~ churned
                 PROVE  2 * Abs(Cardinality(Managed') * PenDen
                                - (Cardinality(Managed')
                                   + Cardinality(unEquippedHosts')) * PenNum)
                          <= PenDen
    BY <2>1 DEF PenetrationTracked
  <2>6. IF LeaveUnequipped(h, u)
        THEN 2 * Abs(h * PenDen - (h + u + 1) * PenNum) <= PenDen
        ELSE 2 * Abs((h + 1) * PenDen - (h + u + 1) * PenNum) <= PenDen
    BY <2>3, <2>5, Rounding DEF PenetrationTracked
  <2>7. CASE LeaveUnequipped(h, u)
    <3>1. Managed' = Managed /\ unEquippedHosts' = unEquippedHosts \cup {v}
      BY <2>1, <2>7 DEF addModule, Managed
    <3>2. h + (u + 1) = h + u + 1
      BY <2>3
    <3> QED BY <2>4, <2>6, <2>7, <3>1, <3>2
  <2>8. CASE ~ LeaveUnequipped(h, u)
    <3>1. /\ hosts' = [hosts EXCEPT ![v] = nextNodeVectorIndex + 1]
          /\ unEquippedHosts' = unEquippedHosts
      BY <2>1, <2>8 DEF addModule
    <3>2. nextNodeVectorIndex + 1 # NoModule
      BY ManagerAssumption DEF IInv, TypeOK, ManagerTypeOK, NoModule
    <3>3. Managed' = Managed \cup {v}
      BY <3>1, <3>2 DEF Managed, IInv, TypeOK, ManagerTypeOK
    <3>4. (h + 1) + u = h + u + 1
      BY <2>3
    <3> QED BY <2>4, <2>6, <2>8, <3>1, <3>3, <3>4
  <2> QED BY <2>7, <2>8
<1>3. CASE processSimSubscription
  <2> DEFINE removed == events.arrived \cup events.telStart
  <2>1. CASE removed = {}
    BY <1>1, <1>3, <2>1
       DEF processSimSubscription, deleteManagedModules, IInv, TypeOK, ManagerTypeOK
  <2>2. CASE removed # {}
    BY <1>1, <1>3, <2>2 DEF processSimSubscription
  <2> QED BY <2>1, <2>2
<1>4. CASE executeOneTimestep \/ processIdList \/ NextInstant
  BY <1>1, <1>4 DEF executeOneTimestep, processIdList, NextInstant
<1>5. CASE UNCHANGED managerVars
  BY <1>1, <1>5 DEF managerVars
<1>6. CASE finish
  BY <1>1, <1>6 DEF finish, preNetworkFinish
<1>7. CASE ManagerStep
  BY <1>1, <1>2, <1>3, <1>4, <1>7 DEF ManagerStep
<1>8. ASSUME NEW m \in Modules, AppStep(m)
      PROVE  UNCHANGED managerVars
  BY <1>8 DEF AppStep, sendReportGone, sendReport, deleteSelf, socketDataArrived
<1> QED BY <1>4, <1>5, <1>6, <1>7, <1>8 DEF Next, Advance, Stopped, vars

(***************************************************************************)
(* Until the first release the number of equipped vehicles is the rounded  *)
(* share of all of them, for every rate and every order of departures.     *)
(***************************************************************************)
THEOREM RateIsMet == Spec => []PenetrationTracked
<1>1. Init => PenetrationTracked
  <2>1. Init => Managed = {} /\ unEquippedHosts = {}
    BY DEF Init, ManagerInit, Managed
  <2>2. Cardinality({}) = 0
    BY FS_EmptySet
  <2>3. 2 * Abs(0 * PenDen - (0 + 0) * PenNum) <= PenDen
    BY ManagerAssumption DEF Abs
  <2> QED BY <2>1, <2>2, <2>3 DEF PenetrationTracked
<1>2. IInv /\ PenetrationTracked /\ [Next]_vars => PenetrationTracked'
  BY PenetrationStep
<1> QED BY Invariance, <1>1, <1>2, PTL DEF Spec
-----------------------------------------------------------------------------
(***************************************************************************)
(* Modules of a vehicle that does not come back.  It is released when it   *)
(* has arrived or at the end of the simulation, and never added after      *)
(* that, so that the manager's map tells all there is of its modules.      *)
(***************************************************************************)
Holds(m) ==
  \/ hosts[vehicle[m]] = m
  \/ hosts[vehicle[m]] = NoModule /\ (sumo[vehicle[m]] = "gone" \/ ended)

Released ==
  /\ events.telStart \subseteq Teleporters
  /\ events.arrived \subseteq In("gone")

Settled ==
  \A m \in Modules :
    /\ phase[m] = "none" => ~ statsWritten[m] /\ m \notin ghostReports
    /\ phase[m] # "none" => vehicle[m] \in Vehicles
    /\ phase[m] # "none" /\ vehicle[m] \notin MayComeBack =>
         /\ Holds(m)
         /\ \A n \in Modules :
              phase[n] # "none" /\ vehicle[n] = vehicle[m] => n = m

OneModuleEach == Released /\ Settled /\ OnlyComebacksHaunt

LEMMA OneModuleInit == Init => OneModuleEach
BY DEF Init, ManagerInit, AppInit, NoEvents, OneModuleEach, Released, Settled,
       OnlyComebacksHaunt

(***************************************************************************)
(* A step that creates no module and releases none.                        *)
(***************************************************************************)
LEMMA SettledKept ==
  ASSUME Settled, vehicle' = vehicle, hosts' = hosts, ended' = ended,
         \A m \in Modules : /\ phase[m] = "none" <=> phase'[m] = "none"
                            /\ phase[m] = "none" =>
                                 /\ statsWritten'[m] = statsWritten[m]
                                 /\ m \in ghostReports' => m \in ghostReports,
         \A v \in Vehicles : sumo[v] = "gone" => sumo'[v] = "gone"
  PROVE  Settled'
BY DEF Settled, Holds

LEMMA OneModuleManagerStep ==
  ASSUME IInv, OneModuleEach, ManagerStep
  PROVE  OneModuleEach'
<1>0. /\ sumo \in [Vehicles -> {"waiting", "driving", "teleporting", "gone"}]
      /\ hosts \in [Vehicles -> Modules \cup {NoModule}]
      /\ Released /\ Settled /\ OnlyComebacksHaunt
  BY DEF IInv, TypeOK, ManagerTypeOK, OneModuleEach
<1>1. CASE executeOneTimestep /\ UNCHANGED appVars
  <2>1. PICK ev \in StepEvents : events' = ev /\ sumo' = AfterStep(ev)
    BY <1>1 DEF executeOneTimestep
  <2>2. /\ ev.departed \subseteq In("waiting") /\ ev.arrived \subseteq Vehicles
        /\ ev.telStart \subseteq In("driving") \cap Teleporters
        /\ ev.telEnd \subseteq In("teleporting") \cup ev.telStart
    BY DEF StepEvents, In
  <2>3. \A v \in Vehicles : /\ v \in ev.arrived => sumo'[v] = "gone"
                            /\ sumo[v] = "gone" => sumo'[v] = "gone"
    BY <2>1, <2>2 DEF AfterStep, In
  <2>4. Released'
    BY <2>1, <2>2, <2>3 DEF Released, In
  <2>5. Settled' /\ OnlyComebacksHaunt'
    BY <1>0, <1>1, <2>3, SettledKept
    DEF executeOneTimestep, appVars, OnlyComebacksHaunt
  <2> QED BY <2>4, <2>5 DEF OneModuleEach
<1>2. CASE processSimSubscription /\ UNCHANGED appVars
  <2>1. /\ events' = NoEvents /\ sumo' = sumo /\ ended' = ended
        /\ hosts' = [v \in Vehicles |->
                       IF v \in events.arrived \cup events.telStart
                       THEN NoModule ELSE hosts[v]]
    BY <1>2 DEF processSimSubscription, deleteManagedModules
  <2>2. ASSUME NEW m \in Modules, phase'[m] # "none",
               vehicle'[m] \notin MayComeBack
        PROVE  /\ Holds(m)'
               /\ \A n \in Modules :
                    phase'[n] # "none" /\ vehicle'[n] = vehicle'[m] => n = m
    <3>0. \A n \in Modules :
            phase'[n] # "none" /\ vehicle'[n] = vehicle'[m] => n = m
      BY <1>0, <1>2, <2>2 DEF appVars, Settled
    <3>1. /\ vehicle'[m] = vehicle[m] /\ vehicle[m] \in Vehicles /\ Holds(m)
          /\ vehicle[m] \notin events.telStart
      BY <1>0, <1>2, <2>2 DEF appVars, Settled, Released, MayComeBack
    <3>2. vehicle[m] \in events.arrived => sumo[vehicle[m]] = "gone"
      BY <1>0 DEF Released, In
    <3> QED BY <2>1, <3>0, <3>1, <3>2 DEF Holds
  <2>3. Settled'
    BY <1>0, <1>2, <2>2 DEF appVars, Settled
  <2>4. Released' /\ OnlyComebacksHaunt'
    BY <1>0, <1>2, <2>1 DEF appVars, NoEvents, Released, OnlyComebacksHaunt
  <2> QED BY <2>3, <2>4 DEF OneModuleEach
<1>3. CASE processIdList /\ UNCHANGED appVars
  <2>1. UNCHANGED <<sumo, events, hosts, ended>>
    BY <1>3 DEF processIdList
  <2> QED BY <1>0, <1>3, <2>1, SettledKept
          DEF appVars, OneModuleEach, Released, OnlyComebacksHaunt, In
<1>4. ASSUME NEW v \in Vehicles, processVehicleSubscription(v),
             nextNodeVectorIndex' = nextNodeVectorIndex, UNCHANGED appVars
      PROVE  OneModuleEach'
  <2>1. UNCHANGED <<sumo, events, ended>>
    BY <1>4 DEF processVehicleSubscription
  <2>2. \/ hosts' = hosts
        \/ v \in Wanderers /\ deleteManagedModules({v})
    <3>1. PICK inRoi \in InRoiResults(v) :
            \/ ~ inRoi /\ deleteManagedModules({v})
            \/ addModule(v)
            \/ hosts' = hosts
      BY <1>4 DEF processVehicleSubscription
    <3>2. ~ inRoi => v \in Wanderers
      BY Zenon DEF InRoiResults
    <3>3. nextNodeVectorIndex' # nextNodeVectorIndex + 1
      BY <1>4, ManagerAssumption DEF IInv, TypeOK, ManagerTypeOK
    <3> QED BY <3>1, <3>2, <3>3 DEF addModule
  <2>3. \A w \in Vehicles \ MayComeBack : hosts'[w] = hosts[w]
    BY <1>0, <2>2 DEF deleteManagedModules, MayComeBack
  <2>4. Settled'
    BY <1>0, <1>4, <2>1, <2>3 DEF appVars, Settled, Holds
  <2> QED BY <1>0, <1>4, <2>1, <2>4
          DEF appVars, OneModuleEach, Released, OnlyComebacksHaunt, In
<1>5. ASSUME NEW v \in Vehicles, processVehicleSubscription(v),
             nextNodeVectorIndex' # nextNodeVectorIndex,
             initialize(nextNodeVectorIndex', v)
      PROVE  OneModuleEach'
  <2> DEFINE new == nextNodeVectorIndex'
  <2>1. /\ new = nextNodeVectorIndex + 1 /\ hosts[v] = NoModule
        /\ hosts' = [hosts EXCEPT ![v] = new] /\ v \in todo
        /\ stage = "vehicles" /\ UNCHANGED <<sumo, events, ended>>
    BY <1>5 DEF processVehicleSubscription, addModule, Managed
  <2>2. sumo[v] = "driving" /\ ~ ended
    BY <2>1 DEF IInv, Books, In
  <2>3. /\ phase' = [phase EXCEPT ![new] = "alive"]
        /\ vehicle' = [vehicle EXCEPT ![new] = v]
        /\ UNCHANGED <<ghostReports, statsWritten>>
    BY <1>5 DEF initialize
  <2>4. new \in Modules
    BY <1>5, <2>1, ManagerAssumption
       DEF processVehicleSubscription, Modules, IInv, TypeOK, ManagerTypeOK
  <2>5. phase \in [Modules -> {"none", "alive", "deleting", "deleted", "finished"}]
        /\ vehicle \in [Modules -> Vehicles \cup {NoVehicle}]
    BY DEF IInv, TypeOK
  <2>6. phase[new] = "none" /\ new \notin ghostReports
    <3>1. phase[new] = "none"
      BY <2>1, <2>4, ManagerAssumption
         DEF IInv, Created, Modules, TypeOK, ManagerTypeOK
    <3> QED BY <1>0, <2>4, <3>1 DEF Settled
  <2> HIDE DEF new
  <2>7. ASSUME NEW m \in Modules
        PROVE  /\ phase'[m] = "none" => ~ statsWritten'[m]
                                        /\ m \notin ghostReports'
               /\ phase'[m] # "none" => vehicle'[m] \in Vehicles
               /\ phase'[m] # "none" /\ vehicle'[m] \notin MayComeBack =>
                    /\ Holds(m)'
                    /\ \A n \in Modules :
                         phase'[n] # "none" /\ vehicle'[n] = vehicle'[m] => n = m
    <3>0. \A k \in Modules \ {new} :
            /\ phase'[k] = phase[k] /\ vehicle'[k] = vehicle[k]
            /\ phase[k] # "none" /\ vehicle[k] \notin MayComeBack =>
                 vehicle[k] # v
      <4> SUFFICES ASSUME NEW k \in Modules \ {new}
                   PROVE  /\ phase'[k] = phase[k] /\ vehicle'[k] = vehicle[k]
                          /\ phase[k] # "none" /\ vehicle[k] \notin MayComeBack =>
                               vehicle[k] # v
        OBVIOUS
      <4>1. phase'[k] = phase[k] /\ vehicle'[k] = vehicle[k]
        BY <2>3, <2>5
      <4>2. ASSUME phase[k] # "none", vehicle[k] \notin MayComeBack
            PROVE  vehicle[k] # v
        <5>1. Holds(k)
          BY <1>0, <4>2 DEF Settled
        <5>2. k # NoModule
          BY ManagerAssumption DEF Modules, NoModule
        <5> QED BY <2>1, <2>2, <5>1, <5>2 DEF Holds
      <4> QED BY <4>1, <4>2
    <3>1. CASE m = new
      <4>1. phase'[m] = "alive" /\ vehicle'[m] = v /\ hosts'[v] = m
        BY <1>0, <2>1, <2>3, <2>4, <2>5, <3>1
      <4> QED BY <3>0, <3>1, <4>1 DEF Holds
    <3>2. CASE m # new
      <4>1. phase'[m] = phase[m] /\ vehicle'[m] = vehicle[m]
        BY <3>0, <3>2
      <4>2. CASE phase[m] = "none" \/ vehicle[m] \in MayComeBack
        BY <1>0, <2>3, <4>1, <4>2 DEF Settled
      <4>3. CASE phase[m] # "none" /\ vehicle[m] \notin MayComeBack
        <5>1. vehicle[m] \in Vehicles /\ Holds(m) /\ vehicle[m] # v
          BY <1>0, <3>0, <3>2, <4>3 DEF Settled
        <5>2. Holds(m)'
          BY <1>0, <2>1, <4>1, <5>1 DEF Holds
        <5>3. \A n \in Modules :
                phase'[n] # "none" /\ vehicle'[n] = vehicle'[m] => n = m
          <6> SUFFICES ASSUME NEW n \in Modules, phase'[n] # "none",
                              vehicle'[n] = vehicle'[m]
                       PROVE  n = m
            OBVIOUS
          <6>1. n # new
            BY <2>3, <2>4, <2>5, <4>1, <5>1
          <6> QED BY <1>0, <3>0, <4>1, <4>3, <6>1 DEF Settled
        <5> QED BY <4>1, <4>3, <5>1, <5>2, <5>3
      <4> QED BY <4>2, <4>3
    <3> QED BY <3>1, <3>2
  <2>8. Settled'
    BY <2>7 DEF Settled
  <2>9. OnlyComebacksHaunt'
    BY <1>0, <2>3, <2>5, <2>6 DEF OnlyComebacksHaunt, IInv, TypeOK
  <2> QED BY <1>0, <2>1, <2>8, <2>9 DEF OneModuleEach, Released, In
<1> QED BY <1>1, <1>2, <1>3, <1>4, <1>5 DEF ManagerStep

LEMMA OneModuleStep ==
  ASSUME IInv, OneModuleEach, [Next]_vars
  PROVE  OneModuleEach'
<1>0. /\ Released /\ Settled /\ OnlyComebacksHaunt
      /\ phase \in [Modules -> {"none", "alive", "deleting", "deleted", "finished"}]
      /\ statsWritten \in [Modules -> BOOLEAN]
  BY DEF OneModuleEach, IInv, TypeOK
<1>1. ASSUME UNCHANGED <<sumo, events, hosts, ended, vehicle>>,
             OnlyComebacksHaunt',
             \A m \in Modules : /\ phase[m] = "none" <=> phase'[m] = "none"
                                /\ phase[m] = "none" =>
                                     /\ statsWritten'[m] = statsWritten[m]
                                     /\ m \in ghostReports' => m \in ghostReports
      PROVE  OneModuleEach'
  <2>1. Settled'
    BY <1>0, <1>1, SettledKept
  <2> QED BY <1>0, <1>1, <2>1 DEF OneModuleEach, Released, In
<1>2. ASSUME NEW m \in Modules, sendReport(m) PROVE OneModuleEach'
  <2>1. /\ UNCHANGED <<sumo, events, hosts, ended, vehicle, phase, statsWritten>>
        /\ phase[m] = "alive" /\ hosts[vehicle[m]] # NoModule
        /\ ghostReports' \in {ghostReports, ghostReports \cup {m}}
        /\ hosts[vehicle[m]] = m => ghostReports' = ghostReports
    BY <1>2 DEF sendReport, TimerFires, LeftSumo, managerVars
  <2>2. vehicle[m] \in MayComeBack \/ ghostReports' = ghostReports
    BY <1>0, <2>1 DEF Settled, Holds
  <2>3. OnlyComebacksHaunt'
    BY <1>0, <2>1, <2>2 DEF OnlyComebacksHaunt
  <2> QED BY <1>1, <2>1, <2>3
<1>3. ASSUME NEW m \in Modules, sendReportGone(m) \/ deleteSelf(m)
      PROVE  OneModuleEach'
  <2>1. UNCHANGED <<sumo, events, hosts, ended, vehicle, ghostReports>>
    BY <1>3 DEF sendReportGone, deleteSelf, managerVars
  <2>2. /\ phase[m] # "none" /\ writeStatsRow({m})
        /\ \E p \in {"deleting", "deleted"} : phase' = [phase EXCEPT ![m] = p]
    BY <1>3 DEF sendReportGone, TimerFires, deleteSelf, shutdownLteStack
  <2>3. \A n \in Modules : /\ phase[n] = "none" <=> phase'[n] = "none"
                           /\ phase[n] = "none" =>
                                statsWritten'[n] = statsWritten[n]
    BY <1>0, <2>2 DEF writeStatsRow, MustWrite
  <2> QED BY <1>0, <1>1, <2>1, <2>3 DEF OnlyComebacksHaunt
<1>4. ASSUME NEW m \in Modules, socketDataArrived(m) PROVE OneModuleEach'
  BY <1>0, <1>1, <1>4 DEF socketDataArrived, managerVars, OnlyComebacksHaunt
<1>5. CASE Advance
  BY <1>0, <1>1, <1>5 DEF Advance, NextInstant, OnlyComebacksHaunt
<1>6. CASE finish
  <2>1. /\ UNCHANGED <<sumo, events, vehicle, ghostReports>> /\ ended' = TRUE
        /\ hosts' = [v \in Vehicles |-> NoModule]
    BY <1>6 DEF finish, preNetworkFinish, deleteManagedModules
  <2>2. \A m \in Modules : /\ phase[m] = "none" <=> phase'[m] = "none"
                           /\ phase[m] = "none" =>
                                statsWritten'[m] = statsWritten[m]
    BY <1>0, <1>6 DEF finish, writeStatsRow, MustWrite
  <2>3. Settled'
    BY <1>0, <2>1, <2>2 DEF Settled, Holds
  <2> QED BY <1>0, <2>1, <2>3 DEF OneModuleEach, Released, OnlyComebacksHaunt, In
<1>7. CASE UNCHANGED vars
  BY <1>0, <1>1, <1>7 DEF vars, managerVars, appVars, OnlyComebacksHaunt
<1> QED BY <1>2, <1>3, <1>4, <1>5, <1>6, <1>7, OneModuleManagerStep
        DEF Next, AppStep, Stopped

LEMMA OneModuleAlways == Spec => []OneModuleEach
<1>1. IInv /\ OneModuleEach /\ [Next]_vars => OneModuleEach'
  BY OneModuleStep
<1> QED BY <1>1, OneModuleInit, Invariance, PTL DEF Spec

(***************************************************************************)
(* "getManagedModule returns nullptr once the vehicle has left"            *)
(* (VehicleApp.cc:206) holds of every vehicle that does not come back, in  *)
(* whatever traffic: only a vehicle that teleports or re-enters the region *)
(* of interest leaves a released module that goes on reporting.            *)
(***************************************************************************)
THEOREM SilentUnlessBack == Spec => []OnlyComebacksHaunt
<1>1. OneModuleEach => OnlyComebacksHaunt
  BY DEF OneModuleEach
<1> QED BY <1>1, OneModuleAlways, PTL

(***************************************************************************)
(* The guard of writeStatsRow() is kept per module (VehicleApp.cc:407),    *)
(* and is one per vehicle for every vehicle that does not come back.       *)
(***************************************************************************)
THEOREM OneRowUnlessBack == Spec => []OneRowPerVehicle
<1>1. IInv /\ OneModuleEach => OneRowPerVehicle
  <2> SUFFICES ASSUME IInv, OneModuleEach, NEW m \in Modules, NEW n \in Modules,
                      rows[m] > 0, rows[n] > 0, vehicle[m] = vehicle[n],
                      vehicle[m] \notin MayComeBack
               PROVE  m = n
    BY DEF OneRowPerVehicle
  <2>1. statsWritten[m] /\ statsWritten[n]
    BY DEF IInv, Rows
  <2> QED BY <2>1 DEF OneModuleEach, Settled
<1> QED BY <1>1, OneModuleAlways, Invariance, PTL
-----------------------------------------------------------------------------
(***************************************************************************)
(* The module of a vehicle that has left for good: its report timer is a   *)
(* bound on the time until it takes itself down.                           *)
(***************************************************************************)
Departed(m) == phase[m] = "alive" /\ sumo[vehicle[m]] = "gone" /\ LeftSumo(m)

RunsOut(m) ==
  Departed(m) => /\ phase'[m] = "alive" => Departed(m)'
                 /\ reportIn'[m] <= reportIn[m]
                 /\ Advance => reportIn'[m] < reportIn[m]

(***************************************************************************)
(* Once SUMO and the manager have let go of a vehicle, nothing revives its *)
(* module or winds up its timer again, and every instant that passes       *)
(* brings the timer closer: the module outlives its vehicle by at most     *)
(* reportInterval (VehicleApp.cc:210-219).                                 *)
(***************************************************************************)
THEOREM DepartedModulesRunOut ==
  Spec => [][\A m \in Modules : RunsOut(m)]_vars
<1>1. IInv /\ [Next]_vars => [\A m \in Modules : RunsOut(m)]_vars
  <2> SUFFICES ASSUME IInv, Next, NEW m \in Modules, Departed(m)
               PROVE  /\ phase'[m] = "alive" => Departed(m)'
                      /\ reportIn'[m] <= reportIn[m]
                      /\ Advance => reportIn'[m] < reportIn[m]
    BY DEF RunsOut
  <2> DEFINE v == vehicle[m]
  <2>0. /\ v \in Vehicles /\ sumo[v] = "gone" /\ hosts[v] = NoModule
        /\ phase[m] = "alive" /\ reportIn[m] \in 0 .. ReportInterval
        /\ ReportInterval \in Nat
        /\ reportIn \in [Modules -> 0 .. ReportInterval]
    BY AppAssumption DEF Departed, LeftSumo, IInv, Created, TypeOK
  <2>1. ASSUME sumo'[v] = "gone", hosts'[v] = NoModule, vehicle'[m] = v,
               reportIn'[m] <= reportIn[m], ~ Advance
        PROVE  /\ phase'[m] = "alive" => Departed(m)'
               /\ reportIn'[m] <= reportIn[m]
               /\ Advance => reportIn'[m] < reportIn[m]
    BY <2>1 DEF Departed, LeftSumo
  <2>2. CASE Advance
    BY <2>0, <2>2 DEF Advance, NextInstant, Departed, LeftSumo
  <2>3. CASE ManagerStep /\ ~ Advance
    <3>1. CASE executeOneTimestep /\ UNCHANGED appVars
      <4>1. sumo'[v] = "gone"
        BY <2>0, <3>1 DEF executeOneTimestep, StepEvents, AfterStep, In
      <4> QED BY <2>0, <2>1, <2>3, <3>1, <4>1 DEF executeOneTimestep, appVars
    <3>2. CASE processSimSubscription /\ UNCHANGED appVars
      BY <2>0, <2>1, <2>3, <3>2
      DEF processSimSubscription, deleteManagedModules, appVars
    <3>3. CASE processIdList /\ UNCHANGED appVars
      BY <2>0, <2>1, <2>3, <3>3 DEF processIdList, appVars
    <3>4. ASSUME NEW w \in Vehicles, processVehicleSubscription(w),
                 IF nextNodeVectorIndex' = nextNodeVectorIndex
                 THEN UNCHANGED appVars
                 ELSE initialize(nextNodeVectorIndex', w)
          PROVE  /\ hosts'[v] = NoModule /\ sumo' = sumo
                 /\ vehicle'[m] = v /\ reportIn'[m] = reportIn[m]
      <4>1. w # v /\ sumo' = sumo
        BY <2>0, <3>4 DEF processVehicleSubscription, IInv, Books, In
      <4>2. hosts'[v] = NoModule
        BY <2>0, <3>4, <4>1
        DEF processVehicleSubscription, deleteManagedModules, addModule, IInv,
            TypeOK, ManagerTypeOK
      <4>3. nextNodeVectorIndex' \in {nextNodeVectorIndex,
                                     nextNodeVectorIndex + 1}
        BY <3>4 DEF processVehicleSubscription, addModule
      <4>4. m # nextNodeVectorIndex + 1
        BY <2>0, ManagerAssumption
        DEF IInv, Created, Modules, TypeOK, ManagerTypeOK
      <4>5. vehicle'[m] = v /\ reportIn'[m] = reportIn[m]
        BY <2>0, <3>4, <4>3, <4>4 DEF initialize, appVars, IInv, TypeOK
      <4> QED BY <4>1, <4>2, <4>5
    <3> QED BY <2>0, <2>1, <2>3, <3>1, <3>2, <3>3, <3>4 DEF ManagerStep
  <2>4. ASSUME NEW n \in Modules, AppStep(n), ~ Advance
        PROVE  UNCHANGED <<sumo, hosts, vehicle>> /\ reportIn'[m] = reportIn[m]
    <3>1. CASE sendReport(n)
      <4>1. n # m
        BY <2>0, <3>1 DEF sendReport, LeftSumo
      <4> QED BY <2>0, <3>1, <4>1 DEF sendReport, managerVars
    <3>2. CASE sendReportGone(n) \/ deleteSelf(n) \/ socketDataArrived(n)
      BY <3>2 DEF sendReportGone, deleteSelf, socketDataArrived, managerVars
    <3> QED BY <2>4, <3>1, <3>2 DEF AppStep
  <2>5. CASE finish /\ ~ Advance
    BY <2>0, <2>1, <2>5 DEF finish, preNetworkFinish, deleteManagedModules
  <2>6. CASE Stopped /\ ~ Advance
    BY <2>0, <2>1, <2>6 DEF Stopped, vars, managerVars, appVars
  <2> QED BY <2>0, <2>1, <2>2, <2>3, <2>4, <2>5, <2>6 DEF Next
<1> QED BY <1>1, Invariance, PTL DEF Spec
=============================================================================

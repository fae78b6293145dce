---------------------------- MODULE HandoverProofs ----------------------------
(***************************************************************************)
(* Proofs about Handover, for any number of UEs and eNBs and any readings. *)
(* The tables of one UE (Attached), its handover (Handing) and its         *)
(* readings (Ranked) are invariant whatever the X2 links; where each eNB   *)
(* is linked to every other (FullyLinked), so is what the eNBs keep about  *)
(* the UE (Coordinated).                                                   *)
(***************************************************************************)
EXTENDS Handover, TLAPS

(***************************************************************************)
(* The tables about u, in every stage of its life.                         *)
(***************************************************************************)
Attached(u) ==
  /\ stage[u] \in {"absent", "deleted"} =>
       /\ masterId[u] = NoCell /\ nextHop[u] = NoCell
       /\ u \notin macNodeIdToIPAddress
       /\ \A c \in Enbs : u \notin amc[c] /\ u \notin lambdaMap[c]
       /\ u \notin handoverStarter /\ u \notin handoverTrigger
       /\ u \notin ueHold /\ u \notin ueHoldFromIp
  /\ stage[u] = "absent" => u \notin ueHandoverTriggered /\ hysteresisTh[u] = 0
  /\ stage[u] \in {"running", "shutdown"} =>
       \A c \in Enbs : u \in lambdaMap[c] <=> c = masterId[u]
  /\ stage[u] = "running" =>
       \A c \in Enbs : u \in amc[c] <=> c = masterId[u]
  /\ nextHop[u] \in {NoCell, masterId[u]}

(***************************************************************************)
(* The handover of u: its timers exclude each other.                       *)
(***************************************************************************)
Handing(u) ==
  /\ u \in handoverStarter \cup handoverTrigger =>
       candidateMasterId[u] \in Enbs \ {masterId[u]}
  /\ u \in handoverTrigger => masterId[u] \in Enbs /\ u \notin handoverStarter
  /\ stage[u] = "running" =>
       /\ u \in handoverTrigger <=> u \in ueHandoverTriggered
       /\ u \in handoverTrigger => u \in ueHold
       /\ u \in ueHold => u \in handoverTrigger \/ masterId[u] = NoCell
       /\ u \in ueHoldFromIp => u \in ueHold

(***************************************************************************)
(* The readings of u: a threshold is negative only when the reading is.    *)
(***************************************************************************)
Ranked(u) ==
  /\ candidateMasterRssi[u] >= 0 => hysteresisTh[u] >= 0
  /\ currentMasterRssi[u] >= 0 => candidateMasterRssi[u] >= currentMasterRssi[u]

UeInv == \A u \in Ues : Attached(u) /\ Handing(u) /\ Ranked(u)

IInv == TypeOK /\ UeInv
-----------------------------------------------------------------------------
(***************************************************************************)
(* Sending a command yields one command, to an eNB.                        *)
(***************************************************************************)
LEMMA CommandType ==
  ASSUME NEW c \in Enbs, NEW u \in Ues, NEW to \in Enbs, NEW b \in BOOLEAN
  PROVE  sendHandoverCommand(c, u, to, b) \subseteq Command
<1>1. X2Peers[c] \in Seq(Enbs) /\ X2Peers[c] # <<>>
  BY HandoverAssumption
<1>2. X2Peers[c][1] \in Enbs
  BY <1>1
<1> QED
  BY <1>2 DEF sendHandoverCommand, fromStack, Command

(***************************************************************************)
(* A threshold is a number, and not negative unless the reading is.        *)
(***************************************************************************)
LEMMA ThresholdSign ==
  ASSUME NEW v \in Int
  PROVE  /\ updateHysteresisTh(v) \in Int
         /\ v >= 0 => updateHysteresisTh(v) >= 0
BY DEF updateHysteresisTh, HysteresisFactor

(***************************************************************************)
(* The attachment tables keep their type.                                  *)
(***************************************************************************)
LEMMA TableType ==
  ASSUME NEW table \in [Enbs -> SUBSET Ues], NEW u \in Ues,
         NEW from, NEW to
  PROVE  /\ Moved(table, u, from, to) \in [Enbs -> SUBSET Ues]
         /\ HandedOver(table, u, from, to) \in [Enbs -> SUBSET Ues]
         /\ DetachedEverywhere(table, u) \in [Enbs -> SUBSET Ues]
BY DEF Moved, HandedOver, DetachedEverywhere

(***************************************************************************)
(* The invariant holds before any UE exists.                               *)
(***************************************************************************)
LEMMA InitInv == Init => IInv
<1> SUFFICES ASSUME Init PROVE IInv
  OBVIOUS
<1>1. TypeOK
  <2>1. /\ hoForwarding \in [Enbs -> [Ues -> Cells]]
        /\ masterId \in [Ues -> Cells] /\ candidateMasterId \in [Ues -> Cells]
        /\ nextHop \in [Ues -> Cells]
    BY DEF Init, Cells
  <2>2. /\ amc \in [Enbs -> SUBSET Ues] /\ lambdaMap \in [Enbs -> SUBSET Ues]
        /\ hoHolding \in [Enbs -> SUBSET Ues]
        /\ hoFromX2 \in [Enbs -> SUBSET Ues]
    BY DEF Init
  <2>3. /\ stage \in [Ues -> {"absent", "running", "shutdown", "deleted"}]
        /\ currentMasterRssi \in [Ues -> Int]
        /\ candidateMasterRssi \in [Ues -> Int]
        /\ hysteresisTh \in [Ues -> Int]
    BY DEF Init
  <2>4. aborted \in BOOLEAN
    BY DEF Init
  <2> QED
    BY <2>1, <2>2, <2>3, <2>4 DEF Init, TypeOK
<1>2. ASSUME NEW u \in Ues PROVE Attached(u) /\ Handing(u) /\ Ranked(u)
  <2>1. Attached(u)
    BY DEF Init, Attached
  <2>2. Handing(u)
    BY DEF Init, Handing
  <2>3. Ranked(u)
    BY DEF Init, Ranked
  <2> QED
    BY <2>1, <2>2, <2>3
<1> QED
  BY <1>1, <1>2 DEF IInv, UeInv
-----------------------------------------------------------------------------
(***************************************************************************)
(* Every step keeps the types.                                             *)
(***************************************************************************)
LEMMA TypeStep == IInv /\ [Next]_vars => TypeOK'
<1> SUFFICES ASSUME IInv, [Next]_vars PROVE TypeOK'
  OBVIOUS
<1> USE HandoverAssumption
<1>0. TypeOK /\ UeInv
  BY DEF IInv
<1>1. ASSUME NEW u \in Ues, initialize(u) PROVE TypeOK'
  <2> PICK c \in Cells, rssi \in {r \in Rssi : r > 0} \cup {0} :
        /\ masterId' = [masterId EXCEPT ![u] = c]
        /\ candidateMasterId' = [candidateMasterId EXCEPT ![u] = c]
        /\ currentMasterRssi' = [currentMasterRssi EXCEPT ![u] = rssi]
        /\ candidateMasterRssi' = [candidateMasterRssi EXCEPT ![u] = rssi]
        /\ nextHop' = [nextHop EXCEPT ![u] = c]
        /\ amc' = Moved(amc, u, NoCell, c)
        /\ lambdaMap' = Moved(lambdaMap, u, NoCell, c)
        /\ macNodeIdToIPAddress' = IF c \in Enbs
                                   THEN macNodeIdToIPAddress \cup {u}
                                   ELSE macNodeIdToIPAddress
    BY <1>1 DEF initialize
  <2>1. amc' \in [Enbs -> SUBSET Ues] /\ lambdaMap' \in [Enbs -> SUBSET Ues]
    BY <1>0, TableType DEF TypeOK
  <2> QED
    BY <1>0, <1>1, <2>1
       DEF TypeOK, initialize, holdVars, x2Vars, wireVars
<1>2. ASSUME NEW u \in Ues, handoverHandler(u) PROVE TypeOK'
  <2>1. PICK rssi \in Rssi : \/ MasterStronger(u, rssi)
                             \/ MasterWeaker(u, rssi)
                             \/ \E c \in Enbs : NewCandidate(u, c, rssi)
    BY <1>2 DEF handoverHandler
  <2>2. rssi \in Int /\ updateHysteresisTh(rssi) \in Int
    BY ThresholdSign
  <2>3. /\ currentMasterRssi' \in [Ues -> Int]
        /\ candidateMasterId' \in [Ues -> Cells]
        /\ handoverStarter' \subseteq Ues
        /\ Measured(u, rssi)
    <3>1. CASE MasterStronger(u, rssi)
      BY <1>0, <2>2, <3>1 DEF TypeOK, MasterStronger, CancelledStarter
    <3>2. CASE MasterWeaker(u, rssi)
      BY <1>0, <2>2, <3>2 DEF TypeOK, MasterWeaker
    <3>3. ASSUME NEW c \in Enbs, NewCandidate(u, c, rssi)
          PROVE  /\ candidateMasterId' \in [Ues -> Cells]
                 /\ handoverStarter' \subseteq Ues
                 /\ currentMasterRssi' \in [Ues -> Int]
                 /\ Measured(u, rssi)
      BY <1>0, <3>3 DEF TypeOK, NewCandidate, Cells
    <3> QED
      BY <2>1, <3>1, <3>2, <3>3
  <2> QED
    BY <1>0, <2>2, <2>3
       DEF TypeOK, Measured, holdVars, cellVars, x2Vars, wireVars
<1>3. ASSUME NEW u \in Ues, triggerHandover(u) PROVE TypeOK'
  <2>1. candidateMasterId[u] \in Enbs
    BY <1>0, <1>3 DEF triggerHandover, UeInv, Handing
  <2>2. /\ hoForwarding' \in [Enbs -> [Ues -> Cells]]
        /\ x2Commands' \subseteq Command
    <3>1. CASE masterId[u] = NoCell
      BY <1>0, <1>3, <3>1 DEF TypeOK, triggerHandover
    <3>2. CASE masterId[u] # NoCell
      <4>1. masterId[u] \in Enbs
        BY <1>0, <3>2 DEF TypeOK, Cells
      <4>2. sendHandoverCommand(masterId[u], u, candidateMasterId[u], TRUE)
              \subseteq Command
        BY <2>1, <4>1, CommandType
      <4>3. x2Commands' \subseteq Command
        BY <1>0, <1>3, <3>2, <4>2 DEF TypeOK, triggerHandover
      <4>4. hoForwarding' = [hoForwarding EXCEPT ![masterId[u]][u] =
                                                        candidateMasterId[u]]
        BY <1>3, <3>2 DEF triggerHandover
      <4>5. candidateMasterId[u] \in Cells
        BY <2>1 DEF Cells
      <4> QED
        BY <1>0, <4>1, <4>3, <4>4, <4>5 DEF TypeOK
    <3> QED
      BY <3>1, <3>2
  <2> QED
    BY <1>0, <1>3, <2>2 DEF TypeOK, triggerHandover, cellVars, wireVars
<1>4. ASSUME NEW u \in Ues, doHandover(u) PROVE TypeOK'
  <2>1. masterId[u] \in Enbs /\ candidateMasterId[u] \in Enbs
    BY <1>0, <1>4 DEF doHandover, UeInv, Handing
  <2>2. sendHandoverCommand(candidateMasterId[u], u, masterId[u], FALSE)
          \subseteq Command
    BY <2>1, CommandType
  <2>3. amc' \in [Enbs -> SUBSET Ues] /\ lambdaMap' \in [Enbs -> SUBSET Ues]
    BY <1>0, <1>4, TableType DEF TypeOK, doHandover
  <2>4. updateHysteresisTh(candidateMasterRssi[u]) \in Int
    BY <1>0, ThresholdSign DEF TypeOK
  <2>5. /\ nextHop' \in [Ues -> Cells]
        /\ masterId' \in [Ues -> Cells]
        /\ currentMasterRssi' \in [Ues -> Int]
        /\ hysteresisTh' \in [Ues -> Int]
    BY <1>0, <1>4, <2>1, <2>4 DEF TypeOK, doHandover, unregisterNextHop, Cells
  <2>6. /\ hoFromX2' \in [Enbs -> SUBSET Ues]
        /\ hoHolding' \in [Enbs -> SUBSET Ues]
        /\ x2Commands' \subseteq Command
    BY <1>0, <1>4, <2>1, <2>2 DEF TypeOK, doHandover
  <2> QED
    BY <1>0, <1>4, <2>3, <2>5, <2>6
       DEF TypeOK, doHandover, ReleasedHold, wireVars
<1>5. ASSUME NEW u \in Ues, fromIpUe(u) PROVE TypeOK'
  BY <1>0, <1>5
     DEF TypeOK, fromIpUe, phyVars, holdVars, cellVars, x2Vars, wireVars
<1>6. ASSUME NEW u \in Ues, findTrafficFlow(u) PROVE TypeOK'
  <2>1. backhaul' \subseteq Enbs \X Ues
    BY <1>0, <1>6 DEF TypeOK, findTrafficFlow
  <2> QED
    BY <1>0, <1>6, <2>1
       DEF TypeOK, findTrafficFlow, phyVars, holdVars, cellVars, x2Vars
<1>7. ASSUME NEW u \in Ues, handleFromUdpPgw(u) PROVE TypeOK'
  BY <1>0, <1>7
     DEF TypeOK, handleFromUdpPgw, phyVars, holdVars, cellVars, x2Vars
<1>8. ASSUME NEW u \in Ues, shutdownLteStack(u) PROVE TypeOK'
  <2>1. amc' \in [Enbs -> SUBSET Ues]
    BY <1>0, <1>8, TableType DEF TypeOK, shutdownLteStack, unregisterNode
  <2> QED
    BY <1>0, <1>8, <2>1 DEF TypeOK, shutdownLteStack, unregisterNode, phyVars,
       holdVars, x2Vars, wireVars
<1>9. ASSUME NEW u \in Ues, deleteModule(u) PROVE TypeOK'
  <2>1. amc' \in [Enbs -> SUBSET Ues] /\ lambdaMap' \in [Enbs -> SUBSET Ues]
    BY <1>0, <1>9, TableType DEF TypeOK, deleteModule, finish, unregisterNode
  <2> QED
    BY <1>0, <1>9, <2>1 DEF TypeOK, deleteModule, finish, unregisterNode,
       unregisterNextHop, Cells, x2Vars, wireVars
<1>10. ASSUME NEW c \in Enbs, NEW u \in Ues, EnbStep(c, u) PROVE TypeOK'
  <2>1. CASE fromIpEnb(c, u)
    <3>1. hoForwarding[c][u] \in Cells
      BY <1>0 DEF TypeOK
    <3>2. backhaul' \subseteq Enbs \X Ues /\ tunnel' \subseteq Enbs \X Ues
      BY <1>0, <2>1, <3>1 DEF TypeOK, fromIpEnb, Cells
    <3>3. aborted' \in BOOLEAN
      BY <2>1 DEF fromIpEnb
    <3> QED
      BY <1>0, <2>1, <3>2, <3>3
         DEF TypeOK, fromIpEnb, phyVars, holdVars, cellVars, x2Vars
  <2>2. CASE returnToPgw(c, u)
    BY <1>0, <2>2
       DEF TypeOK, returnToPgw, phyVars, holdVars, cellVars, x2Vars
  <2>3. CASE receiveTunneledPacketOnHandover(c, u)
    BY <1>0, <2>3 DEF TypeOK, receiveTunneledPacketOnHandover, phyVars,
       holdVars, cellVars, x2Vars
  <2> QED
    BY <1>10, <2>1, <2>2, <2>3 DEF EnbStep
<1>11. ASSUME NEW m \in x2Commands, receiveHandoverCommand(m) PROVE TypeOK'
  <2>1. m.at \in Enbs /\ m.ue \in Ues
    BY <1>0 DEF TypeOK, Command
  <2>2. hoHolding' \in [Enbs -> SUBSET Ues]
    <3>1. [hoHolding EXCEPT ![m.at] = @ \cup {m.ue}] \in [Enbs -> SUBSET Ues]
      BY <1>0, <2>1 DEF TypeOK
    <3> QED
      BY <1>0, <1>11, <3>1 DEF TypeOK, receiveHandoverCommand
  <2>3. [hoForwarding EXCEPT ![m.at][m.ue] = NoCell]
          \in [Enbs -> [Ues -> Cells]]
    BY <1>0, <2>1 DEF TypeOK, Cells
  <2>4. hoForwarding' \in [Enbs -> [Ues -> Cells]]
    BY <1>0, <1>11, <2>3
       DEF TypeOK, receiveHandoverCommand, signalHandoverCompleteSource
  <2> QED
    BY <1>0, <1>11, <2>2, <2>4 DEF TypeOK, receiveHandoverCommand, phyVars,
       holdVars, cellVars, wireVars
<1>12. CASE UNCHANGED vars
  BY <1>0, <1>12 DEF TypeOK, vars, phyVars, holdVars, cellVars, x2Vars, wireVars
<1> QED
  BY <1>1, <1>2, <1>3, <1>4, <1>5, <1>6, <1>7, <1>8, <1>9, <1>10, <1>11, <1>12
     DEF Next, UeStep
-----------------------------------------------------------------------------
(***************************************************************************)
(* A step that changes nothing about UE v keeps its part of the invariant. *)
(***************************************************************************)
Untouched(v) ==
  /\ stage'[v] = stage[v]
  /\ masterId'[v] = masterId[v]
  /\ candidateMasterId'[v] = candidateMasterId[v]
  /\ currentMasterRssi'[v] = currentMasterRssi[v]
  /\ candidateMasterRssi'[v] = candidateMasterRssi[v]
  /\ hysteresisTh'[v] = hysteresisTh[v]
  /\ nextHop'[v] = nextHop[v]
  /\ v \in handoverStarter' <=> v \in handoverStarter
  /\ v \in handoverTrigger' <=> v \in handoverTrigger
  /\ v \in ueHold' <=> v \in ueHold
  /\ v \in ueHoldFromIp' <=> v \in ueHoldFromIp
  /\ v \in macNodeIdToIPAddress' <=> v \in macNodeIdToIPAddress
  /\ v \in ueHandoverTriggered' <=> v \in ueHandoverTriggered
  /\ \A c \in Enbs : /\ v \in amc'[c] <=> v \in amc[c]
                     /\ v \in lambdaMap'[c] <=> v \in lambdaMap[c]

UeOK(v) == Attached(v) /\ Handing(v) /\ Ranked(v)

LEMMA UntouchedStep ==
  ASSUME NEW v \in Ues, UeOK(v), Untouched(v)
  PROVE  UeOK(v)'
<1>1. Attached(v)'
  BY DEF UeOK, Untouched, Attached
<1>2. Handing(v)'
  BY DEF UeOK, Untouched, Handing
<1>3. Ranked(v)'
  BY DEF UeOK, Untouched, Ranked
<1> QED
  BY <1>1, <1>2, <1>3 DEF UeOK

(***************************************************************************)
(* A step of UE u leaves every other UE untouched.                         *)
(***************************************************************************)
LEMMA OthersUntouched ==
  ASSUME TypeOK, NEW u \in Ues, UeStep(u), NEW v \in Ues \ {u}
  PROVE  Untouched(v)
<1> USE DEF TypeOK, Untouched
<1>1. CASE initialize(u)
  BY <1>1 DEF initialize, Moved, holdVars
<1>2. ASSUME NEW rssi \in Rssi,
             \/ MasterStronger(u, rssi)
             \/ MasterWeaker(u, rssi)
             \/ \E c \in Enbs : NewCandidate(u, c, rssi)
      PROVE  Untouched(v)
  <2>1. Measured(u, rssi)
    BY <1>2 DEF MasterStronger, MasterWeaker, NewCandidate
  <2>2. /\ candidateMasterId'[v] = candidateMasterId[v]
        /\ currentMasterRssi'[v] = currentMasterRssi[v]
        /\ v \in handoverStarter' <=> v \in handoverStarter
    BY <1>2 DEF MasterStronger, MasterWeaker, NewCandidate, CancelledStarter
  <2> QED
    BY <2>1, <2>2 DEF Measured, holdVars, cellVars
<1>3. CASE triggerHandover(u)
  BY <1>3 DEF triggerHandover, cellVars
<1>4. CASE doHandover(u)
  BY <1>4 DEF doHandover, HandedOver, Moved, unregisterNextHop, ReleasedHold
<1>5. CASE fromIpUe(u)
  BY <1>5 DEF fromIpUe, phyVars, holdVars, cellVars
<1>6. CASE findTrafficFlow(u)
  BY <1>6 DEF findTrafficFlow, phyVars, holdVars, cellVars
<1>7. CASE handleFromUdpPgw(u)
  BY <1>7 DEF handleFromUdpPgw, phyVars, holdVars, cellVars
<1>8. CASE shutdownLteStack(u)
  BY <1>8
     DEF shutdownLteStack, unregisterNode, DetachedEverywhere, phyVars, holdVars
<1>9. CASE deleteModule(u)
  BY <1>9 DEF deleteModule, finish, unregisterNode, unregisterNextHop,
              DetachedEverywhere, Moved
<1> QED
  BY <1>1, <1>2, <1>3, <1>4, <1>5, <1>6, <1>7, <1>8, <1>9
     DEF UeStep, handoverHandler

(***************************************************************************)
(* A step of UE u keeps its own part of the invariant.                     *)
(***************************************************************************)
LEMMA OwnStep ==
  ASSUME TypeOK, NEW u \in Ues, UeOK(u), UeStep(u)
  PROVE  UeOK(u)'
<1> USE HandoverAssumption
<1>1. CASE initialize(u)
  <2>1. PICK c \in Cells, rssi \in {r \in Rssi : r > 0} \cup {0} :
        /\ masterId' = [masterId EXCEPT ![u] = c]
        /\ currentMasterRssi' = [currentMasterRssi EXCEPT ![u] = rssi]
        /\ candidateMasterRssi' = [candidateMasterRssi EXCEPT ![u] = rssi]
        /\ nextHop' = [nextHop EXCEPT ![u] = c]
        /\ amc' = Moved(amc, u, NoCell, c)
        /\ lambdaMap' = Moved(lambdaMap, u, NoCell, c)
    BY <1>1 DEF initialize
  <2>2. /\ stage[u] = "absent" /\ stage'[u] = "running"
        /\ UNCHANGED <<hysteresisTh, handoverStarter, holdVars, ueHoldFromIp>>
    BY <1>1 DEF initialize, TypeOK
  <2>3. Attached(u)'
    BY <2>1, <2>2 DEF TypeOK, UeOK, Attached, Moved, holdVars
  <2>4. Handing(u)'
    BY <2>2 DEF TypeOK, UeOK, Attached, Handing, holdVars
  <2>5. Ranked(u)'
    BY <2>1, <2>2 DEF TypeOK, UeOK, Attached, Ranked
  <2> QED
    BY <2>3, <2>4, <2>5 DEF UeOK
<1>2. ASSUME NEW rssi \in Rssi,
             \/ MasterStronger(u, rssi)
             \/ MasterWeaker(u, rssi)
             \/ \E c \in Enbs : NewCandidate(u, c, rssi)
      PROVE  UeOK(u)'
  <2>1. Measured(u, rssi) /\ Listening(u)
    BY <1>2 DEF MasterStronger, MasterWeaker, NewCandidate
  <2>2. Attached(u)'
    BY <2>1 DEF Measured, Listening, UeOK, Attached, holdVars, cellVars
  <2>3. Handing(u)'
    <3>1. CASE MasterStronger(u, rssi)
      BY <2>1, <3>1 DEF TypeOK, Measured, Listening, MasterStronger,
         CancelledStarter, UeOK, Handing, holdVars
    <3>2. CASE MasterWeaker(u, rssi)
      BY <2>1, <3>2
         DEF TypeOK, Measured, Listening, MasterWeaker, UeOK, Handing, holdVars
    <3>3. ASSUME NEW c \in Enbs, NewCandidate(u, c, rssi) PROVE Handing(u)'
      BY <2>1, <3>3
         DEF TypeOK, Measured, Listening, NewCandidate, UeOK, Handing, holdVars
    <3> QED
      BY <1>2, <3>1, <3>2, <3>3
  <2>4. Ranked(u)'
    <3>1. /\ candidateMasterRssi'[u] = rssi
          /\ hysteresisTh'[u] = updateHysteresisTh(rssi)
          /\ rssi >= 0 => updateHysteresisTh(rssi) >= 0
      BY <2>1, ThresholdSign DEF TypeOK, Measured
    <3>2. /\ candidateMasterRssi[u] \in Int /\ hysteresisTh[u] \in Int
          /\ currentMasterRssi[u] \in Int /\ rssi \in Int
      BY DEF TypeOK
    <3>3. \/ currentMasterRssi'[u] = rssi
          \/ currentMasterRssi'[u] = currentMasterRssi[u] /\ Better(u, rssi)
      BY <1>2 DEF TypeOK, MasterStronger, MasterWeaker, NewCandidate
    <3> QED
      BY <3>1, <3>2, <3>3 DEF UeOK, Ranked, Better
  <2> QED
    BY <2>2, <2>3, <2>4 DEF UeOK
<1>3. CASE triggerHandover(u)
  <2>1. Attached(u)'
    BY <1>3 DEF TypeOK, triggerHandover, UeOK, Attached, cellVars
  <2>2. Handing(u)'
    <3>1. CASE masterId[u] = NoCell
      BY <1>3, <3>1 DEF TypeOK, triggerHandover, UeOK, Handing
    <3>2. CASE masterId[u] # NoCell
      BY <1>3, <3>2 DEF TypeOK, Cells, triggerHandover, UeOK, Handing
    <3> QED
      BY <3>1, <3>2
  <2>3. Ranked(u)'
    BY <1>3 DEF triggerHandover, UeOK, Ranked
  <2> QED
    BY <2>1, <2>2, <2>3 DEF UeOK
<1>4. CASE doHandover(u)
  <2>1. /\ masterId[u] \in Enbs
        /\ candidateMasterId[u] \in Enbs \ {masterId[u]}
        /\ u \in handoverTrigger /\ u \notin handoverStarter
    BY <1>4 DEF doHandover, UeOK, Handing
  <2>2. Attached(u)'
    BY <1>4, <2>1 DEF TypeOK, doHandover, UeOK, Attached, HandedOver, Moved,
       unregisterNextHop, ReleasedHold
  <2>3. Handing(u)'
    BY <1>4, <2>1 DEF TypeOK, doHandover, UeOK, Handing, ReleasedHold
  <2>4. Ranked(u)'
    BY <1>4, ThresholdSign DEF TypeOK, doHandover, UeOK, Ranked
  <2> QED
    BY <2>2, <2>3, <2>4 DEF UeOK
<1>5. CASE fromIpUe(u)
  <2>1. Attached(u)'
    BY <1>5 DEF fromIpUe, UeOK, Attached, phyVars, holdVars, cellVars
  <2>2. Handing(u)'
    BY <1>5 DEF fromIpUe, UeOK, Handing, phyVars, holdVars
  <2>3. Ranked(u)'
    BY <1>5 DEF fromIpUe, UeOK, Ranked, phyVars
  <2> QED
    BY <2>1, <2>2, <2>3 DEF UeOK
<1>6. CASE findTrafficFlow(u)
  <2>1. Untouched(u)
    BY <1>6 DEF findTrafficFlow, Untouched, phyVars, holdVars, cellVars
  <2> QED
    BY <2>1, UntouchedStep
<1>7. CASE handleFromUdpPgw(u)
  <2>1. Untouched(u)
    BY <1>7 DEF handleFromUdpPgw, Untouched, phyVars, holdVars, cellVars
  <2> QED
    BY <2>1, UntouchedStep
<1>8. CASE shutdownLteStack(u)
  <2>1. Attached(u)'
    BY <1>8 DEF TypeOK, shutdownLteStack, unregisterNode, DetachedEverywhere,
       UeOK, Attached, phyVars, holdVars
  <2>2. Handing(u)'
    BY <1>8 DEF TypeOK, shutdownLteStack, UeOK, Handing, phyVars, holdVars
  <2>3. Ranked(u)'
    BY <1>8 DEF shutdownLteStack, UeOK, Ranked, phyVars
  <2> QED
    BY <2>1, <2>2, <2>3 DEF UeOK
<1>9. CASE deleteModule(u)
  <2>1. Attached(u)'
    BY <1>9 DEF TypeOK, deleteModule, finish, unregisterNode, Moved,
       unregisterNextHop, DetachedEverywhere, UeOK, Attached
  <2>2. Handing(u)'
    BY <1>9 DEF TypeOK, deleteModule, UeOK, Handing
  <2>3. Ranked(u)'
    BY <1>9 DEF TypeOK, deleteModule, Ranked
  <2> QED
    BY <2>1, <2>2, <2>3 DEF UeOK
<1> QED
  BY <1>1, <1>2, <1>3, <1>4, <1>5, <1>6, <1>7, <1>8, <1>9
     DEF UeStep, handoverHandler

(***************************************************************************)
(* The invariant is inductive.                                             *)
(***************************************************************************)
LEMMA InductiveStep == IInv /\ [Next]_vars => IInv'
<1> SUFFICES ASSUME IInv, [Next]_vars PROVE UeInv'
  BY TypeStep DEF IInv
<1>0. TypeOK /\ \A v \in Ues : UeOK(v)
  BY DEF IInv, UeInv, UeOK
<1> SUFFICES ASSUME NEW v \in Ues PROVE UeOK(v)'
  BY DEF UeInv, UeOK
<1>1. ASSUME NEW u \in Ues, UeStep(u) PROVE UeOK(v)'
  <2>1. CASE v = u
    BY <1>0, <1>1, <2>1, OwnStep
  <2>2. CASE v # u
    BY <1>0, <1>1, <2>2, OthersUntouched, UntouchedStep
  <2> QED
    BY <2>1, <2>2
<1>2. ASSUME NEW c \in Enbs, NEW u \in Ues, EnbStep(c, u) PROVE UeOK(v)'
  <2>1. Untouched(v)
    BY <1>2 DEF EnbStep, fromIpEnb, returnToPgw, Untouched,
       receiveTunneledPacketOnHandover, phyVars, holdVars, cellVars
  <2> QED
    BY <1>0, <2>1, UntouchedStep
<1>3. ASSUME NEW m \in x2Commands, receiveHandoverCommand(m) PROVE UeOK(v)'
  <2>1. Untouched(v)
    BY <1>3 DEF receiveHandoverCommand, Untouched, phyVars, holdVars, cellVars
  <2> QED
    BY <1>0, <2>1, UntouchedStep
<1>4. CASE UNCHANGED vars
  <2>1. Untouched(v)
    BY <1>4 DEF vars, Untouched, phyVars, holdVars, cellVars
  <2> QED
    BY <1>0, <2>1, UntouchedStep
<1> QED
  BY <1>1, <1>2, <1>3, <1>4 DEF Next

(***************************************************************************)
(* The inductive invariant holds in every reachable state.                 *)
(***************************************************************************)
THEOREM Invariance == Spec => []IInv
BY InitInv, InductiveStep, PTL DEF Spec

(***************************************************************************)
(* The types of the handover's state are kept, whatever the X2 links.      *)
(***************************************************************************)
THEOREM TypeCorrect == Spec => []TypeOK
<1>1. IInv => TypeOK
  BY DEF IInv
<1> QED
  BY <1>1, Invariance, PTL

(***************************************************************************)
(* triggerHandover() never fails its assertion: no handover is to the      *)
(* serving cell.                                                           *)
(***************************************************************************)
THEOREM HandoversLeadElsewhere == Spec => []NeverToItself
<1>1. IInv => NeverToItself
  BY DEF IInv, TypeOK, UeInv, Handing, NeverToItself
<1> QED
  BY <1>1, Invariance, PTL

(***************************************************************************)
(* The AMC and the cell information know a UE in service in one cell only, *)
(* its serving cell, and no other cell admits its frames.                  *)
(***************************************************************************)
THEOREM ServedByOneCell == Spec => []OneServingCell
<1>1. IInv => OneServingCell
  <2> SUFFICES ASSUME IInv, NEW u \in Ues, stage[u] = "running"
               PROVE  /\ {c \in Enbs : u \in amc[c]} = {masterId[u]} \cap Enbs
                      /\ {c \in Enbs : u \in lambdaMap[c]}
                                                  = {masterId[u]} \cap Enbs
                      /\ nextHop[u] \in Enbs => nextHop[u] = masterId[u]
    BY DEF OneServingCell
  <2>1. Attached(u)
    BY DEF IInv, UeInv
  <2> QED
    BY <2>1, HandoverAssumption DEF Attached
<1> QED
  BY <1>1, Invariance, PTL

(***************************************************************************)
(* A deleted UE is in no table, whichever timers fired while its stack was *)
(* being shut down.                                                        *)
(***************************************************************************)
THEOREM DeletionIsComplete == Spec => []DeletedLeavesNothing
<1>1. IInv => DeletedLeavesNothing
  BY DEF IInv, UeInv, Attached, DeletedLeavesNothing
<1> QED
  BY <1>1, Invariance, PTL

(***************************************************************************)
(* The timer, the binder and the held uplink packets agree on whether a    *)
(* handover is under way.                                                  *)
(***************************************************************************)
THEOREM HoldsEndWithTheHandover == Spec => []HoldsAreReleased
<1>1. IInv => HoldsAreReleased
  BY DEF IInv, UeInv, Handing, HoldsAreReleased
<1> QED
  BY <1>1, Invariance, PTL

(***************************************************************************)
(* The reading of a candidate is at least that of the serving cell, where  *)
(* that is not negative.                                                   *)
(***************************************************************************)
THEOREM CandidatesOutrank == Spec => []CandidateOutranksMaster
<1>1. IInv => CandidateOutranksMaster
  BY DEF IInv, UeInv, Ranked, CandidateOutranksMaster
<1> QED
  BY <1>1, Invariance, PTL
-----------------------------------------------------------------------------
(***************************************************************************)
(* What the eNBs keep about u, and the commands about u on the wires.      *)
(***************************************************************************)
FullyLinked == \A c \in Enbs, d \in Enbs : c # d => Linked(c, d)

CompleteOnItsWay(c, u) == \E m \in x2Commands : m.at = c /\ m.ue = u /\ ~ m.start

Coordinated(u) ==
  /\ stage[u] = "absent" =>
       /\ \A m \in x2Commands : m.ue # u
       /\ \A c \in Enbs : u \notin hoHolding[c] /\ hoForwarding[c][u] = NoCell
  /\ stage[u] \in {"running", "shutdown"} =>
       /\ \A m \in x2Commands : m.ue = u =>
            IF m.start THEN u \in handoverTrigger /\ candidateMasterId[u] = m.at
                       ELSE u \notin handoverTrigger
       /\ \A c \in Enbs : u \in hoHolding[c] =>
            u \in handoverTrigger /\ candidateMasterId[u] = c
       /\ \A c \in Enbs : hoForwarding[c][u] # NoCell =>
            \/ /\ u \in handoverTrigger /\ masterId[u] = c
               /\ candidateMasterId[u] = hoForwarding[c][u]
            \/ CompleteOnItsWay(c, u)

CoordInv == \A u \in Ues : Coordinated(u)

Unconcerned(v) ==
  /\ stage'[v] = stage[v]
  /\ masterId'[v] = masterId[v]
  /\ v \in handoverTrigger' <=> v \in handoverTrigger
  /\ v \in handoverTrigger => candidateMasterId'[v] = candidateMasterId[v]
  /\ \A c \in Enbs : /\ hoForwarding'[c][v] = hoForwarding[c][v]
                     /\ v \in hoHolding'[c] <=> v \in hoHolding[c]
  /\ {m \in x2Commands' : m.ue = v} = {m \in x2Commands : m.ue = v}

(***************************************************************************)
(* A step that changes none of it for UE v.                                *)
(***************************************************************************)
LEMMA UnconcernedStep ==
  ASSUME NEW v \in Ues, Coordinated(v), Unconcerned(v)
  PROVE  Coordinated(v)'
<1>1. \A m : m \in x2Commands' /\ m.ue = v <=> m \in x2Commands /\ m.ue = v
  BY DEF Unconcerned
<1>2. \A c : CompleteOnItsWay(c, v)' <=> CompleteOnItsWay(c, v)
  BY <1>1 DEF CompleteOnItsWay
<1> QED
  BY <1>1, <1>2 DEF Unconcerned, Coordinated

(***************************************************************************)
(* Where all eNBs are linked a command goes to its addressee.              *)
(***************************************************************************)
LEMMA CommandsArrive ==
  ASSUME FullyLinked, NEW c \in Enbs, NEW d \in Enbs \ {c},
         NEW u \in Ues, NEW b \in BOOLEAN
  PROVE  sendHandoverCommand(c, u, d, b)
           = {[to |-> d, at |-> d, ue |-> u, start |-> b]}
BY DEF FullyLinked, sendHandoverCommand, fromStack

(***************************************************************************)
(* triggerHandover(), doHandover() and the arrival of a command.           *)
(***************************************************************************)
LEMMA TriggerCoordinated ==
  ASSUME FullyLinked, IInv, NEW u \in Ues, triggerHandover(u), Coordinated(u)
  PROVE  Coordinated(u)'
<1> USE HandoverAssumption
<1>0. TypeOK /\ Attached(u) /\ Handing(u)
  BY DEF IInv, UeInv
<1>1. /\ u \in handoverStarter /\ u \notin handoverTrigger
      /\ stage[u] \in {"running", "shutdown"}
      /\ \A m \in x2Commands : m.ue # u
      /\ candidateMasterId[u] \in Enbs \ {masterId[u]}
  BY <1>0 DEF triggerHandover, TimersOutlastWires, Attached, Handing, TypeOK
<1>2. \A c \in Enbs : u \notin hoHolding[c] /\ hoForwarding[c][u] = NoCell
  BY <1>1 DEF Coordinated, CompleteOnItsWay
<1>3. CASE masterId[u] = NoCell
  <2>1. Unconcerned(u)
    BY <1>3 DEF triggerHandover, Unconcerned
  <2> QED
    BY <2>1, UnconcernedStep
<1>4. CASE masterId[u] # NoCell
  <2>1. masterId[u] \in Enbs
    BY <1>0, <1>4 DEF TypeOK, Cells
  <2>2. x2Commands' = x2Commands \cup
          {[to |-> candidateMasterId[u], at |-> candidateMasterId[u],
            ue |-> u, start |-> TRUE]}
    BY <1>1, <1>4, <2>1, CommandsArrive DEF triggerHandover
  <2>3. \A m \in x2Commands' : m.ue = u => m.start /\ m.at = candidateMasterId[u]
    BY <1>1, <2>2
  <2>4. \A c \in Enbs : hoForwarding'[c][u] # NoCell =>
          c = masterId[u] /\ hoForwarding'[c][u] = candidateMasterId[u]
    <3>1. hoForwarding' = [hoForwarding EXCEPT ![masterId[u]][u] =
                                                        candidateMasterId[u]]
      BY <1>4 DEF triggerHandover
    <3>2. hoForwarding \in [Enbs -> [Ues -> Cells]]
      BY <1>0 DEF TypeOK
    <3>3. ASSUME NEW c \in Enbs \ {masterId[u]}
          PROVE  hoForwarding'[c][u] = NoCell
      BY <1>2, <3>1, <3>2
    <3>4. hoForwarding'[masterId[u]][u] = candidateMasterId[u]
      BY <2>1, <3>1, <3>2
    <3> QED
      BY <3>3, <3>4
  <2> QED
    BY <1>0, <1>1, <1>2, <1>4, <2>3, <2>4 DEF triggerHandover, Coordinated, TypeOK
<1> QED
  BY <1>3, <1>4

LEMMA CompletionCoordinated ==
  ASSUME FullyLinked, IInv, NEW u \in Ues, doHandover(u), Coordinated(u)
  PROVE  Coordinated(u)'
<1> USE HandoverAssumption
<1>0. TypeOK /\ Attached(u) /\ Handing(u)
  BY DEF IInv, UeInv
<1>1. /\ u \in handoverTrigger
      /\ stage[u] \in {"running", "shutdown"}
      /\ \A m \in x2Commands : m.ue # u
      /\ masterId[u] \in Enbs
      /\ candidateMasterId[u] \in Enbs \ {masterId[u]}
  BY <1>0 DEF doHandover, TimersOutlastWires, Attached, Handing, TypeOK
<1> DEFINE done == [to |-> masterId[u], at |-> masterId[u],
                    ue |-> u, start |-> FALSE]
<1>2. x2Commands' = x2Commands \cup {done}
  BY <1>1, CommandsArrive DEF doHandover
<1>3. ASSUME NEW c \in Enbs, c = masterId[u] PROVE CompleteOnItsWay(c, u)'
  <2>1. done \in x2Commands' /\ done.at = c /\ done.ue = u /\ ~ done.start
    BY <1>2, <1>3
  <2> QED
    BY <2>1 DEF CompleteOnItsWay
<1>4. \A c \in Enbs : hoForwarding'[c][u] # NoCell => c = masterId[u]
  BY <1>1 DEF doHandover, Coordinated, CompleteOnItsWay
<1>5. \A c \in Enbs : u \notin hoHolding'[c]
  BY <1>0, <1>1 DEF doHandover, Coordinated, TypeOK
<1>6. \A m \in x2Commands' : m.ue = u => ~ m.start
  BY <1>1, <1>2
<1>7. u \notin handoverTrigger' /\ stage' = stage
  BY DEF doHandover
<1> QED
  BY <1>1, <1>3, <1>4, <1>5, <1>6, <1>7 DEF Coordinated

LEMMA ArrivalCoordinated ==
  ASSUME TypeOK, NEW m \in x2Commands, receiveHandoverCommand(m),
         NEW u \in Ues, u = m.ue, Coordinated(u)
  PROVE  Coordinated(u)'
<1>0. m.at \in Enbs /\ x2Commands' = x2Commands \ {m}
  BY DEF TypeOK, Command, receiveHandoverCommand
<1>1. /\ UNCHANGED <<stage, masterId, candidateMasterId, handoverTrigger>>
      /\ stage[u] # "absent"
  BY DEF receiveHandoverCommand, phyVars, holdVars, Coordinated
<1>2. CASE m.start
  <2>1. \A c : CompleteOnItsWay(c, u)' <=> CompleteOnItsWay(c, u)
    BY <1>0, <1>2 DEF CompleteOnItsWay
  <2> QED
    BY <1>0, <1>1, <1>2, <2>1 DEF receiveHandoverCommand, Coordinated, TypeOK
<1>3. CASE ~ m.start
  <2>1. \A c \in Enbs : CompleteOnItsWay(c, u) =>
          CompleteOnItsWay(c, u)' \/ c = m.at
    BY <1>0 DEF CompleteOnItsWay
  <2>2. \A c \in Enbs : /\ c # m.at => hoForwarding'[c][u] = hoForwarding[c][u]
                        /\ c = m.at => hoForwarding'[c][u] = NoCell
    BY <1>0, <1>3 DEF receiveHandoverCommand, signalHandoverCompleteSource, TypeOK
  <2> QED
    BY <1>0, <1>1, <1>3, <2>1, <2>2 DEF receiveHandoverCommand, Coordinated
<1> QED
  BY <1>2, <1>3

(***************************************************************************)
(* Every step of a fully linked network.                                   *)
(***************************************************************************)
LEMMA CoordStep ==
  FullyLinked /\ IInv /\ CoordInv /\ [Next]_vars => CoordInv'
<1> SUFFICES ASSUME FullyLinked, IInv, CoordInv, [Next]_vars,
                    NEW v \in Ues
             PROVE  Coordinated(v)'
  BY DEF CoordInv
<1>0. TypeOK /\ Coordinated(v) /\ Attached(v) /\ Handing(v)
  BY DEF IInv, UeInv, CoordInv
<1>1. ASSUME NEW u \in Ues, UeStep(u) PROVE Coordinated(v)'
  <2>1. CASE initialize(u)
    <3>1. CASE v = u
      BY <1>0, <2>1, <3>1 DEF initialize, Coordinated, TypeOK, x2Vars, holdVars
    <3>2. CASE v # u
      <4>1. Unconcerned(v)
        BY <1>0, <2>1, <3>2 DEF initialize, Unconcerned, TypeOK, x2Vars, holdVars
      <4> QED
        BY <1>0, <4>1, UnconcernedStep
    <3> QED
      BY <3>1, <3>2
  <2>2. CASE handoverHandler(u)
    <3>1. PICK rssi \in Rssi : \/ MasterStronger(u, rssi)
                               \/ MasterWeaker(u, rssi)
                               \/ \E c \in Enbs : NewCandidate(u, c, rssi)
      BY <2>2 DEF handoverHandler
    <3>2. Measured(u, rssi) /\ u \notin handoverTrigger
      BY <3>1 DEF MasterStronger, MasterWeaker, NewCandidate, Listening
    <3>3. v \in handoverTrigger => candidateMasterId'[v] = candidateMasterId[v]
      BY <1>0, <3>1, <3>2 DEF MasterStronger, MasterWeaker, NewCandidate, TypeOK
    <3>4. Unconcerned(v)
      BY <3>2, <3>3 DEF Measured, Unconcerned, x2Vars, holdVars
    <3> QED
      BY <1>0, <3>4, UnconcernedStep
  <2>3. CASE triggerHandover(u)
    <3>1. CASE v = u
      BY <1>0, <2>3, <3>1, TriggerCoordinated
    <3>2. CASE v # u
      <4>1. {m \in x2Commands' : m.ue = v} = {m \in x2Commands : m.ue = v}
        BY <2>3, <3>2 DEF triggerHandover, sendHandoverCommand
      <4>2. \A c \in Enbs : hoForwarding'[c][v] = hoForwarding[c][v]
        <5>1. \/ hoForwarding' = hoForwarding
              \/ hoForwarding' = [hoForwarding EXCEPT ![masterId[u]][u] =
                                                        candidateMasterId[u]]
          BY <2>3 DEF triggerHandover
        <5>2. hoForwarding \in [Enbs -> [Ues -> Cells]]
          BY <1>0 DEF TypeOK
        <5> QED
          BY <3>2, <5>1, <5>2
      <4>3. Unconcerned(v)
        BY <2>3, <3>2, <4>1, <4>2 DEF triggerHandover, Unconcerned
      <4> QED
        BY <1>0, <4>3, UnconcernedStep
    <3> QED
      BY <3>1, <3>2
  <2>4. CASE doHandover(u)
    <3>1. CASE v = u
      BY <1>0, <2>4, <3>1, CompletionCoordinated
    <3>2. CASE v # u
      <4>1. {m \in x2Commands' : m.ue = v} = {m \in x2Commands : m.ue = v}
        BY <2>4, <3>2 DEF doHandover, sendHandoverCommand
      <4>2. Unconcerned(v)
        BY <1>0, <2>4, <3>2, <4>1 DEF doHandover, Unconcerned, TypeOK
      <4> QED
        BY <1>0, <4>2, UnconcernedStep
    <3> QED
      BY <3>1, <3>2
  <2>5. CASE fromIpUe(u) \/ findTrafficFlow(u) \/ handleFromUdpPgw(u)
    <3>1. Unconcerned(v)
      BY <2>5 DEF fromIpUe, findTrafficFlow, handleFromUdpPgw, Unconcerned,
         phyVars, holdVars, x2Vars
    <3> QED
      BY <1>0, <3>1, UnconcernedStep
  <2>6. CASE shutdownLteStack(u)
    BY <1>0, <2>6 DEF shutdownLteStack, Coordinated, CompleteOnItsWay, TypeOK,
       phyVars, holdVars, x2Vars
  <2>7. CASE deleteModule(u)
    <3>1. CASE v = u
      BY <1>0, <2>7, <3>1 DEF deleteModule, Coordinated, TypeOK
    <3>2. CASE v # u
      <4>1. Unconcerned(v)
        BY <1>0, <2>7, <3>2 DEF deleteModule, Unconcerned, TypeOK, x2Vars
      <4> QED
        BY <1>0, <4>1, UnconcernedStep
    <3> QED
      BY <3>1, <3>2
  <2> QED
    BY <1>1, <2>1, <2>2, <2>3, <2>4, <2>5, <2>6, <2>7 DEF UeStep
<1>2. ASSUME NEW c \in Enbs, NEW u \in Ues, EnbStep(c, u) PROVE Coordinated(v)'
  <2>1. Unconcerned(v)
    BY <1>2 DEF EnbStep, fromIpEnb, returnToPgw, Unconcerned,
       receiveTunneledPacketOnHandover, phyVars, holdVars, x2Vars
  <2> QED
    BY <1>0, <2>1, UnconcernedStep
<1>3. ASSUME NEW m \in x2Commands, receiveHandoverCommand(m)
      PROVE  Coordinated(v)'
  <2>1. CASE v = m.ue
    BY <1>0, <1>3, <2>1, ArrivalCoordinated
  <2>2. CASE v # m.ue
    <3>1. {n \in x2Commands' : n.ue = v} = {n \in x2Commands : n.ue = v}
      BY <1>3, <2>2 DEF receiveHandoverCommand
    <3>2. \A c \in Enbs : /\ hoForwarding'[c][v] = hoForwarding[c][v]
                          /\ v \in hoHolding'[c] <=> v \in hoHolding[c]
      BY <1>0, <1>3, <2>2 DEF receiveHandoverCommand, TypeOK,
         signalHandoverCompleteSource
    <3>3. Unconcerned(v)
      BY <1>3, <3>1, <3>2
         DEF receiveHandoverCommand, Unconcerned, phyVars, holdVars
    <3> QED
      BY <1>0, <3>3, UnconcernedStep
  <2> QED
    BY <2>1, <2>2
<1>4. CASE UNCHANGED vars
  <2>1. Unconcerned(v)
    BY <1>4 DEF vars, Unconcerned, phyVars, holdVars, x2Vars
  <2> QED
    BY <1>0, <2>1, UnconcernedStep
<1> QED
  BY <1>1, <1>2, <1>3, <1>4 DEF Next

(***************************************************************************)
(* With every eNB linked to every other, as the README says of the         *)
(* topology, the eNBs stay coordinated.                                    *)
(***************************************************************************)
THEOREM Coordination == FullyLinked => (Spec => [](IInv /\ CoordInv))
<1> SUFFICES ASSUME FullyLinked PROVE Spec => [](IInv /\ CoordInv)
  OBVIOUS
<1>1. Init => CoordInv
  <2> SUFFICES ASSUME Init, NEW u \in Ues PROVE Coordinated(u)
    BY DEF CoordInv
  <2>1. /\ stage[u] = "absent" /\ x2Commands = {}
        /\ \A c \in Enbs : u \notin hoHolding[c] /\ hoForwarding[c][u] = NoCell
    BY DEF Init
  <2> QED
    BY <2>1 DEF Coordinated
<1>2. IInv /\ CoordInv /\ [Next]_vars => CoordInv'
  BY CoordStep
<1> QED
  BY <1>1, <1>2, Invariance, PTL DEF Spec

(***************************************************************************)
(* Only the target of a handover holds packets of the UE.                  *)
(***************************************************************************)
THEOREM HoldingIsForTheTarget == FullyLinked => (Spec => []OnlyTheTargetHolds)
<1>1. IInv /\ CoordInv => OnlyTheTargetHolds
  BY DEF IInv, TypeOK, CoordInv, Coordinated, OnlyTheTargetHolds
<1> QED
  BY <1>1, Coordination, PTL

(***************************************************************************)
(* Forwarding lasts no longer than the handover and the message that       *)
(* reports its end.                                                        *)
(***************************************************************************)
THEOREM ForwardingEnds == FullyLinked => (Spec => []ForwardingIsTransient)
<1>1. CoordInv => ForwardingIsTransient
  BY DEF CoordInv, Coordinated, CompleteOnItsWay, ForwardingIsTransient
<1> QED
  BY <1>1, Coordination, PTL

(***************************************************************************)
(* Packets of the core network never meet a holding eNB.                   *)
(***************************************************************************)
THEOREM HoldingIsNotRouted == FullyLinked => (Spec => []NotHeldWhereRouted)
<1>1. IInv /\ CoordInv => NotHeldWhereRouted
  <2> SUFFICES ASSUME IInv, CoordInv, NEW c \in Enbs, NEW u \in hoHolding[c]
               PROVE  nextHop[u] # c
    BY DEF NotHeldWhereRouted
  <2>1. u \in Ues /\ Attached(u) /\ Handing(u) /\ Coordinated(u) /\ TypeOK
    BY DEF IInv, TypeOK, UeInv, CoordInv
  <2> QED
    BY <2>1, HandoverAssumption DEF TypeOK, Attached, Handing, Coordinated
<1> QED
  BY <1>1, Coordination, PTL
-----------------------------------------------------------------------------
(***************************************************************************)
(* The end of a handover: three steps lead to it, the arrival of the       *)
(* command that starts it, doHandover(), and the arrival of the command    *)
(* that reports its end.  At most one command about a UE is on the wires.  *)
(***************************************************************************)
Commanded(u) == \E m \in x2Commands : m.ue = u

StepsLeft(u) ==
  IF u \in handoverTrigger THEN IF Commanded(u) THEN 3 ELSE 2
                           ELSE IF Commanded(u) THEN 1 ELSE 0

OneCommand == \A m, n \in x2Commands : m.ue = n.ue => m = n

Advances(u) ==
  /\ triggerHandover(u) => StepsLeft(u) = 0
  /\ ~ triggerHandover(u) => StepsLeft(u)' <= StepsLeft(u)
  /\ (\/ doHandover(u)
      \/ \E m \in x2Commands : m.ue = u /\ receiveHandoverCommand(m))
     => StepsLeft(u)' < StepsLeft(u)

(***************************************************************************)
(* What each step does to the commands and to the timers of handovers.     *)
(***************************************************************************)
LEMMA CommandSteps ==
  ASSUME TypeOK, [Next]_vars
  PROVE  \/ \E u \in Ues : triggerHandover(u) \/ doHandover(u)
         \/ \E m \in x2Commands : receiveHandoverCommand(m)
         \/ x2Commands' = x2Commands /\ handoverTrigger' \subseteq handoverTrigger
<1> DEFINE Still == /\ x2Commands' = x2Commands
                    /\ handoverTrigger' \subseteq handoverTrigger
<1>1. ASSUME NEW u \in Ues, initialize(u) \/ fromIpUe(u) \/ findTrafficFlow(u)
                            \/ handleFromUdpPgw(u) \/ shutdownLteStack(u)
      PROVE  Still
  BY <1>1 DEF initialize, fromIpUe, findTrafficFlow, handleFromUdpPgw,
              shutdownLteStack, holdVars, x2Vars
<1>2. ASSUME NEW u \in Ues, handoverHandler(u)
      PROVE  Still
  BY <1>2 DEF handoverHandler, MasterStronger, MasterWeaker, NewCandidate,
              Measured, holdVars, x2Vars
<1>3. ASSUME NEW u \in Ues, deleteModule(u)
      PROVE  Still
  BY <1>3 DEF deleteModule, x2Vars
<1>4. ASSUME NEW c \in Enbs, NEW u \in Ues, EnbStep(c, u)
      PROVE  Still
  BY <1>4 DEF EnbStep, fromIpEnb, returnToPgw, receiveTunneledPacketOnHandover,
              holdVars, x2Vars
<1>5. CASE UNCHANGED vars
  BY <1>5 DEF vars, holdVars, x2Vars
<1> QED
  BY <1>1, <1>2, <1>3, <1>4, <1>5 DEF Next, UeStep

LEMMA OneCommandStep ==
  ASSUME TypeOK, OneCommand, [Next]_vars
  PROVE  OneCommand'
<1>1. ASSUME NEW u \in Ues, triggerHandover(u) \/ doHandover(u)
      PROVE  OneCommand'
  <2>1. \A m \in x2Commands : m.ue # u
    BY <1>1 DEF triggerHandover, doHandover, TimersOutlastWires
  <2>2. \/ x2Commands' = x2Commands
        \/ \E new : new.ue = u /\ x2Commands' = x2Commands \cup {new}
    BY <1>1 DEF triggerHandover, doHandover, sendHandoverCommand
  <2> QED
    BY <2>1, <2>2 DEF OneCommand
<1>2. ASSUME NEW m \in x2Commands, receiveHandoverCommand(m)
      PROVE  OneCommand'
  BY <1>2 DEF receiveHandoverCommand, OneCommand
<1>3. CASE x2Commands' = x2Commands
  BY <1>3 DEF OneCommand
<1> QED
  BY <1>1, <1>2, <1>3, CommandSteps

LEMMA StepAdvances ==
  ASSUME IInv, OneCommand, [Next]_vars, NEW u \in Ues
  PROVE  Advances(u)
<1>0. TypeOK /\ Handing(u) /\ handoverTrigger \subseteq Ues
  BY DEF IInv, UeInv, TypeOK
<1>1. triggerHandover(u) => StepsLeft(u) = 0
  BY <1>0 DEF triggerHandover, TimersOutlastWires, Commanded, StepsLeft, Handing
<1>2. ASSUME doHandover(u)
      PROVE  StepsLeft(u)' < StepsLeft(u)
  <2>1. u \in handoverTrigger /\ ~ Commanded(u) /\ u \notin handoverTrigger'
    BY <1>2 DEF doHandover, TimersOutlastWires, Commanded
  <2> QED
    BY <2>1 DEF StepsLeft
<1>3. ASSUME NEW m \in x2Commands, receiveHandoverCommand(m)
      PROVE  /\ handoverTrigger' = handoverTrigger
             /\ IF m.ue = u THEN Commanded(u) /\ ~ Commanded(u)'
                            ELSE Commanded(u)' <=> Commanded(u)
  <2>1. x2Commands' = x2Commands \ {m} /\ handoverTrigger' = handoverTrigger
    BY <1>3 DEF receiveHandoverCommand, holdVars
  <2> QED
    BY <2>1 DEF OneCommand, Commanded
<1>4. ASSUME NEW m \in x2Commands, m.ue = u, receiveHandoverCommand(m)
      PROVE  StepsLeft(u)' < StepsLeft(u)
  BY <1>3, <1>4 DEF StepsLeft
<1>5. ASSUME ~ triggerHandover(u)
      PROVE  StepsLeft(u)' <= StepsLeft(u)
  <2>1. ASSUME NEW v \in Ues \ {u}, triggerHandover(v) \/ doHandover(v)
        PROVE  StepsLeft(u)' <= StepsLeft(u)
    <3>1. u \in handoverTrigger' <=> u \in handoverTrigger
      BY <2>1 DEF triggerHandover, doHandover
    <3>2. \/ x2Commands' = x2Commands
          \/ \E new : new.ue = v /\ x2Commands' = x2Commands \cup {new}
      BY <2>1 DEF triggerHandover, doHandover, sendHandoverCommand
    <3>3. Commanded(u)' <=> Commanded(u)
      BY <3>2 DEF Commanded
    <3> QED
      BY <3>1, <3>3 DEF StepsLeft
  <2>2. ASSUME NEW m \in x2Commands, receiveHandoverCommand(m)
        PROVE  StepsLeft(u)' <= StepsLeft(u)
    BY <1>3, <2>2 DEF StepsLeft
  <2>3. CASE x2Commands' = x2Commands /\ handoverTrigger' \subseteq handoverTrigger
    BY <2>3 DEF StepsLeft, Commanded
  <2> QED
    BY <1>0, <1>2, <1>5, <2>1, <2>2, <2>3, CommandSteps DEF StepsLeft
<1> QED
  BY <1>1, <1>2, <1>4, <1>5 DEF Advances

(***************************************************************************)
(* Handovers of one UE do not overlap, and each is over after three steps: *)
(* nothing but triggerHandover() raises the number of those left, it finds *)
(* none left, and each of the three lowers it, whatever the X2 links       *)
(* (LtePhyUe.cc:273-442, LteHandoverManager.cc).                           *)
(***************************************************************************)
THEOREM HandoversAdvance == Spec => [][\A u \in Ues : Advances(u)]_vars
<1>1. Init => OneCommand
  BY DEF Init, OneCommand
<1>2. IInv /\ OneCommand /\ [Next]_vars => OneCommand'
  BY OneCommandStep DEF IInv
<1>3. IInv /\ OneCommand /\ [Next]_vars => [\A u \in Ues : Advances(u)]_vars
  BY StepAdvances
<1> QED
  BY <1>1, <1>2, <1>3, Invariance, PTL DEF Spec

(***************************************************************************)
(* With every eNB linked to every other, no step left means that no eNB    *)
(* forwards packets of a UE in service any more, none holds any, and the   *)
(* UE itself holds none unless it never had a cell.                        *)
(***************************************************************************)
THEOREM NothingIsLeftBehind ==
  FullyLinked => (Spec =>
    [](\A u \in Ues : stage[u] = "running" /\ StepsLeft(u) = 0 =>
         /\ \A c \in Enbs : hoForwarding[c][u] = NoCell /\ u \notin hoHolding[c]
         /\ u \in ueHold => masterId[u] = NoCell))
<1> DEFINE Settled(u) ==
      stage[u] = "running" /\ StepsLeft(u) = 0 =>
        /\ \A c \in Enbs : hoForwarding[c][u] = NoCell /\ u \notin hoHolding[c]
        /\ u \in ueHold => masterId[u] = NoCell
<1>1. IInv /\ CoordInv => \A u \in Ues : Settled(u)
  <2> SUFFICES ASSUME IInv, CoordInv, NEW u \in Ues,
                      stage[u] = "running", StepsLeft(u) = 0
               PROVE  /\ \A c \in Enbs : /\ hoForwarding[c][u] = NoCell
                                         /\ u \notin hoHolding[c]
                      /\ u \in ueHold => masterId[u] = NoCell
    OBVIOUS
  <2>1. Handing(u) /\ Coordinated(u)
    BY DEF IInv, UeInv, CoordInv
  <2>2. u \notin handoverTrigger /\ ~ Commanded(u)
    BY DEF StepsLeft
  <2> QED
    BY <2>1, <2>2 DEF Handing, Coordinated, CompleteOnItsWay, Commanded
<1> QED
  BY <1>1, Coordination, PTL
-----------------------------------------------------------------------------
(***************************************************************************)
(* The implementation of ServingCell: every step of a handover is one of   *)
(* Attach, Start, Finish, Leave, or changes nothing there.                 *)
(***************************************************************************)
target == [u \in Ues |-> IF u \in handoverTrigger THEN candidateMasterId[u]
                                                  ELSE NoCell]
gone == {u \in Ues : stage[u] = "deleted"}

LEMMA StepSimulation == IInv /\ [Next]_vars => [Abstract!Next]_Abstract!vars
<1> SUFFICES ASSUME IInv, [Next]_vars
             PROVE  \/ Abstract!Next
                    \/ masterId' = masterId /\ target' = target /\ gone' = gone
  BY DEF Abstract!vars, target, gone
<1> USE HandoverAssumption
<1>0. TypeOK
  BY DEF IInv
<1>1. ASSUME NEW u \in Ues, UeStep(u)
      PROVE  \/ Abstract!Next
             \/ masterId' = masterId /\ target' = target /\ gone' = gone
  <2>0. Attached(u) /\ Handing(u)
    BY DEF IInv, UeInv
  <2>1. CASE initialize(u)
    <3>1. target' = target /\ gone' = gone /\ u \notin gone
      BY <1>0, <2>0, <2>1
         DEF initialize, target, gone, Attached, TypeOK, holdVars
    <3>2. PICK c \in Cells : masterId' = [masterId EXCEPT ![u] = c]
      BY <2>1 DEF initialize
    <3>3. masterId[u] = NoCell
      BY <2>0, <2>1 DEF initialize, Attached
    <3>4. CASE c = NoCell
      BY <1>0, <3>1, <3>2, <3>3, <3>4 DEF TypeOK
    <3>5. CASE c \in Enbs
      <4>1. Abstract!Attach(u)
        BY <3>1, <3>2, <3>3, <3>5 DEF Abstract!Attach, target, gone
      <4> QED
        BY <4>1 DEF Abstract!Next
    <3> QED
      BY <3>4, <3>5 DEF Cells
  <2>2. CASE handoverHandler(u)
    <3>1. PICK rssi \in Rssi : \/ MasterStronger(u, rssi)
                               \/ MasterWeaker(u, rssi)
                               \/ \E c \in Enbs : NewCandidate(u, c, rssi)
      BY <2>2 DEF handoverHandler
    <3>2. Measured(u, rssi) /\ u \notin handoverTrigger
      BY <3>1 DEF MasterStronger, MasterWeaker, NewCandidate, Listening
    <3>3. \A v \in handoverTrigger :
            candidateMasterId'[v] = candidateMasterId[v]
      BY <1>0, <3>1, <3>2 DEF MasterStronger, MasterWeaker, NewCandidate, TypeOK
    <3> QED
      BY <3>2, <3>3 DEF Measured, target, gone, holdVars
  <2>3. CASE triggerHandover(u)
    <3>1. CASE masterId[u] = NoCell
      BY <2>3, <3>1 DEF triggerHandover, target, gone
    <3>2. CASE masterId[u] # NoCell
      <4>1. /\ candidateMasterId[u] \in Enbs \ {masterId[u]}
            /\ u \notin gone /\ u \notin handoverTrigger
        BY <2>0, <2>3 DEF triggerHandover, Attached, Handing, gone
      <4>2. target' = [target EXCEPT ![u] = candidateMasterId[u]]
        BY <2>3, <3>2, <4>1 DEF triggerHandover, target
      <4>3. target[u] = NoCell /\ masterId' = masterId /\ gone' = gone
        BY <2>3, <4>1 DEF triggerHandover, target, gone
      <4>4. Abstract!Start(u)
        BY <3>2, <4>1, <4>2, <4>3 DEF Abstract!Start, target, gone
      <4> QED
        BY <4>4 DEF Abstract!Next
    <3> QED
      BY <3>1, <3>2
  <2>4. CASE doHandover(u)
    <3>1. u \in handoverTrigger /\ candidateMasterId[u] \in Enbs
      BY <2>0, <2>4 DEF doHandover, Handing
    <3>2. target[u] = candidateMasterId[u] /\ target[u] # NoCell
      BY <3>1 DEF target
    <3>3. target' = [target EXCEPT ![u] = NoCell]
      BY <2>4 DEF doHandover, target
    <3>4. masterId' = [masterId EXCEPT ![u] = target[u]] /\ gone' = gone
      BY <2>4, <3>2 DEF doHandover, gone
    <3>5. Abstract!Finish(u)
      BY <3>2, <3>3, <3>4 DEF Abstract!Finish, target, gone
    <3> QED
      BY <3>5 DEF Abstract!Next
  <2>5. CASE fromIpUe(u) \/ findTrafficFlow(u) \/ handleFromUdpPgw(u)
    BY <2>5 DEF fromIpUe, findTrafficFlow, handleFromUdpPgw, target, gone,
       phyVars, holdVars
  <2>6. CASE shutdownLteStack(u)
    BY <1>0, <2>6 DEF shutdownLteStack, target, gone, TypeOK, phyVars, holdVars
  <2>7. CASE deleteModule(u)
    <3>1. target' = [target EXCEPT ![u] = NoCell]
      BY <1>0, <2>7 DEF deleteModule, target, TypeOK
    <3>2. gone' = gone \cup {u}
      BY <1>0, <2>7 DEF deleteModule, gone, TypeOK
    <3>3. masterId' = [masterId EXCEPT ![u] = NoCell]
      BY <2>7 DEF deleteModule
    <3>4. Abstract!Leave(u)
      BY <3>1, <3>2, <3>3 DEF Abstract!Leave, target, gone
    <3> QED
      BY <3>4 DEF Abstract!Next
  <2> QED
    BY <1>1, <2>1, <2>2, <2>3, <2>4, <2>5, <2>6, <2>7 DEF UeStep
<1>2. ASSUME NEW c \in Enbs, NEW u \in Ues, EnbStep(c, u)
      PROVE  masterId' = masterId /\ target' = target /\ gone' = gone
  BY <1>2 DEF EnbStep, fromIpEnb, returnToPgw, target, gone,
     receiveTunneledPacketOnHandover, phyVars, holdVars
<1>3. ASSUME NEW m \in x2Commands, receiveHandoverCommand(m)
      PROVE  masterId' = masterId /\ target' = target /\ gone' = gone
  BY <1>3 DEF receiveHandoverCommand, target, gone, phyVars, holdVars
<1>4. CASE UNCHANGED vars
  BY <1>4 DEF vars, target, gone, phyVars, holdVars
<1> QED
  BY <1>1, <1>2, <1>3, <1>4 DEF Next

(***************************************************************************)
(* The handover implements its abstract specification.                     *)
(***************************************************************************)
THEOREM Implementation == Spec => ImplementsServingCell
<1>1. Init => Abstract!Init
  BY DEF Init, Abstract!Init
<1>2. IInv /\ [Next]_vars => [Abstract!Next]_Abstract!vars
  BY StepSimulation
<1> QED
  BY <1>1, <1>2, Invariance, PTL DEF Spec, ImplementsServingCell, Abstract!Spec
=============================================================================

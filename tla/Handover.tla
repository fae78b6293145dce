------------------------------- MODULE Handover -------------------------------
(***************************************************************************)
(* The handover of a UE between eNBs: the measurements of LtePhyUe, the    *)
(* tables of LteBinder, LteAmc and LteCellInfo that say which cell serves  *)
(* the UE, the commands of LteHandoverManager over X2, and the holding and *)
(* forwarding of packets in IP2lte.                                        *)
(*                                                                         *)
(* A car's UE appears when the manager creates its module, measures the    *)
(* broadcasts of the eNBs, and is taken down by shutdownLteStack() and the *)
(* deletion of the module, in the middle of a handover too.  eNBs are      *)
(* permanent and only they broadcast, so the code's guards against a       *)
(* missing or foreign candidate are never taken.  Of a queue only whether  *)
(* it holds something is kept, of a wire whether something is on it.       *)
(***************************************************************************)
EXTENDS Integers, Sequences

CONSTANTS
  Ues,               \* the cars' modems; a node id is used once
  Enbs,
  NoCell,            \* MacNodeId 0, or any number that is no node's
  X2Peers,           \* eNB -> the eNBs its x2App[0], x2App[1], ... connect to
  Rssi               \* readings in dB

Cells == Enbs \cup {NoCell}

(***************************************************************************)
(* A reading is a multiple of hysteresisFactor_, so that the threshold is  *)
(* exact.                                                                  *)
(***************************************************************************)
HysteresisFactor == 10

ASSUME HandoverAssumption ==
  /\ NoCell \notin Enbs
  /\ X2Peers \in [Enbs -> Seq(Enbs)]
  /\ \A c \in Enbs : X2Peers[c] # <<>>
  /\ Rssi \subseteq Int

VARIABLES
  stage,                 \* absent, running, shutdown, deleted
  masterId,              \* LtePhyUe
  candidateMasterId,
  currentMasterRssi,
  candidateMasterRssi,
  hysteresisTh,
  handoverStarter,       \* UEs whose handoverStarter_ is scheduled
  handoverTrigger,       \* UEs whose handoverTrigger_ is scheduled
  ueHold,                \* IP2lte of the UE: uplink packets are held
  ueHoldFromIp,          \* ... and there are some
  nextHop,               \* LteBinder
  macNodeIdToIPAddress,
  ueHandoverTriggered,
  amc,                   \* eNB -> UEs its AMC is attached to, UL and DL
  lambdaMap,             \* eNB -> UEs in its LteCellInfo
  hoForwarding,          \* IP2lte of an eNB: UE -> eNB to forward to
  hoHolding,             \* eNB -> UEs whose packets it holds
  hoFromX2,              \* eNB -> UEs it has tunnelled packets for
  x2Commands,            \* handover commands on the X2 links
  backhaul,              \* downlink packets from the PGW to an eNB
  returned,              \* downlink packets sent back to the PGW
  tunnel,                \* downlink packets between two eNBs
  aborted                \* an uncaught exception has ended the run

phyVars == <<masterId, candidateMasterId, currentMasterRssi,
             candidateMasterRssi, hysteresisTh, handoverStarter>>
holdVars == <<handoverTrigger, ueHold, ueHandoverTriggered>>
cellVars == <<nextHop, macNodeIdToIPAddress, amc, lambdaMap>>
x2Vars == <<hoForwarding, hoHolding, x2Commands>>
wireVars == <<backhaul, returned, tunnel>>

vars == <<stage, phyVars, holdVars, ueHoldFromIp, cellVars, x2Vars, hoFromX2,
          wireVars, aborted>>

Command == [to : Enbs, at : Enbs, ue : Ues, start : BOOLEAN]

Init ==
  /\ stage = [u \in Ues |-> "absent"]
  /\ masterId = [u \in Ues |-> NoCell]
  /\ candidateMasterId = [u \in Ues |-> NoCell]
  /\ currentMasterRssi = [u \in Ues |-> 0]
  /\ candidateMasterRssi = [u \in Ues |-> 0]
  /\ hysteresisTh = [u \in Ues |-> 0]
  /\ handoverStarter = {}
  /\ handoverTrigger = {}
  /\ ueHold = {}
  /\ ueHoldFromIp = {}
  /\ nextHop = [u \in Ues |-> NoCell]
  /\ macNodeIdToIPAddress = {}
  /\ ueHandoverTriggered = {}
  /\ amc = [c \in Enbs |-> {}]
  /\ lambdaMap = [c \in Enbs |-> {}]
  /\ hoForwarding = [c \in Enbs |-> [u \in Ues |-> NoCell]]
  /\ hoHolding = [c \in Enbs |-> {}]
  /\ hoFromX2 = [c \in Enbs |-> {}]
  /\ x2Commands = {}
  /\ backhaul = {}
  /\ returned = {}
  /\ tunnel = {}
  /\ aborted = FALSE
-----------------------------------------------------------------------------
(***************************************************************************)
(* Attachment tables: a UE is taken out of the cell `from' and put into    *)
(* the cell `to', where NoCell stands for no module.                       *)
(***************************************************************************)
Moved(table, u, from, to) ==
  [c \in Enbs |-> IF c = to THEN table[c] \cup {u}
                  ELSE IF c = from THEN table[c] \ {u}
                  ELSE table[c]]

DetachedEverywhere(table, u) == [c \in Enbs |-> table[c] \ {u}]

updateHysteresisTh(v) == v \div HysteresisFactor

(***************************************************************************)
(* initialize() of the UE's modules.  The scan keeps the cell with the     *)
(* largest reading above 0; when there is none candidateMasterId_ is read  *)
(* uninitialized.  Without an eNB of that id the MAC stops before it       *)
(* attaches to the AMC and before it registers the IP address.  The        *)
(* threshold stays 0: the result of updateHysteresisTh() is not stored.    *)
(***************************************************************************)
initialize(u) ==
  /\ ~ aborted /\ stage[u] = "absent"
  /\ stage' = [stage EXCEPT ![u] = "running"]
  /\ \E c \in Cells, rssi \in {r \in Rssi : r > 0} \cup {0} :
       /\ rssi > 0 => c \in Enbs
       /\ masterId' = [masterId EXCEPT ![u] = c]
       /\ candidateMasterId' = [candidateMasterId EXCEPT ![u] = c]
       /\ currentMasterRssi' = [currentMasterRssi EXCEPT ![u] = rssi]
       /\ candidateMasterRssi' = [candidateMasterRssi EXCEPT ![u] = rssi]
       /\ nextHop' = [nextHop EXCEPT ![u] = c]
       /\ amc' = Moved(amc, u, NoCell, c)
       /\ lambdaMap' = Moved(lambdaMap, u, NoCell, c)
       /\ macNodeIdToIPAddress' = IF c \in Enbs
                                  THEN macNodeIdToIPAddress \cup {u}
                                  ELSE macNodeIdToIPAddress
  /\ UNCHANGED <<hysteresisTh, handoverStarter, holdVars, ueHoldFromIp,
                 x2Vars, hoFromX2, wireVars, aborted>>

(***************************************************************************)
(* handoverHandler(): a broadcast of eNB c read at rssi.  Broadcasts are   *)
(* ignored while a handover is under way (handleAirFrame()).  The PHY is   *)
(* not told of shutdownLteStack() and hears them until it is deleted.      *)
(***************************************************************************)
(* Mutant: the threshold alone decides.                                    *)
AboveThreshold(u, rssi) == rssi > hysteresisTh[u]
Better(u, rssi) == rssi > candidateMasterRssi[u] + hysteresisTh[u]

(* Mutant: broadcasts are heard during a handover as well.                 *)
AlwaysListening(u) == ~ aborted /\ stage[u] \in {"running", "shutdown"}
Listening(u) ==
  /\ ~ aborted /\ stage[u] \in {"running", "shutdown"}
  /\ u \notin handoverTrigger

Measured(u, rssi) ==
  /\ candidateMasterRssi' = [candidateMasterRssi EXCEPT ![u] = rssi]
  /\ hysteresisTh' = [hysteresisTh EXCEPT ![u] = updateHysteresisTh(rssi)]
  /\ UNCHANGED <<stage, masterId, holdVars, ueHoldFromIp, cellVars, x2Vars,
                 hoFromX2, wireVars, aborted>>

(* Mutant: without cancelEvent(handoverStarter_).                          *)
NoCancel(u) == handoverStarter
CancelledStarter(u) == handoverStarter \ {u}

MasterStronger(u, rssi) ==
  /\ Listening(u)
  /\ masterId[u] \in Enbs /\ Better(u, rssi)
  /\ currentMasterRssi' = [currentMasterRssi EXCEPT ![u] = rssi]
  /\ candidateMasterId' = [candidateMasterId EXCEPT ![u] = masterId[u]]
  /\ handoverStarter' = CancelledStarter(u)
  /\ Measured(u, rssi)

MasterWeaker(u, rssi) ==
  /\ Listening(u)
  /\ masterId[u] \in Enbs /\ ~ Better(u, rssi)
  /\ currentMasterRssi' = [currentMasterRssi EXCEPT ![u] = rssi]
  /\ UNCHANGED <<candidateMasterId, handoverStarter>>
  /\ Measured(u, rssi)

NewCandidate(u, c, rssi) ==
  /\ Listening(u)
  /\ c # masterId[u] /\ Better(u, rssi)
  /\ candidateMasterId' = [candidateMasterId EXCEPT ![u] = c]
  /\ handoverStarter' = handoverStarter \cup {u}
  /\ UNCHANGED currentMasterRssi
  /\ Measured(u, rssi)

handoverHandler(u) ==
  \E rssi \in Rssi : \/ MasterStronger(u, rssi)
                     \/ MasterWeaker(u, rssi)
                     \/ \E c \in Enbs : NewCandidate(u, c, rssi)
-----------------------------------------------------------------------------
(***************************************************************************)
(* sendHandoverCommand() and LteX2Manager::fromStack(): the output gate is *)
(* x2InterfaceTable_[to], and operator[] gives gate 0 to an eNB that is    *)
(* not in the table.  The receiver does not look at the destination.       *)
(***************************************************************************)
Linked(c, d) == \E i \in DOMAIN X2Peers[c] : X2Peers[c][i] = d

(* Mutant: every command leaves through gate 0.                            *)
GateZero(c, to) == X2Peers[c][1]
(* Mutant: a command comes back to the eNB that sent it.                   *)
LoopedBack(c, to) == c
fromStack(c, to) == IF Linked(c, to) THEN to ELSE X2Peers[c][1]

sendHandoverCommand(c, u, to, startHo) ==
  {[to |-> to, at |-> fromStack(c, to), ue |-> u, start |-> startHo]}

(***************************************************************************)
(* handoverLatency_ (50 ms) and the broadcast interval (1 s) are longer    *)
(* than an X2 command takes: none about a UE is on its way when a timer of *)
(* its handover fires.                                                     *)
(***************************************************************************)
TimersOutlastWires(u) == \A m \in x2Commands : m.ue # u

(***************************************************************************)
(* triggerHandover().  A UE without a cell holds its uplink packets and    *)
(* gives up: nothing clears ueHold_.                                       *)
(***************************************************************************)
triggerHandover(u) ==
  /\ ~ aborted /\ u \in handoverStarter
  /\ TimersOutlastWires(u)
  /\ handoverStarter' = handoverStarter \ {u}
  /\ ueHold' = ueHold \cup {u}
  /\ IF masterId[u] = NoCell
     THEN UNCHANGED <<ueHandoverTriggered, hoForwarding, x2Commands,
                      handoverTrigger>>
     ELSE /\ ueHandoverTriggered' = ueHandoverTriggered \cup {u}
          /\ hoForwarding' = [hoForwarding EXCEPT ![masterId[u]][u] =
                                                        candidateMasterId[u]]
          /\ x2Commands' = x2Commands \cup
               sendHandoverCommand(masterId[u], u, candidateMasterId[u], TRUE)
          /\ handoverTrigger' = handoverTrigger \cup {u}
  /\ UNCHANGED <<stage, masterId, candidateMasterId, currentMasterRssi,
                 candidateMasterRssi, hysteresisTh, ueHoldFromIp, cellVars,
                 hoHolding, hoFromX2, wireVars, aborted>>

(***************************************************************************)
(* doHandover(): the tables move to the candidate, except that the next    *)
(* hop is unregistered and not registered anew.  The UE sends what it      *)
(* held; the target tells the source and sends down what it was tunnelled, *)
(* of every UE.                                                            *)
(***************************************************************************)
(* Mutant: the user is not detached from the old cell.                     *)
AttachOnly(table, u, from, to) ==
  [c \in Enbs |-> IF c = to THEN table[c] \cup {u} ELSE table[c]]
HandedOver(table, u, from, to) == Moved(table, u, from, to)

(* Mutant: unregisterNextHop() with its arguments mixed up.                *)
SwappedIds(u) == [nextHop EXCEPT ![u] = u]
unregisterNextHop(u) == [nextHop EXCEPT ![u] = NoCell]

(* Mutant: signalHandoverCompleteUe() keeps on holding.                    *)
StillHeld(u) == ueHold
ReleasedHold(u) == ueHold \ {u}

doHandover(u) ==
  LET old == masterId[u]
      new == candidateMasterId[u]
  IN
  /\ ~ aborted /\ u \in handoverTrigger
  /\ TimersOutlastWires(u)
  /\ handoverTrigger' = handoverTrigger \ {u}
  /\ amc' = HandedOver(amc, u, old, new)
  /\ nextHop' = unregisterNextHop(u)
  /\ lambdaMap' = HandedOver(lambdaMap, u, old, new)
  /\ masterId' = [masterId EXCEPT ![u] = new]
  /\ currentMasterRssi' = [currentMasterRssi EXCEPT
                                            ![u] = candidateMasterRssi[u]]
  /\ hysteresisTh' = [hysteresisTh EXCEPT
                          ![u] = updateHysteresisTh(candidateMasterRssi[u])]
  /\ ueHandoverTriggered' = ueHandoverTriggered \ {u}
  /\ ueHold' = ReleasedHold(u)
  /\ ueHoldFromIp' = ueHoldFromIp \ {u}
  /\ x2Commands' = x2Commands \cup sendHandoverCommand(new, u, old, FALSE)
  /\ hoFromX2' = [hoFromX2 EXCEPT ![new] = {}]
  /\ hoHolding' = [hoHolding EXCEPT ![new] = @ \ {u}]
  /\ UNCHANGED <<stage, candidateMasterId, candidateMasterRssi,
                 handoverStarter, macNodeIdToIPAddress, hoForwarding,
                 wireVars, aborted>>

(***************************************************************************)
(* receiveHandoverCommand(): triggerHandoverTarget() or                    *)
(* signalHandoverCompleteSource().                                         *)
(***************************************************************************)
(* Mutant: the end of a handover is not acted upon.                        *)
KeepForwarding(m) == hoForwarding
signalHandoverCompleteSource(m) == [hoForwarding EXCEPT ![m.at][m.ue] = NoCell]

receiveHandoverCommand(m) ==
  /\ ~ aborted /\ m \in x2Commands
  /\ x2Commands' = x2Commands \ {m}
  /\ IF m.start
     THEN /\ hoHolding' = [hoHolding EXCEPT ![m.at] = @ \cup {m.ue}]
          /\ UNCHANGED hoForwarding
     ELSE /\ hoForwarding' = signalHandoverCompleteSource(m)
          /\ UNCHANGED hoHolding
  /\ UNCHANGED <<stage, phyVars, holdVars, ueHoldFromIp, cellVars, hoFromX2,
                 wireVars, aborted>>
-----------------------------------------------------------------------------
(***************************************************************************)
(* Packets.  fromIpUe(): an uplink packet during a handover is held.       *)
(***************************************************************************)
fromIpUe(u) ==
  /\ ~ aborted /\ stage[u] = "running" /\ u \in ueHold
  /\ ueHoldFromIp' = ueHoldFromIp \cup {u}
  /\ UNCHANGED <<stage, phyVars, holdVars, cellVars, x2Vars, hoFromX2,
                 wireVars, aborted>>

(***************************************************************************)
(* The PGW sends a packet for a registered address to the next hop of its  *)
(* node; flow 0 is delivered locally, at the PGW, and is lost.             *)
(***************************************************************************)
findTrafficFlow(u) ==
  /\ ~ aborted /\ u \in macNodeIdToIPAddress /\ nextHop[u] \in Enbs
  /\ backhaul' = backhaul \cup {<<nextHop[u], u>>}
  /\ UNCHANGED <<stage, phyVars, holdVars, ueHoldFromIp, cellVars, x2Vars,
                 hoFromX2, returned, tunnel, aborted>>

(***************************************************************************)
(* fromIpEnb(), after the eNB's GTP module has found itself to be the next *)
(* hop.  Forwarding to an eNB with no X2 link sends to an unspecified      *)
(* address, which UDP refuses with an exception.  The branch for packets   *)
(* of a UE in hoHolding_ is never taken, see NotHeldWhereRouted; the       *)
(* others go to the stack.                                                 *)
(***************************************************************************)
fromIpEnb(c, u) ==
  LET target == hoForwarding[c][u] IN
  /\ ~ aborted /\ <<c, u>> \in backhaul
  /\ u \in macNodeIdToIPAddress /\ nextHop[u] = c
  /\ backhaul' = backhaul \ {<<c, u>>}
  /\ tunnel' = IF target # NoCell /\ Linked(c, target)
               THEN tunnel \cup {<<target, u>>}
               ELSE tunnel
  /\ aborted' = (target # NoCell /\ ~ Linked(c, target))
  /\ UNCHANGED <<stage, phyVars, holdVars, ueHoldFromIp, cellVars, x2Vars,
                 hoFromX2, returned>>

(***************************************************************************)
(* handleFromUdp() at an eNB that is not the next hop: back to the PGW.    *)
(* The PGW drops a packet for an unknown address, and asks for the name of *)
(* the next hop's module otherwise: node 0 has none, an exception.         *)
(***************************************************************************)
returnToPgw(c, u) ==
  /\ ~ aborted /\ <<c, u>> \in backhaul
  /\ ~ (u \in macNodeIdToIPAddress /\ nextHop[u] = c)
  /\ backhaul' = backhaul \ {<<c, u>>}
  /\ returned' = returned \cup {u}
  /\ UNCHANGED <<stage, phyVars, holdVars, ueHoldFromIp, cellVars, x2Vars,
                 hoFromX2, tunnel, aborted>>

handleFromUdpPgw(u) ==
  LET known == u \in macNodeIdToIPAddress IN
  /\ ~ aborted /\ u \in returned
  /\ returned' = returned \ {u}
  /\ backhaul' = IF known /\ nextHop[u] \in Enbs
                 THEN backhaul \cup {<<nextHop[u], u>>}
                 ELSE backhaul
  /\ aborted' = (known /\ nextHop[u] \notin Enbs)
  /\ UNCHANGED <<stage, phyVars, holdVars, ueHoldFromIp, cellVars, x2Vars,
                 hoFromX2, tunnel>>

receiveTunneledPacketOnHandover(c, u) ==
  /\ ~ aborted /\ <<c, u>> \in tunnel
  /\ tunnel' = tunnel \ {<<c, u>>}
  /\ hoFromX2' = IF u \in macNodeIdToIPAddress
                 THEN [hoFromX2 EXCEPT ![c] = @ \cup {u}]
                 ELSE hoFromX2
  /\ UNCHANGED <<stage, phyVars, holdVars, ueHoldFromIp, cellVars, x2Vars,
                 backhaul, returned, aborted>>
-----------------------------------------------------------------------------
(***************************************************************************)
(* shutdownLteStack() calls unregisterNode(): every AMC forgets the UE, and*)
(* so does the address table.  The PHY is not told: a timer of a handover  *)
(* may still fire before deleteSelf does.                                  *)
(***************************************************************************)
unregisterNode(u) ==
  /\ amc' = DetachedEverywhere(amc, u)
  /\ macNodeIdToIPAddress' = macNodeIdToIPAddress \ {u}

shutdownLteStack(u) ==
  /\ ~ aborted /\ stage[u] = "running"
  /\ stage' = [stage EXCEPT ![u] = "shutdown"]
  /\ unregisterNode(u)
  /\ UNCHANGED <<phyVars, holdVars, ueHoldFromIp, nextHop, lambdaMap, x2Vars,
                 hoFromX2, wireVars, aborted>>

(***************************************************************************)
(* deleteSelf: finish() of LtePhyUe and of IP2lte, then the modules and    *)
(* their timers are gone.  What the eNBs hold about the UE stays.          *)
(***************************************************************************)
(* Mutant: the module is deleted without callFinish().                     *)
NoFinish(u) == UNCHANGED cellVars
finish(u) ==
  /\ unregisterNode(u)
  /\ nextHop' = unregisterNextHop(u)
  /\ lambdaMap' = Moved(lambdaMap, u, masterId[u], NoCell)

deleteModule(u) ==
  /\ ~ aborted /\ stage[u] = "shutdown"
  /\ stage' = [stage EXCEPT ![u] = "deleted"]
  /\ finish(u)
  /\ masterId' = [masterId EXCEPT ![u] = NoCell]
  /\ candidateMasterId' = [candidateMasterId EXCEPT ![u] = NoCell]
  /\ currentMasterRssi' = [currentMasterRssi EXCEPT ![u] = 0]
  /\ candidateMasterRssi' = [candidateMasterRssi EXCEPT ![u] = 0]
  /\ hysteresisTh' = [hysteresisTh EXCEPT ![u] = 0]
  /\ handoverStarter' = handoverStarter \ {u}
  /\ handoverTrigger' = handoverTrigger \ {u}
  /\ ueHold' = ueHold \ {u}
  /\ ueHoldFromIp' = ueHoldFromIp \ {u}
  /\ UNCHANGED <<ueHandoverTriggered, x2Vars, hoFromX2, wireVars, aborted>>
-----------------------------------------------------------------------------
UeStep(u) ==
  \/ initialize(u) \/ handoverHandler(u) \/ triggerHandover(u) \/ doHandover(u)
  \/ fromIpUe(u) \/ findTrafficFlow(u) \/ handleFromUdpPgw(u)
  \/ shutdownLteStack(u) \/ deleteModule(u)

EnbStep(c, u) ==
  fromIpEnb(c, u) \/ returnToPgw(c, u) \/ receiveTunneledPacketOnHandover(c, u)

Next ==
  \/ \E u \in Ues : UeStep(u)
  \/ \E c \in Enbs, u \in Ues : EnbStep(c, u)
  \/ \E m \in x2Commands : receiveHandoverCommand(m)

Spec == Init /\ [][Next]_vars

(***************************************************************************)
(* Scheduled self-messages fire, X2 links and the backhaul deliver.        *)
(***************************************************************************)
Fairness ==
  /\ \A u \in Ues :
       WF_vars(triggerHandover(u)) /\ WF_vars(doHandover(u))
                                   /\ WF_vars(deleteModule(u))
  /\ \A m \in Command : WF_vars(receiveHandoverCommand(m))

FairSpec == Spec /\ Fairness
-----------------------------------------------------------------------------
TypeOK ==
  /\ stage \in [Ues -> {"absent", "running", "shutdown", "deleted"}]
  /\ masterId \in [Ues -> Cells]
  /\ candidateMasterId \in [Ues -> Cells]
  /\ currentMasterRssi \in [Ues -> Int]
  /\ candidateMasterRssi \in [Ues -> Int]
  /\ hysteresisTh \in [Ues -> Int]
  /\ handoverStarter \subseteq Ues
  /\ handoverTrigger \subseteq Ues
  /\ ueHold \subseteq Ues
  /\ ueHoldFromIp \subseteq Ues
  /\ nextHop \in [Ues -> Cells]
  /\ macNodeIdToIPAddress \subseteq Ues
  /\ ueHandoverTriggered \subseteq Ues
  /\ amc \in [Enbs -> SUBSET Ues]
  /\ lambdaMap \in [Enbs -> SUBSET Ues]
  /\ hoForwarding \in [Enbs -> [Ues -> Cells]]
  /\ hoHolding \in [Enbs -> SUBSET Ues]
  /\ hoFromX2 \in [Enbs -> SUBSET Ues]
  /\ x2Commands \subseteq Command
  /\ backhaul \subseteq Enbs \X Ues
  /\ returned \subseteq Ues
  /\ tunnel \subseteq Enbs \X Ues
  /\ aborted \in BOOLEAN

(***************************************************************************)
(* The assertion of triggerHandover(), for the whole of a handover: its    *)
(* candidate is an eNB and is not the serving cell, although broadcasts    *)
(* keep changing the candidate until the handover starts.                  *)
(***************************************************************************)
NeverToItself ==
  \A u \in handoverStarter \cup handoverTrigger :
    candidateMasterId[u] \in Enbs \ {masterId[u]}

(***************************************************************************)
(* A UE in service is in the AMC and in the cell information of its        *)
(* serving cell and of no other, through every sequence of handovers; and  *)
(* an eNB that admits its uplink frames (the next hop) is its serving cell.*)
(***************************************************************************)
OneServingCell ==
  \A u \in Ues : stage[u] = "running" =>
    /\ {c \in Enbs : u \in amc[c]} = {masterId[u]} \cap Enbs
    /\ {c \in Enbs : u \in lambdaMap[c]} = {masterId[u]} \cap Enbs
    /\ nextHop[u] \in Enbs => nextHop[u] = masterId[u]

(***************************************************************************)
(* A deleted UE is in no table that resource scheduling or routing reads,  *)
(* even when a handover completed, and attached it anew, between           *)
(* shutdownLteStack() and the deletion.                                    *)
(***************************************************************************)
DeletedLeavesNothing ==
  \A u \in Ues : stage[u] = "deleted" =>
    /\ \A c \in Enbs : u \notin amc[c] /\ u \notin lambdaMap[c]
    /\ u \notin macNodeIdToIPAddress
    /\ nextHop[u] = NoCell

(***************************************************************************)
(* The three places that know of a handover agree: the PHY's timer, the    *)
(* binder's list, and IP2lte holding uplink packets.  Only a UE that found *)
(* no cell when it was created may hold packets without a handover.        *)
(***************************************************************************)
HoldsAreReleased ==
  \A u \in Ues : stage[u] = "running" =>
    /\ u \in handoverTrigger <=> u \in ueHandoverTriggered
    /\ u \in handoverTrigger => u \in ueHold
    /\ u \in ueHold => u \in handoverTrigger \/ masterId[u] = NoCell
    /\ u \in ueHoldFromIp => u \in ueHold

(***************************************************************************)
(* Only the cell a UE is handing over to holds packets for it.             *)
(***************************************************************************)
OnlyTheTargetHolds ==
  \A c \in Enbs : \A u \in hoHolding[c] : stage[u] = "running" =>
    u \in handoverTrigger /\ candidateMasterId[u] = c

(***************************************************************************)
(* A cell forwards the packets of a UE in service only while that UE hands *)
(* over from it to the cell it forwards to, or until the target's message  *)
(* that the handover is complete arrives.                                  *)
(***************************************************************************)
ForwardingIsTransient ==
  \A c \in Enbs, u \in Ues :
    stage[u] = "running" /\ hoForwarding[c][u] # NoCell =>
      \/ /\ u \in handoverTrigger /\ masterId[u] = c
         /\ candidateMasterId[u] = hoForwarding[c][u]
      \/ \E m \in x2Commands : m.at = c /\ m.ue = u /\ ~ m.start

(***************************************************************************)
(* No eNB is the next hop of a UE whose packets it holds: the branch of    *)
(* fromIpEnb() that queues packets coming from the core network is dead.   *)
(***************************************************************************)
NotHeldWhereRouted ==
  \A c \in Enbs : \A u \in hoHolding[c] : nextHop[u] # c

(***************************************************************************)
(* As long as the serving cell is read at 0 dB or more, a reading has to   *)
(* beat that of the serving cell to replace the candidate.                 *)
(***************************************************************************)
CandidateOutranksMaster ==
  \A u \in Ues : currentMasterRssi[u] >= 0 =>
    candidateMasterRssi[u] >= currentMasterRssi[u]

(***************************************************************************)
(* Every handover ends: the source stops forwarding and the UE stops       *)
(* holding, unless the car leaves or the run is aborted meanwhile.         *)
(***************************************************************************)
HandoverEnds ==
  \A u \in Ues :
    (u \in handoverTrigger) ~>
      \/ /\ \A c \in Enbs : hoForwarding[c][u] = NoCell
         /\ u \notin ueHold
      \/ stage[u] # "running"
      \/ aborted

(***************************************************************************)
(* The handover implements the abstract one: LtePhyUe's master is the      *)
(* serving cell, the candidate of a triggered handover the target.         *)
(***************************************************************************)
Abstract == INSTANCE ServingCell WITH
  serving <- masterId,
  target <- [u \in Ues |-> IF u \in handoverTrigger THEN candidateMasterId[u]
                                                    ELSE NoCell],
  gone <- {u \in Ues : stage[u] = "deleted"}

ImplementsServingCell == Abstract!Spec

(***************************************************************************)
(* LteBinder.h: registerNextHop() "is also called on handovers to          *)
(* synchronize the nextHop table": the next hop of a UE is its serving     *)
(* cell.                                                                   *)
(***************************************************************************)
NextHopSynchronised ==
  \A u \in Ues : stage[u] = "running" => nextHop[u] = masterId[u]
=============================================================================

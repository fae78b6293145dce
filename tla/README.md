# Verification of the V2N rerouting simulation

This directory models the part of the repository that is its own: the route
server, the vehicle application, the loop the two form over LTE, the scenario
manager that creates and releases vehicle modules, and the LTE handover with the
tables the repository patched to survive vehicles that leave. The models are TLA+
modules, checked with TLC on small instances; every safety property of the passing
runs is also proved with TLAPS for every value of the constants.

## The system

SUMO moves the vehicles. Veins' `TraCIScenarioManager` advances SUMO once per
update interval and keeps one OMNeT++ host module per *equipped* vehicle. Every
host runs a `VehicleApp`, which reports the vehicle's edge, speed and destination
to the `TrafficServer` over UDP on SimuLTE's LTE stack. The server keeps traffic
statistics per edge and answers now and then with a route; the application asks
SUMO, through TraCI, to follow it.

Everything runs in one thread, under the OMNeT++ event loop. Concurrency is the
order of events: the manager's time step, each application's report timer, the
server's two timers, packets in flight, and self-messages scheduled for the same
instant. What is hard here is that three parties hold views of one vehicle (SUMO,
the manager's `hosts`, the application), that packets take time and may be lost,
and that a module can only be deleted by a deferred message to itself.

| Component | State | Operations | Interacts with |
|---|---|---|---|
| Route server (`TrafficServer.cc`) | `traffic`, `vehicleMap`, `lastRouteSent`, `lastRouteEdge`, `rerouteCountThisSecond`, two timers | `socketDataArrived`, `sendRoute`, `decayEdgeInfo`, counter reset | reports in, routes out |
| Edge costs and Dijkstra (`TrafficServer.cc`) | local to a call | `getEdgeWeight`, `dijkstra` | called for each route |
| Vehicle application (`VehicleApp.cc`) | `isEquipped`, statistics, `statsWritten`, `deleteScheduled`, report timer | `sendReport`, `socketDataArrived`, `writeStatsRow`, `shutdownLteStack`, `deleteSelf`, `finish` | manager's map, TraCI, server, LTE binder and MAC |
| Scenario manager (`TraCIScenarioManager.cc`) | `hosts`, `unEquippedHosts`, `subscribedVehicles`, `activeVehicleCount`, `nextNodeVectorIndex` | `executeOneTimestep`, `processSimSubscription`, `processVehicleSubscription`, `addModule`, `deleteManagedModule`, `preNetworkFinish` | SUMO, host modules |
| TraCI commands | none | `changeTarget`, `changeVehicleRoute`, `query` | SUMO |
| Net file parsers | edge index tables | `parseNetXml`, `parseEdgeIndex` | server and application each number the edges |
| Self-rerouting application (`VehicleReRouteApp.cc`) | own timer and index | edge check loop, one reroute | TraCI |
| LTE binder, AMC, cell information (SimuLTE, patched) | `nextHop_`, `macNodeIdToIPAddress_`, `ueHandoverTriggered_`, attached users | `registerNode`, `unregisterNode`, `unregisterNextHop`, `attachUser`, `detachUser` | PHY and IP2lte of every node |
| LTE handover (`LtePhyUe`, `LteHandoverManager`, `LteX2Manager`, `IP2lte`, `GtpUserSimplified`) | serving and candidate cell, readings, two timers, `hoForwarding_`, `hoHolding_`, held and tunnelled packets | `handoverHandler`, `triggerHandover`, `doHandover`, X2 commands, holding and forwarding | binder tables, eNBs over X2, the PGW |
| Message serializers, INET, Veins, scripts | | | |

What makes each of them correct:

* server: two routes to one vehicle are spaced by `rerouteInterval`; the number
  of routes per second is bounded; the statistics of an edge are consistent and
  forget an edge that has gone quiet;
* search: it ends, with a shortest path; noise never makes congestion attractive;
* application: no query for a vehicle that is gone, one statistics row, an orderly
  teardown, and a module that is really deleted in the end;
* loop: rerouting never loses the destination, never leaves an undrivable plan and
  never fails silently;
* handover: one cell serves a UE and every table says so; what is held or forwarded
  for a handover ends with it; a vehicle that leaves half-way leaves nothing behind;
* manager: its count of active vehicles is SUMO's, `hosts` and `unEquippedHosts`
  partition the traffic, and the penetration rate is met.

## Modules

| Module | Models | Extends |
|---|---|---|
| `RoadNetwork` | the graph both parsers read, its loop-free paths, what `dijkstra()` may return | |
| `TrafficServer` | the route server and its timers | `RoadNetwork` |
| `Dijkstra` | one call of `dijkstra()`, and `getEdgeWeight()` | `RoadNetwork` |
| `V2NSystem` | vehicles and server over an unreliable network | `TrafficServer` |
| `ScenarioManager` | the TraCI time step | |
| `VehicleApp` | the life of host modules under the manager | `ScenarioManager` |
| `ServingCell` | abstract: what a handover promises the layers above | |
| `Handover` | measurements, tables, X2 commands and packets of LTE handovers | |
| `RoadNetworkProofs` | lemmas about paths and sums along them, and induction on natural numbers | `RoadNetwork` |
| `TrafficServerProofs`, `V2NSystemProofs`, `DijkstraProofs`, `VehicleAppProofs`, `HandoverProofs` | theorems | the module of that name |
| `MC*` | constants and symmetry sets for TLC | the module of that name |

Actions carry the names of the handlers they model. Operators marked *Mutant* in
the modules are deliberately wrong variants of the definition that follows them;
no specification uses them. Each is a plausible bug, and each property is known
to fail when the right definition is replaced by its mutant.

### TrafficServer

One action `socketDataArrived(k, r)` is the whole handler. A report with an index
out of range is dropped. Otherwise it updates the edge (`UpdateTraffic`), registers
the sender, and then `Decide` has one disjunct per way out: at the destination or
not due, limited, unroutable (nothing is remembered, so the next report tries
again), too short a trip (remembered, nothing sent), or answered. `decayEdgeInfo`
and `rerouteCounterReset` are the timers.

* Instants are ages in ticks, saturating where the code stops telling them apart:
  `lastRouteSent` is only compared with `rerouteInterval`. `Tick` may not pass a
  timer that is due. Reports and timers of one instant come in any order.
* An EWMA is any integer between its arguments. `avgSpeed`, `realTravelTime` and
  the distances are integers; `REAL_TT_MIN_SEC` is 0, so that one unit is kept.
* Dijkstra's answer is any loop-free path: which one depends on weights, and no
  property of this module does. Module `Dijkstra` shows that the search returns
  such a path.
* `routeAge`, `routeGap` and `recent` are history: the code never reads them.
* `lastUpdate`, the age of information, only matters to weights and is in `Dijkstra`.

### V2NSystem

`reports` and `routes` are the packets in flight. Delivery picks any of them, so
packets overtake each other; `LoseReport` and `LoseRoute` drop them. The vehicle
moves through `EnterJunction` and `LeaveJunction` meanwhile, so a route can arrive
on the edge it was computed for, further along it, off it, or inside a junction.
`DeliverRoute` is `VehicleApp::socketDataArrived()`: the route is cut at the
current edge and applied, or the last edge received becomes the target. The
length and index checks of that handler cannot fail for packets the server
builds, and neither can the checks inside `changeVehicleRoute()` after the cut.
`changeTarget` may be refused by SUMO; the handler swallows that exception.
A vehicle at its destination stays there, since departure is the subject of
`VehicleApp`. Every vehicle here is equipped. `cut` is history: the vehicles that
were sent a route shorter than the way it was computed for.

### Dijkstra

`Search` is one turn of the loop, `Trace` one step of reading back `prev`. All
choices of edge states and noise are initial states; traffic cannot change during
the call. Ratios are percentages rounded down, the hash behind the noise is
replaced by any noise within its range, and `exp(-0.1 * aoi)` by a percentage.
`Infinity` is greater than every distance (`Closer`), as the code's is: no bound on
weights or on the length of a path is assumed. The reference is `PathWeight`, the sum
of the weights along a path, and `ShortestPaths`, the minimum over all loop-free paths.

### ScenarioManager

A time step is one kernel event with internal order, so it is split into SUMO's
own step, the simulation subscription, the id list, and one action per vehicle
result, while `stage` keeps other events out. SUMO is external: vehicles depart,
teleport, return and arrive; several of these may happen in one step, a teleport
may start and end in one. Assumed of SUMO: a teleport ends before the vehicle
arrives. Which vehicles may teleport (`Teleporters`) and which may leave the region of
interest and re-enter it (`Wanderers`) are constants; the others depart, drive and
arrive. Left out:
`init_traci()`, traffic lights, parking and collision lists (no scenario uses
them), automatic shutdown (off), buffer decoding.

### VehicleApp

The manager composed with one application per module. `initialize` happens within
`addModule`; `sendReportGone` and `sendReport` are the two outcomes of the timer;
`deleteSelf` is the deferred deletion; `finish` the end of the run. The server is
reduced to "a report may be answered at some later time". `aborted` is an
exception that leaves the event loop. `binderNodes` and `ttiTicking` stand for
what `shutdownLteStack()` takes down; `Handover` has their detail.

### Handover

| State | Code |
|---|---|
| `masterId`, `candidateMasterId`, the readings, `handoverStarter`, `handoverTrigger` | `LtePhyUe` of each UE |
| `ueHold`, `ueHoldFromIp` | `IP2lte` of the UE |
| `nextHop`, `macNodeIdToIPAddress`, `ueHandoverTriggered` | `LteBinder` |
| `amc`, `lambdaMap` | `LteAmc` and `LteCellInfo` of each eNB |
| `hoForwarding`, `hoHolding`, `hoFromX2` | `IP2lte` of each eNB |
| `x2Commands`, `backhaul`, `returned`, `tunnel` | messages on the wires |

A broadcast has three outcomes (`MasterStronger`, `MasterWeaker`, `NewCandidate`)
beside the one that changes nothing. `triggerHandover` and `doHandover` are the two
timers, 10 us and 50 ms after what schedules them; `receiveHandoverCommand` is the
arrival of an X2 message. Downlink packets go from the PGW to the next hop, on to
the target over the tunnel, or back to the PGW when the next hop has changed.
`shutdownLteStack` and `deleteModule` are what `VehicleApp` does to a UE whose car
has left; a timer may fire and a broadcast be heard between the two, because the PHY
is not told.

* Readings are integers in dB, the threshold is a tenth of one, rounded down.
  `candidateMasterId_` is not initialized: without a cell above 0 dB the UE starts
  with an arbitrary one, an eNB or none.
* eNBs are permanent, and only they broadcast, so those exits of `doHandover()` that
  concern a missing or foreign candidate are never taken and have no action.
* A queue or wire keeps only which UEs have something on it. The order of packets
  within one is not modelled.
* `TimersOutlastWires` is an assumption on time: no X2 command about a UE is under
  way when a timer of its handover fires. The command was sent 50 ms (the latency)
  or at least a broadcast interval (1 s) before, over a link with no delay of its own.
* Throwing is modelled by `aborted`: forwarding over a missing X2 link (UDP refuses
  an unspecified address) and the PGW asking for the name of node 0.
* UEs meet in one place only, the flush of `hoFromX2`, where a handover's end sends
  down the tunnelled packets of every UE.

`ServingCell` says what remains when all of that is hidden: attach, start towards
one target, finish at that target, leave.

## Runs

| Run | Checks | Instance |
|---|---|---|
| `RouteServer` | `TypeOK`, `RouteSpacing`, `StaggerLimit` | two vehicles, three edges with unreachable, short and long trips, long ones from two of them, and an index out of range; limit 1, rerouting interval of 3 ticks, limiter window of 4: bursts before and after a reset |
| `ServerStatistics` | `EdgeStatisticsAgree`, `QuietEdgeForgotten` | one vehicle, speeds 0 and 2, times unknown, short, long and outlying; up to 3 counted reports |
| `Rerouting` | `SystemTypeOK`, `DestinationKept`, `NoSilentFailure`, `PlanIsDrivable` | a diamond with a tail, one vehicle, three reports, packets of three edges: routes from the first edge are cut, later ones are not; targets get refused |
| `ShortestPath` | `ReturnsShortestPath`, `SettledIsFinal`, `CongestionNeverCheaper`, `NoTurnIsWasted`, `Terminates` | four edges, two ways, two cycles; three states per edge, noise at both ends |
| `Lifecycle` | `TypeOK`, `ActiveCountMatches`, `HostsPartitionTraffic`, `PenetrationTracked`, `ManagedModulesAreAlive`, `NoDanglingNode`, `OneRowPerModule`, `OneRowPerVehicle`, `OnlyComebacksHaunt`, `DepartedModulesAreDeleted` | three vehicles at two thirds, one that may teleport, one that may leave the region, one that does neither; two modules, equipped or not, a report every two steps |
| `Handover` | `TypeOK`, `NeverToItself`, `OneServingCell`, `DeletedLeavesNothing`, `HoldsAreReleased`, `OnlyTheTargetHolds`, `ForwardingIsTransient`, `NotHeldWhereRouted`, `CandidateOutranksMaster`, `HandoverEnds`, `ImplementsServingCell` | one UE, three eNBs linked to each other, readings of -10, 10 and 20 dB |
| `LongRoutes` | `FallbackKeepsDestination`, violated | packets of two edges |
| `LockedEdge` | `LockedEdgePenalised`, violated | one report of a standing vehicle |
| `DepartedQuery` | `NeverQueriesDeparted`, violated | one vehicle, one module |
| `GhostReports` | `ReleasedModulesAreSilent`, violated | one vehicle, two modules |
| `NextHop` | `NextHopSynchronised`, violated | as `Handover` |
| `X2Links` | `OnlyTheTargetHolds`, violated | eNBs 1, 2, 5 and 9 with the X2 links of `Highway.ned` |

Why the bounds are enough: the server treats keys and edges alike, and its
decisions involve one key and the shared counter, so two keys show interference;
with an interval of 3 ticks and a window of 4 each key is due twice within a window,
so the two together could exceed a limit of one on both sides of a reset. `MaxCount` only bounds how
many reports are counted on one edge between decays; 3 reaches every rounding of
the decay factor that matters (a count that shrinks and one that vanishes).
`MaxReports` = 3 allows an outdated route, its successor and one after a fallback.
At two thirds, three vehicles are equipped, left out and equipped in turn, which
`Lifecycle` reaches before any release: a vehicle known as unequipped takes none of the
two modules `StepEvents` allows. Either two vehicles get one, or one vehicle gets both
by coming back. Modules only interact through the manager's map, entry by entry.
Three eNBs give a handover a source, a target and a cell that takes no part, and a
third cell to go to next; one UE is enough for everything but the shared flush, and
the theorems of `HandoverProofs` hold for any number.

`RouteServer` permutes keys: neither the code nor the constants tell them apart,
and it checks no liveness. `Handover` and its two violated runs may stop: a UE that
is deleted does nothing any more.

### Fairness

`FairSpec` of the server and of the vehicle application assumes weak fairness of
timers, deferred messages and the passage of time. That is the OMNeT++ kernel: a
scheduled event is executed once the clock reaches it, and the clock moves on when
nothing is left at the current instant. Nothing is assumed of packets, of which
reports arrive, of SUMO's events or of the end of the run. In `Dijkstra`, fairness
says that a call runs to its end. In `Handover` the two timers, the deletion and
each X2 command are weakly fair: the first three are scheduled self-messages, and
X2 links lose nothing. Broadcasts, packets and departures are not.

### What the violated properties show

1. **`NeverQueriesDeparted`** The departure check is in `sendReport()` only. A
   route that arrives between departure and the next report reaches
   `veh.getRoadId()` (`VehicleApp.cc:309`), outside any `try` block, for an id SUMO
   does not know; `TraCIConnection::query()` throws. `README.md:172` of the
   repository promises that TraCI is never touched then. Comments that the
   released module can no longer receive (`TraCIScenarioManager.cc:620`) concern
   Veins' own channel access; an LTE NIC is not registered there.
2. **`ReleasedModulesAreSilent`** The check asks whether the *id* is managed. After
   a teleport shorter than the report interval it is, under a new module, and the
   old module reports on beside it. Each of the two has its own
   `statsWritten` flag, so the vehicle also gets two rows, which are later joined
   on the SUMO id. `OnlyComebacksHaunt` and `OneRowPerVehicle` say that this
   happens to vehicles that teleport or re-enter the region of interest and to no other.
3. **`FallbackKeepsDestination`** Routes are cut after 64 edges, and the fallback
   makes the last edge received the target.
4. **`LockedEdgePenalised`** An average speed of exactly 0 is taken for "no data"
   and the edge weighs as a free one, where the comment promises the factor 1+K.
5. **`NextHopSynchronised`** `doHandover()` unregisters the next hop and nothing
   registers the new one. From its first handover on a UE has next hop 0: the PGW
   keeps its packets and no eNB takes its uplink frames, although AMC and cell
   information moved correctly (`OneServingCell`). `LteBinder.h:154` says that
   `registerNextHop()` is called on handovers.
6. **`OnlyTheTargetHolds`** holds when every pair of eNBs is linked, as the
   repository's `README.md:58` says of the scenario; `Highway.ned` has half of the
   links, and a command to an unlinked cell leaves through gate 0 and starts
   holding at whichever eNB is there. The target's message that the handover is
   complete goes astray the same way, so the source forwards on: with these links
   `ForwardingIsTransient` and `HandoverEnds` fail as well, and what `Handover` shows of
   the eNB side is for a full mesh. (`NotHeldWhereRouted` holds on this instance too.)

`DestinationKept` and `NoSilentFailure` are therefore stated, and proved, for
vehicles to which no route was cut (history variable `cut`); `PlanIsDrivable`
needs no such condition.

## Proofs

`TrafficServerProofs`: the inductive invariant is `TypeOK`, `EdgeStatisticsAgree`,
`RouteSpacing` and `DecisionFollowsRoute`. `RouteSpacing` is about the gap between
two routes and says nothing of a pending one; what makes it inductive is that
every route refreshed `lastRouteSent` and later decisions can only have refreshed
it again, so a key that is due had its last route at least an interval ago. With
`HYSTERESIS_PERCENT` at 100 the edge-change rule adds nothing to the time rule,
which is what lemma `DueIsSpaced` uses. The statistics need that truncation is
monotone (`DecayedMonotone`): the two counts decay separately but stay ordered.

`V2NSystemProofs` reuses that argument: a step of the composed system is, for the
server, a report from a vehicle, a timer, a packet leaving, or nothing
(`ServerPart`). On top, plans are paths (`PartOfPath`, `TailOfPath`,
`TruncatedPath`: parts of loop-free paths are loop-free paths) and begin where the
vehicle is. `DestinationIsKept` and `RoutesNeverFailSilently` strengthen the goal
by `PacketsKeepDestination`: reports and routes in flight agree on the destination
too, unless the vehicle was sent a cut route. The step that carries it is that a rest of the plan and a route between the
same ends show the target to be reachable, so SUMO does not refuse it.

`LoopImplementsServer` states the same as a refinement: every behaviour of the loop is
one of the server, with vehicles, packets and SUMO as its environment, and the limiter's
bound carries over. `ShortRoutesKeepDestinations` replaces the history variable `cut` by
a condition on the packets of one vehicle: as long as none of them is full
(`RoomLeft`), none was cut (`NeverCut`), and the vehicle keeps its destination and loses
no route silently, whatever the size of the network and the packets of the others.

The limiter (`RoutesAreStaggered`) is about a sum over the window of the last second,
written as the size of a set of pairs (`RoutesWithin`) so that the theorems about
cardinality apply. The counter alone says nothing of routes sent before its last
reset. `CounterCoversRoutes` adds what it does cover: routes younger than the last reset
are at most the counter, and all routes within a second at most the counter plus the
limit. Sending raises both sides by one (`OneMoreRoute`); a tick shifts the window and
drops its oldest entry (`OneTickLater`); at a reset, exactly a second after the last, the
first part says that the window holds no more than the old counter, which the limit
bounds, so that the second part holds again with a counter of zero.

`DijkstraProofs` has two parts. The costs (`NoiseNeverHidesCongestion`): for every `K` of
at least 1.1, whatever noise, state and search. The bound is what the threshold of 20
percent and the noise of 18 percent need: (1 + 0.2 K) * 0.82 >= 1. The scenarios use 1.5
and 2.

The search (`SearchIsCorrect`, `SettledDistancesAreFinal`, `LoopsAreBounded`), for every
network, every traffic and every choice of ends. `SearchInv` is the textbook argument
as an invariant: the queue holds the edges reached and not settled, once each
(`QueueIsFrontier`); `prev` is a tree rooted at the source along which distances add up
(`PrevIsTree`); edges are settled in the order of their distances (`SettledInOrder`); the
roads out of a settled edge are relaxed (`SettledAreRelaxed`); and while the path is read
back it is the lower end of a branch of the tree (`PathIsBranch`). Positive weights
(`WeightPositive`) make distances grow along a branch, so a branch visits no edge twice
(`BranchIsLoopFree`) and has the weight of its end's distance (`BranchIsPath`), and every
reached edge has one (`BranchExists`, from the edge of least distance without one). No
path to a settled edge is shorter than its distance (`SettledIsLowerBound`, from the first
edge at which a shorter path would leave the settled ones), and an empty queue means
that no path leaves the settled edges at all (`EmptyQueueMeansNoWay`). That no entry of
the queue is ever outdated is particular to this code: the weight of a step depends
on its end only, so the first way found to an edge is also the shortest through settled
edges. This is why a turn of the loop always settles an edge, and `TurnsLeft`, at most
2 |E| + 2, drops with every turn.

Inductions in these proofs are arguments about a least counterexample:
`LeastNatural` and `ForwardInduction` of `RoadNetworkProofs` are stated for sets of
numbers, since the provers cannot use a theorem with an operator as parameter.
`PathCosts` is a recursive function; `PathCostsEquation` shows that it satisfies its
own recursion, from the existence of a running sum for every sequence of weights
(`RunningSumExists`).

`VehicleAppProofs`: every safety property of `Lifecycle`, for any number of vehicles
and modules. The inductive invariant adds to `TypeOK` and `NoDanglingNode` what the
manager's map says of a module (`Owned`: it is up and knows the vehicle it is listed
under, so `sendReportGone`, which fires for a vehicle with no entry, never takes down
a listed module), `Created`, `Rows` (the flag counts the rows), and for each stage of
a time step `Books` (which vehicles the manager may know while the step is half
processed) and `Count` (the active count plus the delta of unread events is SUMO's).
`StepCount` is the set arithmetic behind the latter: departures are disjoint from
what drives, teleports that start and end in one step cancel. `RateIsMet` rests on
`Nearest`: of two shares one vehicle apart, the nearer one to the rate is off by at
most half a vehicle, and `addModule()` compares exactly those two.
`SilentUnlessBack` and `OneRowUnlessBack` delimit what the run `GhostReports` shows,
vehicle by vehicle: one that neither teleports nor leaves the region of interest is
released only when it has arrived or the run ends, and is never added again, so that it
has one module in all (`Settled`), no released module that reports, and one row.

Some theorems are the safety half of a liveness property, the part that does not
depend on fairness. `DecayForgets`: each firing of the decay timer lowers every count
that is not zero, and where it is zero there is no measured time either.
`DepartedModulesRunOut`: nothing revives the module of a vehicle that has left for good
or winds its report timer up again, and every instant brings the timer closer, so that
the module outlives its vehicle by no more than `reportInterval`. `HandoversAdvance`: the
handovers of a UE do not overlap, and each is over after three steps (the command that
starts it arrives, `doHandover`, the command that ends it arrives), because no more than
one command about a UE is ever on the wires (`OneCommand`); `NothingIsLeftBehind` says
what holds then. `LoopsAreBounded` is the same for `Terminates`.

`HandoverProofs`: the inductive invariant `IInv` is `TypeOK` and, for each UE,
`Attached` (which tables it is in at each stage of its life), `Handing` (timer,
binder and hold agree, and the candidate is another cell) and `Ranked` (candidate
against serving reading). `OneServingCell` alone is not inductive: during a
handover it depends on the candidate, and after `shutdownLteStack()` the tables
legitimately differ, which is why `DeletedLeavesNothing` needs to know what a late
`doHandover` may have put back. The properties of the eNB side need more: `CoordInv`
relates the commands on the X2 links to what source and target keep, under the
assumption `FullyLinked`, without which `X2Links` shows them to be false. The
refinement needs `IInv` only: a candidate that is not the serving cell when a
handover starts and does not change until it ends.

Assumptions on the constants are the named `ASSUME`s of the modules; TLC evaluates
them in every run. Edges are natural numbers (indices into `edges`) and finitely many.
Two hypotheses stand beside them, each of which a violated run shows to be needed:
`FullyLinked` on the X2 links (`X2Links`), and `RoomLeft`, which is not on constants but
on the packets of a behaviour (`LongRoutes`). The inductive invariants were checked with TLC on the instances of the
runs before they were proved.

Only model-checked, not proved: liveness (`QuietEdgeForgotten`, `Terminates`,
`DepartedModulesAreDeleted`, `HandoverEnds`), since the prover has no rules for fairness.
Every invariant and every action property of a passing run, and the refinement of
`ServingCell`, is the statement of a theorem.

## Not modelled

* INET, SUMO and the radio side of SimuLTE (scheduling, HARQ, RLC, channel model):
  vendored or external, and numeric. A channel reading is any of a set of values.
* The net file parsers: their result is the constant graph, with the two
  numberings assumed equal. They filter, sort and number one file the same way.
* `TrafficMsgSerializer`: byte layout; chunks travel by reference.
* `VehicleReRouteApp`: a test of five TraCI calls that no scenario instantiates.
* LTE relays, D2D and multicast: no scenario has them. In `IP2lte`, packets of a UE
  that come from the core while the eNB holds for it: `NotHeldWhereRouted` shows that
  the branch is never taken.
* What a departure in the middle of a handover leaves in `hoForwarding_`,
  `hoHolding_` and `ueHandoverTriggered_`: it stays there in the model as in the
  code, and since node ids are not reused nobody reads it.
* Lane-change counting, CSV text, logging.

## Plan

1. (done) server, search, vehicle application, loop, manager, LTE handover and node
   tables, with the proofs above.
2. (done) the limiter and the search for every value of the constants.
3. (done) bounds on the steps left to a handover, a search, a departed module and the
   decay of an edge: what liveness needs beside fairness.
4. Conditions under which the other violated properties hold, as `RoomLeft` and
   `MayComeBack` are for two of them.

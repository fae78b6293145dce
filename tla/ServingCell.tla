----------------------------- MODULE ServingCell -----------------------------
(***************************************************************************)
(* What the handover of SimuLTE promises to the layers above: a UE (a      *)
(* vehicle's modem) has one serving cell; a handover names its target      *)
(* once, and the next serving cell is that target and no other.  The       *)
(* measurements, the binder's tables, the X2 commands and the packets      *)
(* that Handover keeps do not appear.                                      *)
(***************************************************************************)
CONSTANTS Ues, Enbs, NoCell

VARIABLES
  serving,           \* UE -> its serving cell, NoCell when it has none
  target,            \* UE -> the cell it is handing over to, NoCell if none
  gone               \* UEs that have left: they never come back

vars == <<serving, target, gone>>

Init ==
  /\ serving = [u \in Ues |-> NoCell]
  /\ target = [u \in Ues |-> NoCell]
  /\ gone = {}

Attach(u) ==
  /\ u \notin gone /\ serving[u] = NoCell
  /\ \E c \in Enbs : serving' = [serving EXCEPT ![u] = c]
  /\ UNCHANGED <<target, gone>>

Start(u) ==
  /\ u \notin gone /\ serving[u] # NoCell /\ target[u] = NoCell
  /\ \E c \in Enbs \ {serving[u]} : target' = [target EXCEPT ![u] = c]
  /\ UNCHANGED <<serving, gone>>

Finish(u) ==
  /\ target[u] # NoCell
  /\ serving' = [serving EXCEPT ![u] = target[u]]
  /\ target' = [target EXCEPT ![u] = NoCell]
  /\ UNCHANGED gone

Leave(u) ==
  /\ gone' = gone \cup {u}
  /\ serving' = [serving EXCEPT ![u] = NoCell]
  /\ target' = [target EXCEPT ![u] = NoCell]

Next == \E u \in Ues : Attach(u) \/ Start(u) \/ Finish(u) \/ Leave(u)

Spec == Init /\ [][Next]_vars
=============================================================================

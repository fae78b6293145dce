------------------------------ MODULE MCHandover ------------------------------
(* Instances of Handover.                                                     *)
EXTENDS Handover, TLC

(* eNodeB1, 2 and 3 are linked to each other, in the order of their x2Apps.   *)
FullMesh == 1 :> <<2, 3>> @@ 2 :> <<1, 3>> @@ 3 :> <<1, 2>>
(* eNodeB1, 2, 5 and 9 of omnetpp.ini: 9 is linked to 5 alone.                *)
HighwayLinks == 1 :> <<2, 5>> @@ 2 :> <<1, 5>> @@ 5 :> <<1, 2, 9>> @@ 9 :> <<5>>

(* A reading below 0 dB has a negative hysteresis threshold.                  *)
Readings == {-10, 10, 20}
=============================================================================

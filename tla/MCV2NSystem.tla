----------------------------- MODULE MCV2NSystem -----------------------------
(* Small road networks for V2NSystem.                                       *)
EXTENDS V2NSystem, TLC

(* Two ways from 1 to 4, through 2 and through 3, and a last edge 5 behind. *)
DiamondEdges  == 1 .. 5
DiamondRoads  == {<<1, 2>>, <<1, 3>>, <<2, 4>>, <<3, 4>>, <<4, 5>>}
DiamondLength == [e \in DiamondEdges |-> 1]
DiamondBase   == [e \in DiamondEdges |-> 1]
DiamondLimit  == [e \in DiamondEdges |-> 1]

FromFirst == [k \in Keys |-> 1]
ToLast    == [k \in Keys |-> 5]

UnknownTT == {-1}

KeySymmetry == Permutations(Keys)
=============================================================================

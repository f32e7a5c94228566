---------------------------- MODULE MCValentinLine ----------------------------
(* ValentinLine with a printer for each lane, for TLC.                       *)
EXTENDS ValentinLine, TLC

CONSTANTS p1, p2

RolesOfTwo == p1 :> "PRIMARY" @@ p2 :> "SECONDARY"
\* Every code belongs to the first lane.
ExtIdsOdd == {1}
===============================================================================

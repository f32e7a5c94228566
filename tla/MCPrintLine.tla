----------------------------- MODULE MCPrintLine -----------------------------
(* PrintLine with one and with two printers, for TLC.                       *)
EXTENDS PrintLine, TLC

CONSTANTS p1, p2

RolesOfTwo == p1 :> "PRIMARY" @@ p2 :> "EVEN"
RoleOfOne == p1 :> "PRIMARY"

ExtIdsNone == {NoExt}
FreshSlr == {0}

CodeSymmetry == Permutations(Codes)
=============================================================================

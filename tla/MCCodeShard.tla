----------------------------- MODULE MCCodeShard -----------------------------
(* CodeShard on a line of two printers, and with one printer, for TLC.      *)
EXTENDS CodeShard, TLC

CONSTANTS p1, p2

RolesOfTwo == p1 :> "MAIN" @@ p2 :> "EVEN"
RoleOfOne == p1 :> "MAIN"

\* ext_id absent, so that the row id decides, or even.
ExtIdsMixed == {NoExt, 2}
ExtIdsNone == {NoExt}

CodeSymmetry == Permutations(Codes)
=============================================================================

---------------------------- MODULE MCTaskControl ----------------------------
(* TaskControl for TLC: two requests at a time, one to three lines.         *)
EXTENDS TaskControl, TLC

\* Line 2 has two Valentin printers, line 3 one that is not registered.
TwoOnLine2 == 2 :> 2
NoneOnLine3 == 2 :> 2 @@ 3 :> 0

RequestSymmetry == Permutations(Requests)
=============================================================================

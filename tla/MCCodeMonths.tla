----------------------------- MODULE MCCodeMonths -----------------------------
(* Parameters of CodeMonths for TLC. *)
EXTENDS CodeMonths, TLC

\* Callers differ in nothing but what they do, codes in nothing at all.
Symmetry == Permutations(Callers) \cup Permutations(Codes)
===============================================================================

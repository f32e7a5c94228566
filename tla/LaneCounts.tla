------------------------------ MODULE LaneCounts ------------------------------
(***************************************************************************)
(* What the store promises about the codes of one task that one printer is *)
(* to print, without rows: they are taken, confirmed and returned in the   *)
(* order of their delivery, whatever transactions the others run.  So      *)
(* three numbers say where all of them are: the first `confirmed` are      *)
(* printed, those behind them up to `taken` are in the printer's buffer,   *)
(* the rest up to `delivered` wait.  An index is a place in that order.    *)
(***************************************************************************)
EXTENDS Integers

VARIABLES confirmed, taken, delivered

laneVars == <<confirmed, taken, delivered>>

Init == confirmed = 0 /\ taken = 0 /\ delivered = 0

\* An append brings codes to the end of the lane, if it has any for it.
Deliver == delivered' - delivered \in Nat /\ UNCHANGED <<confirmed, taken>>

\* A fetch takes the next codes, as many as it asks for or as there are.
Fetch(limit) ==
    /\ taken' = IF taken + limit < delivered THEN taken + limit ELSE delivered
    /\ UNCHANGED <<confirmed, delivered>>

\* How far codes are confirmed once a printer has reported an index.
UpTo(index) ==
    IF index <= confirmed THEN confirmed ELSE IF index < taken THEN index ELSE taken

\* A report confirms the codes of the buffer up to the index.
Mark(index) == confirmed' = UpTo(index) /\ UNCHANGED <<taken, delivered>>

\* A stop does, too, and returns those behind it.
Reconcile(index) ==
    confirmed' = UpTo(index) /\ taken' = confirmed' /\ UNCHANGED delivered

Next == Deliver \/ \E n \in Nat : Fetch(n) \/ Mark(n) \/ Reconcile(n)

Spec == Init /\ [][Next]_laneVars
===============================================================================

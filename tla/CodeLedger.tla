----------------------------- MODULE CodeLedger -----------------------------
(***************************************************************************)
(* What the store of marking codes promises to its callers, without rows,  *)
(* ids or indices.  Every (task, code) pair goes through                   *)
(*    absent -> queued -> held by one printer -> confirmed                 *)
(* and the only way back is from held to queued, for the codes of one      *)
(* task on one printer at once.  A confirmed code never moves again.       *)
(***************************************************************************)
CONSTANTS Tasks,      \* the tasks whose codes the shard keeps
          Codes,      \* the marking codes themselves
          Printers,   \* the printers of the line
          NoPrinter   \* printer_id IS NULL

VARIABLES phase,      \* phase[t][c]: where code c of task t is
          holder      \* holder[t][c]: the printer that holds or printed it

ledgerVars == <<phase, holder>>

Phases == {"absent", "queued", "held", "confirmed"}

LedgerTypeOK ==
    /\ phase \in [Tasks -> [Codes -> Phases]]
    /\ holder \in [Tasks -> [Codes -> Printers \cup {NoPrinter}]]

Init ==
    /\ phase = [t \in Tasks |-> [c \in Codes |-> "absent"]]
    /\ holder = [t \in Tasks |-> [c \in Codes |-> NoPrinter]]

\* A batch of codes the task does not have yet enters its queue, all of it.
Enqueue(t, cs) ==
    /\ \A c \in cs : phase[t][c] = "absent"
    /\ phase' = [phase EXCEPT ![t] =
                    [c \in Codes |-> IF c \in cs THEN "queued" ELSE @[c]]]
    /\ UNCHANGED holder

\* Printer p takes queued codes of task t.
Hold(t, p, cs) ==
    /\ \A c \in cs : phase[t][c] = "queued"
    /\ phase' = [phase EXCEPT ![t] =
                    [c \in Codes |-> IF c \in cs THEN "held" ELSE @[c]]]
    /\ holder' = [holder EXCEPT ![t] =
                    [c \in Codes |-> IF c \in cs THEN p ELSE @[c]]]

HeldBy(t, p) == {c \in Codes : phase[t][c] = "held" /\ holder[t][c] = p}

\* Printer p reports on the codes of t it holds: those in done are confirmed,
\* those in back return to the queue, and no other code changes.
Settle(t, p, done, back) ==
    /\ done \subseteq HeldBy(t, p)
    /\ back \subseteq HeldBy(t, p) \ done
    /\ phase' = [phase EXCEPT ![t] =
                    [c \in Codes |-> IF c \in done THEN "confirmed"
                                     ELSE IF c \in back THEN "queued" ELSE @[c]]]
    /\ holder' = [holder EXCEPT ![t] =
                    [c \in Codes |-> IF c \in back THEN NoPrinter ELSE @[c]]]

Next ==
    \E t \in Tasks :
        \/ \E cs \in SUBSET Codes : Enqueue(t, cs)
        \/ \E p \in Printers, cs \in SUBSET Codes : Hold(t, p, cs)
        \/ \E p \in Printers, done, back \in SUBSET Codes : Settle(t, p, done, back)

Spec == Init /\ [][Next]_ledgerVars
=============================================================================

---------------------------- MODULE RecordChannel ----------------------------
(***************************************************************************)
(* What the exchange with a printer promises the pump about its records:   *)
(* a record is offered once, reaches the printer at most once, whenever,   *)
(* and is acknowledged only when it is there.  Nothing is promised of      *)
(* order, and nothing about acknowledgements once the printer has spoken   *)
(* out of turn.  PrintLine takes this contract for one step of its pump,   *)
(* and no more of it: there a record arrives in that step or never, not    *)
(* later.                                                                  *)
(***************************************************************************)
EXTENDS Integers, Sequences

CONSTANT MaxIndex   \* bound: records ever offered

VARIABLES offered,  \* records 1..offered were given to the driver
          loaded,   \* the records the printer took, in that order
          acked,    \* the records the driver counted as loaded
          trusted   \* the printer has answered commands and nothing else

channelVars == <<offered, loaded, acked, trusted>>

Loaded == {loaded[k] : k \in DOMAIN loaded}

Init == offered = 0 /\ loaded = <<>> /\ acked = {} /\ trusted = TRUE

Offer == /\ offered' \in (offered + 1)..MaxIndex
         /\ UNCHANGED <<loaded, acked, trusted>>

Load == /\ \E i \in (1..offered) \ Loaded : loaded' = Append(loaded, i)
        /\ UNCHANGED <<offered, acked, trusted>>

Acknowledge == /\ \E i \in IF trusted THEN Loaded ELSE 1..offered :
                     acked' = acked \cup {i}
               /\ UNCHANGED <<offered, loaded, trusted>>

Distrust == trusted' = FALSE /\ UNCHANGED <<offered, loaded, acked>>

Next == Offer \/ Load \/ Acknowledge \/ Distrust

Spec == Init /\ [][Next]_channelVars
==============================================================================

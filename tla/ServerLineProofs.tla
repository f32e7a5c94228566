-------------------------- MODULE ServerLineProofs --------------------------
(***************************************************************************)
(* Proofs about ServerLine, for every number of tasks, codes and drivers.  *)
(* Each theorem names the events it does without; the runs show that those *)
(* events break it.                                                        *)
(***************************************************************************)
EXTENDS ServerLine, TLAPS

-----------------------------------------------------------------------------
(* What holds whatever happens: the types, the shape of a batch, and that   *)
(* everybody uses a driver that was registered.                             *)

PumpOK(p) ==
    /\ p \in [pc : {"none", "tick", "fetch", "send", "count"},
              driver : Drivers, batch : Seq(Positions)]
    /\ p.driver <= Registered
    /\ p.pc \in {"send", "count"} =>
         /\ p.batch # <<>> /\ p.batch[1] \in Nat \ {0} /\ LastOf(p.batch) \in Positions
         /\ \A k \in DOMAIN p.batch : p.batch[k] = p.batch[1] + k - 1

RowsOK ==
    /\ status \in [Tasks -> {"none", "active", "stopped"}]
    /\ confirmed \in [Tasks -> Positions] /\ taken \in [Tasks -> Positions]
    /\ delivered \in [Tasks -> Positions]
    /\ \A t \in Tasks : confirmed[t] <= taken[t] /\ taken[t] <= delivered[t]

BoardOK ==
    /\ shown \in States /\ logs \in Seq({"added", "lost", "restored"})
    /\ Len(logs) \in 1..MaxLog

PollerOK ==
    /\ poller \in [pc : {"visit", "task", "index", "mark", "show"}, driver : Drivers,
                   status : States, task : Tasks \cup {NoTask}, index : Positions]
    /\ poller.driver <= Registered
    /\ poller.pc \in {"index", "mark"} => poller.task \in Tasks

StopOK ==
    /\ stop \in [pc : {"idle", "index", "reconcile"}, task : Tasks \cup {NoTask},
                 index : Positions]
    /\ stop.pc # "idle" => stop.task \in Tasks

DriversOK == lastPrintedIndex \in Seq(Positions) /\ Registered \in Drivers

PumpsOK ==
    /\ pump = [t \in Tasks |-> pump[t]]
    /\ \A t \in Tasks : PumpOK(pump[t])

AcceptedOK ==
    /\ accepted \in [Tasks -> Seq([code : Positions, answered : BOOLEAN])]
    /\ first \in [Tasks -> BOOLEAN]

IInv == RowsOK /\ BoardOK /\ PollerOK /\ StopOK /\ DriversOK /\ PumpsOK /\ AcceptedOK

-----------------------------------------------------------------------------
(* With no stop in the middle of a pump's tick: only an active task is      *)
(* worked on, and there is one.                                             *)

Busy(t) == pump[t].pc \in {"fetch", "send", "count"}

OneActive ==
    /\ \A t \in Tasks : Busy(t) => Active(t)
    /\ \A s, t \in Tasks : Active(s) /\ Active(t) => s = t
    /\ \A s, t \in Tasks : s < t /\ status[s] = "none" => status[t] = "none"
    /\ stop.pc # "idle" => status[stop.task] = "stopped" /\ \A t \in Tasks : ~Active(t)
    /\ stop.pc = "idle" => stop.task = NoTask

\* A task whose stop is over has nothing in the buffer.
Emptied == \A t \in Tasks : Settled(t) => confirmed[t] = taken[t]

RestInv == OneActive /\ Emptied

-----------------------------------------------------------------------------
(* The log: what is shown tells which entry is the latest.                  *)

LogInv ==
    /\ poller.status \in {"ready", "offline"} /\ shown # "refused"
    /\ shown = "offline" <=> logs[1] = "lost"
    /\ shown = "initializing" => logs[1] = "added"
    /\ LossAndRecoveryAlternate

-----------------------------------------------------------------------------
(* What the server accepted, when every batch gets through.                 *)

IsAccepted(t, k) == \E l \in DOMAIN accepted[t] : accepted[t][l].code = k

\* The codes of a task that are in the pump's hands, not with the server yet.
InHand(t) ==
    IF pump[t].pc = "send" THEN {pump[t].batch[k] : k \in DOMAIN pump[t].batch} ELSE {}

\* Where a task is the first its drivers serve, none of them has counted, and
\* nobody has read, past the codes the server accepted.
CountsAccepted ==
    \A t \in Tasks : first[t] =>
        /\ status[t] # "none"
        /\ \A s \in Tasks : Active(s) => s = t
        /\ \A g \in 1..Registered : \A k \in 1..lastPrintedIndex[g] : IsAccepted(t, k)
        /\ poller.pc = "mark" /\ poller.task = t =>
             \A k \in 1..poller.index : IsAccepted(t, k)
        /\ stop.pc = "reconcile" /\ stop.task = t =>
             \A k \in 1..stop.index : IsAccepted(t, k)
        /\ \A k \in 1..confirmed[t] : IsAccepted(t, k)

\* What a task took and has not in hand, the server has.
TakenAccepted ==
    \A t \in Tasks : /\ \A k \in 1..taken[t] : k \in InHand(t) \/ IsAccepted(t, k)
                     /\ pump[t].pc \in {"send", "count"} => LastOf(pump[t].batch) = taken[t]

PollerKnows == poller.pc \in {"index", "mark"} => status[poller.task] # "none"

AcceptInv == CountsAccepted /\ TakenAccepted /\ PollerKnows

-----------------------------------------------------------------------------
(* What was acknowledged is counted: it is confirmed, or the driver's index *)
(* covers it until the stop, or the pump is about to write that index.      *)

Acknowledged(t, k) == \E l \in DOMAIN accepted[t] :
                         accepted[t][l].code = k /\ accepted[t][l].answered

Covered(t, k) ==
    \/ k <= confirmed[t]
    \/ /\ k <= taken[t]
       /\ \/ Active(t) /\ k <= lastPrintedIndex[Registered]
          \/ pump[t].pc = "count" /\ k <= LastOf(pump[t].batch)
          \/ stop.pc = "index" /\ stop.task = t /\ k <= lastPrintedIndex[Registered]
          \/ stop.pc = "reconcile" /\ stop.task = t /\ k <= stop.index

CountInv ==
    /\ \A t \in Tasks : \A k \in Positions : Acknowledged(t, k) => Covered(t, k)
    /\ \A t \in Tasks : pump[t].pc = "send" =>
         \A k \in Positions : Acknowledged(t, k) => k < pump[t].batch[1]
    /\ \A t \in Tasks : pump[t].pc \in {"send", "count"} =>
         pump[t].driver = Registered /\ LastOf(pump[t].batch) = taken[t]
    /\ AcknowledgedOnce

-----------------------------------------------------------------------------
(* The operators.                                                           *)

LEMMA ActiveTaskFacts ==
    /\ ActiveTask = NoTask <=> \A t \in Tasks : ~Active(t)
    /\ ActiveTask # NoTask => ActiveTask \in Tasks /\ Active(ActiveTask)
<1>1. \A t \in Tasks : t # NoTask
  BY ServerAssumption DEF Tasks, NoTask
<1>2. CASE \E t \in Tasks : Active(t)
  <2>1. ActiveTask \in Tasks /\ Active(ActiveTask)
    BY <1>2 DEF ActiveTask
  <2> QED
    BY <1>1, <2>1
<1>3. CASE \A t \in Tasks : ~Active(t)
  BY <1>3 DEF ActiveTask
<1> QED
  BY <1>2, <1>3

\* Confirming up to an index stays between what was confirmed and what was
\* taken, and goes no further than the index.
LEMMA UpToFacts ==
    ASSUME RowsOK, NEW t \in Tasks, NEW index \in Positions
    PROVE  /\ UpTo(t, index) \in Positions
           /\ confirmed[t] <= UpTo(t, index) /\ UpTo(t, index) <= taken[t]
           /\ UpTo(t, index) = confirmed[t] \/ UpTo(t, index) <= index
           /\ confirmed[t] = taken[t] => UpTo(t, index) = confirmed[t]
           /\ \A k \in Positions : k <= taken[t] /\ k <= index => k <= UpTo(t, index)
<1>1. /\ confirmed[t] \in Positions /\ taken[t] \in Positions /\ confirmed[t] <= taken[t]
      /\ MaxCodes \in Nat
  BY ServerAssumption DEF RowsOK
<1> QED
  BY <1>1 DEF UpTo, Lane!UpTo, Positions

\* A new entry comes first, and the rest moves on by one.
LEMMA EnteredFacts ==
    ASSUME BoardOK, NEW entry \in {"added", "lost", "restored"}, Entered(entry)
    PROVE  /\ logs' \in Seq({"added", "lost", "restored"}) /\ Len(logs') \in 1..MaxLog
           /\ logs'[1] = entry
           /\ \A k \in 1..(Len(logs') - 1) : k \in 1..Len(logs) /\ logs'[k + 1] = logs[k]
<1> DEFINE n == IF Len(logs) < MaxLog THEN Len(logs) ELSE MaxLog - 1
           rest == SubSeq(logs, 1, n)
<1>1. /\ logs \in Seq({"added", "lost", "restored"}) /\ Len(logs) \in 1..MaxLog
      /\ MaxLog \in Nat \ {0} /\ Len(logs) \in Nat
  BY ServerAssumption DEF BoardOK
<1>2. n \in Nat /\ n <= Len(logs) /\ n + 1 \in 1..MaxLog
  BY <1>1
<1> HIDE DEF n
<1>3. /\ rest \in Seq({"added", "lost", "restored"}) /\ Len(rest) = n
      /\ \A k \in 1..n : rest[k] = logs[k]
  BY <1>1, <1>2
<1> HIDE DEF rest
<1>4. logs' = <<entry>> \o rest
  BY DEF Entered, rest, n
<1>5. <<entry>> \in Seq({"added", "lost", "restored"}) /\ Len(<<entry>>) = 1 /\ <<entry>>[1] = entry
  OBVIOUS
<1>6. /\ logs' \in Seq({"added", "lost", "restored"}) /\ Len(logs') = n + 1
  BY <1>2, <1>3, <1>4, <1>5
<1>7. \A k \in 1..(n + 1) : logs'[k] = IF k = 1 THEN entry ELSE rest[k - 1]
  BY <1>2, <1>3, <1>4, <1>5
<1> QED
  BY <1>1, <1>2, <1>3, <1>6, <1>7

-----------------------------------------------------------------------------
(* The types.                                                               *)

LEMMA RowsStep == ASSUME IInv, [Next]_vars PROVE RowsOK'
<1> USE DEF RowsOK
<1>1. RowsOK /\ MaxCodes \in Nat /\ MaxBatch \in Nat /\ \A t \in Tasks : t # NoTask
  BY ServerAssumption DEF IInv, Tasks, NoTask
<1>2. ASSUME NEW t \in Tasks, Create(t)
      PROVE  RowsOK'
  BY <1>1, <1>2 DEF Create
<1>3. ASSUME NEW t \in Tasks, TaskAppend(t)
      PROVE  RowsOK'
  <2>1. PICK n \in (delivered[t] + 1)..MaxCodes : delivered' = [delivered EXCEPT ![t] = n]
    BY <1>3 DEF TaskAppend
  <2>2. delivered[t] \in Nat /\ n \in Positions /\ delivered[t] <= n
    BY <1>1, <2>1 DEF Positions
  <2>3. status' \in [Tasks -> {"none", "active", "stopped"}]
    BY <1>1, <1>3 DEF TaskAppend
  <2>4. confirmed' = confirmed /\ taken' = taken /\ delivered' \in [Tasks -> Positions]
    BY <1>1, <1>3, <2>1, <2>2 DEF TaskAppend
  <2>5. \A s \in Tasks : taken[s] <= delivered'[s]
    <3>1. \A s \in Tasks : taken[s] \in Nat /\ delivered[s] \in Nat /\ taken[s] <= delivered[s]
      BY <1>1 DEF Positions
    <3>2. \A s \in Tasks : delivered'[s] = IF s = t THEN n ELSE delivered[s]
      BY <1>1, <2>1
    <3> QED
      BY <2>2, <3>1, <3>2 DEF Positions
  <2> QED
    BY <1>1, <2>3, <2>4, <2>5
<1>4. ASSUME NEW t \in Tasks, StopRequest(t)
      PROVE  RowsOK'
  BY <1>1, <1>4 DEF StopRequest
<1>5. CASE StopReconcile
  <2> DEFINE t == stop.task
  <2>1. t \in Tasks /\ stop.index \in Positions
    BY <1>5 DEF StopReconcile, IInv, StopOK
  <2>2. /\ confirmed' = [confirmed EXCEPT ![t] = UpTo(t, stop.index)]
        /\ taken' = [taken EXCEPT ![t] = UpTo(t, stop.index)]
        /\ status' = status /\ delivered' = delivered
    BY <1>5 DEF StopReconcile
  <2>3. UpTo(t, stop.index) \in Positions /\ UpTo(t, stop.index) <= taken[t]
    BY <1>1, <2>1, UpToFacts
  <2> HIDE DEF t
  <2>4. /\ confirmed' \in [Tasks -> Positions] /\ taken' \in [Tasks -> Positions]
    BY <1>1, <2>1, <2>2, <2>3
  <2>5. \A s \in Tasks : confirmed'[s] <= taken'[s] /\ taken'[s] <= delivered[s]
    BY <1>1, <2>1, <2>2, <2>3 DEF Positions
  <2> QED
    BY <1>1, <2>2, <2>4, <2>5
<1>6. CASE PollMark
  <2> DEFINE t == poller.task
  <2>1. t \in Tasks /\ poller.index \in Positions
    BY <1>6 DEF PollMark, IInv, PollerOK
  <2>2. /\ confirmed' = [confirmed EXCEPT ![t] = UpTo(t, poller.index)]
        /\ taken' = taken /\ status' = status /\ delivered' = delivered
    BY <1>6 DEF PollMark
  <2>3. UpTo(t, poller.index) \in Positions /\ UpTo(t, poller.index) <= taken[t]
    BY <1>1, <2>1, UpToFacts
  <2> HIDE DEF t
  <2>4. confirmed' \in [Tasks -> Positions]
    BY <1>1, <2>1, <2>2, <2>3
  <2>5. \A s \in Tasks : confirmed'[s] <= taken[s]
    BY <1>1, <2>1, <2>2, <2>3 DEF Positions
  <2> QED
    BY <1>1, <2>2, <2>4, <2>5
<1>7. ASSUME NEW t \in Tasks, PumpFetch(t)
      PROVE  RowsOK'
  <2>1. PICK n : /\ n = IF delivered[t] - taken[t] < MaxBatch THEN delivered[t] - taken[t] ELSE MaxBatch
                 /\ taken' = [taken EXCEPT ![t] = @ + n]
                 /\ status' = status /\ confirmed' = confirmed /\ delivered' = delivered
    BY <1>7 DEF PumpFetch
  <2>2. /\ taken[t] \in Positions /\ delivered[t] \in Positions /\ taken[t] <= delivered[t]
        /\ confirmed[t] \in Positions /\ confirmed[t] <= taken[t]
    BY <1>1
  <2>3. taken[t] + n \in Positions /\ taken[t] + n <= delivered[t] /\ confirmed[t] <= taken[t] + n
    BY <1>1, <2>1, <2>2 DEF Positions
  <2> QED
    BY <1>1, <2>1, <2>3
<1>8. CASE \/ StopIndex \/ PollStatus \/ PollTask \/ PollIndex \/ PollShow \/ AddPrinter
           \/ \E t \in Tasks : PumpStatus(t) \/ PumpSend(t) \/ PumpCount(t)
           \/ UNCHANGED vars
  <2>1. UNCHANGED taskVars
    BY <1>8 DEF StopIndex, PollStatus, PollTask, PollIndex, PollShow, AddPrinter,
                PumpStatus, PumpSend, PumpCount, vars
  <2> QED
    BY <1>1, <2>1 DEF taskVars
<1> QED
  BY <1>2, <1>3, <1>4, <1>5, <1>6, <1>7, <1>8 DEF Next, Request, Pump, Poll

LEMMA BoardStep == ASSUME IInv, [Next]_vars PROVE BoardOK'
<1> USE DEF BoardOK
<1>1. BoardOK /\ poller.status \in States
  BY DEF IInv, PollerOK
<1>2. CASE AddPrinter
  <2>1. Entered("added") /\ shown' = "initializing"
    BY <1>2 DEF AddPrinter
  <2> QED
    BY <1>1, <2>1, EnteredFacts DEF States
<1>3. CASE PollShow
  <2>1. Show(poller.status)
    BY <1>3 DEF PollShow
  <2>2. shown' \in States
    BY <1>1, <2>1 DEF Show
  <2>3. Entered("lost") \/ Entered("restored") \/ logs' = logs
    BY <2>1 DEF Show
  <2> QED
    BY <1>1, <2>2, <2>3, EnteredFacts
<1>4. CASE UNCHANGED boardVars
  BY <1>1, <1>4 DEF boardVars
<1>5. CASE \/ StopIndex \/ StopReconcile \/ PollStatus \/ PollTask \/ PollIndex \/ PollMark
           \/ \E t \in Tasks : Request(t) \/ Pump(t)
           \/ UNCHANGED vars
  <2>1. UNCHANGED boardVars
    BY <1>5 DEF StopIndex, StopReconcile, PollStatus, PollTask, PollIndex, PollMark, Request, Pump,
                Create, TaskAppend, StopRequest, PumpStatus, PumpFetch, PumpSend, PumpCount, vars
  <2> QED
    BY <1>4, <2>1
<1> QED
  BY <1>2, <1>3, <1>5 DEF Next, Poll

\* No driver is forgotten, and only the end of a pump's tick counts.
LEMMA DriversStep ==
    ASSUME IInv, [Next]_vars
    PROVE  /\ DriversOK' /\ Registered <= Registered'
           /\ \A g \in 1..Registered :
                 \/ lastPrintedIndex'[g] = lastPrintedIndex[g]
                 \/ \E t \in Tasks : /\ PumpCount(t) /\ g = pump[t].driver
                                     /\ lastPrintedIndex'[g] = LastOf(pump[t].batch)
           /\ Registered' # Registered =>
                AddPrinter /\ Registered' = Registered + 1 /\ lastPrintedIndex'[Registered + 1] = 0
<1> USE DEF Registered
<1>1. /\ lastPrintedIndex \in Seq(Positions) /\ Registered \in Drivers /\ MaxCodes \in Nat
      /\ MaxDrivers \in Nat /\ 0 \in Positions /\ Registered \in Nat
  BY ServerAssumption DEF IInv, DriversOK, Positions, Drivers
<1>2. CASE AddPrinter
  <2>1. lastPrintedIndex' = Append(lastPrintedIndex, 0) /\ Registered < MaxDrivers
    BY <1>2 DEF AddPrinter
  <2>2. /\ Len(lastPrintedIndex') = Len(lastPrintedIndex) + 1
        /\ lastPrintedIndex' \in Seq(Positions)
        /\ \A g \in 1..Len(lastPrintedIndex) : lastPrintedIndex'[g] = lastPrintedIndex[g]
        /\ lastPrintedIndex'[Len(lastPrintedIndex) + 1] = 0
    BY <1>1, <2>1
  <2> QED
    BY <1>1, <1>2, <2>1, <2>2 DEF DriversOK, Drivers
<1>3. ASSUME NEW t \in Tasks, PumpCount(t)
      PROVE  /\ DriversOK' /\ Registered' = Registered
             /\ \A g \in 1..Registered :
                   \/ lastPrintedIndex'[g] = lastPrintedIndex[g]
                   \/ g = pump[t].driver /\ lastPrintedIndex'[g] = LastOf(pump[t].batch)
  <2>1. PumpOK(pump[t]) /\ pump[t].pc = "count"
    BY <1>3 DEF IInv, PumpsOK, PumpCount
  <2>2. PICK d, last : /\ d = pump[t].driver /\ last = LastOf(pump[t].batch)
                       /\ lastPrintedIndex' = [lastPrintedIndex EXCEPT ![d] = last]
    BY <1>3 DEF PumpCount
  <2>3. last \in Positions
    BY <2>1, <2>2 DEF PumpOK
  <2>4. /\ lastPrintedIndex' \in Seq(Positions) /\ Len(lastPrintedIndex') = Len(lastPrintedIndex)
        /\ \A g \in 1..Len(lastPrintedIndex) :
              lastPrintedIndex'[g] = IF g = d THEN last ELSE lastPrintedIndex[g]
    <3>1. PICK n \in Nat : n = Len(lastPrintedIndex)
      BY <1>1
    <3>2. lastPrintedIndex \in [1..n -> Positions]
      BY <1>1, <3>1
    <3>3. /\ lastPrintedIndex' \in [1..n -> Positions]
          /\ \A g \in 1..n : lastPrintedIndex'[g] = IF g = d THEN last ELSE lastPrintedIndex[g]
      BY <2>2, <2>3, <3>2
    <3>4. lastPrintedIndex' \in Seq(Positions) /\ Len(lastPrintedIndex') = n
      BY <3>3
    <3> QED
      BY <3>1, <3>3, <3>4
  <2> QED
    BY <1>1, <2>2, <2>4 DEF DriversOK
<1>4. CASE lastPrintedIndex' = lastPrintedIndex
  BY <1>1, <1>4 DEF DriversOK
<1>5. CASE \/ StopIndex \/ StopReconcile \/ Poll
           \/ \E t \in Tasks : Request(t) \/ PumpStatus(t) \/ PumpFetch(t) \/ PumpSend(t)
           \/ UNCHANGED vars
  <2>1. lastPrintedIndex' = lastPrintedIndex
    BY <1>5 DEF StopIndex, StopReconcile, Poll, PollStatus, PollTask, PollIndex, PollMark, PollShow,
                Request, Create, TaskAppend, StopRequest, PumpStatus, PumpFetch, PumpSend, vars
  <2> QED
    BY <1>4, <2>1
<1>6. ASSUME NEW t \in Tasks, PumpCount(t)
      PROVE  /\ DriversOK' /\ Registered <= Registered'
             /\ \A g \in 1..Registered :
                   \/ lastPrintedIndex'[g] = lastPrintedIndex[g]
                   \/ \E s \in Tasks : /\ PumpCount(s) /\ g = pump[s].driver
                                       /\ lastPrintedIndex'[g] = LastOf(pump[s].batch)
             /\ Registered' = Registered
  BY <1>1, <1>3, <1>6
<1> QED
  BY <1>2, <1>5, <1>6 DEF Next, Pump

LEMMA PollerStep == ASSUME IInv, [Next]_vars PROVE PollerOK'
<1>1. /\ PollerOK /\ Registered \in Drivers /\ Registered <= Registered'
      /\ Registered \in Nat /\ Registered' \in Nat /\ MaxDrivers \in Nat \ {0}
      /\ lastPrintedIndex \in Seq(Positions) /\ MaxCodes \in Nat
  BY DriversStep, ServerAssumption DEF IInv, DriversOK, Drivers
<1>0. poller.driver <= Registered'
  BY <1>1 DEF PollerOK, Drivers
<1>2. CASE poller' = poller
  BY <1>0, <1>1, <1>2 DEF PollerOK
<1>3. CASE PollStatus
  <2>1. PICK answer \in GetStatus :
           poller' = [poller EXCEPT !.driver = Registered, !.status = answer,
                        !.pc = IF answer = "offline" THEN "show" ELSE "task"]
    BY <1>3 DEF PollStatus
  <2>2. answer \in States
    BY DEF GetStatus, States
  <2> QED
    BY <1>1, <2>1, <2>2 DEF PollerOK
<1>4. CASE PollTask
  <2>1. PICK t \in Tasks \cup {NoTask} : t = ActiveTask
    BY ActiveTaskFacts
  <2>2. poller' = [poller EXCEPT !.task = t, !.pc = IF t = NoTask THEN "show" ELSE "index"]
    BY <1>4, <2>1 DEF PollTask
  <2> QED
    BY <1>0, <1>1, <2>1, <2>2 DEF PollerOK
<1>5. CASE PollIndex
  <2>1. lastPrintedIndex[poller.driver] \in Positions
    BY <1>1 DEF PollerOK, Drivers, Registered
  <2>2. PICK x \in Positions : x = lastPrintedIndex[poller.driver]
    BY <2>1
  <2>3. poller' = [poller EXCEPT !.pc = "mark", !.index = x] /\ poller.pc = "index"
    BY <1>5, <2>2 DEF PollIndex
  <2> QED
    BY <1>0, <1>1, <2>2, <2>3 DEF PollerOK
<1>6. CASE PollMark
  BY <1>0, <1>1, <1>6 DEF PollerOK, PollMark
<1>7. CASE PollShow
  <2>1. FreshPoller = [pc |-> "visit", driver |-> 1, status |-> "ready", task |-> NoTask, index |-> 0]
    BY DEF FreshPoller
  <2>2. poller' = FreshPoller
    BY <1>7 DEF PollShow
  <2> QED
    BY <1>1, <2>1, <2>2 DEF PollerOK, States, Positions, Drivers
<1>8. CASE \/ StopIndex \/ StopReconcile \/ AddPrinter
           \/ \E t \in Tasks : Request(t) \/ Pump(t)
           \/ UNCHANGED vars
  BY <1>2, <1>8 DEF StopIndex, StopReconcile, AddPrinter, Request, Create, TaskAppend, StopRequest,
                    Pump, PumpStatus, PumpFetch, PumpSend, PumpCount, vars
<1> QED
  BY <1>3, <1>4, <1>5, <1>6, <1>7, <1>8 DEF Next, Poll

LEMMA StopStep == ASSUME IInv, [Next]_vars PROVE StopOK'
<1> USE DEF StopOK
<1>1. /\ StopOK /\ Registered \in Drivers /\ lastPrintedIndex \in Seq(Positions) /\ MaxCodes \in Nat
      /\ MaxDrivers \in Nat
  BY ServerAssumption DEF IInv, DriversOK
<1>2. ASSUME NEW t \in Tasks, StopRequest(t)
      PROVE  StopOK'
  BY <1>1, <1>2 DEF StopRequest, Positions
<1>3. CASE StopIndex
  <2>1. lastPrintedIndex[Registered] \in Positions
    BY <1>1 DEF Drivers, Registered
  <2> QED
    BY <1>1, <1>3, <2>1 DEF StopIndex
<1>4. CASE StopReconcile
  BY <1>1, <1>4 DEF StopReconcile, StopIdle, Positions
<1>5. CASE stop' = stop
  BY <1>1, <1>5
<1>6. CASE \/ Poll \/ AddPrinter
           \/ \E t \in Tasks : Create(t) \/ TaskAppend(t) \/ Pump(t)
           \/ UNCHANGED vars
  <2>1. stop' = stop
    BY <1>6 DEF Poll, PollStatus, PollTask, PollIndex, PollMark, PollShow, AddPrinter,
                Create, TaskAppend, Pump, PumpStatus, PumpFetch, PumpSend, PumpCount, vars
  <2> QED
    BY <1>5, <2>1
<1> QED
  BY <1>2, <1>3, <1>4, <1>6 DEF Next, Request

\* One pump at a time moves.
LEMMA PumpsMove ==
    ASSUME IInv, [Next]_vars
    PROVE  \/ pump' = pump
           \/ \E t \in Tasks : /\ TaskAppend(t) \/ Pump(t)
                               /\ \A s \in Tasks : s # t => pump'[s] = pump[s]
<1>1. pump = [t \in Tasks |-> pump[t]]
  BY DEF IInv, PumpsOK
<1>2. ASSUME NEW t \in Tasks, TaskAppend(t) \/ Pump(t)
      PROVE  \A s \in Tasks : s # t => pump'[s] = pump[s]
  <2>1. \E p : pump' = [pump EXCEPT ![t] = p]
    BY <1>2 DEF TaskAppend, Pump, PumpStatus, PumpFetch, PumpSend, PumpCount
  <2> QED
    BY <1>1, <2>1
<1>3. CASE \/ StopIndex \/ StopReconcile \/ Poll \/ AddPrinter
           \/ \E t \in Tasks : Create(t) \/ StopRequest(t)
           \/ UNCHANGED vars
  BY <1>3 DEF StopIndex, StopReconcile, Poll, PollStatus, PollTask, PollIndex, PollMark, PollShow,
              AddPrinter, Create, StopRequest, vars
<1> QED
  BY <1>2, <1>3 DEF Next, Request

\* What the steps of a pump hand on: the limit of a fetch, the codes after
\* the ones that were taken, the driver that is registered.
LEMMA FetchFacts ==
    ASSUME IInv, NEW t \in Tasks, PumpFetch(t)
    PROVE  \/ taken' = taken /\ pump'[t] = FreshPump
           \/ \E n \in Nat \ {0} :
                 /\ taken' = [taken EXCEPT ![t] = @ + n] /\ taken[t] + n \in Positions
                 /\ pump'[t] = [pc |-> "send", driver |-> Registered,
                                batch |-> [k \in 1..n |-> taken[t] + k]]
<1>1. /\ taken \in [Tasks -> Positions] /\ taken[t] \in Positions /\ delivered[t] \in Positions
      /\ taken[t] <= delivered[t] /\ MaxBatch \in Nat \ {0} /\ MaxCodes \in Nat
      /\ pump = [s \in Tasks |-> pump[s]]
  BY ServerAssumption DEF IInv, RowsOK, PumpsOK
<1>2. PICK n : /\ n = IF delivered[t] - taken[t] < MaxBatch THEN delivered[t] - taken[t] ELSE MaxBatch
               /\ taken' = [taken EXCEPT ![t] = @ + n]
               /\ pump' = [pump EXCEPT ![t] =
                      IF n = 0 THEN FreshPump
                      ELSE [pc |-> "send", driver |-> Registered,
                            batch |-> [k \in 1..n |-> taken[t] + k]]]
  BY DEF PumpFetch
<1>3. n \in Nat /\ taken[t] + n \in Positions
  BY <1>1, <1>2 DEF Positions
<1>4. CASE n = 0
  <2>1. taken' = taken
    BY <1>1, <1>2, <1>4 DEF Positions
  <2>2. pump'[t] = FreshPump
    BY <1>1, <1>2, <1>4
  <2> QED
    BY <2>1, <2>2
<1>5. CASE n # 0
  <2>1. pump'[t] = [pc |-> "send", driver |-> Registered, batch |-> [k \in 1..n |-> taken[t] + k]]
    BY <1>1, <1>2, <1>5
  <2> QED
    BY <1>2, <1>3, <1>5, <2>1
<1> QED
  BY <1>4, <1>5

LEMMA PumpsStep == ASSUME IInv, [Next]_vars PROVE PumpsOK'
<1>1. /\ PumpsOK /\ Registered \in Drivers /\ Registered <= Registered' /\ Registered \in Nat
      /\ Registered' \in Nat /\ MaxDrivers \in Nat \ {0} /\ 1 \in Drivers /\ 1 <= Registered'
      /\ MaxCodes \in Nat
      /\ RowsOK
  BY DriversStep, ServerAssumption DEF IInv, DriversOK, Drivers
<1>2. ASSUME NEW p, PumpOK(p)
      PROVE  PumpOK(p)'
  BY <1>1, <1>2 DEF PumpOK, Drivers
<1>3. /\ <<>> \in Seq(Positions)
      /\ NoPump = [pc |-> "none", driver |-> 1, batch |-> <<>>]
      /\ FreshPump = [pc |-> "tick", driver |-> 1, batch |-> <<>>]
  BY DEF NoPump, FreshPump
<1>4. PumpOK(NoPump)' /\ PumpOK(FreshPump)'
  <2>1. ASSUME NEW pc \in {"none", "tick"}, NEW p, p = [pc |-> pc, driver |-> 1, batch |-> <<>>]
        PROVE  PumpOK(p)'
    BY <1>1, <1>3, <2>1 DEF PumpOK
  <2>2. PICK p, q : p = NoPump /\ q = FreshPump
    OBVIOUS
  <2>3. PumpOK(p)' /\ PumpOK(q)'
    BY <1>3, <2>1, <2>2
  <2> QED
    BY <2>2, <2>3 DEF NoPump, FreshPump
<1>5. ASSUME NEW t \in Tasks, TaskAppend(t)
      PROVE  PumpOK(pump[t])'
  <2>1. pump'[t] \in {pump[t], FreshPump}
    BY <1>1, <1>5 DEF TaskAppend, PumpsOK
  <2> QED
    BY <1>1, <1>2, <1>4, <2>1 DEF PumpsOK
<1>6. ASSUME NEW t \in Tasks, PumpStatus(t)
      PROVE  PumpOK(pump[t])'
  <2>1. pump'[t] \in {[pump[t] EXCEPT !.pc = "fetch"], NoPump}
    BY <1>1, <1>6 DEF PumpStatus, PumpsOK
  <2>2. PICK p : p = [pump[t] EXCEPT !.pc = "fetch"]
    OBVIOUS
  <2>3. PumpOK(pump[t])
    BY <1>1 DEF PumpsOK
  <2>4. PumpOK(p)
    BY <2>2, <2>3 DEF PumpOK
  <2> QED
    BY <1>2, <1>4, <2>1, <2>2, <2>4
<1>7. ASSUME NEW t \in Tasks, PumpFetch(t)
      PROVE  PumpOK(pump[t])'
  <2>1. CASE pump'[t] = FreshPump
    BY <1>4, <2>1
  <2>2. ASSUME NEW n \in Nat \ {0}, taken[t] + n \in Positions,
               pump'[t] = [pc |-> "send", driver |-> Registered,
                           batch |-> [k \in 1..n |-> taken[t] + k]]
        PROVE  PumpOK(pump[t])'
    <3> DEFINE b == [k \in 1..n |-> taken[t] + k]
    <3>1. taken[t] \in Nat /\ taken[t] + n <= MaxCodes
      BY <1>1, <2>2 DEF RowsOK, Positions
    <3>2. \A k \in 1..n : taken[t] + k \in Positions
      BY <1>1, <3>1 DEF Positions
    <3>3. /\ b \in Seq(Positions) /\ Len(b) = n /\ DOMAIN b = 1..n /\ b # <<>>
          /\ \A k \in 1..n : b[k] = taken[t] + k
      BY <3>2
    <3> HIDE DEF b
    <3>4. b[1] = taken[t] + 1 /\ b[1] \in Nat \ {0} /\ LastOf(b) = taken[t] + n
      BY <3>1, <3>3 DEF LastOf
    <3>5. \A k \in DOMAIN b : b[k] = b[1] + k - 1
      BY <3>1, <3>3, <3>4
    <3>6. PumpOK([pc |-> "send", driver |-> Registered, batch |-> b])
      BY <1>1, <2>2, <3>3, <3>4, <3>5 DEF PumpOK
    <3>7. PICK p : p = [pc |-> "send", driver |-> Registered, batch |-> b]
      OBVIOUS
    <3>8. PumpOK(p)' /\ pump'[t] = p
      BY <1>2, <2>2, <3>6, <3>7 DEF b
    <3> QED
      BY <3>8
  <2> QED
    BY <1>7, <2>1, <2>2, FetchFacts
<1>8. ASSUME NEW t \in Tasks, PumpSend(t)
      PROVE  PumpOK(pump[t])'
  <2>1. pump'[t] \in {[pump[t] EXCEPT !.pc = "count"], FreshPump} /\ pump[t].pc = "send"
    BY <1>1, <1>8 DEF PumpSend, PumpsOK
  <2>2. PICK p : p = [pump[t] EXCEPT !.pc = "count"]
    OBVIOUS
  <2>3. PumpOK(pump[t])
    BY <1>1 DEF PumpsOK
  <2>4. PumpOK(p)
    BY <2>1, <2>2, <2>3 DEF PumpOK
  <2> QED
    BY <1>2, <1>4, <2>1, <2>2, <2>4
<1>9. ASSUME NEW t \in Tasks, PumpCount(t)
      PROVE  PumpOK(pump[t])'
  <2>1. pump'[t] = FreshPump
    BY <1>1, <1>9 DEF PumpCount, PumpsOK
  <2> QED
    BY <1>4, <2>1
<1>10. pump' = [t \in Tasks |-> pump'[t]]
  <2>1. ASSUME NEW t \in Tasks, TaskAppend(t) \/ Pump(t)
        PROVE  pump' = [s \in Tasks |-> pump'[s]]
    <3>1. \E p : pump' = [pump EXCEPT ![t] = p]
      BY <2>1 DEF TaskAppend, Pump, PumpStatus, PumpFetch, PumpSend, PumpCount
    <3> QED
      BY <1>1, <3>1 DEF PumpsOK
  <2>2. CASE pump' = pump
    BY <1>1, <2>2 DEF PumpsOK
  <2> QED
    BY <2>1, <2>2, PumpsMove
<1>11. \A t \in Tasks : PumpOK(pump[t])'
  <2>1. TAKE t \in Tasks
  <2>2. CASE pump'[t] = pump[t]
    <3>1. PICK p : p = pump[t]
      OBVIOUS
    <3>2. PumpOK(p)'
      BY <1>1, <1>2, <3>1 DEF PumpsOK
    <3> QED
      BY <2>2, <3>1, <3>2
  <2>3. CASE TaskAppend(t) \/ Pump(t)
    BY <1>5, <1>6, <1>7, <1>8, <1>9, <2>3 DEF Pump
  <2> QED
    BY <2>2, <2>3, PumpsMove
<1> QED
  BY <1>10, <1>11 DEF PumpsOK

LEMMA AcceptedStep == ASSUME IInv, [Next]_vars PROVE AcceptedOK'
<1> USE DEF AcceptedOK
<1>1. /\ AcceptedOK /\ PumpsOK
  BY DEF IInv
<1>2. ASSUME NEW t \in Tasks, Create(t)
      PROVE  AcceptedOK'
  BY <1>1, <1>2 DEF Create
<1>3. ASSUME NEW t \in Tasks, TaskAppend(t)
      PROVE  AcceptedOK'
  BY <1>1, <1>3 DEF TaskAppend
<1>4. ASSUME NEW t \in Tasks, PumpSend(t)
      PROVE  AcceptedOK'
  <2>1. first' = first
    BY <1>4 DEF PumpSend
  <2>2. PICK answered \in BOOLEAN :
           \/ accepted' = accepted
           \/ accepted' = [accepted EXCEPT ![t] = @ \o
                             [k \in DOMAIN pump[t].batch |->
                                [code |-> pump[t].batch[k], answered |-> answered]]]
    <3>1. PICK result \in sendPayload :
             accepted' = [accepted EXCEPT ![t] =
                IF ~result.taken THEN @
                ELSE @ \o [k \in DOMAIN pump[t].batch |->
                              [code |-> pump[t].batch[k], answered |-> result.answered]]]
      BY <1>4 DEF PumpSend
    <3>2. result.answered \in BOOLEAN /\ result.taken \in BOOLEAN
      <4>1. result \in {[taken |-> TRUE, answered |-> TRUE], [taken |-> FALSE, answered |-> FALSE],
                        [taken |-> TRUE, answered |-> FALSE]}
        BY DEF sendPayload
      <4>2. ASSUME NEW got \in BOOLEAN, NEW answered \in BOOLEAN,
                   result = [taken |-> got, answered |-> answered]
            PROVE  result.answered \in BOOLEAN /\ result.taken \in BOOLEAN
        <5>1. result.answered = answered
          BY <4>2, Zenon
        <5>2. result.taken = got
          BY <4>2, Zenon
        <5> QED
          BY <5>1, <5>2
      <4> QED
        BY <4>1, <4>2
    <3>3. CASE result.taken
      BY <3>1, <3>2, <3>3
    <3>4. CASE ~result.taken
      BY <1>1, <3>1, <3>2, <3>4
    <3> QED
      BY <3>2, <3>3, <3>4
  <2>3. pump[t].batch \in Seq(Positions)
    BY <1>1 DEF PumpsOK, PumpOK
  <2> DEFINE new == [k \in DOMAIN pump[t].batch |->
                       [code |-> pump[t].batch[k], answered |-> answered]]
  <2>4. PICK entry : entry = [code : Positions, answered : BOOLEAN]
    OBVIOUS
  <2>5. new \in Seq(entry)
    <3>1. PICK n \in Nat : n = Len(pump[t].batch) /\ DOMAIN pump[t].batch = 1..n
      BY <2>3
    <3>2. \A k \in 1..n : [code |-> pump[t].batch[k], answered |-> answered] \in entry
      BY <2>3, <2>4, <3>1
    <3> QED
      BY <3>1, <3>2
  <2> HIDE DEF new
  <2>6. accepted' = accepted \/ accepted' = [accepted EXCEPT ![t] = @ \o new]
    BY <2>2 DEF new
  <2>7. accepted \in [Tasks -> Seq(entry)] /\ accepted[t] \o new \in Seq(entry)
    <3>1. accepted \in [Tasks -> Seq(entry)]
      BY <1>1, <2>4
    <3> QED
      BY <2>5, <3>1
  <2>8. accepted' \in [Tasks -> Seq(entry)]
    BY <2>6, <2>7
  <2> QED
    BY <1>1, <2>1, <2>4, <2>8
<1>5. CASE \/ StopIndex \/ StopReconcile \/ Poll \/ AddPrinter
           \/ \E t \in Tasks : StopRequest(t) \/ PumpStatus(t) \/ PumpFetch(t) \/ PumpCount(t)
           \/ UNCHANGED vars
  <2>1. UNCHANGED <<accepted, first>>
    BY <1>5 DEF StopIndex, StopReconcile, Poll, PollStatus, PollTask, PollIndex, PollMark, PollShow,
                AddPrinter, StopRequest, PumpStatus, PumpFetch, PumpCount, vars
  <2> QED
    BY <1>1, <2>1
<1> QED
  BY <1>2, <1>3, <1>4, <1>5 DEF Next, Request, Pump

LEMMA Initially == Init => IInv
<1> SUFFICES ASSUME Init PROVE IInv
  OBVIOUS
<1>1. /\ 0 \in Positions /\ 1 \in Drivers /\ MaxLog \in Nat \ {0} /\ <<>> \in Seq(Positions)
  BY ServerAssumption DEF Positions, Drivers
<1> USE DEF Init
<1>2. RowsOK
  BY <1>1 DEF RowsOK
<1>3. BoardOK
  BY <1>1 DEF BoardOK, States
<1>4. DriversOK /\ Registered = 1
  BY <1>1 DEF DriversOK, Registered
<1>5. PollerOK /\ StopOK
  BY <1>1, <1>4 DEF PollerOK, StopOK, FreshPoller, StopIdle, NoTask, States
<1>6. PumpsOK
  BY <1>1, <1>4 DEF PumpsOK, PumpOK, NoPump
<1>7. AcceptedOK
  <2>1. <<>> \in Seq([code : Positions, answered : BOOLEAN])
    OBVIOUS
  <2> QED
    BY <2>1 DEF AcceptedOK
<1> QED
  BY <1>2, <1>3, <1>4, <1>5, <1>6, <1>7 DEF IInv

LEMMA Invariant == Spec => []IInv
<1>1. IInv /\ [Next]_vars => IInv'
  BY RowsStep, BoardStep, PollerStep, StopStep, DriversStep, PumpsStep, AcceptedStep DEF IInv
<1> QED
  BY <1>1, Initially, PTL DEF Spec

\* Every variable keeps its type: no row is confirmed before it was taken, the
\* log never holds more than its limit, and nobody asks a driver that was not
\* registered.
THEOREM TypeCorrect == Spec => []TypeOK
<1>1. IInv => TypeOK
  <2> SUFFICES ASSUME IInv PROVE TypeOK
    OBVIOUS
  <2>1. /\ \A t \in Tasks : pump[t] \in [pc : {"none", "tick", "fetch", "send", "count"},
                                         driver : Drivers, batch : Seq(Positions)]
        /\ pump = [t \in Tasks |-> pump[t]]
    BY DEF IInv, PumpsOK, PumpOK
  <2>2. pump \in [Tasks -> [pc : {"none", "tick", "fetch", "send", "count"},
                            driver : Drivers, batch : Seq(Positions)]]
    BY <2>1
  <2>3. Len(logs) <= MaxLog
    BY ServerAssumption DEF IInv, BoardOK
  <2> QED
    BY <2>2, <2>3 DEF TypeOK, IInv, RowsOK, BoardOK, PollerOK, StopOK, DriversOK, AcceptedOK
<1> QED
  BY <1>1, Invariant, PTL

-----------------------------------------------------------------------------
(* A stopped task rests.                                                    *)

\* A pump becomes busy by finding its task active.
LEMMA BusyStep ==
    ASSUME IInv, [Next]_vars
    PROVE  \A t \in Tasks : Busy(t)' => Busy(t) \/ (PumpStatus(t) /\ Active(t))
<1> SUFFICES ASSUME NEW t \in Tasks, Busy(t)', ~Busy(t)
             PROVE  PumpStatus(t) /\ Active(t)
  OBVIOUS
<1>1. pump = [s \in Tasks |-> pump[s]]
  BY DEF IInv, PumpsOK
<1>2. pump'[t] # pump[t] /\ pump'[t] # NoPump /\ pump'[t] # FreshPump
  BY DEF Busy, NoPump, FreshPump
<1>3. TaskAppend(t) \/ Pump(t)
  BY <1>2, PumpsMove
<1>4. ~TaskAppend(t)
  BY <1>1, <1>2 DEF TaskAppend
<1>5. PumpStatus(t)
  BY <1>3, <1>4 DEF Pump, PumpFetch, PumpSend, PumpCount, Busy
<1>6. Active(t)
  BY <1>1, <1>2, <1>5 DEF PumpStatus
<1> QED
  BY <1>5, <1>6

LEMMA OneActiveStep ==
    ASSUME IInv, OneActive, [Next]_vars, "busyStop" \notin Events
    PROVE  OneActive'
<1>1. /\ \A t \in Tasks : t \in Nat /\ t # NoTask
      /\ status \in [Tasks -> {"none", "active", "stopped"}]
      /\ StopOK
  BY ServerAssumption DEF IInv, RowsOK, Tasks, NoTask
<1>2. ASSUME UNCHANGED <<status, stop>>
      PROVE  OneActive'
  <2>1. \A t \in Tasks : Busy(t)' => Active(t)'
    BY <1>2, BusyStep DEF OneActive, Active
  <2> QED
    BY <1>2, <2>1 DEF OneActive, Active
<1>3. ASSUME NEW t \in Tasks, Create(t)
      PROVE  OneActive'
  <2>1. /\ status' = [status EXCEPT ![t] = "active"] /\ status[t] = "none"
        /\ \A s \in Tasks : s < t => status[s] = "stopped"
        /\ stop.pc = "idle" /\ stop' = stop /\ pump' = pump
    BY <1>3 DEF Create
  <2>2. \A s \in Tasks : status'[s] = IF s = t THEN "active" ELSE status[s]
    BY <1>1, <2>1
  <2>3. \A s \in Tasks : t < s => status[s] = "none"
    BY <2>1 DEF OneActive
  <2>4. \A s \in Tasks : s = t \/ s < t \/ t < s
    BY <1>1
  <2>5. \A s \in Tasks : s # t => ~Active(s)
    BY <2>1, <2>3, <2>4 DEF Active
  <2> QED
    BY <1>1, <2>1, <2>2, <2>3, <2>4, <2>5 DEF OneActive, Active, Busy
<1>4. ASSUME NEW t \in Tasks, TaskAppend(t)
      PROVE  OneActive'
  <2>1. CASE status' = status
    BY <1>2, <1>4, <2>1 DEF TaskAppend
  <2>2. CASE /\ status[t] = "stopped" /\ ActiveTask = NoTask /\ stop.pc = "idle"
             /\ status' = [status EXCEPT ![t] = "active"]
    <3>1. \A s \in Tasks : ~Active(s)
      BY <2>2, ActiveTaskFacts
    <3>2. \A s \in Tasks : ~Busy(s)
      BY <3>1 DEF OneActive
    <3>3. \A s \in Tasks : ~Busy(s)'
      BY <3>1, <3>2, BusyStep
    <3>4. stop' = stop
      BY <1>4 DEF TaskAppend
    <3>5. \A s \in Tasks : status'[s] = IF s = t THEN "active" ELSE status[s]
      BY <1>1, <2>2
    <3> QED
      BY <1>1, <2>2, <3>1, <3>3, <3>4, <3>5 DEF OneActive, Active
  <2> QED
    BY <1>4, <2>1, <2>2 DEF TaskAppend
<1>5. ASSUME NEW t \in Tasks, StopRequest(t)
      PROVE  OneActive'
  <2>1. /\ status' = [status EXCEPT ![t] = "stopped"] /\ Active(t) /\ Quiet(t)
        /\ stop' = [pc |-> "index", task |-> t, index |-> 0] /\ pump' = pump
    BY <1>5 DEF StopRequest
  <2>2. \A s \in Tasks : status'[s] = IF s = t THEN "stopped" ELSE status[s]
    BY <1>1, <2>1
  <2>3. \A s \in Tasks : s # t => ~Active(s)
    BY <2>1 DEF OneActive
  <2>4. \A s \in Tasks : ~Busy(s)
    BY <2>1, <2>3 DEF OneActive, Busy, Quiet
  <2>5. \A s \in Tasks : ~Busy(s)'
    BY <2>1, <2>4 DEF Busy
  <2>6. \A s, u \in Tasks : s < u /\ status'[s] = "none" => status'[u] = "none"
    BY <2>1, <2>2 DEF OneActive, Active
  <2> QED
    BY <2>1, <2>2, <2>3, <2>5, <2>6 DEF OneActive, Active
<1>6. CASE StopIndex \/ StopReconcile
  <2>1. status' = status /\ stop.pc # "idle"
    BY <1>6 DEF StopIndex, StopReconcile, taskVars
  <2>2. \/ stop'.pc # "idle" /\ stop'.task = stop.task
        \/ stop'.pc = "idle" /\ stop'.task = NoTask
    <3>1. CASE StopIndex
      <4>1. PICK x : stop' = [stop EXCEPT !.pc = "reconcile", !.index = x]
        BY <3>1 DEF StopIndex
      <4> QED
        BY <1>1, <4>1 DEF StopOK
    <3>2. CASE StopReconcile
      BY <3>2 DEF StopReconcile, StopIdle
    <3> QED
      BY <1>6, <3>1, <3>2
  <2>3. \A t \in Tasks : Busy(t)' => Active(t)'
    BY <2>1, BusyStep DEF OneActive, Active
  <2> QED
    BY <2>1, <2>2, <2>3 DEF OneActive, Active
<1>7. CASE Poll \/ AddPrinter \/ (\E t \in Tasks : Pump(t)) \/ UNCHANGED vars
  <2>1. UNCHANGED <<status, stop>>
    BY <1>7 DEF Poll, PollStatus, PollTask, PollIndex, PollMark, PollShow, AddPrinter, Pump,
                PumpStatus, PumpFetch, PumpSend, PumpCount, vars, taskVars
  <2> QED
    BY <1>2, <2>1
<1> QED
  BY <1>3, <1>4, <1>5, <1>6, <1>7 DEF Next, Request

\* The rows of a settled task stay where they are while it is stopped.
LEMMA SettledRests ==
    ASSUME IInv, RestInv, [Next]_vars,
           NEW t \in Tasks, Settled(t)
    PROVE  confirmed'[t] = confirmed[t] /\ taken'[t] = taken[t]
<1>1. RowsOK /\ confirmed[t] = taken[t] /\ ~Active(t)
  BY DEF IInv, RestInv, Emptied, Settled, Active
<1>2. CASE StopReconcile
  <2>1. PICK s, index : s = stop.task /\ index = stop.index
    OBVIOUS
  <2>2. /\ confirmed' = [confirmed EXCEPT ![s] = UpTo(s, index)]
        /\ taken' = [taken EXCEPT ![s] = UpTo(s, index)] /\ s # t
    BY <1>2, <2>1 DEF StopReconcile, Settled
  <2> QED
    BY <1>1, <2>2 DEF RowsOK
<1>3. CASE PollMark
  <2>1. PICK s, index : s = poller.task /\ index = poller.index
    OBVIOUS
  <2>2. confirmed' = [confirmed EXCEPT ![s] = UpTo(s, index)] /\ taken' = taken
    BY <1>3, <2>1 DEF PollMark
  <2>3. index \in Positions
    BY <2>1 DEF IInv, PollerOK
  <2>4. UpTo(t, index) = confirmed[t]
    BY <1>1, <2>3, UpToFacts
  <2> QED
    BY <1>1, <2>2, <2>4 DEF RowsOK
<1>4. ASSUME NEW s \in Tasks, PumpFetch(s)
      PROVE  confirmed'[t] = confirmed[t] /\ taken'[t] = taken[t]
  <2>1. s # t
    BY <1>1, <1>4 DEF PumpFetch, Busy, RestInv, OneActive
  <2>2. confirmed' = confirmed /\ \E n : taken' = [taken EXCEPT ![s] = n]
    BY <1>4 DEF PumpFetch
  <2> QED
    BY <1>1, <2>1, <2>2 DEF RowsOK
<1>5. CASE \/ StopIndex \/ PollStatus \/ PollTask \/ PollIndex \/ PollShow \/ AddPrinter
           \/ \E s \in Tasks : Request(s) \/ PumpStatus(s) \/ PumpSend(s) \/ PumpCount(s)
           \/ UNCHANGED vars
  BY <1>5 DEF StopIndex, PollStatus, PollTask, PollIndex, PollShow, AddPrinter, Request, Create,
              TaskAppend, StopRequest, PumpStatus, PumpSend, PumpCount, vars, taskVars
<1> QED
  BY <1>2, <1>3, <1>4, <1>5 DEF Next, Pump, Poll

LEMMA EmptiedStep ==
    ASSUME IInv, RestInv, [Next]_vars
    PROVE  Emptied'
<1> SUFFICES ASSUME NEW t \in Tasks, Settled(t)'
             PROVE  confirmed'[t] = taken'[t]
  BY DEF Emptied
<1>1. CASE Settled(t)
  BY <1>1, SettledRests DEF RestInv, Emptied
<1>2. CASE ~Settled(t)
  <2>1. RowsOK /\ t # NoTask
    BY ServerAssumption DEF IInv, Tasks, NoTask
  <2>2. CASE status[t] = "stopped" /\ stop.task = t
    <3>1. StopReconcile
      <4>1. stop'.task # stop.task /\ stop.pc # "idle"
        BY <2>1, <2>2 DEF Settled, RestInv, OneActive
      <4>2. ~StopIndex
        <5>1. SUFFICES ASSUME StopIndex PROVE stop'.task = stop.task
          BY <4>1
        <5>2. PICK x : stop' = [stop EXCEPT !.pc = "reconcile", !.index = x]
          BY <5>1 DEF StopIndex
        <5> QED
          BY <5>2 DEF IInv, StopOK
      <4>3. \A s \in Tasks : ~StopRequest(s)
        BY <4>1 DEF StopRequest
      <4>4. ASSUME ~StopReconcile
            PROVE  stop' = stop
        BY <4>2, <4>3, <4>4 DEF Next, Request, Create, TaskAppend, Pump,
               PumpStatus, PumpFetch, PumpSend, PumpCount, Poll, PollStatus, PollTask, PollIndex,
               PollMark, PollShow, AddPrinter, vars
      <4> QED
        BY <4>1, <4>4
    <3>2. PICK index : index = stop.index
      OBVIOUS
    <3>3. /\ confirmed' = [confirmed EXCEPT ![t] = UpTo(t, index)]
          /\ taken' = [taken EXCEPT ![t] = UpTo(t, index)]
      BY <2>2, <3>1, <3>2 DEF StopReconcile
    <3> QED
      BY <2>1, <3>3 DEF RowsOK
  <2>3. CASE status[t] # "stopped"
    <3>1. status'[t] = "stopped" /\ stop'.task # t
      BY DEF Settled
    <3>2. ASSUME NEW s \in Tasks, Request(s)
          PROVE  FALSE
      <4>1. StopRequest(s)
        BY <2>1, <2>3, <3>1, <3>2 DEF Request, Create, TaskAppend, RowsOK
      <4> QED
        BY <2>1, <2>3, <3>1, <4>1 DEF StopRequest, RowsOK
    <3>3. status' = status
      BY <3>2 DEF Next, StopIndex, StopReconcile, Pump,
                   PumpStatus, PumpFetch, PumpSend, PumpCount, Poll, PollStatus, PollTask, PollIndex,
                   PollMark, PollShow, AddPrinter, vars, taskVars
    <3> QED
      BY <2>3, <3>1, <3>3
  <2> QED
    BY <1>2, <2>2, <2>3 DEF Settled
<1> QED
  BY <1>1, <1>2

LEMMA RestInvariant == ASSUME "busyStop" \notin Events PROVE Spec => []RestInv
<1>1. Init => RestInv
  BY DEF Init, RestInv, OneActive, Emptied, Settled, Busy, Active, NoPump, StopIdle, NoTask
<1>2. IInv /\ RestInv /\ [Next]_vars => RestInv'
  BY OneActiveStep, EmptiedStep DEF RestInv
<1> QED
  BY <1>1, <1>2, Invariant, PTL DEF Spec

\* Once a stop that came between the ticks has reconciled its task, neither the
\* poller nor the successor's pump or stop moves a row of it.
THEOREM StoppedRests == ASSUME "busyStop" \notin Events PROVE Spec => StoppedTaskRests
<1>1. IInv /\ RestInv /\ [Next]_vars =>
        [\A t \in Tasks : Settled(t) /\ status'[t] = "stopped" =>
            confirmed'[t] = confirmed[t] /\ taken'[t] = taken[t]]_vars
  BY SettledRests
<1> QED
  BY <1>1, Invariant, RestInvariant, PTL DEF Spec, StoppedTaskRests

-----------------------------------------------------------------------------
(* Losses and recoveries by turns.                                          *)

\* A new entry that differs from the latest, or tells of a registration, keeps
\* the turns.
LEMMA TurnsKept ==
    ASSUME BoardOK, LossAndRecoveryAlternate, NEW entry \in {"added", "lost", "restored"},
           Entered(entry), entry = "added" \/ entry # logs[1]
    PROVE  LossAndRecoveryAlternate' /\ logs'[1] = entry
<1>1. /\ logs'[1] = entry
      /\ \A k \in 1..(Len(logs') - 1) : k \in 1..Len(logs) /\ logs'[k + 1] = logs[k]
      /\ Len(logs') \in Nat /\ Len(logs) \in Nat
  BY EnteredFacts, ServerAssumption DEF BoardOK
<1>2. SUFFICES ASSUME NEW k \in 1..(Len(logs') - 1), logs'[k] = logs'[k + 1]
               PROVE  logs'[k] = "added"
  BY <1>1 DEF LossAndRecoveryAlternate
<1>3. logs'[k + 1] = logs[k]
  BY <1>1
<1>4. CASE k = 1
  BY <1>1, <1>2, <1>3, <1>4
<1>5. CASE k > 1
  <2>1. k - 1 \in 1..(Len(logs') - 1) /\ k - 1 \in 1..(Len(logs) - 1)
    BY <1>1, <1>2, <1>5
  <2>2. logs'[k] = logs[k - 1] /\ logs[k] = logs[(k - 1) + 1]
    BY <1>1, <1>2, <2>1
  <2> QED
    BY <1>2, <1>3, <2>1, <2>2 DEF LossAndRecoveryAlternate
<1> QED
  BY <1>2, <1>4, <1>5

LEMMA LogStep ==
    ASSUME IInv, LogInv, [Next]_vars, "refuses" \notin Events
    PROVE  LogInv'
<1>1. BoardOK /\ shown \in {"initializing", "ready", "offline"}
  BY DEF IInv, BoardOK, LogInv, States
<1>2. poller'.status \in {"ready", "offline"}
  <2>1. poller \in [pc : {"visit", "task", "index", "mark", "show"}, driver : Drivers,
                    status : States, task : Tasks \cup {NoTask}, index : Positions]
    BY DEF IInv, PollerOK
  <2>2. CASE PollStatus
    <3>1. PICK answer \in GetStatus :
             poller' = [poller EXCEPT !.driver = Registered, !.status = answer,
                          !.pc = IF answer = "offline" THEN "show" ELSE "task"]
      BY <2>2 DEF PollStatus
    <3> QED
      BY <2>1, <3>1 DEF GetStatus
  <2>3. CASE PollTask \/ PollIndex \/ PollMark
    <3>1. CASE PollTask
      <4>1. PICK pc, task : pc = (IF task = NoTask THEN "show" ELSE "index") /\ task = ActiveTask
        OBVIOUS
      <4>2. poller' = [poller EXCEPT !.task = task, !.pc = pc]
        BY <3>1, <4>1 DEF PollTask
      <4> QED
        BY <2>1, <4>2 DEF LogInv
    <3>2. CASE PollIndex
      <4>1. PICK index : index = lastPrintedIndex[poller.driver]
        OBVIOUS
      <4>2. poller' = [poller EXCEPT !.pc = "mark", !.index = index]
        BY <3>2, <4>1 DEF PollIndex
      <4> QED
        BY <2>1, <4>2 DEF LogInv
    <3>3. CASE PollMark
      BY <2>1, <3>3 DEF PollMark, LogInv
    <3> QED
      BY <2>3, <3>1, <3>2, <3>3
  <2>4. CASE PollShow
    BY <2>4 DEF PollShow, FreshPoller
  <2>5. CASE poller' = poller
    BY <2>5 DEF LogInv
  <2>6. CASE \/ StopIndex \/ StopReconcile \/ AddPrinter
             \/ \E t \in Tasks : Request(t) \/ Pump(t)
             \/ UNCHANGED vars
    BY <2>5, <2>6 DEF StopIndex, StopReconcile, AddPrinter, Request, Create, TaskAppend, StopRequest,
                      Pump, PumpStatus, PumpFetch, PumpSend, PumpCount, vars
  <2> QED
    BY <2>2, <2>3, <2>4, <2>6 DEF Next, Poll
<1>3. CASE UNCHANGED boardVars
  BY <1>2, <1>3 DEF boardVars, LogInv, LossAndRecoveryAlternate
<1>4. CASE AddPrinter
  <2>1. Entered("added") /\ shown' = "initializing"
    BY <1>4 DEF AddPrinter
  <2>2. LossAndRecoveryAlternate' /\ logs'[1] = "added"
    BY <1>1, <2>1, TurnsKept DEF LogInv
  <2> QED
    BY <1>2, <2>1, <2>2 DEF LogInv
<1>5. CASE PollShow
  <2>1. PICK new \in {"ready", "offline"} : new = poller.status
    BY DEF LogInv
  <2>2. Show(new)
    BY <1>5, <2>1 DEF PollShow
  <2>3. CASE Loss(shown, new)
    <3>1. new = "offline" /\ shown = "ready" /\ logs[1] # "lost"
      BY <1>1, <2>3 DEF Loss, Offline, LogInv
    <3>2. Entered("lost") /\ shown' = "offline"
      BY <2>2, <2>3, <3>1 DEF Show, Recovery
    <3>3. LossAndRecoveryAlternate' /\ logs'[1] = "lost"
      BY <1>1, <3>1, <3>2, TurnsKept DEF LogInv
    <3> QED
      BY <1>2, <3>2, <3>3 DEF LogInv
  <2>4. CASE Recovery(shown, new)
    <3>1. Entered("restored") /\ shown' = "ready" /\ shown = "offline" /\ logs[1] = "lost"
      BY <1>1, <2>1, <2>2, <2>4 DEF Show, Loss, Recovery, Offline, LogInv
    <3>2. LossAndRecoveryAlternate' /\ logs'[1] = "restored"
      BY <1>1, <3>1, TurnsKept DEF LogInv
    <3> QED
      BY <1>2, <3>1, <3>2 DEF LogInv
  <2>5. CASE ~Loss(shown, new) /\ ~Recovery(shown, new)
    <3>1. logs' = logs /\ shown' = IF new = "offline" THEN shown ELSE new
      BY <2>2, <2>5 DEF Show
    <3>2. shown = "offline" => new = "offline"
      BY <2>5 DEF Recovery, Offline
    <3>3. shown = "ready" => new = "ready"
      BY <2>1, <2>5 DEF Loss, Offline
    <3>4. shown' # "refused" /\ (shown' = "offline" <=> shown = "offline")
          /\ (shown' = "initializing" => shown = "initializing")
      BY <1>1, <2>1, <3>1, <3>2, <3>3
    <3> QED
      BY <1>2, <3>1, <3>4 DEF LogInv, LossAndRecoveryAlternate
  <2> QED
    BY <2>3, <2>4, <2>5
<1>6. CASE \/ StopIndex \/ StopReconcile \/ PollStatus \/ PollTask \/ PollIndex \/ PollMark
           \/ \E t \in Tasks : Request(t) \/ Pump(t)
           \/ UNCHANGED vars
  <2>1. UNCHANGED boardVars
    BY <1>6 DEF StopIndex, StopReconcile, PollStatus, PollTask, PollIndex, PollMark, Request, Pump,
                Create, TaskAppend, StopRequest, PumpStatus, PumpFetch, PumpSend, PumpCount, vars
  <2> QED
    BY <1>3, <2>1
<1> QED
  BY <1>4, <1>5, <1>6 DEF Next, Poll

\* While the server never answers with an error code, a loss and a recovery
\* come by turns in the log, whatever driver the poller asked.
THEOREM LossesAlternate ==
    ASSUME "refuses" \notin Events
    PROVE  Spec => []LossAndRecoveryAlternate
<1>1. Init => LogInv
  BY DEF Init, LogInv, FreshPoller, LossAndRecoveryAlternate
<1>2. IInv /\ LogInv /\ [Next]_vars => LogInv'
  BY LogStep
<1>3. LogInv => LossAndRecoveryAlternate
  BY DEF LogInv
<1> QED
  BY <1>1, <1>2, <1>3, Invariant, PTL DEF Spec

-----------------------------------------------------------------------------
(* What a request adds to what the server accepted.                         *)

\* The server takes the pump's batch, behind what it took before.
Took(t, answered) ==
    LET before == Len(accepted[t])
        batch == pump[t].batch
    IN  /\ DOMAIN accepted'[t] = 1..(before + Len(batch))
        /\ \A l \in 1..before : accepted'[t][l] = accepted[t][l]
        /\ \A k \in 1..Len(batch) :
              /\ accepted'[t][before + k].code = batch[k]
              /\ accepted'[t][before + k].answered <=> answered

LEMMA SendFacts ==
    ASSUME IInv, NEW t \in Tasks, PumpSend(t)
    PROVE  /\ \A s \in Tasks : s # t => accepted'[s] = accepted[s]
           /\ \/ pump'[t] = FreshPump /\ accepted' = accepted /\ "sendFails" \in Events
              \/ pump'[t] = FreshPump /\ Took(t, FALSE)
              \/ pump'[t] = [pump[t] EXCEPT !.pc = "count"] /\ Took(t, TRUE)
<1>1. PICK entry : entry = [code : Positions, answered : BOOLEAN]
  OBVIOUS
<1>2. /\ accepted \in [Tasks -> Seq(entry)] /\ pump = [s \in Tasks |-> pump[s]]
      /\ pump[t].batch \in Seq(Positions)
  BY <1>1 DEF IInv, AcceptedOK, PumpsOK, PumpOK
<1>3. PICK result \in sendPayload :
        /\ accepted' = [accepted EXCEPT ![t] =
                IF ~result.taken THEN @
                ELSE @ \o [k \in DOMAIN pump[t].batch |->
                              [code |-> pump[t].batch[k], answered |-> result.answered]]]
        /\ pump' = [pump EXCEPT ![t] =
                        IF result.answered THEN [@ EXCEPT !.pc = "count"] ELSE FreshPump]
  BY DEF PumpSend
<1>4. \A s \in Tasks : s # t => accepted'[s] = accepted[s]
  BY <1>2, <1>3
<1>5. ASSUME NEW answered \in BOOLEAN,
             accepted' = [accepted EXCEPT ![t] = @ \o
                [k \in DOMAIN pump[t].batch |-> [code |-> pump[t].batch[k], answered |-> answered]]]
      PROVE  Took(t, answered)
  <2> DEFINE new == [k \in DOMAIN pump[t].batch |->
                       [code |-> pump[t].batch[k], answered |-> answered]]
  <2>0. accepted[t] \in Seq(entry)
    BY <1>2
  <2>1. PICK before \in Nat, n \in Nat : before = Len(accepted[t]) /\ n = Len(pump[t].batch)
    <3>1. Len(accepted[t]) \in Nat
      BY <2>0
    <3>2. Len(pump[t].batch) \in Nat
      BY <1>2
    <3> QED
      BY <3>1, <3>2
  <2>2. /\ new \in Seq(entry) /\ Len(new) = n
        /\ \A k \in 1..n : new[k] = [code |-> pump[t].batch[k], answered |-> answered]
    <3>1. DOMAIN pump[t].batch = 1..n
      BY <1>2, <2>1
    <3>2. \A k \in 1..n : [code |-> pump[t].batch[k], answered |-> answered] \in entry
      BY <1>1, <1>2, <2>1
    <3> QED
      BY <3>1, <3>2
  <2> HIDE DEF new
  <2>3. \A k \in 1..n : new[k].code = pump[t].batch[k] /\ (new[k].answered <=> answered)
    <3>1. TAKE k \in 1..n
    <3>2. PICK code : code = pump[t].batch[k]
      OBVIOUS
    <3>3. new[k] = [code |-> code, answered |-> answered]
      BY <2>2, <3>2
    <3>4. PICK r : r = [code |-> code, answered |-> answered]
      OBVIOUS
    <3>5. r.code = code
      BY <3>4, Zenon
    <3>6. r.answered = answered
      BY <3>4, Zenon
    <3> QED
      BY <3>2, <3>3, <3>4, <3>5, <3>6
  <2>4. accepted'[t] = accepted[t] \o new
    BY <1>2, <1>5 DEF new
  <2>5. /\ DOMAIN accepted'[t] = 1..(before + n)
        /\ \A l \in 1..before : accepted'[t][l] = accepted[t][l]
        /\ \A k \in 1..n : accepted'[t][before + k] = new[k]
    <3>0. PICK r : r = accepted'[t]
      OBVIOUS
    <3>1. PICK q \in Seq(entry) : q = accepted[t]
      BY <2>0
    <3>2. r = q \o new /\ Len(q) = before
      BY <2>1, <2>4, <3>0, <3>1
    <3>3. /\ DOMAIN r = 1..(before + n)
          /\ \A l \in 1..before : r[l] = q[l]
          /\ \A k \in 1..n : r[before + k] = new[k]
      <4>1. PICK x \in Seq(entry) : x = new
        BY <2>2
      <4>2. /\ DOMAIN (q \o x) = 1..(Len(q) + Len(x))
            /\ \A l \in 1..Len(q) : (q \o x)[l] = q[l]
            /\ \A k \in 1..Len(x) : (q \o x)[Len(q) + k] = x[k]
        OBVIOUS
      <4>3. r = q \o x /\ Len(q) = before /\ Len(x) = n
        BY <2>2, <3>2, <4>1
      <4> QED
        BY <4>1, <4>2, <4>3, Zenon
    <3> QED
      BY <3>0, <3>1, <3>3
  <2> QED
    BY <2>1, <2>3, <2>5 DEF Took
<1>6. CASE result = [taken |-> TRUE, answered |-> TRUE]
  <2>1. result.taken /\ result.answered /\ result.answered = TRUE
    BY <1>6, Zenon
  <2>2. Took(t, TRUE)
    BY <1>3, <1>5, <2>1
  <2>3. pump'[t] = [pump[t] EXCEPT !.pc = "count"]
    BY <1>2, <1>3, <2>1
  <2> QED
    BY <1>4, <2>2, <2>3
<1>7. CASE result = [taken |-> TRUE, answered |-> FALSE]
  <2>1. result.taken /\ ~result.answered /\ result.answered = FALSE
    BY <1>7, Zenon
  <2>2. Took(t, FALSE)
    BY <1>3, <1>5, <2>1
  <2>3. pump'[t] = FreshPump
    BY <1>2, <1>3, <2>1
  <2> QED
    BY <1>4, <2>2, <2>3
<1>8. CASE result = [taken |-> FALSE, answered |-> FALSE] /\ "sendFails" \in Events
  <2>1. ~result.taken /\ ~result.answered
    BY <1>8, Zenon
  <2>2. accepted' = accepted
    BY <1>2, <1>3, <2>1
  <2>3. pump'[t] = FreshPump
    BY <1>2, <1>3, <2>1
  <2> QED
    BY <1>4, <1>8, <2>2, <2>3
<1> QED
  BY <1>6, <1>7, <1>8 DEF sendPayload

-----------------------------------------------------------------------------
(* No code is sent after its batch was acknowledged.                        *)

\* Where the server is not asked, what is covered stays covered.
LEMMA CountKept ==
    ASSUME IInv, CountInv, accepted' = accepted,
           \A t \in Tasks : \A k \in Positions : Covered(t, k) => Covered(t, k)',
           \A t \in Tasks : pump'[t].pc \in {"send", "count"} =>
               pump'[t] = pump[t] /\ taken'[t] = taken[t] /\ Registered' = Registered
    PROVE  CountInv'
<1>1. \A t \in Tasks : \A k \in Positions : Acknowledged(t, k)' = Acknowledged(t, k)
  BY DEF Acknowledged
<1>2. \A t \in Tasks : \A k \in Positions : Acknowledged(t, k)' => Covered(t, k)'
  BY <1>1 DEF CountInv
<1>3. \A t \in Tasks : pump'[t].pc = "send" =>
         \A k \in Positions : Acknowledged(t, k)' => k < pump'[t].batch[1]
  BY <1>1 DEF CountInv
<1>4. \A t \in Tasks : pump'[t].pc \in {"send", "count"} =>
         pump'[t].driver = Registered' /\ LastOf(pump'[t].batch) = taken'[t]
  BY DEF CountInv
<1>5. AcknowledgedOnce'
  BY DEF CountInv, AcknowledgedOnce
<1> QED
  BY <1>2, <1>3, <1>4, <1>5 DEF CountInv

LEMMA CountFetch ==
    ASSUME IInv, CountInv, NEW t \in Tasks, PumpFetch(t)
    PROVE  CountInv'
<1>1. /\ RowsOK /\ pump = [s \in Tasks |-> pump[s]] /\ PumpOK(pump[t]) /\ MaxCodes \in Nat
      /\ pump[t].pc = "fetch"
  BY ServerAssumption DEF IInv, PumpsOK, PumpFetch
<1>2. /\ \A s \in Tasks : s # t => pump'[s] = pump[s] /\ taken'[s] = taken[s]
      /\ UNCHANGED <<accepted, confirmed, status, lastPrintedIndex, stop>>
      /\ Registered' = Registered
  <2>1. UNCHANGED <<accepted, confirmed, status, lastPrintedIndex, stop>>
    BY DEF PumpFetch
  <2>2. \E n, p : taken' = [taken EXCEPT ![t] = n] /\ pump' = [pump EXCEPT ![t] = p]
    BY DEF PumpFetch
  <2>3. \A s \in Tasks : s # t => pump'[s] = pump[s] /\ taken'[s] = taken[s]
    BY <1>1, <2>2 DEF RowsOK
  <2> QED
    BY <2>1, <2>3 DEF Registered
<1>3. CASE taken' = taken /\ pump'[t] = FreshPump
  <2>1. \A s \in Tasks : \A k \in Positions : Covered(s, k) => Covered(s, k)'
    BY <1>1, <1>2, <1>3 DEF Covered, Active, Registered
  <2>2. \A s \in Tasks : pump'[s].pc \in {"send", "count"} => pump'[s] = pump[s]
    BY <1>2, <1>3 DEF FreshPump, NoPump
  <2> QED
    BY <1>2, <1>3, <2>1, <2>2, CountKept
<1>4. ASSUME NEW n \in Nat \ {0}, taken[t] + n \in Positions,
             taken' = [taken EXCEPT ![t] = @ + n],
             pump'[t] = [pc |-> "send", driver |-> Registered,
                         batch |-> [k \in 1..n |-> taken[t] + k]]
      PROVE  CountInv'
  <2>1. PICK x \in Nat : x = taken[t] /\ x <= MaxCodes /\ confirmed[t] <= x /\ confirmed[t] \in Nat
    BY <1>1 DEF RowsOK, Positions
  <2>2. PICK b : b = [k \in 1..n |-> x + k]
    OBVIOUS
  <2>3. b[1] = x + 1 /\ Len(b) = n /\ LastOf(b) = x + n
    BY <2>1, <2>2 DEF LastOf
  <2>4. /\ pump'[t].pc = "send" /\ pump'[t].driver = Registered /\ pump'[t].batch = b
        /\ taken'[t] = x + n
    BY <1>1, <1>4, <2>1, <2>2 DEF RowsOK
  <2>5. \A s \in Tasks : \A k \in Positions : Acknowledged(s, k)' = Acknowledged(s, k)
    BY <1>2 DEF Acknowledged
  <2>6. \A s \in Tasks : \A k \in Positions : Covered(s, k) => Covered(s, k)'
    <3>1. SUFFICES ASSUME NEW s \in Tasks, NEW k \in Positions
                   PROVE  Covered(s, k) => Covered(s, k)'
      OBVIOUS
    <3>2. CASE s # t
      BY <1>2, <3>2 DEF Covered, Active, Registered
    <3>3. CASE s = t
      <4>1. k <= taken[t] => k <= taken'[t]
        BY <2>1, <2>4 DEF Positions
      <4> QED
        BY <1>1, <1>2, <3>3, <4>1 DEF Covered, Active, Registered
    <3> QED
      BY <3>2, <3>3
  <2>7. \A k \in Positions : Acknowledged(t, k) => k < b[1]
    <3>1. TAKE k \in Positions
    <3>2. Covered(t, k) => k <= x
      BY <2>1 DEF Covered, Positions
    <3> QED
      BY <2>1, <2>3, <3>2 DEF CountInv, Positions
  <2>8. \A s \in Tasks : pump'[s].pc = "send" =>
           \A k \in Positions : Acknowledged(s, k)' => k < pump'[s].batch[1]
    BY <1>2, <2>4, <2>5, <2>7 DEF CountInv
  <2>9. \A s \in Tasks : pump'[s].pc \in {"send", "count"} =>
           pump'[s].driver = Registered' /\ LastOf(pump'[s].batch) = taken'[s]
    BY <1>2, <2>3, <2>4 DEF CountInv
  <2>10. AcknowledgedOnce'
    BY <1>2 DEF CountInv, AcknowledgedOnce
  <2> QED
    BY <2>5, <2>6, <2>8, <2>9, <2>10 DEF CountInv
<1> QED
  BY <1>3, <1>4, FetchFacts

LEMMA CountSend ==
    ASSUME IInv, CountInv, NEW t \in Tasks, PumpSend(t)
    PROVE  CountInv'
<1>1. /\ RowsOK /\ PumpOK(pump[t]) /\ MaxCodes \in Nat /\ pump[t].pc = "send"
      /\ Registered' = Registered
      /\ UNCHANGED <<confirmed, taken, status, lastPrintedIndex, stop>>
  BY ServerAssumption DEF IInv, PumpsOK, PumpSend, taskVars, Registered
<1>2. /\ \A s \in Tasks : s # t => pump'[s] = pump[s]
      /\ pump'[t] = FreshPump \/ pump'[t] = [pump[t] EXCEPT !.pc = "count"]
  <2>1. \E p : pump' = [pump EXCEPT ![t] = p]
    BY DEF PumpSend
  <2>2. pump = [s \in Tasks |-> pump[s]]
    BY DEF IInv, PumpsOK
  <2> QED
    BY <2>1, <2>2, SendFacts
<1>3. \A s \in Tasks : \A k \in Positions : Covered(s, k) => Covered(s, k)'
  BY <1>1, <1>2 DEF Covered, Active, Registered
<1>4. CASE pump'[t] = FreshPump /\ accepted' = accepted
  <2>1. \A s \in Tasks : pump'[s].pc \in {"send", "count"} => pump'[s] = pump[s]
    BY <1>2, <1>4 DEF FreshPump, NoPump
  <2> QED
    BY <1>1, <1>3, <1>4, <2>1, CountKept
<1>5. ASSUME NEW answered \in BOOLEAN, Took(t, answered),
             IF answered THEN pump'[t] = [pump[t] EXCEPT !.pc = "count"]
             ELSE pump'[t] = FreshPump
      PROVE  CountInv'
  <2>1. PICK b, n, before, c, low :
           /\ b = pump[t].batch /\ n = Len(b) /\ before = Len(accepted[t]) /\ c = taken[t]
           /\ low = b[1]
    OBVIOUS
  <2>2. /\ n \in Nat /\ before \in Nat /\ c \in Nat /\ c <= MaxCodes /\ low \in Nat
        /\ \A k \in 1..n : b[k] = low + k - 1
        /\ low + n - 1 = c
    <3>1. b \in Seq(Positions) /\ low \in Nat /\ \A k \in DOMAIN b : b[k] = low + k - 1
      BY <1>1, <2>1 DEF PumpOK
    <3>2. c \in Positions
      BY <1>1, <2>1 DEF RowsOK
    <3>3. accepted[t] \in Seq([code : Positions, answered : BOOLEAN])
      BY DEF IInv, AcceptedOK
    <3>4. Len(accepted[t]) \in Nat
      BY <3>3
    <3>5. LastOf(b) = c
      BY <1>1, <2>1 DEF CountInv
    <3>6. n \in Nat /\ DOMAIN b = 1..n
      BY <2>1, <3>1
    <3>7. low + n - 1 = c
      BY <2>1, <3>5 DEF LastOf
    <3>8. c \in Nat /\ c <= MaxCodes
      BY <1>1, <3>2 DEF Positions
    <3> QED
      BY <2>1, <3>1, <3>4, <3>6, <3>7, <3>8
  <2>3. /\ DOMAIN accepted[t] = 1..before /\ DOMAIN accepted'[t] = 1..(before + n)
        /\ \A l \in 1..before : accepted'[t][l] = accepted[t][l]
        /\ \A l \in (before + 1)..(before + n) :
              accepted'[t][l].code = low + (l - before) - 1 /\ (accepted'[t][l].answered <=> answered)
    <3>1. accepted[t] \in Seq([code : Positions, answered : BOOLEAN])
      BY DEF IInv, AcceptedOK
    <3>2. DOMAIN accepted[t] = 1..before
      BY <2>1, <3>1
    <3>3. /\ DOMAIN accepted'[t] = 1..(before + n)
          /\ \A l \in 1..before : accepted'[t][l] = accepted[t][l]
          /\ \A k \in 1..n : /\ accepted'[t][before + k].code = low + k - 1
                             /\ accepted'[t][before + k].answered <=> answered
      BY <1>5, <2>1, <2>2 DEF Took
    <3>4. \A l \in (before + 1)..(before + n) : l - before \in 1..n /\ before + (l - before) = l
      BY <2>2
    <3> QED
      BY <3>2, <3>3, <3>4
  <2>4. \A s \in Tasks : s # t =>
           /\ accepted'[s] = accepted[s]
           /\ \A k \in Positions : Acknowledged(s, k)' = Acknowledged(s, k)
    BY SendFacts DEF Acknowledged
  <2>5. \A k \in Positions : Acknowledged(t, k)' =>
           Acknowledged(t, k) \/ (answered /\ low <= k /\ k <= c)
    <3>1. SUFFICES ASSUME NEW k \in Positions, NEW l \in DOMAIN accepted'[t],
                          accepted'[t][l].code = k, accepted'[t][l].answered
                   PROVE  Acknowledged(t, k) \/ (answered /\ low <= k /\ k <= c)
      BY DEF Acknowledged
    <3>2. CASE l \in 1..before
      BY <2>3, <3>1, <3>2 DEF Acknowledged
    <3>3. CASE l \in (before + 1)..(before + n)
      BY <2>2, <2>3, <3>1, <3>3
    <3> QED
      BY <2>2, <2>3, <3>2, <3>3
  <2>6. \A s \in Tasks : \A k \in Positions : Acknowledged(s, k)' => Covered(s, k)'
    <3>1. SUFFICES ASSUME NEW s \in Tasks, NEW k \in Positions
                   PROVE  Acknowledged(s, k)' => Covered(s, k)'
      OBVIOUS
    <3>2. CASE s # t
      BY <1>3, <2>4, <3>2 DEF CountInv
    <3>3. CASE s = t
      <4>1. CASE answered /\ low <= k /\ k <= c
        <5>1. pump'[t].pc = "count" /\ pump'[t].batch = b
          BY <1>1, <1>5, <2>1, <4>1 DEF PumpOK
        <5>2. LastOf(b) = c /\ taken'[t] = c
          BY <1>1, <2>1 DEF CountInv
        <5> QED
          BY <3>3, <4>1, <5>1, <5>2 DEF Covered
      <4>2. CASE Acknowledged(t, k)
        BY <1>3, <3>3, <4>2 DEF CountInv
      <4> QED
        BY <2>5, <3>3, <4>1, <4>2
    <3> QED
      BY <3>2, <3>3
  <2>7. pump'[t].pc \in {"count", "tick"}
    BY <1>1, <1>5 DEF FreshPump, NoPump, PumpOK
  <2>8. \A s \in Tasks : pump'[s].pc = "send" =>
           \A k \in Positions : Acknowledged(s, k)' => k < pump'[s].batch[1]
    BY <1>2, <2>4, <2>7 DEF CountInv
  <2>9. \A s \in Tasks : pump'[s].pc \in {"send", "count"} =>
           pump'[s].driver = Registered' /\ LastOf(pump'[s].batch) = taken'[s]
    <3>1. pump'[t].pc = "count" => pump'[t].driver = pump[t].driver /\ pump'[t].batch = pump[t].batch
      BY <1>1, <1>2 DEF FreshPump, NoPump, PumpOK
    <3> QED
      BY <1>1, <1>2, <2>7, <3>1 DEF CountInv
  <2>10. AcknowledgedOnce'
    <3>1. SUFFICES ASSUME NEW s \in Tasks, NEW k \in DOMAIN accepted'[s], NEW l \in DOMAIN accepted'[s],
                          k < l, accepted'[s][k].answered
                   PROVE  accepted'[s][l].code # accepted'[s][k].code
      BY DEF AcknowledgedOnce
    <3>2. CASE s # t
      BY <2>4, <3>1, <3>2 DEF CountInv, AcknowledgedOnce
    <3>3. CASE s = t
      <4>1. k \in 1..(before + n) /\ l \in 1..(before + n)
        BY <2>3, <3>3
      <4>2. CASE l \in 1..before
        <5>1. k \in 1..before
          BY <2>2, <3>1, <4>1, <4>2
        <5>2. k \in DOMAIN accepted[t] /\ l \in DOMAIN accepted[t]
          BY <2>3, <4>2, <5>1
        <5>3. accepted'[t][k] = accepted[t][k] /\ accepted'[t][l] = accepted[t][l]
          BY <2>3, <4>2, <5>1
        <5>4. accepted[t][k].answered
          BY <3>1, <3>3, <5>3
        <5>5. accepted[t][l].code # accepted[t][k].code
          BY <3>1, <5>2, <5>4 DEF CountInv, AcknowledgedOnce
        <5> QED
          BY <3>3, <5>3, <5>5
      <4>3. CASE k \in 1..before /\ l \in (before + 1)..(before + n)
        <5>1. accepted'[t][k] = accepted[t][k] /\ accepted[t][k].code \in Positions
          <6>0. PICK entry : entry = [code : Positions, answered : BOOLEAN]
            OBVIOUS
          <6>1. accepted[t] \in Seq(entry)
            BY <6>0 DEF IInv, AcceptedOK
          <6>2. k \in DOMAIN accepted[t]
            BY <2>3, <4>3
          <6>3. accepted[t][k] \in entry
            BY <6>1, <6>2
          <6>4. accepted[t][k].code \in Positions
            BY <6>0, <6>3
          <6> QED
            BY <2>3, <4>3, <6>4
        <5>2. Acknowledged(t, accepted[t][k].code)
          BY <2>3, <3>1, <3>3, <4>3, <5>1 DEF Acknowledged
        <5>3. accepted[t][k].code < low
          BY <1>1, <2>1, <5>1, <5>2 DEF CountInv
        <5>4. accepted'[t][l].code = low + (l - before) - 1
          BY <2>3, <4>3
        <5>5. PICK code \in Nat : code = accepted[t][k].code
          BY <5>1 DEF Positions
        <5>6. code # low + (l - before) - 1
          BY <2>2, <4>3, <5>3, <5>5
        <5> QED
          BY <3>3, <5>1, <5>4, <5>5, <5>6
      <4>4. CASE k \in (before + 1)..(before + n) /\ l \in (before + 1)..(before + n)
        BY <2>2, <2>3, <3>1, <3>3, <4>4
      <4> QED
        BY <2>2, <3>1, <4>1, <4>2, <4>3, <4>4
    <3> QED
      BY <3>2, <3>3
  <2> QED
    BY <2>6, <2>8, <2>9, <2>10 DEF CountInv
<1> QED
  BY <1>4, <1>5, SendFacts

LEMMA CountCount ==
    ASSUME IInv, OneActive, CountInv, NEW t \in Tasks, PumpCount(t)
    PROVE  CountInv'
<1>1. /\ RowsOK /\ pump = [s \in Tasks |-> pump[s]] /\ pump[t].pc = "count"
      /\ UNCHANGED <<accepted, confirmed, taken, status, stop>>
      /\ pump' = [pump EXCEPT ![t] = FreshPump]
      /\ StopOK /\ DriversOK
  BY DEF IInv, PumpsOK, PumpCount, taskVars
<1>2. /\ Active(t) /\ \A s \in Tasks : s # t => ~Active(s) /\ ~Busy(s)
      /\ stop.pc = "idle"
  <2>1. Active(t)
    BY <1>1 DEF OneActive, Busy
  <2> QED
    BY <1>1, <2>1 DEF OneActive
<1>3. PICK d, last : /\ d = pump[t].driver /\ last = LastOf(pump[t].batch)
                     /\ lastPrintedIndex' = [lastPrintedIndex EXCEPT ![d] = last]
  BY DEF PumpCount
<1>4. d = Registered /\ last = taken[t]
  BY <1>1, <1>3 DEF CountInv
<1>5. Registered' = Registered /\ lastPrintedIndex'[Registered'] = taken[t]
  <2>0. lastPrintedIndex \in Seq(Positions) /\ Len(lastPrintedIndex) > 0
    BY <1>1, ServerAssumption DEF DriversOK, Registered, Drivers
  <2>1. PICK q \in Seq(Positions), n \in Nat :
           q = lastPrintedIndex /\ n = Len(q) /\ n \in 1..n /\ q \in [1..n -> Positions]
    BY <2>0
  <2>2. d = n /\ n = Registered
    BY <1>4, <2>1 DEF Registered
  <2>3. PICK r : r = [q EXCEPT ![n] = last]
    OBVIOUS
  <2>4. Len(r) = n /\ r[n] = last
    <3>1. last \in Positions
      BY <1>1, <1>4 DEF RowsOK
    <3>2. r \in [1..n -> Positions] /\ r[n] = last
      BY <2>1, <2>3, <3>1
    <3> QED
      BY <3>2
  <2> QED
    BY <1>3, <1>4, <2>1, <2>2, <2>3, <2>4 DEF Registered
<1>6. \A s \in Tasks : \A k \in Positions : Covered(s, k) => Covered(s, k)'
  <2>1. SUFFICES ASSUME NEW s \in Tasks, NEW k \in Positions
                 PROVE  Covered(s, k) => Covered(s, k)'
    OBVIOUS
  <2>2. CASE s # t
    BY <1>1, <1>2, <2>2 DEF Covered, Busy
  <2>3. CASE s = t
    BY <1>1, <1>2, <1>5, <2>3 DEF Covered, Active
  <2> QED
    BY <2>2, <2>3
<1>7. \A s \in Tasks : pump'[s].pc \in {"send", "count"} => pump'[s] = pump[s]
  BY <1>1 DEF FreshPump, NoPump
<1> QED
  BY <1>1, <1>5, <1>6, <1>7, CountKept

LEMMA CountStep ==
    ASSUME IInv, OneActive, CountInv, [Next]_vars,
           "busyStop" \notin Events, "busyReplace" \notin Events
    PROVE  CountInv'
<1>1. /\ RowsOK /\ StopOK /\ PollerOK /\ pump = [s \in Tasks |-> pump[s]] /\ MaxCodes \in Nat
      /\ \A t \in Tasks : t # NoTask
  BY ServerAssumption DEF IInv, PumpsOK, Tasks, NoTask
<1>2. ASSUME NEW t \in Tasks, Create(t)
      PROVE  CountInv'
  <2>1. /\ status' = [status EXCEPT ![t] = "active"]
        /\ UNCHANGED <<accepted, confirmed, taken, lastPrintedIndex, pump, stop>>
    BY <1>2 DEF Create
  <2>2. \A s \in Tasks : \A k \in Positions : Covered(s, k) => Covered(s, k)'
    BY <1>1, <2>1 DEF Covered, Active, Registered, RowsOK
  <2> QED
    BY <2>1, <2>2, CountKept DEF Registered
<1>3. ASSUME NEW t \in Tasks, TaskAppend(t)
      PROVE  CountInv'
  <2>1. /\ status' = status \/ status' = [status EXCEPT ![t] = "active"]
        /\ UNCHANGED <<accepted, confirmed, taken, lastPrintedIndex, stop>>
        /\ pump' = [pump EXCEPT ![t] = IF @ = NoPump THEN FreshPump ELSE @]
    BY <1>3 DEF TaskAppend
  <2>2. \A s \in Tasks : pump'[s] = pump[s] \/ (pump[s] = NoPump /\ pump'[s] = FreshPump)
    BY <1>1, <2>1
  <2>3. \A s \in Tasks : Active(s) => Active(s)'
    BY <1>1, <2>1 DEF RowsOK, Active
  <2>4. \A s \in Tasks : pump[s].pc = "count" => pump'[s] = pump[s]
    BY <2>2 DEF NoPump
  <2>5. \A s \in Tasks : \A k \in Positions : Covered(s, k) => Covered(s, k)'
    BY <2>1, <2>3, <2>4 DEF Covered, Registered
  <2>6. \A s \in Tasks : pump'[s].pc \in {"send", "count"} => pump'[s] = pump[s]
    BY <2>2 DEF NoPump, FreshPump
  <2> QED
    BY <2>1, <2>5, <2>6, CountKept DEF Registered
<1>4. ASSUME NEW t \in Tasks, StopRequest(t)
      PROVE  CountInv'
  <2>1. /\ status' = [status EXCEPT ![t] = "stopped"] /\ stop.pc = "idle"
        /\ stop' = [pc |-> "index", task |-> t, index |-> 0]
        /\ UNCHANGED <<accepted, confirmed, taken, lastPrintedIndex, pump>>
    BY <1>4 DEF StopRequest
  <2>2. /\ stop'.pc = "index" /\ stop'.task = t
        /\ \A s \in Tasks : s # t /\ Active(s) => Active(s)'
    BY <1>1, <2>1 DEF RowsOK, Active
  <2>3. \A s \in Tasks : \A k \in Positions : Covered(s, k) => Covered(s, k)'
    BY <2>1, <2>2 DEF Covered, Registered
  <2> QED
    BY <2>1, <2>3, CountKept DEF Registered
<1>5. CASE StopIndex
  <2>1. PICK index : index = lastPrintedIndex[Registered]
    OBVIOUS
  <2>2. /\ stop.pc = "index" /\ stop' = [stop EXCEPT !.pc = "reconcile", !.index = index]
        /\ UNCHANGED <<accepted, confirmed, taken, status, lastPrintedIndex, pump>>
    BY <1>5, <2>1 DEF StopIndex, taskVars
  <2>3. stop'.pc = "reconcile" /\ stop'.index = index /\ stop'.task = stop.task
    BY <1>1, <2>2 DEF StopOK
  <2>4. \A s \in Tasks : \A k \in Positions : Covered(s, k) => Covered(s, k)'
    BY <2>1, <2>2, <2>3 DEF Covered, Active, Registered
  <2> QED
    BY <2>2, <2>4, CountKept DEF Registered
<1>6. CASE StopReconcile
  <2>1. PICK t, index : t = stop.task /\ index = stop.index
    OBVIOUS
  <2>2. /\ t \in Tasks /\ index \in Positions /\ stop.pc = "reconcile"
        /\ confirmed' = [confirmed EXCEPT ![t] = UpTo(t, index)]
        /\ taken' = [taken EXCEPT ![t] = UpTo(t, index)]
        /\ UNCHANGED <<accepted, status, lastPrintedIndex, pump>>
    BY <1>1, <1>6, <2>1 DEF StopReconcile, StopOK
  <2>3. /\ \A s \in Tasks : ~Active(s) /\ ~Busy(s)
    BY <2>2 DEF OneActive
  <2>4. /\ UpTo(t, index) \in Positions /\ confirmed[t] <= UpTo(t, index)
        /\ \A k \in Positions : k <= taken[t] /\ k <= index => k <= UpTo(t, index)
    BY <1>1, <2>2, UpToFacts
  <2>5. \A s \in Tasks : \A k \in Positions : Covered(s, k) => Covered(s, k)'
    <3>1. SUFFICES ASSUME NEW s \in Tasks, NEW k \in Positions, Covered(s, k)
                   PROVE  k <= confirmed'[s]
      BY DEF Covered
    <3>2. k <= confirmed[s] \/ (s = t /\ k <= taken[t] /\ k <= index)
      BY <2>1, <2>2, <2>3, <3>1 DEF Covered, Busy
    <3>3. k \in Nat /\ confirmed[s] \in Nat /\ UpTo(t, index) \in Nat
      BY <1>1, <2>4 DEF RowsOK, Positions
    <3>4. confirmed'[s] = IF s = t THEN UpTo(t, index) ELSE confirmed[s]
      BY <1>1, <2>2 DEF RowsOK
    <3> QED
      BY <2>4, <3>2, <3>3, <3>4
  <2>6. \A s \in Tasks : pump'[s].pc \notin {"send", "count"}
    BY <2>2, <2>3 DEF Busy
  <2> QED
    BY <2>2, <2>5, <2>6, CountKept
<1>7. CASE AddPrinter
  <2>1. /\ \A s \in Tasks : ~Active(s) /\ Quiet(s)
        /\ stop.pc = "idle" /\ UNCHANGED <<accepted, confirmed, taken, status, pump, stop>>
    BY <1>7, ActiveTaskFacts DEF AddPrinter, taskVars
  <2>2. \A s \in Tasks : \A k \in Positions : Covered(s, k) => Covered(s, k)'
    BY <2>1 DEF Covered, Quiet
  <2>3. \A s \in Tasks : pump'[s].pc \notin {"send", "count"}
    BY <2>1 DEF Quiet
  <2> QED
    BY <2>1, <2>2, <2>3, CountKept
<1>8. CASE PollMark
  <2>1. PICK t, index : t = poller.task /\ index = poller.index
    OBVIOUS
  <2>2. /\ t \in Tasks /\ index \in Positions
        /\ confirmed' = [confirmed EXCEPT ![t] = UpTo(t, index)]
        /\ UNCHANGED <<accepted, taken, status, lastPrintedIndex, pump, stop>>
    BY <1>1, <1>8, <2>1 DEF PollMark, PollerOK
  <2>3. UpTo(t, index) \in Positions /\ confirmed[t] <= UpTo(t, index)
    BY <1>1, <2>2, UpToFacts
  <2>4. \A s \in Tasks : \A k \in Positions : Covered(s, k) => Covered(s, k)'
    <3>1. SUFFICES ASSUME NEW s \in Tasks, NEW k \in Positions, Covered(s, k)
                   PROVE  Covered(s, k)'
      OBVIOUS
    <3>2. k \in Nat /\ confirmed[s] \in Nat /\ UpTo(t, index) \in Nat
      BY <1>1, <2>3 DEF RowsOK, Positions
    <3>3. confirmed'[s] = IF s = t THEN UpTo(t, index) ELSE confirmed[s]
      BY <1>1, <2>2 DEF RowsOK
    <3>4. k <= confirmed[s] => k <= confirmed'[s]
      BY <2>3, <3>2, <3>3
    <3> QED
      BY <2>2, <3>1, <3>4 DEF Covered, Active, Registered
  <2> QED
    BY <2>2, <2>4, CountKept DEF Registered
<1>9. ASSUME NEW t \in Tasks, PumpStatus(t)
      PROVE  CountInv'
  <2>1. /\ pump[t].pc = "tick"
        /\ UNCHANGED <<accepted, confirmed, taken, status, lastPrintedIndex, stop>>
        /\ pump' = [pump EXCEPT ![t] = IF Active(t) THEN [@ EXCEPT !.pc = "fetch"] ELSE NoPump]
    BY <1>9 DEF PumpStatus, taskVars
  <2>2. PumpOK(pump[t])
    BY DEF IInv, PumpsOK
  <2>3. /\ \A s \in Tasks : s # t => pump'[s] = pump[s]
        /\ pump'[t].pc \notin {"send", "count"}
    BY <1>1, <2>1, <2>2 DEF PumpOK, NoPump
  <2>4. \A s \in Tasks : \A k \in Positions : Covered(s, k) => Covered(s, k)'
    BY <2>1, <2>3 DEF Covered, Active, Registered
  <2> QED
    BY <2>1, <2>3, <2>4, CountKept DEF Registered
<1>10. CASE PollStatus \/ PollTask \/ PollIndex \/ PollShow \/ UNCHANGED vars
  <2>1. UNCHANGED <<accepted, confirmed, taken, status, lastPrintedIndex, pump, stop>>
    BY <1>10 DEF PollStatus, PollTask, PollIndex, PollShow, vars, taskVars
  <2>2. \A s \in Tasks : \A k \in Positions : Covered(s, k) => Covered(s, k)'
    BY <2>1 DEF Covered, Active, Registered
  <2> QED
    BY <2>1, <2>2, CountKept DEF Registered
<1> QED
  BY <1>2, <1>3, <1>4, <1>5, <1>6, <1>7, <1>8, <1>9, <1>10, CountFetch, CountSend, CountCount
  DEF Next, Request, Pump, Poll

\* While a stop or a registration never comes in the middle of a pump's tick,
\* a code is not sent again once its batch was acknowledged, although the stop
\* returns what is not counted and the task goes on.
THEOREM AcknowledgedSentOnce ==
    ASSUME "busyStop" \notin Events, "busyReplace" \notin Events
    PROVE  Spec => []AcknowledgedOnce
<1>1. Init => CountInv
  BY DEF Init, CountInv, AcknowledgedOnce, Acknowledged, NoPump
<1>2. IInv /\ RestInv /\ CountInv /\ [Next]_vars => CountInv'
  BY CountStep DEF RestInv
<1>3. CountInv => AcknowledgedOnce
  BY DEF CountInv
<1> QED
  BY <1>1, <1>2, <1>3, Invariant, RestInvariant, PTL DEF Spec

-----------------------------------------------------------------------------
(* What is confirmed was accepted.                                          *)

\* The server forgets nothing.
LEMMA AcceptedGrows ==
    ASSUME IInv, [Next]_vars, NEW t \in Tasks, NEW k, IsAccepted(t, k)
    PROVE  IsAccepted(t, k)'
<1>1. CASE accepted'[t] = accepted[t]
  BY <1>1 DEF IsAccepted
<1>2. ASSUME NEW s \in Tasks, PumpSend(s)
      PROVE  IsAccepted(t, k)'
  <2>1. CASE s # t \/ accepted' = accepted
    BY <1>1, <1>2, <2>1, SendFacts
  <2>2. ASSUME s = t, NEW answered, Took(t, answered)
        PROVE  IsAccepted(t, k)'
    <3>1. PICK entry : entry = [code : Positions, answered : BOOLEAN]
      OBVIOUS
    <3>2. accepted[t] \in Seq(entry) /\ pump[t].batch \in Seq(Positions)
      BY <3>1 DEF IInv, AcceptedOK, PumpsOK, PumpOK
    <3>3. PICK l \in DOMAIN accepted[t] : accepted[t][l].code = k
      BY DEF IsAccepted
    <3>4. l \in 1..Len(accepted[t]) /\ Len(accepted[t]) \in Nat
      BY <3>2, <3>3
    <3>5. Len(pump[t].batch) \in Nat
      BY <3>2
    <3>6. /\ DOMAIN accepted'[t] = 1..(Len(accepted[t]) + Len(pump[t].batch))
          /\ accepted'[t][l] = accepted[t][l]
      BY <2>2, <3>4 DEF Took
    <3>7. l \in DOMAIN accepted'[t]
      <4>1. PICK before, n : before = Len(accepted[t]) /\ n = Len(pump[t].batch)
        OBVIOUS
      <4>2. before \in Nat /\ n \in Nat /\ l \in 1..before
        BY <3>4, <3>5, <4>1
      <4>3. l \in 1..(before + n)
        BY <4>2
      <4> QED
        BY <3>6, <4>1, <4>3
    <3> QED
      BY <3>3, <3>6, <3>7 DEF IsAccepted
  <2> QED
    BY <1>2, <2>1, <2>2, SendFacts
<1>3. CASE \/ StopIndex \/ StopReconcile \/ Poll \/ AddPrinter
           \/ \E s \in Tasks : Request(s) \/ PumpStatus(s) \/ PumpFetch(s) \/ PumpCount(s)
           \/ UNCHANGED vars
  <2>1. accepted' = accepted
    BY <1>3 DEF StopIndex, StopReconcile, Poll, PollStatus, PollTask, PollIndex, PollMark, PollShow,
                AddPrinter, Request, Create, TaskAppend, StopRequest, PumpStatus, PumpFetch,
                PumpCount, vars
  <2> QED
    BY <1>1, <2>1
<1> QED
  BY <1>2, <1>3 DEF Next, Pump

\* A batch that got through is accepted to its last code.
LEMMA BatchAccepted ==
    ASSUME IInv, NEW t \in Tasks, PumpSend(t), "sendFails" \notin Events,
           NEW k \in DOMAIN pump[t].batch, NEW code, code = pump[t].batch[k]
    PROVE  IsAccepted(t, code)'
<1>1. PICK answered : Took(t, answered)
  BY SendFacts
<1>2. PICK before, n, b : before = Len(accepted[t]) /\ b = pump[t].batch /\ n = Len(b)
  OBVIOUS
<1>3. before \in Nat /\ n \in Nat /\ k \in 1..n
  <2>1. accepted[t] \in Seq([code : Positions, answered : BOOLEAN]) /\ pump[t].batch \in Seq(Positions)
    BY DEF IInv, AcceptedOK, PumpsOK, PumpOK
  <2>2. Len(accepted[t]) \in Nat
    BY <2>1
  <2>3. Len(pump[t].batch) \in Nat /\ DOMAIN pump[t].batch = 1..Len(pump[t].batch)
    BY <2>1
  <2> QED
    BY <1>2, <2>2, <2>3
<1>4. /\ DOMAIN accepted'[t] = 1..(before + n)
      /\ accepted'[t][before + k].code = b[k]
  BY <1>1, <1>2, <1>3 DEF Took
<1>5. before + k \in DOMAIN accepted'[t]
  BY <1>3, <1>4
<1> QED
  BY <1>2, <1>4, <1>5 DEF IsAccepted

LEMMA KnowsStep ==
    ASSUME IInv, PollerKnows, [Next]_vars
    PROVE  PollerKnows'
<1>1. /\ RowsOK /\ PollerOK
  BY DEF IInv
<1>2. \A t \in Tasks : status[t] # "none" => status'[t] # "none"
  BY <1>1 DEF RowsOK, Next, Request, Create, TaskAppend, StopRequest, StopIndex, StopReconcile, Poll,
     PollStatus, PollTask, PollIndex, PollMark, PollShow, AddPrinter, Pump, PumpStatus, PumpFetch,
     PumpSend, PumpCount, vars, taskVars
<1>3. CASE PollStatus \/ PollMark \/ PollShow
  <2>1. poller'.pc \notin {"index", "mark"}
    <3>1. CASE PollStatus
      <4>1. PICK driver, answer, pc : /\ poller' = [poller EXCEPT !.driver = driver, !.status = answer, !.pc = pc]
                                      /\ pc \in {"show", "task"}
        <5>1. PICK answer \in GetStatus :
                 poller' = [poller EXCEPT !.driver = Registered, !.status = answer,
                              !.pc = IF answer = "offline" THEN "show" ELSE "task"]
          BY <3>1 DEF PollStatus
        <5>2. PICK driver, pc : driver = Registered /\ pc = IF answer = "offline" THEN "show" ELSE "task"
          OBVIOUS
        <5> QED
          BY <5>1, <5>2
      <4> QED
        BY <1>1, <4>1 DEF PollerOK
    <3>2. CASE PollMark
      BY <1>1, <3>2 DEF PollMark, PollerOK
    <3>3. CASE PollShow
      BY <3>3 DEF PollShow, FreshPoller
    <3> QED
      BY <1>3, <3>1, <3>2, <3>3
  <2> QED
    BY <2>1 DEF PollerKnows
<1>4. CASE PollTask
  <2>1. PICK task, pc : task = ActiveTask /\ pc = IF task = NoTask THEN "show" ELSE "index"
    OBVIOUS
  <2>2. poller' = [poller EXCEPT !.task = task, !.pc = pc]
    BY <1>4, <2>1 DEF PollTask
  <2>3. poller'.task = task /\ poller'.pc = pc
    BY <1>1, <2>2 DEF PollerOK
  <2>4. task # NoTask => task \in Tasks /\ status[task] # "none"
    BY <2>1, ActiveTaskFacts DEF Active
  <2> QED
    BY <1>2, <2>1, <2>3, <2>4 DEF PollerKnows
<1>5. CASE PollIndex
  <2>1. PICK index : index = lastPrintedIndex[poller.driver]
    OBVIOUS
  <2>2. poller.pc = "index" /\ poller' = [poller EXCEPT !.pc = "mark", !.index = index]
    BY <1>5, <2>1 DEF PollIndex
  <2>3. poller'.task = poller.task /\ poller.task \in Tasks
    BY <1>1, <2>2 DEF PollerOK
  <2> QED
    BY <1>2, <2>2, <2>3 DEF PollerKnows
<1>6. CASE poller' = poller
  BY <1>1, <1>2, <1>6 DEF PollerKnows, PollerOK
<1>7. CASE \/ StopIndex \/ StopReconcile \/ AddPrinter
           \/ \E t \in Tasks : Request(t) \/ Pump(t)
           \/ UNCHANGED vars
  BY <1>6, <1>7 DEF StopIndex, StopReconcile, AddPrinter, Request, Create, TaskAppend, StopRequest,
                    Pump, PumpStatus, PumpFetch, PumpSend, PumpCount, vars
<1> QED
  BY <1>3, <1>4, <1>5, <1>7 DEF Next, Poll

LEMMA TakenStep ==
    ASSUME IInv, OneActive, TakenAccepted, [Next]_vars, "sendFails" \notin Events
    PROVE  TakenAccepted'
<1>1. /\ RowsOK /\ PumpsOK /\ StopOK /\ MaxCodes \in Nat
  BY ServerAssumption DEF IInv
<1>2. SUFFICES ASSUME NEW t \in Tasks
               PROVE  /\ \A k \in 1..taken'[t] : k \in InHand(t)' \/ IsAccepted(t, k)'
                      /\ pump'[t].pc \in {"send", "count"} => LastOf(pump'[t].batch) = taken'[t]
  BY DEF TakenAccepted
<1>3. CASE taken'[t] = taken[t] /\ pump'[t] = pump[t]
  <2>1. InHand(t)' = InHand(t)
    BY <1>3 DEF InHand
  <2> QED
    BY <1>3, <2>1, AcceptedGrows DEF TakenAccepted
<1>4. CASE /\ taken'[t] = taken[t] /\ pump[t].pc \in {"none", "tick", "fetch"}
           /\ pump'[t].pc \in {"none", "tick", "fetch"}
  <2>1. InHand(t)' = {} /\ InHand(t) = {}
    BY <1>4 DEF InHand
  <2> QED
    BY <1>4, <2>1, AcceptedGrows DEF TakenAccepted
<1>5. CASE PumpFetch(t)
  <2>1. InHand(t) = {}
    BY <1>5 DEF PumpFetch, InHand
  <2>2. CASE taken' = taken /\ pump'[t] = FreshPump
    BY <1>4, <1>5, <2>2 DEF PumpFetch, FreshPump, NoPump
  <2>3. ASSUME NEW n \in Nat \ {0}, taken' = [taken EXCEPT ![t] = @ + n],
               pump'[t] = [pc |-> "send", driver |-> Registered,
                           batch |-> [k \in 1..n |-> taken[t] + k]]
        PROVE  /\ \A k \in 1..taken'[t] : k \in InHand(t)' \/ IsAccepted(t, k)'
               /\ pump'[t].pc \in {"send", "count"} => LastOf(pump'[t].batch) = taken'[t]
    <3>1. PICK x \in Nat : x = taken[t]
      BY <1>1 DEF RowsOK, Positions
    <3>2. taken'[t] = x + n
      BY <1>1, <2>3, <3>1 DEF RowsOK
    <3>3. PICK b : b = [k \in 1..n |-> x + k]
      OBVIOUS
    <3>4. pump'[t].pc = "send" /\ pump'[t].batch = b
      BY <2>3, <3>1, <3>3
    <3>5. LastOf(b) = x + n
      BY <3>1, <3>3 DEF LastOf
    <3>6. InHand(t)' = {b[k] : k \in 1..n}
      BY <3>3, <3>4 DEF InHand
    <3>7. \A k \in 1..(x + n) : k \in InHand(t)' \/ IsAccepted(t, k)'
      <4>1. SUFFICES ASSUME NEW k \in 1..(x + n)
                     PROVE  k \in InHand(t)' \/ IsAccepted(t, k)'
        OBVIOUS
      <4>2. CASE k <= x
        <5>1. k \in 1..taken[t]
          BY <3>1, <4>1, <4>2
        <5> QED
          BY <2>1, <5>1, AcceptedGrows DEF TakenAccepted
      <4>3. CASE k > x
        <5>1. k - x \in 1..n /\ b[k - x] = k
          BY <3>1, <3>3, <4>1, <4>3
        <5> QED
          BY <3>6, <5>1
      <4> QED
        BY <3>1, <4>1, <4>2, <4>3
    <3> QED
      BY <3>2, <3>4, <3>5, <3>7
  <2> QED
    BY <1>5, <2>2, <2>3, FetchFacts
<1>6. CASE PumpSend(t)
  <2>1. taken' = taken /\ pump[t].pc = "send"
    BY <1>6 DEF PumpSend, taskVars
  <2>2. \A k \in 1..taken[t] : IsAccepted(t, k)'
    <3>1. SUFFICES ASSUME NEW k \in 1..taken[t]
                   PROVE  IsAccepted(t, k)'
      OBVIOUS
    <3>2. CASE IsAccepted(t, k)
      BY <3>2, AcceptedGrows
    <3>3. CASE k \in InHand(t)
      <4>1. PICK l \in DOMAIN pump[t].batch : k = pump[t].batch[l]
        BY <2>1, <3>3 DEF InHand
      <4> QED
        BY <1>6, <4>1, BatchAccepted
    <3> QED
      BY <3>2, <3>3 DEF TakenAccepted
  <2>3. pump'[t].pc \in {"send", "count"} => pump'[t].batch = pump[t].batch
    <3>1. pump'[t] = FreshPump \/ pump'[t] = [pump[t] EXCEPT !.pc = "count"]
      BY <1>6, SendFacts
    <3> QED
      BY <1>1, <3>1 DEF FreshPump, NoPump, PumpsOK, PumpOK
  <2> QED
    BY <2>1, <2>2, <2>3 DEF TakenAccepted
<1>7. CASE PumpCount(t)
  <2>1. /\ taken' = taken /\ pump[t].pc = "count" /\ pump'[t] = FreshPump
    BY <1>1, <1>7 DEF PumpCount, PumpsOK, taskVars
  <2>2. InHand(t)' = {} /\ InHand(t) = {} /\ pump'[t].pc = "tick"
    BY <2>1 DEF InHand, FreshPump, NoPump
  <2> QED
    BY <2>1, <2>2, AcceptedGrows DEF TakenAccepted
<1>8. CASE PumpStatus(t)
  <2>1. /\ taken' = taken /\ pump[t].pc = "tick"
        /\ pump'[t] \in {[pump[t] EXCEPT !.pc = "fetch"], NoPump}
    BY <1>1, <1>8 DEF PumpStatus, PumpsOK, taskVars
  <2>2. pump'[t].pc \in {"none", "tick", "fetch"}
    BY <1>1, <2>1 DEF NoPump, PumpsOK, PumpOK
  <2> QED
    BY <1>4, <2>1, <2>2
<1>9. CASE TaskAppend(t)
  <2>1. taken' = taken /\ (pump'[t] = pump[t] \/ (pump[t] = NoPump /\ pump'[t] = FreshPump))
    BY <1>1, <1>9 DEF TaskAppend, PumpsOK
  <2> QED
    BY <1>3, <1>4, <2>1 DEF NoPump, FreshPump
<1>10. CASE StopReconcile
  <2>1. PICK s, index : s = stop.task /\ index = stop.index
    OBVIOUS
  <2>2. /\ s \in Tasks /\ index \in Positions /\ taken' = [taken EXCEPT ![s] = UpTo(s, index)]
        /\ pump' = pump /\ accepted' = accepted /\ ~Busy(s)
    BY <1>1, <1>10, <2>1 DEF StopReconcile, StopOK, OneActive
  <2>3. CASE s # t
    BY <1>1, <1>3, <2>2, <2>3 DEF RowsOK
  <2>4. CASE s = t
    <3>1. taken'[t] = UpTo(t, index) /\ UpTo(t, index) \in Positions /\ UpTo(t, index) <= taken[t]
      BY <1>1, <2>2, <2>4, UpToFacts DEF RowsOK
    <3>2. \A k \in 1..taken'[t] : k \in 1..taken[t]
      BY <1>1, <3>1 DEF RowsOK, Positions
    <3>3. InHand(t)' = {} /\ InHand(t) = {} /\ pump'[t].pc \notin {"send", "count"}
      BY <2>2, <2>4 DEF InHand, Busy
    <3> QED
      BY <3>2, <3>3, AcceptedGrows DEF TakenAccepted
  <2> QED
    BY <2>3, <2>4
<1>11. ASSUME NEW s \in Tasks, s # t, TaskAppend(s) \/ Pump(s)
       PROVE  taken'[t] = taken[t] /\ pump'[t] = pump[t]
  <2>1. \E n, p : /\ taken' = taken \/ taken' = [taken EXCEPT ![s] = n]
                  /\ pump' = [pump EXCEPT ![s] = p]
    BY <1>11 DEF TaskAppend, Pump, PumpStatus, PumpFetch, PumpSend, PumpCount, taskVars
  <2> QED
    BY <1>1, <1>11, <2>1 DEF RowsOK, PumpsOK
<1>12. CASE \/ StopIndex \/ Poll \/ AddPrinter
            \/ \E s \in Tasks : Create(s) \/ StopRequest(s)
            \/ UNCHANGED vars
  BY <1>3, <1>12 DEF StopIndex, Poll, PollStatus, PollTask, PollIndex, PollMark, PollShow, AddPrinter,
     Create, StopRequest, vars, taskVars
<1> QED
  BY <1>3, <1>5, <1>6, <1>7, <1>8, <1>9, <1>10, <1>11, <1>12 DEF Next, Request, Pump

\* Every index that is read covers accepted codes only, so what is confirmed
\* by it does.
LEMMA CountsStep ==
    ASSUME IInv, OneActive, AcceptInv, [Next]_vars
    PROVE  CountsAccepted'
<1>1. /\ RowsOK /\ PumpsOK /\ StopOK /\ PollerOK /\ DriversOK /\ MaxCodes \in Nat
      /\ \A t \in Tasks : t # NoTask
      /\ Registered \in Nat \ {0}
  BY ServerAssumption DEF IInv, DriversOK, Drivers, Tasks, NoTask
<1> DEFINE Reach(t) == \A k : IsAccepted(t, k) => IsAccepted(t, k)'
           Counts(t) == /\ status[t] # "none"
                        /\ \A s \in Tasks : Active(s) => s = t
           Indexes(t) == \A g \in 1..Registered : \A k \in 1..lastPrintedIndex[g] : IsAccepted(t, k)
           Read(t) == poller.pc = "mark" /\ poller.task = t =>
                          \A k \in 1..poller.index : IsAccepted(t, k)
           Stopped(t) == stop.pc = "reconcile" /\ stop.task = t =>
                          \A k \in 1..stop.index : IsAccepted(t, k)
           Confirmed(t) == \A k \in 1..confirmed[t] : IsAccepted(t, k)
<1>2. \A t \in Tasks : Reach(t)
  BY AcceptedGrows
<1>3. \A t \in Tasks : first[t] => Counts(t) /\ Indexes(t) /\ Read(t) /\ Stopped(t) /\ Confirmed(t)
  BY DEF AcceptInv, CountsAccepted
<1>4. SUFFICES ASSUME NEW t \in Tasks, first'[t]
               PROVE  Counts(t)' /\ Indexes(t)' /\ Read(t)' /\ Stopped(t)' /\ Confirmed(t)'
  BY DEF CountsAccepted
<1>5. CASE Create(t)
  <2>1. /\ status' = [status EXCEPT ![t] = "active"] /\ status[t] = "none"
        /\ \A s \in Tasks : s < t => status[s] = "stopped"
        /\ stop.pc = "idle"
        /\ UNCHANGED <<confirmed, taken, lastPrintedIndex, pump, poller, stop, accepted>>
        /\ \A g \in 1..Registered : lastPrintedIndex[g] = 0
    BY <1>4, <1>5 DEF Create, taskVars
  <2>2. Counts(t)'
    <3>1. \A s \in Tasks : s # t => s < t \/ t < s
      BY DEF Tasks
    <3>2. \A s \in Tasks : s # t => ~Active(s)
      BY <2>1, <3>1 DEF OneActive, Active
    <3> QED
      BY <1>1, <2>1, <3>2 DEF Active, RowsOK
  <2>3. Indexes(t)'
    BY <2>1 DEF Registered
  <2>4. Read(t)'
    BY <2>1 DEF AcceptInv, PollerKnows
  <2>5. Confirmed(t)'
    <3>1. InHand(t) = {}
      BY <2>1 DEF OneActive, Active, Busy, InHand
    <3>2. \A k \in 1..confirmed[t] : k \in 1..taken[t]
      BY <1>1 DEF RowsOK, Positions
    <3>3. \A k \in 1..confirmed[t] : IsAccepted(t, k)
      BY <3>1, <3>2 DEF AcceptInv, TakenAccepted
    <3> QED
      BY <1>2, <2>1, <3>3
  <2> QED
    BY <2>1, <2>2, <2>3, <2>4, <2>5
<1>6. CASE TaskAppend(t)
  <2>1. /\ first[t] /\ UNCHANGED <<confirmed, lastPrintedIndex, poller, stop>>
        /\ \/ Active(t) /\ status' = status
           \/ ActiveTask = NoTask /\ status' = [status EXCEPT ![t] = "active"]
    BY <1>4, <1>6 DEF TaskAppend
  <2>2. Counts(t)'
    BY <1>1, <1>3, <2>1, ActiveTaskFacts DEF Active, RowsOK
  <2> QED
    BY <1>2, <1>3, <2>1, <2>2 DEF Registered
<1>7. ASSUME NEW s \in Tasks, s # t
      PROVE  ~Create(s) /\ ~TaskAppend(s)
  BY <1>4, <1>7 DEF Create, TaskAppend
<1>8. ASSUME NEW s \in Tasks, StopRequest(s)
      PROVE  Counts(t)' /\ Indexes(t)' /\ Read(t)' /\ Stopped(t)' /\ Confirmed(t)'
  <2>1. /\ first[t] /\ UNCHANGED <<confirmed, lastPrintedIndex, poller>>
        /\ status' = [status EXCEPT ![s] = "stopped"]
        /\ stop' = [pc |-> "index", task |-> s, index |-> 0]
    BY <1>4, <1>8 DEF StopRequest
  <2>2. Counts(t)'
    BY <1>1, <1>3, <2>1 DEF Active, RowsOK
  <2>3. stop'.pc = "index"
    BY <2>1
  <2> QED
    BY <1>2, <1>3, <2>1, <2>2, <2>3 DEF Registered
<1>9. CASE StopIndex
  <2>1. PICK index : index = lastPrintedIndex[Registered]
    OBVIOUS
  <2>2. /\ first[t] /\ UNCHANGED <<confirmed, lastPrintedIndex, poller, status>>
        /\ stop' = [stop EXCEPT !.pc = "reconcile", !.index = index]
    BY <1>4, <1>9, <2>1 DEF StopIndex, taskVars
  <2>3. stop'.index = index
    BY <1>1, <2>2 DEF StopOK
  <2>4. \A k \in 1..index : IsAccepted(t, k)
    BY <1>1, <1>3, <2>1, <2>2
  <2> QED
    BY <1>2, <1>3, <2>2, <2>3, <2>4 DEF Registered, Active
<1>10. CASE StopReconcile
  <2>1. PICK s, index : s = stop.task /\ index = stop.index
    OBVIOUS
  <2>2. /\ first[t] /\ UNCHANGED <<lastPrintedIndex, poller, status>>
        /\ s \in Tasks /\ index \in Positions /\ stop.pc = "reconcile"
        /\ confirmed' = [confirmed EXCEPT ![s] = UpTo(s, index)]
        /\ stop' = StopIdle
    BY <1>1, <1>4, <1>10, <2>1 DEF StopReconcile, StopOK
  <2>3. Confirmed(t)'
    <3>1. CASE s # t
      BY <1>1, <1>2, <1>3, <2>2, <3>1 DEF RowsOK
    <3>2. CASE s = t
      <4>1. confirmed'[t] = confirmed[t] \/ confirmed'[t] <= index
        BY <1>1, <2>2, <3>2, UpToFacts DEF RowsOK
      <4>2. confirmed'[t] \in Nat /\ confirmed[t] \in Nat /\ index \in Nat
        BY <1>1, <2>2, <3>2, UpToFacts DEF RowsOK, Positions
      <4>3. \A k \in 1..index : IsAccepted(t, k)
        BY <1>3, <2>1, <2>2, <3>2
      <4>4. \A k \in 1..confirmed'[t] : k \in 1..confirmed[t] \/ k \in 1..index
        BY <4>1, <4>2
      <4> QED
        BY <1>2, <1>3, <2>2, <4>3, <4>4
    <3> QED
      BY <3>1, <3>2
  <2>4. stop'.pc = "idle"
    BY <2>2 DEF StopIdle
  <2> QED
    BY <1>2, <1>3, <2>2, <2>3, <2>4 DEF Registered, Active
<1>11. CASE AddPrinter
  <2>1. /\ first[t] /\ UNCHANGED <<confirmed, poller, stop, status>>
    BY <1>4, <1>11 DEF AddPrinter, taskVars
  <2>2. Indexes(t)'
    <3>1. /\ Registered' = Registered + 1 /\ lastPrintedIndex'[Registered + 1] = 0
          /\ \A g \in 1..Registered : lastPrintedIndex'[g] = lastPrintedIndex[g]
      <4>1. lastPrintedIndex' = Append(lastPrintedIndex, 0) /\ lastPrintedIndex \in Seq(Positions)
        BY <1>1, <1>11 DEF AddPrinter, DriversOK
      <4> QED
        BY <4>1 DEF Registered
    <3>2. \A g \in 1..Registered' : g \in 1..Registered \/ g = Registered + 1
      BY <1>1, <3>1
    <3>3. \A k \in 1..0 : FALSE
      OBVIOUS
    <3> QED
      BY <1>2, <1>3, <2>1, <3>1, <3>2, <3>3
  <2> QED
    BY <1>2, <1>3, <2>1, <2>2 DEF Active
<1>12. CASE PollIndex
  <2>1. PICK index, g : index = lastPrintedIndex[poller.driver] /\ g = poller.driver
    OBVIOUS
  <2>2. /\ first[t] /\ UNCHANGED <<confirmed, lastPrintedIndex, stop, status>>
        /\ poller' = [poller EXCEPT !.pc = "mark", !.index = index]
        /\ g \in 1..Registered
    BY <1>1, <1>4, <1>12, <2>1 DEF PollIndex, taskVars, PollerOK, Drivers
  <2>3. poller'.index = index
    BY <1>1, <2>2 DEF PollerOK
  <2>4. \A k \in 1..index : IsAccepted(t, k)
    BY <1>3, <2>1, <2>2
  <2> QED
    BY <1>2, <1>3, <2>2, <2>3, <2>4 DEF Registered, Active
<1>13. CASE PollMark
  <2>1. PICK s, index : s = poller.task /\ index = poller.index
    OBVIOUS
  <2>2. /\ first[t] /\ UNCHANGED <<lastPrintedIndex, stop, status>>
        /\ s \in Tasks /\ index \in Positions /\ poller.pc = "mark"
        /\ confirmed' = [confirmed EXCEPT ![s] = UpTo(s, index)]
        /\ poller' = [poller EXCEPT !.pc = "show"]
    BY <1>1, <1>4, <1>13, <2>1 DEF PollMark, PollerOK
  <2>3. Confirmed(t)'
    <3>1. CASE s # t
      BY <1>1, <1>2, <1>3, <2>2, <3>1 DEF RowsOK
    <3>2. CASE s = t
      <4>1. confirmed'[t] = confirmed[t] \/ confirmed'[t] <= index
        BY <1>1, <2>2, <3>2, UpToFacts DEF RowsOK
      <4>2. confirmed'[t] \in Nat /\ confirmed[t] \in Nat /\ index \in Nat
        BY <1>1, <2>2, <3>2, UpToFacts DEF RowsOK, Positions
      <4>3. \A k \in 1..index : IsAccepted(t, k)
        BY <1>3, <2>1, <2>2, <3>2
      <4>4. \A k \in 1..confirmed'[t] : k \in 1..confirmed[t] \/ k \in 1..index
        BY <4>1, <4>2
      <4> QED
        BY <1>2, <1>3, <2>2, <4>3, <4>4
    <3> QED
      BY <3>1, <3>2
  <2>4. poller'.pc = "show"
    BY <1>1, <2>2 DEF PollerOK
  <2> QED
    BY <1>2, <1>3, <2>2, <2>3, <2>4 DEF Registered, Active

<1>14. CASE PollStatus \/ PollTask \/ PollShow
  <2>1. first[t] /\ UNCHANGED <<confirmed, lastPrintedIndex, stop, status>>
    BY <1>4, <1>14 DEF PollStatus, PollTask, PollShow, taskVars
  <2>2. poller'.pc # "mark"
    <3>1. CASE PollStatus
      <4>1. PICK answer \in GetStatus :
               poller' = [poller EXCEPT !.driver = Registered, !.status = answer,
                            !.pc = IF answer = "offline" THEN "show" ELSE "task"]
        BY <3>1 DEF PollStatus
      <4>2. PICK driver, pc : driver = Registered /\ pc = IF answer = "offline" THEN "show" ELSE "task"
        OBVIOUS
      <4>3. poller' = [poller EXCEPT !.driver = driver, !.status = answer, !.pc = pc]
        BY <4>1, <4>2
      <4> QED
        BY <1>1, <4>2, <4>3 DEF PollerOK
    <3>2. CASE PollTask
      <4>1. PICK task, pc : task = ActiveTask /\ pc = IF task = NoTask THEN "show" ELSE "index"
        OBVIOUS
      <4>2. poller' = [poller EXCEPT !.task = task, !.pc = pc]
        BY <3>2, <4>1 DEF PollTask
      <4> QED
        BY <1>1, <4>1, <4>2 DEF PollerOK
    <3>3. CASE PollShow
      BY <3>3 DEF PollShow, FreshPoller
    <3> QED
      BY <1>14, <3>1, <3>2, <3>3
  <2> QED
    BY <1>2, <1>3, <2>1, <2>2 DEF Registered, Active
<1>15. ASSUME NEW s \in Tasks, PumpCount(s)
       PROVE  Counts(t)' /\ Indexes(t)' /\ Read(t)' /\ Stopped(t)' /\ Confirmed(t)'
  <2>1. first[t] /\ UNCHANGED <<confirmed, stop, status, poller>>
    BY <1>4, <1>15 DEF PumpCount, taskVars
  <2>2. pump[s].pc = "count" /\ s = t
    BY <1>3, <1>15, <2>1 DEF PumpCount, OneActive, Busy
  <2>3. PICK d, last : /\ d = pump[s].driver /\ last = LastOf(pump[s].batch)
                       /\ lastPrintedIndex' = [lastPrintedIndex EXCEPT ![d] = last]
    BY <1>15 DEF PumpCount
  <2>4. last = taken[t] /\ InHand(t) = {}
    BY <2>2, <2>3 DEF AcceptInv, TakenAccepted, InHand
  <2>5. \A k \in 1..last : IsAccepted(t, k)
    BY <2>4 DEF AcceptInv, TakenAccepted
  <2>6. Registered' = Registered /\ \A g \in 1..Registered :
           lastPrintedIndex'[g] = lastPrintedIndex[g] \/ lastPrintedIndex'[g] = last
    <3>2. lastPrintedIndex \in Seq(Positions)
      BY <1>1 DEF DriversOK
    <3>3. PICK n \in Nat : n = Registered /\ lastPrintedIndex \in [1..n -> Positions]
      BY <1>1, <3>2 DEF Registered
    <3>4. /\ DOMAIN lastPrintedIndex' = 1..n
          /\ \A g \in 1..n : lastPrintedIndex'[g] = lastPrintedIndex[g] \/ lastPrintedIndex'[g] = last
      BY <2>3, <3>3
    <3>5. Registered' = n
      BY DriversStep, <3>3, <3>4, <1>15 DEF PumpCount, AddPrinter, boardVars
    <3> QED
      BY <3>3, <3>4, <3>5
  <2>7. Indexes(t)'
    BY <1>2, <1>3, <2>1, <2>5, <2>6
  <2> QED
    BY <1>2, <1>3, <2>1, <2>7 DEF Active
<1>16. CASE \/ \E s \in Tasks : PumpStatus(s) \/ PumpFetch(s) \/ PumpSend(s)
            \/ UNCHANGED vars
  <2>1. first[t] /\ UNCHANGED <<confirmed, lastPrintedIndex, stop, status, poller>>
    BY <1>4, <1>16 DEF PumpStatus, PumpFetch, PumpSend, vars, taskVars
  <2> QED
    BY <1>2, <1>3, <2>1 DEF Registered, Active
<1> QED
  BY <1>5, <1>6, <1>7, <1>8, <1>9, <1>10, <1>11, <1>12, <1>13, <1>14, <1>15, <1>16
  DEF Next, Request, Pump, Poll

\* While every batch gets through and a stop never comes in the middle of a
\* pump's tick, a code reported printed is one the server accepted, for a task
\* that is the first its drivers serve; the answer to a batch may be lost, and
\* the poller may read the index of a driver that was replaced.
THEOREM ConfirmedAccepted ==
    ASSUME "busyStop" \notin Events, "sendFails" \notin Events
    PROVE  Spec => []ConfirmedWasAccepted
<1>1. Init => AcceptInv
  BY DEF Init, AcceptInv, CountsAccepted, TakenAccepted, PollerKnows, FreshPoller, NoPump
<1>2. IInv /\ RestInv /\ AcceptInv /\ [Next]_vars => AcceptInv'
  BY CountsStep, TakenStep, KnowsStep DEF RestInv, AcceptInv
<1>3. AcceptInv => ConfirmedWasAccepted
  BY DEF AcceptInv, CountsAccepted, ConfirmedWasAccepted, IsAccepted
<1> QED
  BY <1>1, <1>2, <1>3, Invariant, RestInvariant, PTL DEF Spec
-----------------------------------------------------------------------------
(* The rows of each task move as the store moves them, under every event.   *)

LEMMA FetchIsFetch ==
    ASSUME IInv, NEW s \in Tasks, PumpFetch(s), NEW t \in Tasks
    PROVE  IF s = t THEN Lane(t)!Fetch(MaxBatch) ELSE UNCHANGED Lane(t)!laneVars
<1>1. /\ taken \in [Tasks -> Positions] /\ taken[s] \in Nat /\ delivered[s] \in Nat
      /\ taken[s] <= delivered[s] /\ MaxBatch \in Nat
  BY ServerAssumption DEF IInv, RowsOK, Positions
<1>2. PICK n : /\ n = IF delivered[s] - taken[s] < MaxBatch THEN delivered[s] - taken[s] ELSE MaxBatch
               /\ taken' = [taken EXCEPT ![s] = @ + n]
               /\ UNCHANGED <<confirmed, delivered>>
  BY DEF PumpFetch
<1>3. taken'[t] = IF s = t THEN taken[t] + n ELSE taken[t]
  BY <1>1, <1>2
<1>4. taken[s] + n = IF taken[s] + MaxBatch < delivered[s] THEN taken[s] + MaxBatch ELSE delivered[s]
  BY <1>1, <1>2
<1> QED
  BY <1>2, <1>3, <1>4 DEF Lane!Fetch, Lane!laneVars

LEMMA AppendIsDeliver ==
    ASSUME IInv, NEW s \in Tasks, TaskAppend(s), NEW t \in Tasks
    PROVE  Lane(t)!Deliver
<1>1. /\ delivered \in [Tasks -> Positions] /\ delivered[s] \in Nat /\ delivered[t] \in Nat
      /\ MaxCodes \in Nat
  BY ServerAssumption DEF IInv, RowsOK, Positions
<1>2. PICK n \in (delivered[s] + 1)..MaxCodes : delivered' = [delivered EXCEPT ![s] = n]
  BY DEF TaskAppend
<1>3. UNCHANGED <<confirmed, taken>>
  BY DEF TaskAppend
<1>4. n - delivered[s] \in Nat
  BY <1>1
<1>5. delivered'[t] - delivered[t] \in Nat
  BY <1>1, <1>2, <1>4
<1> QED
  BY <1>3, <1>5 DEF Lane!Deliver

LEMMA StopIsReconcile ==
    ASSUME IInv, StopReconcile, NEW t \in Tasks
    PROVE  IF stop.task = t THEN Lane(t)!Reconcile(stop.index) ELSE UNCHANGED Lane(t)!laneVars
<1>1. confirmed \in [Tasks -> Positions] /\ taken \in [Tasks -> Positions]
  BY DEF IInv, RowsOK
<1>2. /\ confirmed' = [confirmed EXCEPT ![stop.task] = UpTo(stop.task, stop.index)]
      /\ taken' = [taken EXCEPT ![stop.task] = UpTo(stop.task, stop.index)]
      /\ delivered' = delivered
  BY DEF StopReconcile
<1> QED
  BY <1>1, <1>2 DEF UpTo, Lane!Reconcile, Lane!laneVars

LEMMA PollIsMark ==
    ASSUME IInv, PollMark, NEW t \in Tasks
    PROVE  IF poller.task = t THEN Lane(t)!Mark(poller.index) ELSE UNCHANGED Lane(t)!laneVars
<1>1. confirmed \in [Tasks -> Positions]
  BY DEF IInv, RowsOK
<1>2. /\ confirmed' = [confirmed EXCEPT ![poller.task] = UpTo(poller.task, poller.index)]
      /\ UNCHANGED <<taken, delivered>>
  BY DEF PollMark
<1> QED
  BY <1>1, <1>2 DEF UpTo, Lane!Mark, Lane!laneVars

\* What the pumps, the poller and the handlers do to a task's rows is what the
\* store does to a lane, whatever the driver's index is worth and whichever task
\* it is of.
THEOREM RowsAreLanes == Spec => \A t \in Tasks : Lane(t)!Spec
<1> SUFFICES ASSUME NEW t \in Tasks
             PROVE  Spec => Lane(t)!Spec
  OBVIOUS
<1>1. Init => Lane(t)!Init
  BY DEF Init, Lane!Init
<1>2. IInv /\ [Next]_vars => [Lane(t)!Next]_(Lane(t)!laneVars)
  <2> SUFFICES ASSUME IInv, [Next]_vars
               PROVE  Lane(t)!Next \/ UNCHANGED Lane(t)!laneVars
    OBVIOUS
  <2>1. MaxBatch \in Nat
    BY ServerAssumption
  <2>2. ASSUME NEW s \in Tasks, PumpFetch(s)
        PROVE  Lane(t)!Next \/ UNCHANGED Lane(t)!laneVars
    BY <2>1, <2>2, FetchIsFetch DEF Lane!Next
  <2>3. ASSUME NEW s \in Tasks, TaskAppend(s)
        PROVE  Lane(t)!Next
    BY <2>3, AppendIsDeliver DEF Lane!Next
  <2>4. CASE StopReconcile
    <3>1. stop.index \in Nat
      BY DEF IInv, StopOK, Positions
    <3> QED
      BY <2>4, <3>1, StopIsReconcile DEF Lane!Next
  <2>5. CASE PollMark
    <3>1. poller.index \in Nat
      BY DEF IInv, PollerOK, Positions
    <3> QED
      BY <2>5, <3>1, PollIsMark DEF Lane!Next
  <2>6. CASE UNCHANGED <<confirmed, taken, delivered>>
    BY <2>6 DEF Lane!laneVars
  <2> QED
    BY <2>2, <2>3, <2>4, <2>5, <2>6
       DEF Next, Request, Create, StopRequest, Pump, PumpStatus, PumpSend, PumpCount,
           StopIndex, Poll, PollStatus, PollTask, PollIndex, PollShow, AddPrinter, taskVars,
           vars
<1> QED
  BY <1>1, <1>2, Invariant, PTL DEF Spec, Lane!Spec

===============================================================================

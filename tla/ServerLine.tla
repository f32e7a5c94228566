------------------------------ MODULE ServerLine ------------------------------
(***************************************************************************)
(* Tasks one after the other on a line whose printer is an external server *)
(* (internal/drivers/extserver/driver.go), the printer manager that holds  *)
(* its driver and shows its state, and the background poller               *)
(* (internal/core/manager.go).                                             *)
(*                                                                         *)
(* The server takes a batch in one request and has no queue; the driver    *)
(* remembers the last index of the last batch that was accepted, whichever *)
(* task it was of, until it is replaced.  That number is the odometer.     *)
(*                                                                         *)
(* As in MarkemLine a task's rows are its lane of the store, and the index *)
(* of a code is its place in it.  An append inserts, activates and starts  *)
(* the pump in one step, and so does a create all it does: their           *)
(* interleavings are PrintLine's and TaskControl's.  Log entries about     *)
(* layouts are left out.                                                   *)
(***************************************************************************)
EXTENDS Integers, Sequences

CONSTANTS MaxTasks,   \* bound: tasks
          MaxCodes,   \* bound: codes of a task
          MaxBatch,   \* the pump's limit (30)
          MaxDrivers, \* bound: how often the printer is registered
          MaxLog,     \* entries the log keeps (50)
          Events      \* the events allowed, a subset of AllEvents

AllEvents ==
    {"refuses",    \* the server answers with an error code
     "sendFails",  \* a batch does not get through, or is refused
     "replyLost",  \* a batch is accepted, the answer does not come back
     "busyStop",   \* a stop while the pump is in its tick
     "busyReplace", \* the printer is registered anew while a task is active
     "secondTask", \* a task follows another
     "resume"}     \* a stopped task gets codes again, on a free line

\* The parameters are in range.
ASSUME ServerAssumption ==
    /\ MaxTasks \in Nat /\ MaxCodes \in Nat /\ MaxBatch \in Nat \ {0}
    /\ MaxDrivers \in Nat \ {0} /\ MaxLog \in Nat \ {0}
    /\ Events \subseteq AllEvents

Tasks == 1..MaxTasks

VARIABLES status,                        \* tasks.status
          confirmed, taken, delivered,   \* the rows of each task
          lastPrintedIndex, \* of every driver object; the last one is registered
          shown,            \* the status the manager shows
          logs,             \* its log, latest entry first
          pump,             \* pump[t]: the pump of task t
          poller,           \* the background poller
          stop,             \* the stop handler
          accepted,         \* accepted[t]: the codes the server took, in order,
                            \* and whether its answer came back
          first             \* first[t]: no driver had counted before the task,
                            \* and no other has come

\* The rows of a task, as the store moves them.
Lane(t) == INSTANCE LaneCounts WITH confirmed <- confirmed[t], taken <- taken[t],
                                    delivered <- delivered[t]

taskVars == <<status, confirmed, taken, delivered>>
boardVars == <<shown, logs>>
vars == <<taskVars, lastPrintedIndex, boardVars, pump, poller, stop, accepted, first>>

NoTask == 0
NoPump == [pc |-> "none", driver |-> 1, batch |-> <<>>]
FreshPump == [NoPump EXCEPT !.pc = "tick"]
FreshPoller == [pc |-> "visit", driver |-> 1, status |-> "ready", task |-> NoTask, index |-> 0]
StopIdle == [pc |-> "idle", task |-> NoTask, index |-> 0]

Registered == Len(lastPrintedIndex)

Active(t) == status[t] = "active"

\* GetActiveTaskByLine.
ActiveTask == IF \E t \in Tasks : Active(t) THEN CHOOSE t \in Tasks : Active(t) ELSE NoTask

Init ==
    /\ status = [t \in Tasks |-> "none"]
    /\ confirmed = [t \in Tasks |-> 0]
    /\ taken = [t \in Tasks |-> 0] /\ delivered = [t \in Tasks |-> 0]
    /\ lastPrintedIndex = <<0>>
    /\ shown = "initializing" /\ logs = <<"added">>
    /\ pump = [t \in Tasks |-> NoPump] /\ poller = FreshPoller /\ stop = StopIdle
    /\ accepted = [t \in Tasks |-> <<>>] /\ first = [t \in Tasks |-> FALSE]

-----------------------------------------------------------------------------
(* The requests.                                                            *)

\* The line is free and the server takes the layout; InitSession does nothing.
Create(t) ==
    /\ status[t] = "none" /\ \A s \in Tasks : s < t => status[s] = "stopped"
    /\ "secondTask" \in Events \/ t = 1
    /\ stop.pc = "idle"
    /\ status' = [status EXCEPT ![t] = "active"]
    /\ first' = [s \in Tasks |-> s = t /\ \A g \in 1..Registered : lastPrintedIndex[g] = 0]
    /\ UNCHANGED <<confirmed, taken, delivered, lastPrintedIndex, boardVars, pump,
                   poller, stop, accepted>>

TaskAppend(t) ==
    /\ \/ Active(t) /\ UNCHANGED status
       \/ /\ "resume" \in Events /\ status[t] = "stopped"
          /\ ActiveTask = NoTask /\ stop.pc = "idle"
          /\ status' = [status EXCEPT ![t] = "active"]
    /\ first' = [s \in Tasks |-> s = t /\ first[t]]
    /\ \E n \in (delivered[t] + 1)..MaxCodes : delivered' = [delivered EXCEPT ![t] = n]
    /\ pump' = [pump EXCEPT ![t] = IF @ = NoPump THEN FreshPump ELSE @]
    /\ UNCHANGED <<confirmed, taken, lastPrintedIndex, boardVars, poller, stop, accepted>>

\* The pump waits for its next tick, or there is none.
Quiet(t) == pump[t].pc \in {"none", "tick"}

StopRequest(t) ==
    /\ Active(t) /\ stop.pc = "idle"
    /\ "busyStop" \in Events \/ Quiet(t)
    /\ status' = [status EXCEPT ![t] = "stopped"]
    /\ stop' = [pc |-> "index", task |-> t, index |-> 0]
    /\ UNCHANGED <<confirmed, taken, delivered, lastPrintedIndex, boardVars, pump,
                   poller, accepted, first>>

StopIndex ==
    /\ stop.pc = "index"
    /\ stop' = [stop EXCEPT !.pc = "reconcile", !.index = lastPrintedIndex[Registered]]
    /\ UNCHANGED <<taskVars, lastPrintedIndex, boardVars, pump, poller, accepted, first>>

\* Mutant: rows below the index.
Below(t, index) ==
    IF index <= confirmed[t] + 1 THEN confirmed[t]
    ELSE IF index <= taken[t] THEN index - 1 ELSE taken[t]

\* Rows of the buffer up to an index become printed.
UpTo(t, index) == Lane(t)!UpTo(index)

\* Mutant: the rest stays in the buffer.
ConfirmOnly ==
    /\ stop.pc = "reconcile"
    /\ confirmed' = [confirmed EXCEPT ![stop.task] = UpTo(stop.task, stop.index)]
    /\ stop' = StopIdle
    /\ UNCHANGED <<status, taken, delivered, lastPrintedIndex, boardVars, pump, poller,
                   accepted, first>>

\* The rest of the buffer goes back; ClearQueue does nothing.
StopReconcile ==
    /\ stop.pc = "reconcile"
    /\ LET t == stop.task
       IN  /\ confirmed' = [confirmed EXCEPT ![t] = UpTo(t, stop.index)]
           /\ taken' = [taken EXCEPT ![t] = UpTo(t, stop.index)]
    /\ stop' = StopIdle
    /\ UNCHANGED <<status, delivered, lastPrintedIndex, boardVars, pump, poller, accepted, first>>

-----------------------------------------------------------------------------
(* The manager.                                                             *)

Entered(entry) ==
    logs' = <<entry>> \o SubSeq(logs, 1, IF Len(logs) < MaxLog THEN Len(logs) ELSE MaxLog - 1)

\* AddPrinter: a new driver object in the place of the old one, which its
\* users keep.
AddPrinter ==
    /\ Registered < MaxDrivers
    /\ "busyReplace" \in Events \/ (ActiveTask = NoTask /\ \A t \in Tasks : Quiet(t))
    /\ stop.pc = "idle"
    /\ lastPrintedIndex' = Append(lastPrintedIndex, 0)
    /\ shown' = "initializing" /\ Entered("added")
    /\ UNCHANGED <<taskVars, pump, poller, stop, accepted, first>>

Offline(state) == state \in {"offline", "refused"}

\* Mutant: every failed poll is a loss.
LossAgain(old, new) == new = "offline" /\ old # "initializing"

Loss(old, new) == new = "offline" /\ ~Offline(old) /\ old # "initializing"

Recovery(old, new) == new # "offline" /\ Offline(old)

\* What the poller makes of a status: the first failure is a loss, a printer
\* that was never reached stays as it is, an answer is shown.
Show(new) ==
    /\ CASE Loss(shown, new)     -> Entered("lost")
         [] Recovery(shown, new) -> Entered("restored")
         [] OTHER                -> UNCHANGED logs
    /\ shown' = IF new = "offline" /\ ~Loss(shown, new) THEN shown ELSE new

-----------------------------------------------------------------------------
(* The poller.                                                              *)

\* OPTIONS: "refused" is an answer whose status says offline without an error.
GetStatus == {"ready", "offline"} \cup (IF "refuses" \in Events THEN {"refused"} ELSE {})

PollStatus ==
    /\ poller.pc = "visit"
    /\ \E answer \in GetStatus :
          poller' = [poller EXCEPT !.driver = Registered, !.status = answer,
                       !.pc = IF answer = "offline" THEN "show" ELSE "task"]
    /\ UNCHANGED <<taskVars, lastPrintedIndex, boardVars, pump, stop, accepted, first>>

PollTask ==
    /\ poller.pc = "task"
    /\ poller' = [poller EXCEPT !.task = ActiveTask,
                    !.pc = IF ActiveTask = NoTask THEN "show" ELSE "index"]
    /\ UNCHANGED <<taskVars, lastPrintedIndex, boardVars, pump, stop, accepted, first>>

PollIndex ==
    /\ poller.pc = "index"
    /\ poller' = [poller EXCEPT !.pc = "mark", !.index = lastPrintedIndex[poller.driver]]
    /\ UNCHANGED <<taskVars, lastPrintedIndex, boardVars, pump, stop, accepted, first>>

PollMark ==
    /\ poller.pc = "mark"
    /\ confirmed' = [confirmed EXCEPT ![poller.task] = UpTo(poller.task, poller.index)]
    /\ poller' = [poller EXCEPT !.pc = "show"]
    /\ UNCHANGED <<status, taken, delivered, lastPrintedIndex, boardVars, pump, stop,
                   accepted, first>>

PollShow ==
    /\ poller.pc = "show"
    /\ Show(poller.status)
    /\ poller' = FreshPoller
    /\ UNCHANGED <<taskVars, lastPrintedIndex, pump, stop, accepted, first>>

-----------------------------------------------------------------------------
(* The pump and the driver.                                                 *)

PumpStatus(t) ==
    /\ pump[t].pc = "tick"
    /\ pump' = [pump EXCEPT ![t] = IF Active(t) THEN [@ EXCEPT !.pc = "fetch"] ELSE NoPump]
    /\ UNCHANGED <<taskVars, lastPrintedIndex, boardVars, poller, stop, accepted, first>>

\* There is always room (999), so the limit is the pump's.
PumpFetch(t) ==
    LET n == IF delivered[t] - taken[t] < MaxBatch THEN delivered[t] - taken[t] ELSE MaxBatch
    IN  /\ pump[t].pc = "fetch"
        /\ taken' = [taken EXCEPT ![t] = @ + n]
        /\ pump' = [pump EXCEPT ![t] =
                      IF n = 0 THEN FreshPump
                      ELSE [pc |-> "send", driver |-> Registered,
                            batch |-> [k \in 1..n |-> taken[t] + k]]]
        /\ UNCHANGED <<status, confirmed, delivered, lastPrintedIndex, boardVars, poller,
                       stop, accepted, first>>

\* The POST of PrintBatchIndexed: whether the server took it, and said so.
sendPayload ==
    {[taken |-> TRUE, answered |-> TRUE]}
    \cup (IF "sendFails" \in Events THEN {[taken |-> FALSE, answered |-> FALSE]} ELSE {})
    \cup (IF "replyLost" \in Events THEN {[taken |-> TRUE, answered |-> FALSE]} ELSE {})

PumpSend(t) ==
    /\ pump[t].pc = "send"
    /\ \E result \in sendPayload :
          /\ accepted' = [accepted EXCEPT ![t] =
                IF ~result.taken THEN @
                ELSE @ \o [k \in DOMAIN pump[t].batch |->
                              [code |-> pump[t].batch[k], answered |-> result.answered]]]
          /\ pump' = [pump EXCEPT ![t] =
                        IF result.answered THEN [@ EXCEPT !.pc = "count"] ELSE FreshPump]
    /\ UNCHANGED <<taskVars, lastPrintedIndex, boardVars, poller, stop, first>>

\* Mutant: the index after the batch.
NextAfter(batch) == batch[1] + Len(batch)

LastOf(batch) == batch[1] + Len(batch) - 1

PumpCount(t) ==
    /\ pump[t].pc = "count"
    /\ lastPrintedIndex' =
          [lastPrintedIndex EXCEPT ![pump[t].driver] = LastOf(pump[t].batch)]
    /\ pump' = [pump EXCEPT ![t] = FreshPump]
    /\ UNCHANGED <<taskVars, boardVars, poller, stop, accepted, first>>

-----------------------------------------------------------------------------
Request(t) == Create(t) \/ TaskAppend(t) \/ StopRequest(t)
Pump(t) == PumpStatus(t) \/ PumpFetch(t) \/ PumpSend(t) \/ PumpCount(t)
Poll == PollStatus \/ PollTask \/ PollIndex \/ PollMark \/ PollShow

Next ==
    \/ \E t \in Tasks : Request(t) \/ Pump(t)
    \/ StopIndex \/ StopReconcile
    \/ Poll \/ AddPrinter

Spec == Init /\ [][Next]_vars

-----------------------------------------------------------------------------
Drivers == 1..MaxDrivers
Positions == 0..MaxCodes
States == {"initializing", "ready", "offline", "refused"}

TypeOK ==
    /\ status \in [Tasks -> {"none", "active", "stopped"}]
    /\ confirmed \in [Tasks -> Positions] /\ taken \in [Tasks -> Positions]
    /\ delivered \in [Tasks -> Positions]
    /\ \A t \in Tasks : confirmed[t] <= taken[t] /\ taken[t] <= delivered[t]
    /\ lastPrintedIndex \in Seq(Positions) /\ Registered \in Drivers
    /\ shown \in States /\ logs \in Seq({"added", "lost", "restored"}) /\ Len(logs) <= MaxLog
    /\ pump \in [Tasks -> [pc : {"none", "tick", "fetch", "send", "count"},
                           driver : Drivers, batch : Seq(Positions)]]
    /\ poller \in [pc : {"visit", "task", "index", "mark", "show"}, driver : Drivers,
                   status : States, task : Tasks \cup {NoTask}, index : Positions]
    /\ stop \in [pc : {"idle", "index", "reconcile"}, task : Tasks \cup {NoTask},
                 index : Positions]
    /\ accepted \in [Tasks -> Seq([code : Positions, answered : BOOLEAN])]
    /\ first \in [Tasks -> BOOLEAN]

\* A code reported printed is in a batch the server accepted.  This holds for a
\* task that finds no count of an earlier one: the driver's index is not reset
\* between tasks, and the poller may use a driver that was replaced.
ConfirmedWasAccepted ==
    \A t \in Tasks : first[t] =>
        \A k \in 1..confirmed[t] : \E l \in DOMAIN accepted[t] : accepted[t][l].code = k

\* A code whose batch the server acknowledged is never sent again, although a
\* stop returns what is not counted and the task may be resumed.
AcknowledgedOnce ==
    \A t \in Tasks : \A k, l \in DOMAIN accepted[t] :
        k < l /\ accepted[t][k].answered => accepted[t][l].code # accepted[t][k].code

\* Once a stop has reconciled a task its rows never move, although the poller
\* may have looked the task up before and reads the index of its successor
\* after.  Of a stop whose reconciliation is rolled back, which is answered as
\* done all the same (handlers_tasks.go:350-353), this says nothing.
Settled(t) == status[t] = "stopped" /\ stop.task # t
StoppedTaskRests ==
    [][\A t \in Tasks : Settled(t) /\ status'[t] = "stopped" =>
          confirmed'[t] = confirmed[t] /\ taken'[t] = taken[t]]_vars

\* The log tells the operator of losses and recoveries by turns, between two
\* registrations, though the poller may show what a replaced driver answered.
LossAndRecoveryAlternate ==
    \A k \in 1..(Len(logs) - 1) : logs[k] = logs[k + 1] => logs[k] = "added"
===============================================================================

----------------------------- MODULE ValentinLine -----------------------------
(***************************************************************************)
(* One task on a line of Valentin printers: the fast pump of each printer  *)
(* (RunValentinFastPumper, core/manager.go), the virtual counter of the    *)
(* driver (drivers/valentine/driver_nicelabel.go), append and stop, on the *)
(* code table of CodeShard, while the process lives.                       *)
(*                                                                         *)
(* The printer holds one code.  As the driver uses it, BM[20] replaces the *)
(* code, FBC makes it wait for a product, a product takes the label and    *)
(* ends the wait, FBBC counts the labels and may start again at an FBC.    *)
(* Unlike on other printers, a code is reported printed once it waits.     *)
(***************************************************************************)
EXTENDS CodeShard

CONSTANTS Task,       \* the task
          Registered, \* the printers of the line the manager has
          MaxJump,    \* a jump of FBBC the driver takes for noise (10)
          InitialFbbc, \* what the registers may show when the task is created
          Events,     \* the events allowed, a subset of AllEvents
          MaxStops,   \* bound: stop requests
          MaxFaults   \* bound: failed exchanges and resets

AllEvents ==
    {"earlyLabel",  \* a product passes before the pump's first reading
     "fbcResets",   \* FBC resets the register
     "sendFails",   \* BM[20] is not delivered
     "armFails",    \* BM[20] is delivered, FBC is not
     "noAnswer",    \* FBBC is answered with nothing of use, or not at all
     "reportFails", \* UpdateCodeStatusByID fails
     "resume"}      \* an append after a stop, once the pumps have ended

\* The parameters are in range, and the line has two printers: the fast pump
\* takes one lane whatever their number.
ASSUME ValentinAssumption ==
    /\ Task \in Tasks /\ Registered \subseteq Printers
    /\ \A p \in Printers : Printers # {p}
    /\ MaxJump \in Nat /\ InitialFbbc \subseteq Nat /\ MaxStops \in Nat
    /\ MaxFaults \in Nat
    /\ Events \subseteq AllEvents

VARIABLES taskStatus, tracked,     \* tasks.status, activeTasks[task]
          pump,                    \* pump[p]: the goroutine of printer p
          stop, odometer,          \* the stop handler, one goroutine per printer
          lastCount, lastRawFBBC,  \* the drivers' fields
          field, waiting, fbbc,    \* the printers: BM[20], armed, register
          labels,                  \* labels[p]: rows whose code p applied
          stops, faults            \* bounds

taskVars == <<taskStatus, tracked>>
stopVars == <<stop, odometer>>
driverVars == <<lastCount, lastRawFBBC>>
deviceVars == <<field, waiting, fbbc, labels>>
bounds == <<stops, faults>>
vars == <<shardVars, taskVars, pump, stopVars, driverVars, deviceVars, bounds>>

NoRow == 0
NoPump == [pc |-> "none", last |-> -1, todo |-> 0, row |-> NoRow, index |-> 0]

\* The pump begins with one code, before it has read a count.
FreshPump == [NoPump EXCEPT !.pc = "push", !.todo = 1]

StopIdle == \A p \in Registered : stop[p] = "idle"

\* After handleTaskCreate: SelectTemplate has armed the printers and forgotten
\* the driver's counts; the printers' registers are as the last task left them.
Init ==
    /\ ShardInit
    /\ taskStatus = "active" /\ tracked = FALSE
    /\ pump = [p \in Registered |-> NoPump]
    /\ stop = [p \in Registered |-> "idle"]
    /\ odometer = [p \in Registered |-> 0]
    /\ lastCount = [p \in Registered |-> 0]
    /\ lastRawFBBC = [p \in Registered |-> 0]
    /\ field = [p \in Registered |-> NoRow]
    /\ waiting = [p \in Registered |-> TRUE]
    /\ fbbc \in [Registered -> InitialFbbc]
    /\ labels = [p \in Registered |-> <<>>]
    /\ stops = 0 /\ faults = 0

Fault == faults < MaxFaults /\ faults' = faults + 1
NoFault == UNCHANGED faults

-----------------------------------------------------------------------------
(* The printer.                                                             *)

Label(p) ==
    /\ waiting[p]
    /\ \/ "earlyLabel" \in Events
       \/ field[p] # NoRow /\ (pump[p].pc # "none" => pump[p].last >= 0)
    /\ labels' = [labels EXCEPT ![p] = Append(@, field[p])]
    /\ waiting' = [waiting EXCEPT ![p] = FALSE]
    /\ fbbc' = [fbbc EXCEPT ![p] = @ + 1]
    /\ UNCHANGED <<shardVars, taskVars, pump, stopVars, driverVars, field, bounds>>

-----------------------------------------------------------------------------
(* The driver's counter.                                                    *)

\* Mutant: a smaller register is taken for progress.
CountingBack(p, raw) == raw

\* What the virtual counter becomes on reading the register: a smaller value
\* is a reset, a jump is noise, anything else is progress.
VirtualCount(p, raw) ==
    IF raw > lastRawFBBC[p] /\ raw - lastRawFBBC[p] < MaxJump
    THEN lastCount[p] + (raw - lastRawFBBC[p])
    ELSE lastCount[p]

\* GetCurrentPrintCount; without a usable answer it repeats itself.
GetCurrentPrintCount(p) ==
    \/ /\ lastCount' = [lastCount EXCEPT ![p] = VirtualCount(p, fbbc[p])]
       /\ lastRawFBBC' = [lastRawFBBC EXCEPT ![p] = fbbc[p]]
       /\ NoFault
    \/ /\ "noAnswer" \in Events /\ Fault
       /\ UNCHANGED driverVars

\* The poller reads the counter for the dashboard.
Poll(p) ==
    /\ GetCurrentPrintCount(p)
    /\ UNCHANGED <<shardVars, taskVars, pump, stopVars, deviceVars, stops>>

-----------------------------------------------------------------------------
(* RunValentinFastPumper.                                                   *)

Step(p, next) == pump' = [pump EXCEPT ![p] = next]

\* One turn of the push loop is over.
Pushed(k) == [k EXCEPT !.todo = @ - 1, !.row = NoRow, !.index = 0,
                       !.pc = IF k.todo = 1 THEN "tick" ELSE "push"]

PumpTick(p) ==
    LET k == pump[p]
    IN  /\ k.pc = "tick"
        /\ Step(p, [k EXCEPT !.pc = IF taskStatus = "stopped" THEN "exit" ELSE "count"])
        /\ UNCHANGED <<shardVars, taskVars, stopVars, driverVars, deviceVars, bounds>>

\* Mutant: every reading is worth a code.
EveryReading(k, current) == 1

\* Mutant: a mark of zero counts as no mark.
MarkAboveZero(k, current) ==
    IF k.last > 0 /\ current > k.last THEN current - k.last ELSE 0

\* The labels since the last reading; the first one only sets the mark.
Delta(k, current) == IF k.last >= 0 /\ current > k.last THEN current - k.last ELSE 0

PumpCount(p) ==
    LET k == pump[p]
        delta == Delta(k, lastCount'[p])
    IN  /\ k.pc = "count"
        /\ \/ /\ GetCurrentPrintCount(p)
              /\ Step(p, [k EXCEPT !.pc = IF delta > 0 THEN "push" ELSE "tick",
                            !.todo = delta,
                            !.last = IF k.last < 0 \/ delta > 0 THEN lastCount'[p] ELSE @])
           \/ /\ "noAnswer" \in Events /\ Fault
              /\ Step(p, [k EXCEPT !.pc = "tick"])
              /\ UNCHANGED driverVars
        /\ UNCHANGED <<shardVars, taskVars, stopVars, deviceVars, stops>>

\* pushSingleValentinCode: fetch one code of the printer's lane, ...
PumpFetch(p) ==
    LET k == pump[p]
    IN  /\ k.pc = "push"
        /\ \/ /\ FetchAndAssignCodes(Task, p, 1)
              /\ \E i \in Selected(Task, p, 1) :
                    Step(p, [k EXCEPT !.pc = "send", !.row = i, !.index = rows'[i].index])
           \/ /\ Fetchable(Task, p) = {}
              /\ Step(p, Pushed(k))
              /\ UNCHANGED shardVars
        /\ UNCHANGED <<taskVars, stopVars, driverVars, deviceVars, bounds>>

\* Mutant: a send that failed is reported as well.
ReportAnyway(k) == [k EXCEPT !.pc = "report"]

\* An error ends the push loop; the row stays in the buffer.
GiveUp(k) == [k EXCEPT !.pc = "tick", !.todo = 0, !.row = NoRow, !.index = 0]

\* ... replace BM[20] and arm the sensor, ...
PumpSend(p) ==
    LET k == pump[p]
    IN  /\ k.pc = "send"
        /\ \/ /\ field' = [field EXCEPT ![p] = k.row]
              /\ waiting' = [waiting EXCEPT ![p] = TRUE]
              /\ \/ UNCHANGED fbbc /\ NoFault
                 \/ "fbcResets" \in Events /\ fbbc' = [fbbc EXCEPT ![p] = 0] /\ Fault
              /\ Step(p, [k EXCEPT !.pc = "report"])
           \/ /\ Fault
              /\ \/ "sendFails" \in Events /\ UNCHANGED field
                 \/ "armFails" \in Events /\ field' = [field EXCEPT ![p] = k.row]
              /\ Step(p, GiveUp(k))
              /\ UNCHANGED <<waiting, fbbc>>
        /\ UNCHANGED <<shardVars, taskVars, stopVars, driverVars, labels, stops>>

\* UpdateCodeStatusByID: the row is printed, whatever became of it meanwhile.
UpdateCodeStatusByID(i, index) ==
    /\ rows' = [rows EXCEPT ![i].status = "printed", ![i].index = index]
    /\ UNCHANGED lastId

\* ... and report the code printed.
PumpReport(p) ==
    LET k == pump[p]
    IN  /\ k.pc = "report"
        /\ \/ UpdateCodeStatusByID(k.row, k.index) /\ NoFault
           \/ "reportFails" \in Events /\ Fault /\ UNCHANGED shardVars
        /\ Step(p, Pushed(k))
        /\ UNCHANGED <<taskVars, stopVars, driverVars, deviceVars, stops>>

\* The first pump to end takes the task from the registry.
PumpExit(p) ==
    /\ pump[p].pc = "exit"
    /\ tracked' = FALSE
    /\ Step(p, NoPump)
    /\ UNCHANGED <<shardVars, taskStatus, stopVars, driverVars, deviceVars, bounds>>

Pump(p) ==
    \/ PumpTick(p) \/ PumpCount(p) \/ PumpFetch(p)
    \/ PumpSend(p) \/ PumpReport(p) \/ PumpExit(p)

-----------------------------------------------------------------------------
(* The handlers: appends do not overlap stops here, PrintLine has them do.  *)

\* handleTaskAppend, with StartPumping: unless the task is in the registry, a
\* pump on every printer the manager has.
TaskAppend(items) ==
    /\ StopIdle
    /\ taskStatus = "active" \/ "resume" \in Events
    /\ AppendTaskCodes(Task, items)
    /\ taskStatus' = "active" /\ tracked' = TRUE
    /\ IF tracked THEN UNCHANGED pump
       ELSE /\ \A p \in Registered : pump[p].pc = "none"
            /\ pump' = [p \in Registered |-> FreshPump]
    /\ UNCHANGED <<stopVars, driverVars, deviceVars, bounds>>

StopRequest ==
    /\ StopIdle /\ taskStatus = "active" /\ stops < MaxStops
    /\ taskStatus' = "stopped"
    /\ stop' = [p \in Registered |-> "poll"]
    /\ stops' = stops + 1
    /\ UNCHANGED <<shardVars, tracked, pump, odometer, driverVars, deviceVars, faults>>

\* GetLastPrintedIndex is the virtual counter as it stands.
StopPoll(p) ==
    /\ stop[p] = "poll"
    /\ odometer' = [odometer EXCEPT ![p] = lastCount[p]]
    /\ stop' = [stop EXCEPT ![p] = "reconcile"]
    /\ UNCHANGED <<shardVars, taskVars, pump, driverVars, deviceVars, bounds>>

StopReconcile(p) ==
    /\ stop[p] = "reconcile"
    /\ ReconcileAndFinalizeTaskCodes(Task, p, odometer[p])
    /\ stop' = [stop EXCEPT ![p] = "clear"]
    /\ UNCHANGED <<taskVars, pump, odometer, driverVars, deviceVars, bounds>>

\* ClearQueue forgets the counts and leaves the printer armed.
StopClear(p) ==
    /\ stop[p] = "clear"
    /\ lastCount' = [lastCount EXCEPT ![p] = 0]
    /\ lastRawFBBC' = [lastRawFBBC EXCEPT ![p] = 0]
    /\ stop' = [stop EXCEPT ![p] = "idle"]
    /\ UNCHANGED <<shardVars, taskVars, pump, odometer, deviceVars, bounds>>

Stop(p) == StopPoll(p) \/ StopReconcile(p) \/ StopClear(p)

Next ==
    \/ \E items \in Batches : TaskAppend(items)
    \/ StopRequest
    \/ \E p \in Registered :
          Label(p) \/ Poll(p) \/ Pump(p) \/ Stop(p)

Spec == Init /\ [][Next]_vars

\* Goroutines are scheduled and products pass.
FairSpec ==
    /\ Spec
    /\ \A p \in Registered :
          WF_vars(Label(p)) /\ WF_vars(Stop(p)) /\ WF_vars(Pump(p))

-----------------------------------------------------------------------------
TypeOK ==
    /\ ShardTypeOK
    /\ taskStatus \in {"active", "stopped"} /\ tracked \in BOOLEAN
    /\ pump \in [Registered ->
          [pc : {"none", "tick", "count", "push", "send", "report", "exit"},
           last : Nat \cup {-1}, todo : Nat, row : 0..MaxRows, index : Nat]]
    /\ stop \in [Registered -> {"idle", "poll", "reconcile", "clear"}]
    /\ odometer \in [Registered -> Nat]
    /\ lastCount \in [Registered -> Nat] /\ lastRawFBBC \in [Registered -> Nat]
    /\ field \in [Registered -> 0..MaxRows] /\ waiting \in [Registered -> BOOLEAN]
    /\ fbbc \in [Registered -> Nat] /\ labels \in [Registered -> Seq(0..MaxRows)]
    /\ stops \in 0..MaxStops /\ faults \in 0..MaxFaults

Labelled(p) == {labels[p][k] : k \in DOMAIN labels[p]}

\* Each printer applies codes in the order 1C delivered them, none twice,
\* although a stop may return a code its pump is about to load; unless an
\* exchange failed, which may leave a code on a product and in the buffer.
LabelsInOrder ==
    faults = 0 =>
        \A p \in Registered : \A k, l \in DOMAIN labels[p] :
            k < l /\ labels[p][k] # NoRow => labels[p][k] < labels[p][l]

\* A code reported printed is on a product or waits for one: no code is
\* replaced before its label was taken.  It takes registers that start at 0: a
\* count left over is taken for labels, and a stop then confirms a row whose
\* send failed.
ReportedWasArmed ==
    \A i \in Ids : rows[i].status = "printed" =>
        \E p \in Registered : i \in Labelled(p) \/ (field[p] = i /\ waiting[p])

\* What must become of code i of p's lane, unless something fails or the task
\* is stopped.
Reported(i) ==
    \/ i <= lastId /\ rows[i].status = "printed"
    \/ taskStatus = "stopped" \/ faults > 0

\* Every label brings the next code, until the queue is empty: a code that is
\* delivered while another waits for its product is reported in its turn.
QueuedCodeReported ==
    \A i \in 1..MaxRows : \A p \in Registered :
        (/\ i <= lastId /\ InLane(p, i) /\ taskStatus = "active"
         /\ waiting[p] /\ field[p] # NoRow)
        ~> Reported(i)
===============================================================================

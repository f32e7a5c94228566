------------------------------ MODULE PrintLine ------------------------------
(***************************************************************************)
(* One production line printing one task: the code shard, the default      *)
(* pump (core/manager.go), the background poller, the append and stop      *)
(* handlers (internal/api/handlers_tasks.go), and the printers behind the  *)
(* videojet driver.  A step ends where the code gives up the database or   *)
(* the printer: between two SQL statements, two printer commands, or a     *)
(* status check and what follows it.                                       *)
(*                                                                         *)
(* The printer itself is not in this repository.  As the driver uses it,   *)
(* it keeps a queue of records (SID), applies them in order as products    *)
(* pass, reports the index of the last one applied (SLR) and drops the     *)
(* queue on SCB, which leaves that index alone.                            *)
(*                                                                         *)
(* Events names what the surroundings may do besides working as they       *)
(* should; every run says which ones it allows.                            *)
(***************************************************************************)
EXTENDS CodeShard

CONSTANTS Task,        \* the task
          Capacity,    \* records a printer's queue takes (1000)
          InitialSlr,  \* what SLR may answer before the task's first label
          Events,      \* the events allowed, a subset of AllEvents
          MaxStops,    \* bound: stop requests
          MaxRestarts  \* bound: restarts of the process

AllEvents ==
    {"busyStop",         \* a stop inside a cycle of the pump, or an append
     "appendDuringStop", \* an append while a stop is being served
     "labelDuringStop",  \* a label between a stop's SLR and its SCB
     "busyRestart",      \* the process dies between two steps of a cycle
     "sendFails",        \* SID is not delivered, or refused
     "ackLost",          \* SID is delivered, its reply is not
     "spaceFails",       \* SRC fails
     "pollFails",        \* a stop gets no SLR within 3 seconds
     "reconcileFails",   \* the reconciliation is rolled back
     "clearFails",       \* SCB is not delivered
     "statusReadFails"}  \* GetTaskStatus fails

\* The parameters are in range; CodeShard has assumed the shard's.
ASSUME LineAssumption ==
    /\ Task \in Tasks
    /\ Capacity \in Nat \ {0} /\ MaxBatch \in Nat \ {0}
    /\ MaxStops \in Nat /\ MaxRestarts \in Nat
    /\ InitialSlr \subseteq 0..MaxRows
    /\ Events \subseteq AllEvents

VARIABLES taskStatus,        \* tasks.status
          tracked,           \* activeTasks[task]
          pump,              \* the pump goroutine
          append,            \* the append handler
          stop, odometer,    \* the stop handler, one goroutine per printer
          poller,            \* the background poller
          queue,             \* queue[p]: records the printer holds
          slr,               \* slr[p]: index of the last record applied
          labels,            \* labels[p]: rows whose code p applied, in order
          stops, restarts    \* bounds

deviceVars == <<queue, slr, labels>>
stopVars == <<stop, odometer>>
bounds == <<stops, restarts>>
vars == <<shardVars, taskStatus, tracked, pump, append, stopVars, poller,
          deviceVars, bounds>>

Record == [row : 1..MaxRows, index : 1..MaxRows]

NoPump == [pc |-> "none", left |-> {}, at |-> NoPrinter, room |-> 0, batch |-> {}]
FreshPump == [NoPump EXCEPT !.pc = "tick"]
FreshPoller == [pc |-> "visit", left |-> Printers, at |-> NoPrinter, index |-> 0]

StopIdle == \A p \in Printers : stop[p] = "idle"

\* Nothing is in flight: no handler runs and the pump waits for its ticker.
Quiet == StopIdle /\ append = "idle" /\ pump.pc \in {"none", "tick", "exit"}

Init ==
    /\ ShardInit
    /\ taskStatus = "active"      \* as handleTaskCreate leaves it
    /\ tracked = FALSE
    /\ pump = NoPump
    /\ append = "idle"
    /\ stop = [p \in Printers |-> "idle"]
    /\ odometer = [p \in Printers |-> 0]
    /\ poller = FreshPoller
    /\ queue = [p \in Printers |-> <<>>]
    /\ slr \in [Printers -> InitialSlr]
    /\ labels = [p \in Printers |-> <<>>]
    /\ stops = 0 /\ restarts = 0

-----------------------------------------------------------------------------
(* The printer.                                                             *)

\* A product passes: the head of the queue is applied.
Label(p) ==
    /\ queue[p] # <<>>
    /\ "labelDuringStop" \in Events \/ stop[p] \notin {"reconcile", "clear"}
    /\ labels' = [labels EXCEPT ![p] = Append(@, Head(queue[p]).row)]
    /\ slr' = [slr EXCEPT ![p] = Head(queue[p]).index]
    /\ queue' = [queue EXCEPT ![p] = Tail(@)]
    /\ UNCHANGED <<shardVars, taskStatus, tracked, pump, append, stopVars, poller, bounds>>

-----------------------------------------------------------------------------
(* handleTaskAppend: insert, activate, start the pump.                      *)

AppendInsert(items) ==
    /\ append = "idle"
    /\ StopIdle \/ "appendDuringStop" \in Events
    /\ AppendTaskCodes(Task, items)
    /\ append' = "activate"
    /\ UNCHANGED <<taskStatus, tracked, pump, stopVars, poller, deviceVars, bounds>>

\* SetTaskStatus(active), whatever the status was.
AppendActivate ==
    /\ append = "activate"
    /\ taskStatus' = "active"
    /\ append' = "start"
    /\ UNCHANGED <<shardVars, tracked, pump, stopVars, poller, deviceVars, bounds>>

\* StartPumping: nothing when activeTasks has the task, else a new pump.  Here
\* the line's printers are always found, and the status is always written:
\* TaskControl has the other cases.
StartPumping ==
    /\ tracked' = TRUE
    /\ pump' = IF tracked THEN pump ELSE FreshPump

AppendStart ==
    /\ append = "start"
    /\ StartPumping
    /\ append' = "idle"
    /\ UNCHANGED <<shardVars, taskStatus, stopVars, poller, deviceVars, bounds>>

-----------------------------------------------------------------------------
(* RunDefaultPumper, one tick: read the status, then for each printer read  *)
(* the free space, fetch, and send record by record.                        *)

\* The status that ends a pump.
Final == taskStatus = "stopped"

PumpStatus ==
    /\ pump.pc = "tick"
    /\ \/ /\ taskStatus = "active"
          /\ pump' = [pump EXCEPT !.pc = "next", !.left = Printers]
       \/ /\ Final \/ "statusReadFails" \in Events
          /\ pump' = [pump EXCEPT !.pc = "exit"]
    /\ UNCHANGED <<shardVars, taskStatus, tracked, append, stopVars, poller, deviceVars, bounds>>

\* Mutant: the free space of an empty printer.
WholeBuffer(p) == Capacity

GetBufferFreeSpace(p) == Capacity - Len(queue[p])

\* GetBufferFreeSpace of the next printer; no room, or an error, skips it.
PumpSpace ==
    /\ pump.pc = "next"
    /\ \/ /\ pump.left = {}
          /\ pump' = FreshPump
       \/ \E p \in pump.left :
            LET free == GetBufferFreeSpace(p)
                room == IF free > MaxBatch THEN MaxBatch ELSE free
                skip == [pump EXCEPT !.left = @ \ {p}]
            IN  \/ pump' = IF room <= 0 THEN skip
                           ELSE [skip EXCEPT !.pc = "fetch", !.at = p, !.room = room]
                \/ "spaceFails" \in Events /\ pump' = skip
    /\ UNCHANGED <<shardVars, taskStatus, tracked, append, stopVars, poller, deviceVars, bounds>>

PumpFetch ==
    /\ pump.pc = "fetch"
    /\ \/ /\ FetchAndAssignCodes(Task, pump.at, pump.room)
          /\ pump' = [pump EXCEPT !.pc = "send",
                        !.batch = {[row |-> i, index |-> rows'[i].index] :
                                      i \in Selected(Task, pump.at, pump.room)}]
       \/ /\ Fetchable(Task, pump.at) = {}
          /\ pump' = [pump EXCEPT !.pc = "next"]
          /\ UNCHANGED shardVars
    /\ UNCHANGED <<taskStatus, tracked, append, stopVars, poller, deviceVars, bounds>>

\* Mutant: the record is sent again.
Retry == pump

\* The rest of the batch is not sent.
GiveUp == [pump EXCEPT !.pc = "next", !.batch = {}]

\* PrintBatchIndexed, one SID: an error ends the batch, and the pump only
\* logs how much of it was loaded.
PumpSend ==
    /\ pump.pc = "send"
    /\ \E r \in pump.batch :
         LET rest == pump.batch \ {r}
             sent == [queue EXCEPT ![pump.at] = Append(@, r)]
         IN  /\ \A s \in rest : r.index < s.index
             /\ \/ queue' = sent /\ pump' = IF rest = {} THEN [pump EXCEPT !.pc = "next", !.batch = {}]
                                            ELSE [pump EXCEPT !.batch = rest]
                \/ "sendFails" \in Events /\ pump' = GiveUp /\ UNCHANGED queue
                \/ "ackLost" \in Events /\ pump' = GiveUp /\ queue' = sent
    /\ UNCHANGED <<shardVars, taskStatus, tracked, append, stopVars, poller,
                   slr, labels, bounds>>

\* The deferred stopTaskTracking of a pump that read its status as final.
PumpExit ==
    /\ pump.pc = "exit"
    /\ tracked' = FALSE
    /\ pump' = NoPump
    /\ UNCHANGED <<shardVars, taskStatus, append, stopVars, poller, deviceVars, bounds>>

Pump == PumpStatus \/ PumpSpace \/ PumpFetch \/ PumpSend \/ PumpExit

-----------------------------------------------------------------------------
(* BackgroundPoller: visit every printer in turn; when its line has an      *)
(* active task, read SLR and mark the codes up to it.                       *)

PollVisit ==
    /\ poller.pc = "visit"
    /\ \/ /\ poller.left = {}
          /\ poller' = FreshPoller
       \/ \E p \in poller.left :
            LET visited == [poller EXCEPT !.left = @ \ {p}]
            IN  poller' = IF taskStatus = "active"
                          THEN [visited EXCEPT !.pc = "read", !.at = p]
                          ELSE visited
    /\ UNCHANGED <<shardVars, taskStatus, tracked, pump, append, stopVars, deviceVars, bounds>>

PollRead ==
    /\ poller.pc = "read"
    /\ poller' = [poller EXCEPT !.pc = "mark", !.index = slr[poller.at]]
    /\ UNCHANGED <<shardVars, taskStatus, tracked, pump, append, stopVars, deviceVars, bounds>>

\* Mutant: only the row the odometer shows is confirmed.
PollMarkLast ==
    /\ poller.pc = "mark"
    /\ MarkLast(Task, poller.at, poller.index)
    /\ poller' = [poller EXCEPT !.pc = "visit"]
    /\ UNCHANGED <<taskStatus, tracked, pump, append, stopVars, deviceVars, bounds>>

PollMark ==
    /\ poller.pc = "mark"
    /\ MarkAsPrinted(Task, poller.at, poller.index)
    /\ poller' = [poller EXCEPT !.pc = "visit"]
    /\ UNCHANGED <<taskStatus, tracked, pump, append, stopVars, deviceVars, bounds>>

Poll == PollVisit \/ PollRead \/ PollMark

-----------------------------------------------------------------------------
(* handleTaskStop: set the status, then per printer and in parallel read    *)
(* the odometer, reconcile, clear the queue.                                *)

StopRequest ==
    /\ StopIdle
    /\ stops < MaxStops
    /\ taskStatus = "active"
    /\ Quiet \/ "busyStop" \in Events
    /\ taskStatus' = "stopped"
    /\ stop' = [p \in Printers |-> "poll"]
    /\ stops' = stops + 1
    /\ UNCHANGED <<shardVars, tracked, pump, append, odometer, poller, deviceVars, restarts>>

\* A printer that does not answer is left out of the stop altogether.
StopPoll(p) ==
    /\ stop[p] = "poll"
    /\ \/ /\ odometer' = [odometer EXCEPT ![p] = slr[p]]
          /\ stop' = [stop EXCEPT ![p] = "reconcile"]
       \/ /\ "pollFails" \in Events
          /\ stop' = [stop EXCEPT ![p] = "done"]
          /\ UNCHANGED odometer
    /\ UNCHANGED <<shardVars, taskStatus, tracked, pump, append, poller, deviceVars, bounds>>

\* Mutant: nothing printed, nothing to reconcile.
ReconcileWhenPrinted(p) ==
    IF odometer[p] > 0 THEN ReconcileAndFinalizeTaskCodes(Task, p, odometer[p])
                       ELSE UNCHANGED shardVars

Reconcile(p) == ReconcileAndFinalizeTaskCodes(Task, p, odometer[p])

\* The handler goes on to clear the queue even when this fails.
StopReconcile(p) ==
    /\ stop[p] = "reconcile"
    /\ \/ Reconcile(p)
       \/ "reconcileFails" \in Events /\ UNCHANGED shardVars
    /\ stop' = [stop EXCEPT ![p] = "clear"]
    /\ UNCHANGED <<taskStatus, tracked, pump, append, odometer, poller, deviceVars, bounds>>

\* Mutant: the queue is left alone.
QueueKept(p) == queue

QueueCleared(p) == [queue EXCEPT ![p] = <<>>]

StopClear(p) ==
    /\ stop[p] = "clear"
    /\ \/ queue' = QueueCleared(p)
       \/ "clearFails" \in Events /\ UNCHANGED queue
    /\ stop' = [stop EXCEPT ![p] = "done"]
    /\ UNCHANGED <<shardVars, taskStatus, tracked, pump, append, odometer, poller,
                   slr, labels, bounds>>

\* wg.Wait() returns and the handler answers.
StopReturn ==
    /\ \A p \in Printers : stop[p] = "done"
    /\ stop' = [p \in Printers |-> "idle"]
    /\ UNCHANGED <<shardVars, taskStatus, tracked, pump, append, odometer, poller,
                   deviceVars, bounds>>

Stop == StopReturn \/ \E p \in Printers : StopPoll(p) \/ StopReconcile(p) \/ StopClear(p)

-----------------------------------------------------------------------------
\* The process dies and runApp starts again: the databases and the printers
\* keep their state, GetActiveTasks restarts the pump of an active task.
Restart ==
    /\ restarts < MaxRestarts
    /\ Quiet \/ "busyRestart" \in Events
    /\ restarts' = restarts + 1
    /\ tracked' = (taskStatus = "active")
    /\ pump' = IF taskStatus = "active" THEN FreshPump ELSE NoPump
    /\ append' = "idle"
    /\ stop' = [p \in Printers |-> "idle"]
    /\ poller' = FreshPoller
    /\ UNCHANGED <<shardVars, taskStatus, odometer, deviceVars, stops>>

Next ==
    \/ \E items \in Batches : AppendInsert(items)
    \/ AppendActivate
    \/ AppendStart
    \/ Pump
    \/ Poll
    \/ StopRequest
    \/ Stop
    \/ Restart
    \/ \E p \in Printers : Label(p)

Spec == Init /\ [][Next]_vars

\* Goroutines are scheduled, handlers once called run to their end, and the
\* line keeps moving; nobody has to call a handler or restart the process.
Fairness ==
    /\ WF_vars(Pump)
    /\ WF_vars(Poll)
    /\ WF_vars(AppendActivate \/ AppendStart)
    /\ WF_vars(StopReturn)
    /\ \A p \in Printers :
         /\ WF_vars(StopPoll(p) \/ StopReconcile(p) \/ StopClear(p))
         /\ WF_vars(Label(p))

FairSpec == Spec /\ Fairness

-----------------------------------------------------------------------------
\* Every variable has its type; the shard's own is ShardTypeOK.
TypeOK ==
    /\ ShardTypeOK
    /\ taskStatus \in {"active", "stopped"}
    /\ tracked \in BOOLEAN
    /\ pump \in [pc : {"none", "tick", "next", "fetch", "send", "exit"},
                 left : SUBSET Printers, at : Printers \cup {NoPrinter},
                 room : 0..MaxBatch, batch : SUBSET Record]
    /\ append \in {"idle", "activate", "start"}
    /\ stop \in [Printers -> {"idle", "poll", "reconcile", "clear", "done"}]
    /\ odometer \in [Printers -> 0..MaxRows]
    /\ poller \in [pc : {"visit", "read", "mark"}, left : SUBSET Printers,
                   at : Printers \cup {NoPrinter}, index : 0..MaxRows]
    /\ queue \in [Printers -> Seq(Record)]
    /\ slr \in [Printers -> 0..MaxRows]
    /\ labels \in [Printers -> Seq(1..MaxRows)]
    /\ stops \in 0..MaxStops /\ restarts \in 0..MaxRestarts

\* Every database step of the line is a transaction of the shard, so that
\* what holds of the shard holds on the line whatever the printers do.
ImplementsShard == ShardSpec

LabelledBy(p) == {labels[p][k] : k \in DOMAIN labels[p]}
QueuedAt(p) == {queue[p][k] : k \in DOMAIN queue[p]}

\* The point of the gateway: a code is reported printed only when its label
\* is on a product, applied by the printer the table names (storage.go:507).
PrintedWasApplied ==
    \A i \in Ids :
        rows[i].status = "printed" => i \in LabelledBy(rows[i].printer)

\* No code is on two products, across stops, returns to the queue, further
\* appends and restarts.
NoCodeOnTwoLabels ==
    \A p, q \in Printers : \A k \in DOMAIN labels[p], l \in DOMAIN labels[q] :
        labels[p][k] = labels[q][l] => p = q /\ k = l

\* A printer applies codes in the order 1C delivered them.
LabelsInOrder ==
    \A p \in Printers : \A k, l \in DOMAIN labels[p] :
        k < l => labels[p][k] < labels[p][l]

\* A row in the buffer is somewhere: in the pump's hands, in its printer's
\* queue, or on a product the poller has not seen yet (storage.go:523 relies
\* on it to tell what was not printed).
BufferedIsAccounted ==
    \A i \in Ids :
        rows[i].status = "in_buffer" =>
            LET p == rows[i].printer
                r == [row |-> i, index |-> rows[i].index]
            IN  \/ i \in LabelledBy(p)
                \/ r \in QueuedAt(p)
                \/ pump.at = p /\ r \in pump.batch

\* Outside the window between a stop's reconciliation and its SCB, what a
\* printer holds is what the table says it holds, under the same index.
QueueMatchesTable ==
    \A p \in Printers : stop[p] # "clear" =>
        \A r \in QueuedAt(p) :
            /\ rows[r.row].status = "in_buffer"
            /\ rows[r.row].printer = p
            /\ rows[r.row].index = r.index

\* The free space read before a fetch is still free when its records arrive:
\* no printer is ever given more than it takes.
NeverOverfilled == \A p \in Printers : Len(queue[p]) <= Capacity

\* A printer only ever applies codes of its own lane.
LabelsOfOwnLane ==
    \A p \in Printers : \A i \in LabelledBy(p) : InLane(p, i)

-----------------------------------------------------------------------------
(* What must eventually happen.                                             *)

\* Nobody stops the task any more, and its pump has not read a stop that was
\* withdrawn since.
Running ==
    taskStatus = "active" /\ stops = MaxStops /\ pump.pc \notin {"none", "exit"}

\* Every code 1C delivers is eventually confirmed as printed, the codes that
\* earlier stops returned to the queue too.
EveryCodeConfirmed ==
    \A i \in 1..MaxRows :
        (i <= lastId /\ Running) ~> (i <= lastId /\ rows[i].status = "printed")

\* A stopped task loses its pump, unless it is started again.
StopEndsPump == (taskStatus = "stopped") ~> (pump.pc = "none" \/ taskStatus = "active")

\* A stop leaves every code either printed or back in the queue, unless the
\* task is started again first.
StopSettlesBuffer ==
    (taskStatus = "stopped") ~>
        (taskStatus = "active" \/ \A p \in Printers : InBuffer(Task, p) = {})
=============================================================================

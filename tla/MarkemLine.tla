------------------------------ MODULE MarkemLine ------------------------------
(***************************************************************************)
(* One task on a Markem printer (internal/drivers/markem/driver.go).  The  *)
(* printer knows nothing of indices: the driver counts the codes it sent   *)
(* and subtracts a base from the printer's batch counter, and that         *)
(* difference is what the pump takes for room and the poller and the stop  *)
(* handler (internal/api/handlers_tasks.go) take for an index.             *)
(*                                                                         *)
(* The task's rows are its lane of the store (LaneCounts, which CodeShard  *)
(* implements): 1..confirmed are printed, up to taken in the buffer, up to *)
(* delivered pending; a code is its place in that order.                   *)
(*                                                                         *)
(* A step ends where a driver method gives up its locks or its caller      *)
(* turns to the database.  The printer, which is not in this repository,   *)
(* queues codes, applies them in order and counts the labels.              *)
(***************************************************************************)
EXTENDS Integers, Sequences

CONSTANTS MaxCodes,       \* bound: codes 1C ever delivers
          SafeQueueLimit, \* codes the driver lets into the queue (100)
          MaxBatch,       \* the pump's limit (30)
          InitialCount,   \* the batch counter when the task is created
          AllocCounts,    \* values of the counter that stands in for it
          Events,         \* the events allowed, a subset of AllEvents
          MaxStops        \* bound: stop requests

AllEvents ==
    {"cachedCount",   \* a count is answered from memory: one was asked less
                      \* than 1.5 seconds ago, or the printer does not answer
     "countMissing",  \* an answer has none of the counters looked for
     "allocCount",    \* an answer has only countAllocCurrent, another count
     "labelDuringStop", \* a label between a stop's count and its clear
     "counterResets", \* somebody resets the batch counter at the printer
     "resetInReading", \* the reset is noticed while another goroutine has
                       \* a count from before it, not below the base
     "resume",        \* an append after a stop
     "sendFails",     \* neither attempt to send a batch gets through
     "ackLost",       \* a batch gets through, its acknowledgement does not
     "clearFails"}    \* the clear of a stop does not get through

\* The parameters are in range.
ASSUME MarkemAssumption ==
    /\ MaxCodes \in Nat /\ SafeQueueLimit \in Nat \ {0} /\ MaxBatch \in Nat \ {0}
    /\ InitialCount \in Nat /\ AllocCounts \subseteq Nat /\ MaxStops \in Nat
    /\ Events \subseteq AllEvents

VARIABLES confirmed, taken, delivered, \* the task's rows
          taskStatus,                  \* tasks.status
          pump,                        \* the pump goroutine
          poller,                      \* the background poller
          stop,                        \* the stop handler
          totalSent, baseCount, lastPrintedCalculated, \* the driver's fields
          queue,                       \* codes in the printer, in order
          count,                       \* countBatchGood
          labels,                      \* codes applied, in order
          stops                        \* bound

\* The rows, as the store moves them.
Lane == INSTANCE LaneCounts

tableVars == <<confirmed, taken, delivered>>
driverVars == <<totalSent, baseCount, lastPrintedCalculated>>
printerVars == <<queue, count, labels>>
vars == <<tableVars, taskStatus, pump, poller, stop, driverVars, printerVars, stops>>

NoPump == [pc |-> "none", hw |-> 0, room |-> 0, batch |-> <<>>]
FreshPump == [NoPump EXCEPT !.pc = "tick"]

\* After handleTaskCreate, whose InitSession has rebased the counters.
Init ==
    /\ Lane!Init
    /\ taskStatus = "active"
    /\ pump = NoPump
    /\ poller = [pc |-> "visit", hw |-> 0]
    /\ stop = [pc |-> "idle", hw |-> 0]
    /\ totalSent = 0 /\ baseCount = InitialCount /\ lastPrintedCalculated = 0
    /\ queue = <<>> /\ count = InitialCount /\ labels = <<>>
    /\ stops = 0

-----------------------------------------------------------------------------
(* The printer.                                                             *)

\* A product passes.
Label ==
    /\ queue # <<>>
    /\ "labelDuringStop" \in Events \/ stop.pc \notin {"answer", "index", "reconcile", "clear"}
    /\ labels' = Append(labels, Head(queue))
    /\ queue' = Tail(queue)
    /\ count' = count + 1
    /\ UNCHANGED <<tableVars, taskStatus, pump, poller, stop, driverVars, stops>>

\* The batch is reset at the printer.
CounterReset ==
    /\ "counterResets" \in Events
    /\ count' = 0
    /\ UNCHANGED <<tableVars, taskStatus, pump, poller, stop, driverVars, queue, labels, stops>>

-----------------------------------------------------------------------------
(* The driver.                                                              *)

\* Mutant: the batch is sent again although it was acknowledged.
SendTwice == {[copies |-> 2, acked |-> TRUE]}

\* sendSOAPWaitACK of a batch: how often it reached the queue in the two
\* attempts, and whether one of them was acknowledged.
sendSOAPWaitACK ==
    {[copies |-> 1, acked |-> TRUE]}
    \cup (IF "sendFails" \in Events THEN {[copies |-> 0, acked |-> FALSE]} ELSE {})
    \cup (IF "ackLost" \in Events
          THEN {[copies |-> 2, acked |-> TRUE], [copies |-> 1, acked |-> FALSE],
                [copies |-> 2, acked |-> FALSE]}
          ELSE {})

\* GetCurrentPrintCount up to its answer: the printer's counter, the other one,
\* zero when the answer shows neither, or, at once, what the driver remembers.
Counts ==
    {[asked |-> TRUE, hw |-> hw] :
        hw \in {count} \cup (IF "countMissing" \in Events THEN {0} ELSE {})
                      \cup (IF "allocCount" \in Events THEN AllocCounts ELSE {})}
    \cup (IF "cachedCount" \in Events
          THEN {[asked |-> FALSE, hw |-> baseCount + lastPrintedCalculated]} ELSE {})

\* The counts that goroutines have still to compare with the base.
PumpHolds == IF pump.pc \in {"answer", "space"} THEN {pump.hw} ELSE {}
PollerHolds ==
    IF poller.pc \in {"visitAnswer", "space", "answer", "index"} THEN {poller.hw} ELSE {}
StopHolds ==
    IF stop.pc \in {"answer", "index", "reanswer", "rebase"} THEN {stop.hw} ELSE {}

\* GetCurrentPrintCount after its answer: a count below the base lowers it.
GetCurrentPrintCount(hw, held) ==
    /\ baseCount' = IF hw < baseCount /\ hw # 0 THEN hw ELSE baseCount
    /\ \/ baseCount' = baseCount
       \/ "resetInReading" \in Events
       \/ \A other \in held : other < baseCount

\* GetBufferFreeSpace after its count: remember the labels, never less than
\* nothing in the buffer.
Remembered(hw) ==
    IF hw >= baseCount THEN hw - baseCount ELSE lastPrintedCalculated
Buffered(hw) ==
    IF totalSent > Remembered(hw) THEN totalSent - Remembered(hw) ELSE 0
FreeSpace(hw) == SafeQueueLimit - Buffered(hw)

\* Mutant: the codes sent are taken for applied.
SentSoFar(hw) == totalSent

\* GetLastPrintedIndex after its count.
LastPrintedIndex(hw) == IF hw < baseCount THEN 0 ELSE hw - baseCount

\* A message with the counter arrives while an answer is awaited.
extractAndSaveHwCount ==
    /\ count >= baseCount
    /\ lastPrintedCalculated' = count - baseCount
    /\ UNCHANGED <<tableVars, taskStatus, pump, poller, stop, totalSent, baseCount,
                   printerVars, stops>>

-----------------------------------------------------------------------------
(* RunDefaultPumper: status, count, room, fetch, send, tally.               *)

PumpStatus ==
    /\ pump.pc = "tick"
    /\ pump' = IF taskStatus = "active" THEN [pump EXCEPT !.pc = "count"] ELSE NoPump
    /\ UNCHANGED <<tableVars, taskStatus, poller, stop, driverVars, printerVars, stops>>

PumpCount ==
    /\ pump.pc = "count"
    /\ \E c \in Counts :
          pump' = [pump EXCEPT !.pc = IF c.asked THEN "answer" ELSE "space", !.hw = c.hw]
    /\ UNCHANGED <<tableVars, taskStatus, poller, stop, driverVars, printerVars, stops>>

PumpAnswer ==
    /\ pump.pc = "answer"
    /\ GetCurrentPrintCount(pump.hw, PollerHolds \cup StopHolds)
    /\ pump' = [pump EXCEPT !.pc = "space"]
    /\ UNCHANGED <<tableVars, taskStatus, poller, stop, totalSent,
                   lastPrintedCalculated, printerVars, stops>>

PumpSpace ==
    /\ pump.pc = "space"
    /\ lastPrintedCalculated' = Remembered(pump.hw)
    /\ LET free == FreeSpace(pump.hw)
       IN  pump' = IF free <= 0 THEN FreshPump
                   ELSE [pump EXCEPT !.pc = "fetch",
                                     !.room = IF free > MaxBatch THEN MaxBatch ELSE free]
    /\ UNCHANGED <<tableVars, taskStatus, poller, stop, totalSent, baseCount,
                   printerVars, stops>>

\* FetchAndAssignCodes: the next codes of the task, under the next indices.
PumpFetch ==
    /\ pump.pc = "fetch"
    /\ Lane!Fetch(pump.room)
    /\ pump' = IF taken' = taken THEN FreshPump
               ELSE [pump EXCEPT !.pc = "send",
                       !.batch = [k \in 1..(taken' - taken) |-> taken + k]]
    /\ UNCHANGED <<taskStatus, poller, stop, driverVars, printerVars, stops>>

\* PrintBatchIndexed: one command carries the whole batch.
PumpSend ==
    /\ pump.pc = "send"
    /\ \E answer \in sendSOAPWaitACK :
          /\ queue' = CASE answer.copies = 0 -> queue
                        [] answer.copies = 1 -> queue \o pump.batch
                        [] OTHER -> queue \o pump.batch \o pump.batch
          /\ pump' = IF answer.acked THEN [pump EXCEPT !.pc = "tally"] ELSE FreshPump
    /\ UNCHANGED <<tableVars, taskStatus, poller, stop, driverVars, count, labels, stops>>

\* Mutant: what was sent is not counted.
TallyForgotten == totalSent

Tally == totalSent + Len(pump.batch)

PumpTally ==
    /\ pump.pc = "tally"
    /\ totalSent' = Tally
    /\ pump' = FreshPump
    /\ UNCHANGED <<tableVars, taskStatus, poller, stop, baseCount,
                   lastPrintedCalculated, printerVars, stops>>

Pump ==
    PumpStatus \/ PumpCount \/ PumpAnswer \/ PumpSpace \/ PumpFetch \/ PumpSend \/ PumpTally

-----------------------------------------------------------------------------
(* BackgroundPoller: GetBufferFreeSpace for the dashboard, which remembers  *)
(* the labels, then the index of an active task.                            *)

PollCount ==
    /\ poller.pc \in {"visit", "count"}
    /\ \E c \in Counts :
          poller' = [pc |-> CASE poller.pc = "visit" /\ c.asked -> "visitAnswer"
                              [] poller.pc = "visit" /\ ~c.asked -> "space"
                              [] poller.pc = "count" /\ c.asked -> "answer"
                              [] poller.pc = "count" /\ ~c.asked -> "index",
                     hw |-> c.hw]
    /\ UNCHANGED <<tableVars, taskStatus, pump, stop, driverVars, printerVars, stops>>

PollAnswer ==
    /\ poller.pc \in {"visitAnswer", "answer"}
    /\ GetCurrentPrintCount(poller.hw, PumpHolds \cup StopHolds)
    /\ poller' = [poller EXCEPT !.pc = IF poller.pc = "visitAnswer" THEN "space" ELSE "index"]
    /\ UNCHANGED <<tableVars, taskStatus, pump, stop, totalSent,
                   lastPrintedCalculated, printerVars, stops>>

PollSpace ==
    /\ poller.pc = "space"
    /\ lastPrintedCalculated' = Remembered(poller.hw)
    /\ poller' = [poller EXCEPT !.pc = IF taskStatus = "active" THEN "count" ELSE "visit"]
    /\ UNCHANGED <<tableVars, taskStatus, pump, stop, totalSent, baseCount,
                   printerVars, stops>>

\* The end of GetLastPrintedIndex; hw holds the index from here on.
PollIndex ==
    /\ poller.pc = "index"
    /\ poller' = [pc |-> "mark", hw |-> LastPrintedIndex(poller.hw)]
    /\ UNCHANGED <<tableVars, taskStatus, pump, stop, driverVars, printerVars, stops>>

PollMark ==
    /\ poller.pc = "mark"
    /\ Lane!Mark(poller.hw)
    /\ poller' = [poller EXCEPT !.pc = "visit"]
    /\ UNCHANGED <<taskStatus, pump, stop, driverVars, printerVars, stops>>

Poll == PollCount \/ PollAnswer \/ PollSpace \/ PollIndex \/ PollMark

-----------------------------------------------------------------------------
(* handleTaskAppend and handleTaskStop.                                     *)

\* Codes are inserted, the task is activated, its pump is started.
TaskAppend ==
    /\ stop.pc = "idle"
    /\ taskStatus = "active" \/ ("resume" \in Events /\ pump.pc = "none")
    /\ delivered' \in (delivered + 1)..MaxCodes
    /\ taskStatus' = "active"
    /\ pump' = IF pump.pc = "none" THEN FreshPump ELSE pump
    /\ UNCHANGED <<confirmed, taken, poller, stop, driverVars, printerVars, stops>>

\* A stop, while the pump waits for its ticker.
StopRequest ==
    /\ stop.pc = "idle" /\ taskStatus = "active" /\ stops < MaxStops
    /\ pump.pc \in {"none", "tick"}
    /\ taskStatus' = "stopped"
    /\ stop' = [pc |-> "count", hw |-> 0]
    /\ stops' = stops + 1
    /\ UNCHANGED <<tableVars, pump, poller, driverVars, printerVars>>

\* The count of GetLastPrintedIndex, and later that of ClearQueue.
StopCount ==
    /\ stop.pc \in {"count", "recount"}
    /\ \E c \in Counts :
          stop' = [pc |-> CASE stop.pc = "count" /\ c.asked -> "answer"
                            [] stop.pc = "count" /\ ~c.asked -> "index"
                            [] stop.pc = "recount" /\ c.asked -> "reanswer"
                            [] stop.pc = "recount" /\ ~c.asked -> "rebase",
                   hw |-> c.hw]
    /\ UNCHANGED <<tableVars, taskStatus, pump, poller, driverVars, printerVars, stops>>

StopAnswer ==
    /\ stop.pc \in {"answer", "reanswer"}
    /\ GetCurrentPrintCount(stop.hw, PumpHolds \cup PollerHolds)
    /\ stop' = [stop EXCEPT !.pc = IF stop.pc = "answer" THEN "index" ELSE "rebase"]
    /\ UNCHANGED <<tableVars, taskStatus, pump, poller, totalSent,
                   lastPrintedCalculated, printerVars, stops>>

StopIndex ==
    /\ stop.pc = "index"
    /\ stop' = [pc |-> "reconcile", hw |-> LastPrintedIndex(stop.hw)]
    /\ UNCHANGED <<tableVars, taskStatus, pump, poller, driverVars, printerVars, stops>>

\* ReconcileAndFinalizeTaskCodes: confirm, then return the rest of the buffer.
StopReconcile ==
    /\ stop.pc = "reconcile"
    /\ Lane!Reconcile(stop.hw)
    /\ stop' = [stop EXCEPT !.pc = "clear"]
    /\ UNCHANGED <<taskStatus, pump, poller, driverVars, printerVars, stops>>

\* ClearQueue: the command, the count (StopCount), the new base whether or not
\* the command got through.
StopClear ==
    /\ stop.pc = "clear"
    /\ queue' = <<>> \/ ("clearFails" \in Events /\ queue' = queue)
    /\ stop' = [stop EXCEPT !.pc = "recount"]
    /\ UNCHANGED <<tableVars, taskStatus, pump, poller, driverVars, count, labels, stops>>

StopRebase ==
    /\ stop.pc = "rebase"
    /\ baseCount' = stop.hw /\ totalSent' = 0 /\ lastPrintedCalculated' = 0
    /\ stop' = [pc |-> "idle", hw |-> 0]
    /\ UNCHANGED <<tableVars, taskStatus, pump, poller, printerVars, stops>>

Stop == StopCount \/ StopAnswer \/ StopIndex \/ StopReconcile \/ StopClear \/ StopRebase

Next ==
    \/ Label \/ CounterReset \/ extractAndSaveHwCount
    \/ Pump \/ Poll
    \/ TaskAppend \/ StopRequest \/ Stop

Spec == Init /\ [][Next]_vars

-----------------------------------------------------------------------------
TypeOK ==
    /\ delivered \in 0..MaxCodes /\ taken \in 0..delivered /\ confirmed \in 0..taken
    /\ taskStatus \in {"active", "stopped"}
    /\ pump \in [pc : {"none", "tick", "count", "answer", "space", "fetch", "send", "tally"},
                 hw : Nat, room : 0..MaxBatch, batch : Seq(1..MaxCodes)]
    /\ poller \in [pc : {"visit", "visitAnswer", "space", "count", "answer", "index", "mark"},
                   hw : Nat]
    /\ stop \in [pc : {"idle", "count", "answer", "index", "reconcile", "clear", "recount",
                       "reanswer", "rebase"},
                 hw : Nat]
    /\ totalSent \in Nat /\ baseCount \in Nat /\ lastPrintedCalculated \in Nat
    /\ queue \in Seq(1..MaxCodes) /\ count \in Nat /\ labels \in Seq(1..MaxCodes)
    /\ stops \in 0..MaxStops

Labelled == {labels[k] : k \in DOMAIN labels}

\* A code is reported printed only when it is on a product (storage.go:507),
\* although the driver counts labels instead of reading an index.  It is up to
\* the answers to show the batch counter, or none: under "allocCount" it fails.
PrintedWasApplied == 1..confirmed \subseteq Labelled

\* Codes are applied in the order 1C delivered them and never twice.
LabelsInOrder ==
    \A k, l \in DOMAIN labels : k < l => labels[k] < labels[l]

\* The driver's count of what it sent and of what was applied never lets more
\* than its limit into the queue (driver.go:17), unless "allocCount" happens.
NeverOverfilled == Len(queue) <= SafeQueueLimit

\* "Все коды, которые принтер захватил в буфер, но НЕ успел напечатать,
\* возвращаем обратно" (storage.go:523): a stop returns no code that is on a
\* product already.
ReturnedWasNotApplied ==
    [][taken' < taken => \A i \in (taken' + 1)..taken : i \notin Labelled]_vars
===============================================================================

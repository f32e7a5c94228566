# Verification of rovnoMark

rovnoMark is a gateway between an ERP (1C) that hands out unique marking codes and the
printers that put them on products. A code on two products, a code reported printed that
is on none, or a code nobody prints any more is a regulatory problem. So the subject of
these modules is the way of a code: from the append request into the `task_codes` table,
to a printer's buffer, onto a label, and into the report that it was printed.

Contents: 1 the system and its parts, 2 the modules, 3 the runs, 4 events and bounds,
5 fairness, 6 the proofs, 7 where the code and what it says part ways, 8 what is not
modelled, 9 what is left.

## 1. The system

One process (`src/cmd/gateway/main.go`) holds two SQLite databases, an HTTP server, one
driver object per printer, a background poller and the pumps.

| Part | Source | State it keeps | Operations |
|---|---|---|---|
| Code store | `internal/storage/storage.go` | `task_codes` of the current month: task, code, external id, status, printer, index | append, fetch (both variants), mark printed, reconcile, set one row printed |
| Rotation | `storage.go:68-120` | which month's database is open, behind a read-write lock | compare the month, close one shard, open or create the other |
| Master database | `storage.go` | tasks with status and line, lines, printers | create, set status, active task of a line, tasks to restart |
| Task handlers | `internal/api/handlers_tasks.go` | none of their own | create, append, stop |
| Task registry | `internal/core/manager.go` | `activeTasks` | `StartPumping` (look and enter, then ask for the printers and launch), `stopTaskTracking` |
| Default pump | `manager.go:162` | one goroutine per task | tick: status, free space, fetch, send |
| Valentin pump | `manager.go:92` | one goroutine per task and printer | count labels, push one code for each |
| Poller | `manager.go:330` | one goroutine | read each printer's status and odometer, confirm codes |
| Printer manager | `manager.go` | registered drivers, their states and logs | register anew, look up, show a status, log a loss or a recovery |
| Videojet driver | `internal/drivers/videojet` | a mutex and a socket | one line for one line: records with indices, free space, last index, clear |
| Markem driver | `internal/drivers/markem` | a socket, three counters | queue a batch, count labels, clear |
| Valentin driver | `internal/drivers/valentine` | a socket, a virtual counter | replace the code, arm, count labels |
| External server driver | `internal/drivers/extserver` | last index of the last batch accepted | forward a batch over HTTP |
| GS1 validation | `internal/core/marking` | none | parse and check one code |
| Other API, web pages, service wrapper | `internal/api`, `ui*`, `cmd/gateway` | none the above decide on | queries, configuration |

How they interact. 1C calls create, append and stop. Create checks that the line is
free, inserts the task, sets up the printers and activates. Append inserts codes,
activates the task and calls `StartPumping`. The pump reads the task's status from the
master database, asks a printer for room, fetches codes under the next indices and sends
them. The printer applies them as products pass. The poller reads the last applied index
and confirms every buffered row up to it. Stop sets the status, and then, for each
printer in a goroutine of its own, reads the odometer, confirms and returns the rest of the
buffer in one transaction, and clears the printer's queue. Nothing but the status row and
`activeTasks` connects the handlers with the pump; no lock is held across two of these
steps, and the table and the printers are never changed together.

What makes it hard: handlers, pumps and poller interleave between any two statements; a
stop works on rows and queues a pump inside its tick is still filling; the printer moves on
all the time; records and acknowledgements get lost; the odometer is one number that stands
for all rows below it; the process may die between a commit and a send; five kinds of
goroutine share the one socket of a driver, whose replies carry no number; the database is
closed under its users when the month turns; a driver, and its count, outlives the task.

What makes each part correct:

- code store: no code twice, never in both lanes or in none; indices in the order of
  delivery and without holes; what is confirmed precedes what is buffered precedes what
  waits; a printed row is final;
- line: a code reported printed is on a product; no code is on two; labels in order; what a
  printer holds is what the table says; a stop settles the buffer; every code gets printed;
- control: one task per line; one default pump per task, or one for each Valentin printer; records
  reach only printers set up for the task; a create that fails frees its line; a stopped task loses its pumps;
- Markem: counting labels is as good as reading an index, and the queue is never overfilled;
- Valentin: nothing reported printed is overwritten, and every label brings the next code;
- Videojet's socket: a reply is that of the command, an acknowledged record is in the printer,
  records come in order, and no call waits for good;
- rotation: no call works on an earlier month, none loses its database to a call of its own
  month, no passport is missed, and nobody waits in a circle;
- external server: what is confirmed was accepted, what was acknowledged is not sent again, a
  finished task rests, and the operator is told of losses and recoveries by turns.

## 2. The modules

| Module | Models | State and actions |
|---|---|---|
| `CodeLedger` | what the store promises, abstractly | each (task, code) is absent, queued, held by a printer or confirmed; `Enqueue`, `Hold`, `Settle` |
| `CodeShard` | `task_codes` and its transactions | `rows`, `lastId`; one action per transaction: `AppendTaskCodes`, `FetchAndAssignCodes` (both variants: the lane condition falls away on a line of one printer), `MarkAsPrinted`, `ReconcileAndFinalizeTaskCodes` |
| `LaneCounts` | what the store promises of one task on one printer, abstractly | three numbers, `confirmed`, `taken` and `delivered`; `Deliver`, `Fetch`, `Mark`, `Reconcile` |
| `PrintLine` | one task on one line with the default pump and Videojet printers | status, registry, `pump`, `append`, `stop`, `poller` as program counters with their locals; `queue`, `slr`, `labels` of the printers |
| `TaskControl` | create, append, stop as concurrent requests over many tasks and lines, any statement of which may fail; registry and pumps, of lines with the default pump and of Valentin lines; restart | `status`, `lineOf`, `session`, `request`, `tracked`, `pumps` (how many goroutines of a task are at each place), `left` (tasks whose create ended without a status) |
| `MarkemLine` | one task on a Markem printer | the rows as a lane of `LaneCounts`, the driver's three counters, its callers' locals, the printer's queue and batch counter |
| `ValentinLine` | one task on a line of Valentin printers | the fast pumps, the virtual counters, the one code each printer holds, the rows of `CodeShard` |
| `RecordChannel` | what a driver promises the pump about records, abstractly | `offered`, `loaded`, `acked`; each record at most once, acknowledged only when it is there |
| `VideojetLink` | mutex, connection and exchanges of a Videojet driver | `lock`, the lines under way, `call` (the commands each goroutine has still to send); `SendCommand`, `ReadReply`, `Timeout`, `ResetSocket`, and the printer's side |
| `CodeMonths` | `getCodesDB`, the rotation and the calls that use the handle | `curMonth`, `files`, `writer`, the two connections, `call`; one action per lock, connection and query |
| `ServerLine` | tasks in succession on an external server, the manager's board, the whole visit of the poller | rows as a lane of `LaneCounts` per task, `lastPrintedIndex` of every driver ever registered, `shown`, `logs`, `pump`, `poller`, `stop` |
| `CodeShardProofs` | theorems about the table, and its refinement of the ledger and of the lanes | |
| `PrintLineProofs` | theorems about the line: types, implements the shard, never overfilled, own lane; and, on a line that is not interrupted, about what is on the products and how often | |
| `TaskControlProofs` | theorems about requests and pumps: types, the pumps of a task and its registration; and, when requests come one at a time, one task per line and the session of the own task | |
| `MarkemLineProofs` | theorems about the first session of a task on a Markem printer, and that its rows are a lane | |
| `ValentinLineProofs` | theorems about a Valentin line: types, order of the labels, a code on one label, and no report in advance | |
| `VideojetLinkProofs` | theorems about the link, and its refinement of the channel | |
| `CodeMonthsProofs`, `ServerLineProofs` | theorems about the months and the external server | |
| `MC*` | parameters for TLC | |

How they are composed. `PrintLine` and `ValentinLine` EXTEND `CodeShard` and call its
operators for every database step; `PrintLine` is checked and proved to implement `CodeShard`
(`ImplementsShard`), and `CodeShard` is proved to implement `CodeLedger` (`ImplementsLedger`, by
the mapping of `PhaseOf` and `HolderOf`). Downwards, `PrintLine` takes one exchange with a
printer for one step: a record arrives at most once, and is acknowledged only if it did. That
is `RecordChannel`, and `VideojetLink` is checked and proved to implement it
(`ImplementsChannel`), although goroutines share the socket, deadlines pass and connections are
dropped with commands under way. `MarkemLine` and `ServerLine` do not repeat the table: they keep of it what `LaneCounts` has, how many
codes of a task a printer confirmed, took and will get, and their steps on the rows are steps of that module. Both
sides of this are proved. The rows of a task on a printer lie in the order confirmed,
buffered, waiting (`ConfirmedPrefix`, `QueueBehindBuffer`) and have the indices 1, 2, ...
without a hole (`NoHoles`), the places of the rows in the lane of the printer (`IndexIsPlace`); so every transaction
of `CodeShard` moves the counts of its lane as `LaneCounts` says and no other lane's (`LaneSteps`), and the table
implements a lane for every task and printer (`ImplementsLanes`). And whatever happens on a Markem line or to a server, the
rows change by steps of lanes only (`RowsAreALane`, `RowsAreLanes`). `TaskControl` and `PrintLine` overlap in the status,
the registry and the pump: the one has many tasks and no codes, the other one task and all of its codes.
`ServerLine` lies between: several tasks with their codes, on the one kind of printer whose count
passes from one to the next. `CodeMonths` has the codes of a month only as a set: what the
transactions do to them is `CodeShard`'s.

Steps. A transaction of the database is one step, and so is one exchange with a printer.
A handler or goroutine may be interrupted between any two of them. The comment at the head
of each module says where its steps end. Integers need no width: nothing in the code
comes near 2^63.

The printers are not in the repository. They are modelled from how the drivers use them
(`Label`, `CounterReset`), and marked external in `PROJECT.json`.

Definitions marked `Mutant:` in a comment take part in no specification. Each is a
plausible error in the definition that follows it, and `PROJECT.json` names the property
that TLC finds violated when it takes that definition's place.

## 3. The runs

| Run | Instance | Question |
|---|---|---|
| `shard` | 2 tasks, 2 printers, 3 codes with mixed external ids, 4 rows | does the table keep its order, its lanes and its finality under any interleaving of transactions |
| `line_lossy_link` | 2 printers, 3 codes, room for 2, a stop, a restart | records, replies, status and free-space queries, odometer polls and reconciliations fail: no duplicate, no disorder, no foreign lane, no record the table does not know |
| `line_progress` | 1 printer with room for 2, 3 codes, a stop; labels cross the stop and clears fail | is every confirmation true, every buffered row somewhere, every code finally confirmed, every stop settled; do the steps on the rows implement the shard |
| `control_any` | 3 lines, with the default pump, two Valentin printers and a Valentin printer that is not registered; 1 task, 2 requests at once, appends in any state, slow pumps, failing statements, panics, a restart | has a task the pumps its registration says, do creates end, are stopped tasks released |
| `control_lines` | 2 lines, with the default pump and two Valentin printers; 3 tasks, requests one at a time, failing statements, panics, a restart | one task per line, and only printers set up for it are pumped |
| `markem_line` | 5 codes, queue of 3, batches of 2, counter at 3 when the task starts, a stop | do the driver's counters confirm only what is on products and never overfill the queue |
| `valentin_line` | 3 codes, the odd lane's printer, a failed exchange, a stop | is nothing overwritten that was reported, and does every label bring the next code |
| `videojet_link` | the pump and another goroutine, 2 records, one fault of the printer, any number of time-outs | is an answer that of the question, are records in order and acknowledged only when there, is a connection out of step dropped, does every call end |
| `months` | 3 goroutines, one code, two months, any calls | does a call get the month it asked for, is a passport found, can the locks and connections block each other |
| `server_line` | 2 tasks of 2 codes, 2 registrations, a log of 2 entries; a second task, appends after a stop, lost answers | are confirmations true, acknowledged codes not repeated, finished tasks at rest, the log in order |
| `odometer_confirms`, `markem_resume` | the smallest instance each | TLC ends them with a counterexample, see 7 |

The passing runs show, beyond the single properties: losing a record costs that record's
code, and its being reported as printed (see 7), but never a duplicate; a stop on a quiet line
is exact even when labels are applied during it, as far as confirmations go; the registry of
pumps is right for the default pump under every interleaving of requests, failures, slow pumps and restarts,
while on Valentin lines it may forget pumps that run (7), and the rule of one task per line holds only for
requests that do not overlap; the Videojet driver's habit of dropping the connection at
every error is what keeps replies and commands together; the rotation compares the
month twice for a reason, and its connections, of which there is one per database, are never
waited for in a circle.

Type invariants are in no run: theorems have them for every instance (6).

`ReportedWasArmed` and `PrintedWasApplied` differ because the code does: on a Valentin line
a code is reported printed as soon as it is armed.

## 4. Events and bounds

A model in which everything may go wrong at once satisfies little. So every line module has a
constant `Events`, and a run names those it allows. Removing one is an assumption on
the surroundings and is stated as such here. What breaks what was measured with TLC by
allowing one event at a time.

`PrintLine`

| Event | Breaks |
|---|---|
| `busyStop`, `appendDuringStop`, `busyRestart` | `PrintedWasApplied`, `NoCodeOnTwoLabels`, `LabelsInOrder`, `BufferedIsAccounted`, `QueueMatchesTable` |
| `labelDuringStop`, `clearFails` | `NoCodeOnTwoLabels`, `LabelsInOrder`, `QueueMatchesTable` |
| `sendFails`, `ackLost`, `reconcileFails` | `PrintedWasApplied`, `BufferedIsAccounted` |
| `spaceFails` | `EveryCodeConfirmed`, as it may fail for ever |
| `pollFails`, `statusReadFails` | none of these |

`NeverOverfilled` and `LabelsOfOwnLane` hold under all of them. `line_lossy_link` allows the
third and the last two rows with the properties they leave standing, `line_progress` the
second row likewise. The first row is in no passing run: there the code is simply not safe,
and the README of a team that runs it should say that a line must be quiet when
it is stopped, and stopped before the process is restarted.

`TaskControl`

| Event | Breaks |
|---|---|
| `overlap`, `reappend` | `OneTaskPerLine`, `OwnSession` |
| `slowPump` | `OwnSession` |
| `queryFails`, `panics` | none of these, and are allowed in both runs |

`OnePumpPerTask`, `CreateEnds` and `StopReleases` hold under all five. `queryFails` lets any statement on the
master database fail, those too whose error the handlers drop (`_ = s.store.SetTaskStatus(...)`), and the query for a line's
printers come back empty; `panics` lets a driver panic while a create sets it up, which ends the request and
nothing else. A create whose last write is lost, or that panicked, is in `left`: `CreateEnds` says that, short of a
restart, only these tasks stay ready. `OwnSession` excepts the pumps of Valentin printers after a restart: unlike the default pump they do
not skip a task that is still ready, so that a task whose create was cut off is pumped although its printers may
not be set up (`MaxRestarts` 1 breaks the property without the exception).

`MarkemLine`

| Event | Breaks |
|---|---|
| `sendFails` | `PrintedWasApplied` |
| `resetInReading`, `allocCount` | `PrintedWasApplied`, `NeverOverfilled` |
| `ackLost` | `PrintedWasApplied`, `LabelsInOrder`, `NeverOverfilled` |
| `resume` | the same |
| `cachedCount`, `countMissing`, `labelDuringStop`, `counterResets`, `clearFails` | none of these, and are all allowed in `markem_line` |

`ReturnedWasNotApplied`, which is not a property of `markem_line`, asks more: that a stop returns nothing that is on a
product. `cachedCount`, `countMissing`, `labelDuringStop`, `counterResets`, `sendFails` and `resume` each break it;
`ackLost`, `resetInReading` and `clearFails` do not. `allocCount` is an answer that has `countAllocCurrent` in
place of `countBatchGood` (`markem/driver.go:328-333`): the driver takes it for the count of labels, whatever it counts. Its values are the
constant `AllocCounts`, empty in the passing runs; with `{7}` TLC finds the two properties violated, while `LabelsInOrder` holds.

A count of labels confirms by number, so a missing or doubled record shifts it, and so does a base
that is lowered under a count somebody has already read.

`ValentinLine`: `earlyLabel` and `resume` break `ReportedWasArmed` (the next push replaces a
code that waits) and `QueuedCodeReported`. The others are failures, of which `valentin_line`
allows one; after one the liveness property asks for nothing more, and, as a
code may then be on a product and still in the buffer, neither does `LabelsInOrder`.
`InitialFbbc` is what the printer's register may hold when a session starts; the driver sets
its own fields to zero and not the register (`driver_nicelabel.go:155-165`). The run has 0, as runs of the Videojet line have for
`InitialSlr`: with 0 and 2, TLC finds `ReportedWasArmed` violated without any event, as a stop then confirms a row that is only being pushed;
the other two properties hold.
Appends and stops do not overlap there, and the process lives. Its line has one registered printer of the two, so lanes are not its subject.

`ServerLine`

| Event | Breaks |
|---|---|
| `refuses` | `LossAndRecoveryAlternate` |
| `sendFails` | `ConfirmedWasAccepted` |
| `busyStop` | `ConfirmedWasAccepted`, `AcknowledgedOnce`, `StoppedTaskRests` |
| `busyReplace` | `AcknowledgedOnce` |
| `secondTask`, `resume`, `replyLost` | none of these, and are all allowed in `server_line` |

`VideojetLink` has no events but two bounded faults, which the properties name: a line the printer
sends unasked (`strays`) costs everything that rests on the place of a reply, a command carried out
after its connection is closed (`lates`) costs the order of the records. `CodeMonths` has none: every
interleaving of every call is allowed, and the properties say what they need (`young`, `~back`).

Bounds. `MaxRows` and `MaxCodes`: three codes give an odd and two even row ids, a full
batch, a batch cut by the room left and a code behind it; the shard has four rows, so that two
tasks interleave with two rows each. `Capacity` and `SafeQueueLimit` are below the number of
codes, so that a queue is full. `MaxBatch` 2 makes a batch that can be cut in the middle.
`MaxStops` 1 is enough for one return to the queue and a renumbering by an append after it; 2
are needed where a stop after a resume matters. `MaxRestarts` and `MaxCalls` bound counters that
no guard of the code reads. `MaxJump` (10 in the code) is 3: the counter
of the instance grows by less between two readings except across a stop, which makes the driver
forget its last reading, so a jump of 3 and smaller ones are both met. `InitialCount` 3
is the least for which a base lowered under a count matters; 2 hides it. All counters are bounded by guards on these constants only.

`CHECK_DEADLOCK FALSE` stands where the system may stop for good: all rows and requests of
the bounded instance are used up. `months` checks for deadlock: there is always a call to make.

In `control_any` one task is enough for what a task promises of its pumps, and a Valentin line without a registered
driver is needed for a task that is registered with no pump; in `control_lines` three tasks on two lines make a
task that follows another.

In `videojet_link` two records make a batch that can be cut, a batch after a batch, and an order to
break; one fault is enough for either property that needs none of the other kind, and a
safety-only exploration with three records and two faults found nothing more. `months` needs
two months for everything a rotation does, and three goroutines for one that rotates, one that
is overtaken and one that works. (11 million states of the instance with three months showed no violation.)
`server_line` needs two tasks for an index to outlive one, two codes for a batch that
is partly confirmed, and a log of two for an entry to drop out.

Symmetry is used for codes (the table compares them for equality only) and for requests, in runs
without liveness.

## 5. Fairness

Weak fairness on the pump, the poller, the steps of an accepted append or stop: goroutines
of a running Go process are scheduled, every driver call has a deadline (3 to 10 s), every
database call returns, and tickers fire. Weak fairness on `Label`: the line moves. No
fairness on requests, restarts and failures: nobody has to call, and things need not go
wrong. In `line_progress`, `EveryCodeConfirmed` speaks of the time after the last stop with a pump that
has not read a stop since withdrawn, because the code may leave an appended task without a pump (7).

`videojet_link`: weak fairness on `AskForRoom` (the pump asks at every tick of its ticker) and strong
fairness on the exchanges of each goroutine: the mutex is taken and given up again and again, so a
waiting goroutine finds it free now and then, and Go's `sync.Mutex` hands it over to one that has
waited for a millisecond; a read that gets no line ends at its deadline. None on the printer,
which may fall silent, and none on the other callers. `WaitsEnd` asks for no fairness: it
says whom a call waits for, and that those who are waited for can go on.

## 6. The proofs

Proved for all constants that satisfy the named assumptions of the modules
(`ParameterAssumption`, `LaneAssumption`, `LineAssumption`, `ControlAssumption`,
`MonthsAssumption`, `LinkAssumption`, `ServerAssumption`, `MarkemAssumption`,
`ValentinAssumption`): any finite set of printers whose roles give
each code at most one lane, any tasks, codes, batches, goroutines, months, registrations and
bounds, and, unless the last column says otherwise, any set of `Events`.

| Module | Theorem | Statement | Assumes |
|---|---|---|---|
| `CodeShardProofs` | `TypeCorrect` | `ShardSpec => []ShardTypeOK` | |
| | `Assignment` | `ShardSpec => []AssignmentWellFormed` | |
| | `DeliveryOrder` | `ShardSpec => []PrintOrder` | |
| | `Confirmation` | `ShardSpec => []ConfirmedPrefix` | |
| | `QueueOrder` | `ShardSpec => []QueueBehindBuffer` | |
| | `CodesUnique` | `ShardSpec => []UniqueCode` | |
| | `ConfirmationIsFinal` | `ShardSpec => PrintedFinal` | |
| | `NoHoles` | `ShardSpec => []IndexesContiguous` | |
| | `IndexIsPlace` | `ShardSpec => []PlaceInLane` | |
| | `Implementation` | `ShardSpec => ImplementsLedger` | |
| | `TransactionsAreLaneSteps` | `ShardSpec => LaneSteps` | |
| | `LanesImplemented` | `ShardSpec => ImplementsLanes` | |
| `PrintLineProofs` | `LineTypeCorrect` | `Spec => []TypeOK` | |
| | `LineImplementsShard` | `Spec => ImplementsShard` | |
| | `LineInherits` | `Spec =>` all that the theorems of `CodeShardProofs` say | |
| | `LineNeverOverfilled` | `Spec => []NeverOverfilled` | |
| | `LineKeepsLanes` | `Spec => []LabelsOfOwnLane` | |
| | `NoDoubleLabel` | `Spec => []NoCodeOnTwoLabels` | `AtRest` |
| | `LabelOrder` | `Spec => []LabelsInOrder` | `AtRest` |
| | `QueueAgrees` | `Spec => []QueueMatchesTable` | `AtRest` |
| | `PrintedIsApplied` | `Spec => []PrintedWasApplied` | `Uninterrupted`, `AllDelivered` |
| | `BufferIsAccounted` | `Spec => []BufferedIsAccounted` | `Uninterrupted`, `AllDelivered` |
| | `NoneSkipped` | `Spec => []LabelsFromFront` | `Uninterrupted`, `AllDelivered` |
| | `DoubtIsBounded` | `Spec => []DoubleLabelsBounded` | `Uninterrupted`, `AllDelivered` |
| `TaskControlProofs` | `ControlTypeCorrect` | `Spec => []TypeOK` | |
| | `OnePump` | `Spec => []OnePumpPerTask` | |
| | `OneTask` | `Spec => []OneTaskPerLine` | `OneAtATime` |
| | `SessionIsOwn` | `Spec => []OwnSession` | `Waited` |
| `MarkemLineProofs` | `TypeCorrect` | `Spec => []TypeOK` | |
| | `CountsConfirm` | `Spec => []PrintedWasApplied` | `FirstSession` |
| | `CodesInOrder` | `Spec => []LabelsInOrder` | `OnceOnly` |
| | `QueueBounded` | `Spec => []NeverOverfilled` | `CountedOnce` |
| | `StopReturnsUnprinted` | `Spec => ReturnedWasNotApplied` | `ExactStop` |
| | `RowsAreALane` | `Spec => Lane!Spec` | |
| `ValentinLineProofs` | `ValentinTypeCorrect` | `Spec => []TypeOK` | |
| | `DeliveredInOrder` | `Spec => []LabelsInOrder` | |
| | `NoReportInAdvance` | `Spec => []ReportedWasArmed` | `FirstRun` |
| | `CodesOnOneLabel` | `Spec => []OneLabelEach` | |
| | `ReportsAreFinal` | `Spec => PrintedFinal` | |
| `VideojetLinkProofs` | `TypeCorrect` | `Spec => []TypeOK` | |
| | `OneExchangeHolds` | `Spec => []OneExchange` | |
| | `AcknowledgedWasLoadedHolds` | `Spec => []AcknowledgedWasLoaded` | |
| | `OdometerTrueHolds` | `Spec => []OdometerTrue` | |
| | `LoadedInOrderHolds` | `Spec => []LoadedInOrder` | |
| | `Refinement` | `Spec => ImplementsChannel` | |
| `CodeMonthsProofs` | `TypeCorrect` | `Spec => []TypeOK` | |
| | `NoStepBackHolds` | `Spec => []NoStepBack` | |
| | `PassportFindsHolds` | `Spec => []PassportFinds` | |
| | `ClosedForAnotherMonthHolds` | `Spec => ClosedForAnotherMonth` | |
| | `WaitsEndHolds` | `Spec => []WaitsEnd` | |
| `ServerLineProofs` | `TypeCorrect` | `Spec => []TypeOK` | |
| | `RowsAreLanes` | `Spec => \A t \in Tasks : Lane(t)!Spec` | |
| | `StoppedRests` | `Spec => StoppedTaskRests` | no `busyStop` |
| | `LossesAlternate` | `Spec => []LossAndRecoveryAlternate` | no `refuses` |
| | `AcknowledgedSentOnce` | `Spec => []AcknowledgedOnce` | no `busyStop`, `busyReplace` |
| | `ConfirmedAccepted` | `Spec => []ConfirmedWasAccepted` | no `busyStop`, `sendFails` |

`Uninterrupted` is `InitialSlr = {0}` and none of `busyStop`, `appendDuringStop`,
`busyRestart`: pump and append are not under way when the line is stopped or restarted. `AtRest` adds
neither `labelDuringStop` nor `clearFails`: no product passes during a stop, and SCB arrives. `AllDelivered` is none
of `sendFails`, `ackLost`, `reconcileFails`. `OneAtATime` is neither `overlap` nor `reappend`, and
`Waited` adds no `slowPump`. `FirstRun` is neither `earlyLabel` nor
`resume`, and `InitialFbbc` is 0. `OnceOnly` is neither `resume` nor `ackLost`,
`CountedOnce` adds no `resetInReading` and no `allocCount`, and `FirstSession` no `sendFails`; `ExactStop` is `FirstSession` and none of
`cachedCount`, `countMissing`, `labelDuringStop`, `counterResets`. These are the assumptions of section 4, and they
are needed: each of the excluded events breaks one of the properties that exclude it.

The table. None of the order properties is inductive alone. `PrintOrder` needs that a
fetch takes rows behind all that the printer already has (`QueueBehindBuffer`), which a
stop preserves only because what it returns lies behind what it confirms (`ConfirmedPrefix`), which
a report preserves because indices grow with the ids (`PrintOrder`). So the inductive invariant is
`IInv == ShardTypeOK /\ Order`, `Order` being these three with `AssignmentWellFormed`; there is one
lemma per transaction (`AppendKeepsOrder`, `FetchKeepsOrder`, `MarkKeepsOrder`,
`ReconcileKeepsOrder`), over lemmas that say what a transaction does to one row
(`FetchStep`, ...). `RankFacts` has what is needed of `ORDER BY id LIMIT n`. `UniqueCode` is
inductive with the types. `IndexesContiguous` says that a set of indices is downward closed
(`NoGap`): a fetch adds the numbers after the greatest, one for each rank, and a stop takes some away only
from the end, since what it returns lies behind what it confirms. That a downward closed finite set of positive
numbers is `1..n` needs no induction over its size: it lies in the interval up to its greatest
element and has as many elements. `PlaceInLane` says more: the index of a row is its place in the
lane of its printer (`LaneOf`), whoever had it in between. What a printer has taken is a front part of the lane
(`TakenFromFront`, from the lanes being disjoint and `QueueBehindBuffer`), and along it the indices rise without a gap; a lane
only grows, at its end (`PlacesLast`). The refinement maps an append to `Enqueue`, a fetch to `Hold`, a report
and a stop to `Settle`, and needs `UniqueCode` for the phase of a (task, code) to be that of one row.

The lanes count instead of naming rows. A fetch of `n` ranks takes `n` rows or all that wait (`RankNumbers`: the ranks of
a set of ids are the numbers up to its size). What a report up to an index confirms is as many rows as the
index says, within what was taken, because the indices of a lane are exactly 1 to `taken`, one for each row
(`IndexNumbers`, from `NoGap` and the order of the indices), and the confirmed ones come first (`LaneFacts`). This is
what makes an odometer, a number, mean codes. That no other lane moves follows from lanes being disjoint.

The line (`PrintLine`). `LineInv` joins the types of pump, poller, handlers and printers with
`IInv` and `IndexBound`: an odometer stays in `0..MaxRows` because it is the index of a record
that was sent, a record has the index of a fetched row, and indices are bounded by ids. Under it
every step is a transaction of the shard or leaves the rows alone (`ShardStep`), which is both
the refinement and, with the lemmas of `CodeShardProofs`, half of the induction. `RoomInv` adds
that what a printer holds and the part of the batch still to be sent fit together: labels and
clears only make room, and one pump fills it. `LaneInv` follows a row of a lane from the fetch
through batch and queue to the label; the lane of a row is fixed, as no transaction changes its
external id (`RowsKeepLane`).

The products. `LabelInv` adds to `LineInv` what a quiet line guarantees: while a stop is
served nothing else works (`Halted`); what a stop or the poller has read of an odometer is still so,
or behind (`OdometerRead`, `PollerBehind`); an odometer above 0 is the index of a row
its printer took, so that the next fetch numbers past it (`OdometerKnown`); labelled rows
stay with their printer under the index they were sent with, and rise (`LabelsTaken`, `LabelsRise`); records
in a queue and in the pump's hands are rows of that buffer, in order, behind the labels
(`QueueHeld`, `QueueRises`, `BatchHeld`). A code on two labels would be a row with two indices. These
theorems read off it.

The account needs none of that, and holds where `LabelInv` does not: on a line whose products pass during a stop,
or whose printer kept its queue after one, codes are labelled twice and the odometer goes back, yet what the table
says of them is true. `AccountInv` speaks of places in a lane. The labelled rows are a front part of it
(`LabelsFromFront`); before the row of any record in a queue or a batch there are only rows that are labelled or ahead
of it (`QueueFollows`, `BatchFollows`), because a row before a fetched one is fetched with it or was taken, and then
it is on a product or in the queue by the account itself; what an odometer shows, or a goroutine has read of
one, is the place of a labelled row (`OdometersShown`). So a report up to `n` confirms labelled rows only
(`PassedIsLabelled`), as indices are places. Beside it stand that a stop empties a buffer before it clears the printer
(`BufferEmptied`) and that only a pump in its sending step has a batch (`HandsEmpty`). `line_progress` checks
the two properties under the events the theorems allow.

How often codes are applied there is a matter of counting. `DoubtInv` has, for each printer, the records at the end of its queue
standing for the last rows it took, in order, those before them having been applied (`TailSent`); the pump's batch standing for the rows
after these (`HandLast`); and so a stop that has read the odometer returning no more than a queue takes (`FewReturned`). With
the room of `RoomInv` it follows that labels, queue and batch together never exceed what was taken by more than `Capacity`
for each stop that has reconciled (`WithinRights`). As what was taken is on a product, in the queue or in the batch (the account again),
the labels exceed the products' different codes by at most `stops * Capacity` (`DoubleLabelsBounded`). TLC found `DoubtInv` to hold, and the bound to
be reached, on instances with one and two printers before the proof.

Control (`TaskControl`). The types need that the id an insert takes is in range and new, so `Typed`
counts created tasks and creates under way, keeps that ids are given out in order (`IdsInOrder`) and that no
request but an insert brings a row into being. `Registered` is inductive beside it: a pump leaves the registry as its last act,
`StartPumping` looks and enters in one step, under `activeMu`, and launches, or leaves again, in a second, between which
nobody else enters. For the default pump goroutines and launches are counted together and are one exactly while the task is registered;
for a Valentin line, where the first pump to end takes the task out of the registry, they are only bounded
from below while it is in. When requests come one at a time,
`QuietInv` says that no two requests are served at once (`Alone`) and what the one that is knows of its
task and line, above all that the line is still free at the insert (`InService`). `SessionInv` adds that a printer's session is
that of the line's active task (`SessionKnown`); that no task is pumped before it is activated, but
for what a restart starts (`PumpedLater`); and that a pump which sends is of an active task or of one whose stop is still served
(`SendsInService`), which keeps the next create of the line waiting.

The Markem line has three invariants, each under the assumptions it needs, beside `Halted`: a stop meets a pump at
rest and no append follows. `OrderInv` speaks of no count at all: codes rise from the labels through the queue to
the pump's batch, and what was taken is not below any of them. `CountInv` speaks of no code: what
any goroutine has as a count stands for no more labels than there are, measured from
the base, also when it is remembered, missing or older than a reset (`CountsTrue`), since labels only
grow, every count is one of `countBatchGood` or none at all, and the base is lowered only when nobody works with a count from
before, be it on its way to the comparison with the base (`answer`) or behind it; `totalSent` and the batch on
its way are what reached the queue, so that sent minus labels is the queue (`SentTrue`), and the room a
pump computed is still there when its batch arrives (`RoomTrue`). `SessionInv` joins the two: when no
batch is lost the codes on labels and in the queue are 1, 2, 3, ... in this order (`InPlace`), so that
an index that does not exceed the labels confirms codes that are on them. For a stop to return nothing that is on a
product the index must not fall short either: `Fresh` says that in such a session the counter, and what the stop took from it, is
the base and the labels applied since.

The Valentin line. `Typed` joins the types with what is in a pump's hands. For the order, `InTurn` says, while no
exchange has failed, that a printer's buffer has no row but the one its pump carries, that what waits
in the lane is not before that row and, but for the step between push and report, behind the field, and that
labels rise up to the field. A stop may return the row that is being pushed: the report, which
names the row by its id, takes it out of the lane again. It needs no assumption on the events: a
counter that is read wrongly costs codes, not their order. For the reports, `Counted` says that no
reading is ahead of the labels (which needs the register to start at zero), that a pump pushes one code at a time, and that the counter is at most one past its
mark, and not past it while a push is due or an armed code waits for its product; `Numbered` that until a stop has reconciled the
rows of a printer have the numbers of its labels as indices, the armed one the next, so that a count
confirms what it counted; `Begun` that a printer whose pump has not been started was given nothing.
Under every event `OwnInv` keeps field and labels of a printer in its own lane, so that two printers never have a code
in common, and says that what a pump is about to report is in its row as it is, unless a stop has returned the row: so a report by id
rewrites no printed row.

The link (`VideojetLink`). `IInv == TypeOK /\ CallShape /\ Numbered /\ Once /\ Sorted /\ Steady /\
Acknowledged`. `CallShape` ties what a goroutine has still to send to the method it is in and the mutex to
the one goroutine that waits for a reply; `Numbered` and `Once` say that every index on its way,
in the printer or counted was given out, and is in one place; `Sorted` that they rise along these
places; `Steady` that lines and replies under way, while the printer only answers, are those of
the command of the goroutine that has the mutex: any other ending of an exchange drops the connection.

The months (`CodeMonths`). `Locked` says who has the read-write lock, `Ages` that a call which began with no
older one beside it carries the newest month, `Kept` that a month with codes has a file and that a search has
passed only months without its code. The theorem about closing needs the types and `Locked` only. `Connected` says that who has the
connection of the month is in a transaction, and so waits for nobody; who has the write lock waits at
most for that connection. `WaitsEnd` follows for any number of calls.

The external server (`ServerLine`). `RestInv == OneActive /\ Emptied`: one task is active, and a settled task has no
code in a buffer nor a pump in its hands. `CountInv` covers what was acknowledged: it is confirmed, or its
index is at most the current driver's `lastPrintedIndex`, or a pump or a stop is about to read it; a stop
therefore returns only what was not acknowledged. `AcceptInv` (`CountsAccepted`, `TakenAccepted`, `PollerKnows`) says
that the index of every driver, which the pump sets from the batch it was given, and what poller
and stop have read of it, counts accepted codes of the task it is used for. `LogInv`: what is shown of the
printer agrees with the last of loss and recovery in the log, on either side of the poller's two steps.

Only model-checked: all liveness (`EveryCodeConfirmed`, `StopSettlesBuffer`, `CreateEnds`, `StopReleases`,
`QueuedCodeReported`, `DesyncHeals`, `CallEnds`), which is beyond the prover. Every safety property of a passing run is
proved. Conversely some theorems have no run of their own: `LaneSteps` quantifies over all batches and limits at every step, which is
beyond the time of a run on the instance of `shard`; `ImplementsLanes` over all numbers.

## 7. Where the code and what it says part ways

Two of these have a run that TLC ends with a counterexample.

- `odometer_confirms`: confirmed "by the odometer" are all buffered rows up to its index, also
  those whose record never reached the printer because a send failed in the middle of a batch.
- `markem_resume`: a stop rebases the Markem odometer to zero while the indices of the task
  go on; the stop after the next append returns codes that are on products. That this takes a second session, or one
of the events of section 4, is proved: `StopReturnsUnprinted`.

Others showed while modelling. Allowing the event named makes TLC exhibit those that have one.

- Two creates that overlap both find the line free, and both activate (`overlap`).
- Whether the status a create ends with was written (`handlers_tasks.go:85`, `99`, `110`, `121`, `128`, `148`) is not looked at: when
  the statement fails, a task that failed, or that the answer calls ready to print, stays `ready`, its line is taken and only a stop
  frees it (`queryFails`). An append, too, answers as if it had activated its task (line 223). The same is left by a driver that panics during a create, as the Savema stub does in `ClearQueue` and
  `InitSession` (`savema/driver.go:27-40`): the HTTP server recovers the request, nobody the task (`panics`). In a pump, or in the goroutine of a stop,
  such a panic ends the process, which is a death like any other.
- A task on several Valentin printers has a pump for each, and the first of them to end takes it out of the registry
  (`manager.go:93`); an append before the others have ended starts a second generation beside them. A task on a
  Valentin line none of whose drivers is registered is entered with no pump at all and stays so until the process
  ends (`manager.go:70-85`): no later append starts one.
- An append answers `"pumper_started": true` although the old pump, which has read `stopped` and
  is about to end, was still registered and none was started (`slowPump`).
- The Valentin pump pushes only after a label, so a code appended after its queue ran empty
  is never pumped, although the append says so.
- Rotation. A goroutine that read the clock before the turn of the month and is scheduled after another has
  rotated opens the old month again (`storage.go:76`), until the next call. Queued codes stay
  in the old shard, indices start again at 1, and the odometer of last month confirms new rows.
- A reconciliation whose commit succeeded may still be answered with an error; a passport query answers
  "not found" for any error.
- Markem. A base is lowered when a counter below it is read (`driver.go:339-341`), also while another
  goroutine has an earlier, higher count: `GetLastPrintedIndex` (`driver.go:456-468`) then takes the
  difference of the two for labels, and codes are confirmed that are still in the queue; `GetBufferFreeSpace`
  likewise finds more room than there is (`resetInReading`; TLC needs five codes for it).
- Markem. Where an answer lacks `countBatchGood` the driver takes `countAllocCurrent` for it (`driver.go:328-333`), another
  counter: codes are then confirmed that are on no product, and room is found that is not there (`allocCount`).
- Valentin. The driver forgets its counts when a session starts and leaves the printer's register as it is
  (`driver_nicelabel.go:155-165`). Unless FBC resets it, the counts of the task before are taken for labels of this one, and a stop confirms
  a row that was never armed (`InitialFbbc`).
- Videojet. A GCL answered without a field, as a refusal or a line out of turn may be, makes `GetRemainingRibbon` index past the end
  of its reply (`driver.go:269-273`): the poller, which calls it, has no `recover`, and the process dies with
  all pumps. `CallEnds` and `DesyncHeals` therefore end in `~up` as an alternative.
- Both fetches drop the error of the query for the last index (`storage.go:365`, `434`). Were it to fail in a transaction whose other
  statements succeed, indices would start at 1 again; `CodeShard` has that query fail with its transaction only, and
  `IndexesContiguous` rests on it.
- External server. `SetTemplateBody` is called by nobody and `raw_body` is not loaded, so that
  with the default body (`extserver/driver.go:204-207`) a request carries no code, although its codes are
  counted and confirmed. `lastPrintedIndex` is not reset between tasks: the rows of a second task are
  confirmed up to the index of the first, which is why `ConfirmedWasAccepted` speaks of rows above it.
  While the server answers every request with an error code, each poll logs a recovery and a loss.
- `handlePrintersAdd` saves a printer of an unknown type before it answers 400.
- Videojet's `currstate` is read and written without its lock.

## 8. Not modelled

GS1 validation (a pure function of one code; an append here takes any code it lets through), payload
composition and template rendering (string assembly on which no state depends), dashboards, statistics, quality
control, event log, web pages, service wrapper, brand, version. The Savema, TSC and Valentin native
drivers are stubs whose methods panic or return constants; that a create meets such a panic is an event of `TaskControl`. HTTP parsing, wording of answers, logging and
audit records are left out of every handler; of the log only losses and recoveries are modelled. Of the
end of the process only its death is: not the orderly shutdown, in which pumps still work while `Store.Close` runs, and after
it a statement on the master database fails while one on the codes may open the shard again.

Within the modelled parts: `PrintLine` and `MarkemLine` have a poller that follows one task, which
`ServerLine` has for several; Videojet's `InitialSlr` is 0 in every run and theorem about labels, although
the command that would reset the printer's index is commented out in the driver; `MarkemLine` has no
restart; `ValentinLine` has an append wait until all pumps of the task have ended, and no restart either: a process that
dies between a push and its report (`manager.go:153-158`) leaves an armed or applied code in the buffer, which the next stop
may return. In `ServerLine` every reconciliation is committed; after one that is rolled back, which the stop handler only logs
(`handlers_tasks.go:350-353`), the rows of a stopped task may still be confirmed. `PrintLine` takes of `RecordChannel` what
happens in one step: a record that arrives does so in the step that sends it, while a Videojet printer may take one whose
exchange has timed out later. The lines, their printers and the drivers' types do not change during a run,
but for the registrations of `ServerLine`. `VideojetLink` names a record by its place among those offered, which is its index until a stop returns rows or a task
begins: what it says of order is said of offers. `UpdateStaticFields` is sent by no caller.

## 9. What is left

- A restart in `MarkemLine`, after which the first reading is taken for the whole count, and one in `ValentinLine`.
- A reconciliation that is rolled back in `ServerLine`; a record that arrives late in `PrintLine`.
- Two generations of Valentin pumps on one printer, which an append after a stop can start.
- What an interrupted line (`busyStop`, `appendDuringStop`, `busyRestart`) still guarantees beyond its lanes, its rows and the
  limit of its queues.

## Files

`*.tla` are the modules above, `*.cfg` the runs of the same name, `PROJECT.json` the
components, runs, mutants, the map from definitions to source lines, findings,
hazards and theorems.

------------------------------ MODULE CodeShard ------------------------------
(***************************************************************************)
(* The task_codes table of one monthly shard (internal/storage/storage.go) *)
(* and the transactions the handlers, the pumps and the poller run on it.  *)
(* The shard has one connection (SetMaxOpenConns(1), storage.go:104), so   *)
(* every transaction is one atomic step; an SQL error rolls it back and is *)
(* a stuttering step.  Tasks and Printers are those of one line.           *)
(*                                                                         *)
(* A row is a record; its id is its position in `rows`, as no statement    *)
(* deletes rows.  NULL is NoPrinter for printer_id and 0 for               *)
(* printer_index.  ext is the number ext_id starts with, NoExt when it is  *)
(* empty or does not start with a digit.                                   *)
(***************************************************************************)
EXTENDS Integers, Sequences, FiniteSets

CONSTANTS Tasks,      \* task ids
          Printers,   \* the printers GetPrintersByLine returns
          NoPrinter,  \* printer_id IS NULL
          Role,       \* Role[p]: the role of p on the line
          Codes,      \* marking codes
          ExtIds,     \* what a code item may carry as ext_id
          MaxRows,    \* bound: rows the shard ever holds
          MaxBatch    \* bound: items of one append, and the limit of a fetch

NoExt == -1

\* targetModulo: the half of the stream an alternating printer takes.
TargetModulo(p) == IF Role[p] \in {"EVEN", "SECONDARY", "LANE_2"} THEN 0 ELSE 1

\* The parameters are what the schema and the bounds need.
ASSUME ParameterAssumption ==
    /\ NoPrinter \notin Printers
    /\ ExtIds \subseteq Nat \cup {NoExt}
    /\ MaxRows \in Nat
    /\ MaxBatch \in Nat

\* The two printers of a line print different lanes.
ASSUME LaneAssumption ==
    \A p, q \in Printers : TargetModulo(p) = TargetModulo(q) => p = q

VARIABLES rows,    \* rows[id]: the row with that id
          lastId   \* the AUTOINCREMENT counter

shardVars == <<rows, lastId>>

Statuses == {"pending", "in_buffer", "printed"}

Row == [task : Tasks, code : Codes, ext : ExtIds, status : Statuses,
        printer : Printers \cup {NoPrinter}, index : Nat]

Items == [code : Codes, ext : ExtIds]
Batches == UNION {[1..n -> Items] : n \in 1..MaxBatch}
Limits == 1..MaxBatch
Ids == 1..lastId

ShardInit == rows = <<>> /\ lastId = 0

-----------------------------------------------------------------------------
\* UNIQUE(task_id, code): no item of the batch is in the table, or twice in
\* the batch.
Insertable(t, items) ==
    /\ \A k \in DOMAIN items, i \in Ids :
           rows[i].task = t => rows[i].code # items[k].code
    /\ \A k, l \in DOMAIN items : items[k].code = items[l].code => k = l

NewRow(t, item) == [task |-> t, code |-> item.code, ext |-> item.ext,
                    status |-> "pending", printer |-> NoPrinter, index |-> 0]

\* INSERT of every item in one transaction; the first violation of UNIQUE
\* rolls all of it back.
AppendTaskCodes(t, items) ==
    /\ lastId + Len(items) <= MaxRows
    /\ Insertable(t, items)
    /\ lastId' = lastId + Len(items)
    /\ rows' = [i \in 1..(lastId + Len(items)) |->
                   IF i <= lastId THEN rows[i] ELSE NewRow(t, items[i - lastId])]

-----------------------------------------------------------------------------
AssignedTo(t, p) == {i \in Ids : rows[i].task = t /\ rows[i].printer = p}

\* Mutants: numbering restarts with every fetch, or goes on over the task.
RestartedIndex(t, p) == {0}
LastIndexOfTask(t, p) ==
    LET used == {rows[i].index : i \in {j \in Ids : rows[j].task = t}} \cup {0}
    IN  {last \in used : \A k \in used : k <= last}

\* COALESCE(MAX(printer_index), 0) of the task on the printer: the set of its
\* one value.  The code drops the error of this query and would number from 1
\* (storage.go:365, 434): here the query fails with its transaction only.
LastIndex(t, p) ==
    LET used == {rows[i].index : i \in AssignedTo(t, p)} \cup {0}
    IN  {last \in used : \A k \in used : k <= last}

\* A code goes to the lane of its external id's parity, else of its row id's.
Parity(i) == (IF rows[i].ext = NoExt THEN i ELSE rows[i].ext) % 2

\* A single printer takes every code, one of several only its own lane.
InLane(p, i) == Printers = {p} \/ Parity(i) = TargetModulo(p)

\* Mutant: the parity condition is missing.
FetchableAnyLane(t, p) ==
    {i \in Ids : rows[i].task = t /\ rows[i].status = "pending"}

Fetchable(t, p) ==
    {i \in Ids : /\ rows[i].task = t
                 /\ rows[i].status = "pending"
                 /\ rows[i].printer = NoPrinter
                 /\ InLane(p, i)}

\* Mutant: ORDER BY id DESC.
RankFromEnd(S, i) == Cardinality({j \in S : j >= i})

Rank(S, i) == Cardinality({j \in S : j <= i})

\* ORDER BY id ASC LIMIT limit.
Selected(t, p, limit) ==
    {i \in Fetchable(t, p) : Rank(Fetchable(t, p), i) <= limit}

\* FetchAndAssignCodes on a line of one printer, FetchAndAssignCodesAlternating
\* on a line of two: the pump chooses by len(printers).
FetchAndAssignCodes(t, p, limit) ==
    /\ Fetchable(t, p) # {}
    /\ \E last \in LastIndex(t, p) :
          rows' = [i \in Ids |->
                     IF i \in Selected(t, p, limit)
                     THEN [rows[i] EXCEPT !.status = "in_buffer",
                                          !.printer = p,
                                          !.index = last + Rank(Fetchable(t, p), i)]
                     ELSE rows[i]]
    /\ UNCHANGED lastId

\* Mutant: the status is not asked for.
InAnyStatus(t, p) == AssignedTo(t, p)

InBuffer(t, p) == {i \in AssignedTo(t, p) : rows[i].status = "in_buffer"}

\* Mutants: the row of the odometer alone, the rows below it, all the rows.
MarkAll(ids) ==
    /\ rows' = [i \in Ids |-> IF i \in ids THEN [rows[i] EXCEPT !.status = "printed"]
                              ELSE rows[i]]
    /\ UNCHANGED lastId
MarkLast(t, p, lastIndex) == MarkAll({i \in InBuffer(t, p) : rows[i].index = lastIndex})
MarkBelow(t, p, lastIndex) == MarkAll({i \in InBuffer(t, p) : rows[i].index < lastIndex})
MarkBuffer(t, p, lastIndex) == MarkAll(InBuffer(t, p))

MarkAsPrinted(t, p, lastIndex) ==
    /\ rows' = [i \in Ids |->
                  IF i \in InBuffer(t, p) /\ rows[i].index <= lastIndex
                  THEN [rows[i] EXCEPT !.status = "printed"]
                  ELSE rows[i]]
    /\ UNCHANGED lastId

\* Rows up to the odometer become printed (only when it is positive), then
\* whatever the printer still has in its buffer goes back to the queue.
ReconcileAndFinalizeTaskCodes(t, p, lastIndex) ==
    /\ rows' = [i \in Ids |->
                  IF i \notin InBuffer(t, p) THEN rows[i]
                  ELSE IF lastIndex > 0 /\ rows[i].index <= lastIndex
                       THEN [rows[i] EXCEPT !.status = "printed"]
                       ELSE [rows[i] EXCEPT !.status = "pending",
                                            !.printer = NoPrinter,
                                            !.index = 0]]
    /\ UNCHANGED lastId

ShardNext ==
    \E t \in Tasks :
        \/ \E items \in Batches : AppendTaskCodes(t, items)
        \/ \E p \in Printers :
              \/ \E limit \in Limits : FetchAndAssignCodes(t, p, limit)
              \/ \E lastIndex \in 0..MaxRows :
                    \/ MarkAsPrinted(t, p, lastIndex)
                    \/ ReconcileAndFinalizeTaskCodes(t, p, lastIndex)

ShardSpec == ShardInit /\ [][ShardNext]_shardVars

-----------------------------------------------------------------------------
\* The table holds rows of the schema's types, with ids 1..lastId.
ShardTypeOK ==
    /\ lastId \in 0..MaxRows
    /\ rows \in [Ids -> Row]

\* A row has a printer and a positive index exactly when it is not pending,
\* and a printer only ever holds rows of its own lane: no code is claimed by
\* both printers of the line or lost between them (storage.go:378, :408).
AssignmentWellFormed ==
    \A i \in Ids :
        /\ (rows[i].status = "pending") <=> (rows[i].printer = NoPrinter)
        /\ (rows[i].status = "pending") <=> (rows[i].index = 0)
        /\ rows[i].printer # NoPrinter => InLane(rows[i].printer, i)

\* Codes leave a printer in the order 1C delivered them: along the indices
\* of one task on one printer the row ids grow, whatever fetches, reports
\* and reconciliations happened in between.  So no index is given twice.
PrintOrder ==
    \A i, j \in Ids :
        /\ i < j
        /\ rows[i].task = rows[j].task
        /\ rows[i].printer = rows[j].printer
        /\ rows[i].printer # NoPrinter
        => rows[i].index < rows[j].index

\* What a printer confirmed always precedes what it still buffers, so
\* "printer_index <= odometer" never cuts through a gap.
ConfirmedPrefix ==
    \A t \in Tasks, p \in Printers : \A i, j \in AssignedTo(t, p) :
        rows[i].status = "printed" /\ rows[j].status = "in_buffer"
            => rows[i].index < rows[j].index

\* A code waiting for a printer lies behind everything the printer already
\* took from the task: a code returned by a stop is printed next, not last.
QueueBehindBuffer ==
    \A t \in Tasks, p \in Printers :
        \A i \in AssignedTo(t, p), j \in Fetchable(t, p) : i < j

\* The indices of a task on a printer are 1, 2, ... with no hole: the
\* number of labels an odometer counts is the index of the last one.
IndexesContiguous ==
    \A t \in Tasks, p \in Printers :
        {rows[i].index : i \in AssignedTo(t, p)} = 1..Cardinality(AssignedTo(t, p))

\* A task never holds a marking code twice (unq_task_code).
UniqueCode ==
    \A i, j \in Ids :
        rows[i].task = rows[j].task /\ rows[i].code = rows[j].code => i = j

\* A printed row is never changed again: neither a late odometer nor a stop
\* takes back, renumbers or reassigns a label that was confirmed.
PrintedFinal ==
    [][\A i \in Ids : rows[i].status = "printed" => rows'[i] = rows[i]]_shardVars

-----------------------------------------------------------------------------
\* The rows a (task, code) pair occupies, seen as the ledger's entry.
RowsOf(t, c) == {i \in Ids : rows[i].task = t /\ rows[i].code = c}

PhaseOfStatus(status) ==
    IF status = "pending" THEN "queued"
    ELSE IF status = "in_buffer" THEN "held" ELSE "confirmed"

PhaseOf(t, c) ==
    IF RowsOf(t, c) = {} THEN "absent"
    ELSE PhaseOfStatus(rows[CHOOSE i \in RowsOf(t, c) : TRUE].status)

HolderOf(t, c) ==
    IF RowsOf(t, c) = {} THEN NoPrinter
    ELSE rows[CHOOSE i \in RowsOf(t, c) : TRUE].printer

Ledger == INSTANCE CodeLedger WITH
    phase  <- [t \in Tasks |-> [c \in Codes |-> PhaseOf(t, c)]],
    holder <- [t \in Tasks |-> [c \in Codes |-> HolderOf(t, c)]]

\* The transactions implement the ledger: every one moves whole codes along
\* absent, queued, held, confirmed, and only a stop moves them back.
ImplementsLedger == Ledger!Spec

-----------------------------------------------------------------------------
\* The rows of the task that printer p is to print, whoever has them now, and
\* those of them it has confirmed.
LaneOf(t, p) == {i \in Ids : rows[i].task = t /\ InLane(p, i)}
Confirmed(t, p) == {i \in AssignedTo(t, p) : rows[i].status = "printed"}

Lane(t, p) == INSTANCE LaneCounts WITH
    confirmed <- Cardinality(Confirmed(t, p)),
    taken     <- Cardinality(AssignedTo(t, p)),
    delivered <- Cardinality(LaneOf(t, p))

OthersRest(t, p) ==
    \A u \in Tasks, q \in Printers : u # t \/ q # p => UNCHANGED Lane(u, q)!laneVars

\* Every transaction is one of its lane's, with the same index or limit, and
\* leaves the other lanes alone: what an odometer has counted is what it
\* confirms, and neither another printer nor another task gets between.
LaneSteps ==
    [][\A t \in Tasks :
          /\ \A items \in Batches : AppendTaskCodes(t, items) =>
                \A u \in Tasks, p \in Printers :
                    IF u = t THEN Lane(u, p)!Deliver ELSE UNCHANGED Lane(u, p)!laneVars
          /\ \A p \in Printers :
                /\ \A limit \in Limits : FetchAndAssignCodes(t, p, limit) =>
                      Lane(t, p)!Fetch(limit) /\ OthersRest(t, p)
                /\ \A lastIndex \in 0..MaxRows :
                      /\ MarkAsPrinted(t, p, lastIndex) =>
                            Lane(t, p)!Mark(lastIndex) /\ OthersRest(t, p)
                      /\ ReconcileAndFinalizeTaskCodes(t, p, lastIndex) =>
                            Lane(t, p)!Reconcile(lastIndex) /\ OthersRest(t, p)
      ]_shardVars

ImplementsLanes == \A t \in Tasks, p \in Printers : Lane(t, p)!Spec
=============================================================================

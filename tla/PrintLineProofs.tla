--------------------------- MODULE PrintLineProofs ---------------------------
(***************************************************************************)
(* Proofs about PrintLine, for every number of printers and codes, every   *)
(* set of events and every bound: a line runs nothing but the shard's      *)
(* transactions, whatever its printers, handlers and failures do, and so   *)
(* inherits the order of the table; and what is on the products of a line  *)
(* whose pump and handlers are not interrupted is what the table says.     *)
(***************************************************************************)
EXTENDS PrintLine, CodeShardProofs

-----------------------------------------------------------------------------
(* The inductive invariant: the types; the pump and the poller have a       *)
(* printer where they use one; the rows are in order, with small indices,   *)
(* since what a printer reports comes from an index it was sent.            *)

PumpOK ==
    /\ pump \in [pc : {"none", "tick", "next", "fetch", "send", "exit"},
                 left : SUBSET Printers, at : Printers \cup {NoPrinter},
                 room : 0..MaxBatch, batch : SUBSET Record]
    /\ pump.pc \in {"fetch", "send"} => pump.at \in Printers /\ pump.room \in Limits

PollerOK ==
    /\ poller \in [pc : {"visit", "read", "mark"}, left : SUBSET Printers,
                   at : Printers \cup {NoPrinter}, index : 0..MaxRows]
    /\ poller.pc \in {"read", "mark"} => poller.at \in Printers

HandlersOK ==
    /\ taskStatus \in {"active", "stopped"}
    /\ tracked \in BOOLEAN
    /\ append \in {"idle", "activate", "start"}
    /\ stop \in [Printers -> {"idle", "poll", "reconcile", "clear", "done"}]
    /\ odometer \in [Printers -> 0..MaxRows]
    /\ stops \in 0..MaxStops /\ restarts \in 0..MaxRestarts

DevicesOK ==
    /\ queue \in [Printers -> Seq(Record)]
    /\ slr \in [Printers -> 0..MaxRows]
    /\ labels \in [Printers -> Seq(1..MaxRows)]

LineInv ==
    PumpOK /\ PollerOK /\ HandlersOK /\ DevicesOK /\ IInv /\ IndexBound

\* The invariant has the type invariant in it.
LEMMA LineInvTypes == LineInv => TypeOK
BY DEF LineInv, PumpOK, PollerOK, HandlersOK, DevicesOK, IInv, TypeOK

\* Every step of the line is a transaction of the shard or leaves it alone.
LEMMA ShardStep == LineInv /\ [Next]_vars => [ShardNext]_shardVars
<1> SUFFICES ASSUME LineInv, [Next]_vars
             PROVE  ShardNext \/ UNCHANGED shardVars
  OBVIOUS
<1>1. Task \in Tasks
  BY LineAssumption
<1>2. ASSUME NEW items \in Batches, AppendInsert(items)
      PROVE  ShardNext
  BY <1>1, <1>2 DEF AppendInsert, ShardNext
<1>3. CASE PumpFetch
  <2>1. pump.at \in Printers /\ pump.room \in Limits
    BY <1>3 DEF LineInv, PumpOK, PumpFetch
  <2> QED
    BY <1>1, <1>3, <2>1 DEF PumpFetch, ShardNext
<1>4. CASE PollMark
  <2>1. poller.at \in Printers /\ poller.index \in 0..MaxRows
    BY <1>4 DEF LineInv, PollerOK, PollMark
  <2> QED
    BY <1>1, <1>4, <2>1 DEF PollMark, ShardNext
<1>5. ASSUME NEW p \in Printers, StopReconcile(p)
      PROVE  ShardNext \/ UNCHANGED shardVars
  <2>1. odometer[p] \in 0..MaxRows
    BY DEF LineInv, HandlersOK
  <2> QED
    BY <1>1, <1>5, <2>1 DEF StopReconcile, Reconcile, ShardNext
<1>6. CASE \/ AppendActivate \/ AppendStart
           \/ PumpStatus \/ PumpSpace \/ PumpSend \/ PumpExit
           \/ PollVisit \/ PollRead
           \/ StopRequest \/ StopReturn \/ Restart
  BY <1>6 DEF AppendActivate, AppendStart, PumpStatus, PumpSpace, PumpSend, PumpExit,
              PollVisit, PollRead, StopRequest, StopReturn, Restart
<1>7. ASSUME NEW p \in Printers, StopPoll(p) \/ StopClear(p) \/ Label(p)
      PROVE  UNCHANGED shardVars
  BY <1>7 DEF StopPoll, StopClear, Label
<1>8. CASE UNCHANGED vars
  BY <1>8 DEF vars
<1> QED
  BY <1>2, <1>3, <1>4, <1>5, <1>6, <1>7, <1>8 DEF Next, Pump, Poll, Stop

-----------------------------------------------------------------------------
(* What a step does to the locals and the printers.                         *)

\* A fetched batch consists of records with small positive indices.
LEMMA BatchOfRecords ==
    ASSUME LineInv, NEW p \in Printers, NEW limit \in Limits,
           FetchAndAssignCodes(Task, p, limit), IndexBound', IInv'
    PROVE  \A i \in Selected(Task, p, limit) :
               [row |-> i, index |-> rows'[i].index] \in Record
<1>1. Task \in Tasks /\ ShardTypeOK /\ MaxRows \in Nat
  BY LineAssumption, ParameterAssumption DEF LineInv, IInv
<1>2. TAKE i \in Selected(Task, p, limit)
<1>3. i \in Ids /\ Ids' = Ids /\ lastId \in 0..MaxRows
  BY <1>1, FetchStep DEF Fetchable, Ids, ShardTypeOK
<1>4. rows'[i].index \in Nat \ {0} /\ rows'[i].index <= i
  BY <1>1, <1>3, FetchStep DEF IndexBound
<1>5. i \in 1..MaxRows /\ rows'[i].index \in 1..MaxRows
  BY <1>1, <1>3, <1>4 DEF Ids
<1> QED
  BY <1>5 DEF Record

\* The pump has a printer and room when it fetches or sends.
LEMMA PumpStep ==
    ASSUME LineInv, [Next]_vars, IInv', IndexBound'
    PROVE  PumpOK'
<1>1. PumpOK /\ NoPrinter \notin Printers /\ MaxBatch \in Nat /\ Capacity \in Nat
  BY ParameterAssumption, LineAssumption DEF LineInv
<1>2. /\ NoPump = [pc |-> "none", left |-> {}, at |-> NoPrinter, room |-> 0, batch |-> {}]
      /\ FreshPump = [pc |-> "tick", left |-> {}, at |-> NoPrinter, room |-> 0, batch |-> {}]
  BY DEF NoPump, FreshPump
<1>3. pump' \in {NoPump, FreshPump} => PumpOK'
  BY <1>1, <1>2 DEF PumpOK
<1>4. UNCHANGED pump => PumpOK'
  BY <1>1 DEF PumpOK
<1>5. CASE PumpStatus
  BY <1>1, <1>5 DEF PumpStatus, PumpOK
<1>6. CASE PumpSpace
  <2>1. CASE pump' = FreshPump
    BY <2>1, <1>3
  <2>2. CASE pump' # FreshPump
    <3>1. PICK p \in pump.left :
             LET free == GetBufferFreeSpace(p)
                 room == IF free > MaxBatch THEN MaxBatch ELSE free
                 skip == [pump EXCEPT !.left = @ \ {p}]
             IN  \/ pump' = IF room <= 0 THEN skip
                            ELSE [skip EXCEPT !.pc = "fetch", !.at = p, !.room = room]
                 \/ pump' = skip
      BY <1>6, <2>2 DEF PumpSpace
    <3>2. p \in Printers /\ GetBufferFreeSpace(p) \in Int
      <4>1. p \in Printers
        BY <1>1 DEF PumpOK
      <4> QED
        BY <4>1, <1>1 DEF LineInv, DevicesOK, GetBufferFreeSpace
    <3> DEFINE free == GetBufferFreeSpace(p)
               room == IF free > MaxBatch THEN MaxBatch ELSE free
               skip == [pump EXCEPT !.left = @ \ {p}]
    <3>3. CASE pump' = skip
      BY <3>3, <1>1, <1>6 DEF PumpOK, PumpSpace
    <3>4. CASE room > 0 /\ pump' = [skip EXCEPT !.pc = "fetch", !.at = p, !.room = room]
      <4>1. room \in Limits
        BY <3>2, <3>4, <1>1 DEF Limits
      <4>2. room \in 0..MaxBatch
        BY <4>1, <1>1 DEF Limits
      <4> HIDE DEF room
      <4> QED
        BY <3>2, <3>4, <4>1, <4>2, <1>1 DEF PumpOK
    <3> QED
      BY <3>1, <3>2, <3>3, <3>4, <1>1
  <2> QED
    BY <2>1, <2>2
<1>7. CASE PumpFetch
  <2>1. pump.at \in Printers /\ pump.room \in Limits /\ pump.pc = "fetch"
    BY <1>1, <1>7 DEF PumpFetch, PumpOK
  <2>2. CASE /\ FetchAndAssignCodes(Task, pump.at, pump.room)
             /\ pump' = [pump EXCEPT !.pc = "send",
                           !.batch = {[row |-> i, index |-> rows'[i].index] :
                                         i \in Selected(Task, pump.at, pump.room)}]
    <3> DEFINE batch == {[row |-> i, index |-> rows'[i].index] :
                            i \in Selected(Task, pump.at, pump.room)}
    <3>1. batch \subseteq Record
      BY <2>1, <2>2, BatchOfRecords
    <3>2. pump' = [pump EXCEPT !.pc = "send", !.batch = batch]
      BY <2>2
    <3> HIDE DEF batch
    <3> QED
      BY <3>1, <3>2, <2>1, <1>1 DEF PumpOK
  <2>3. CASE pump' = [pump EXCEPT !.pc = "next"]
    BY <2>3, <1>1 DEF PumpOK
  <2> QED
    BY <1>7, <2>2, <2>3 DEF PumpFetch
<1>8. CASE PumpSend
  <2>1. PICK r \in pump.batch :
           pump' \in {[pump EXCEPT !.pc = "next", !.batch = {}],
                     [pump EXCEPT !.batch = pump.batch \ {r}]}
    BY <1>8 DEF PumpSend, GiveUp
  <2> QED
    BY <1>1, <2>1 DEF PumpOK
<1>9. CASE PumpExit \/ AppendStart \/ Restart
  BY <1>9, <1>3, <1>4 DEF PumpExit, AppendStart, StartPumping, Restart
<1>10. ASSUME \/ \E items \in Batches : AppendInsert(items)
              \/ AppendActivate \/ Poll \/ StopRequest \/ Stop
              \/ \E p \in Printers : Label(p)
              \/ UNCHANGED vars
       PROVE  UNCHANGED pump
  BY <1>10 DEF AppendInsert, AppendActivate, Poll, PollVisit, PollRead, PollMark,
               StopRequest, Stop, StopPoll, StopReconcile, StopClear, StopReturn, Label, vars
<1> QED
  BY <1>4, <1>5, <1>6, <1>7, <1>8, <1>9, <1>10 DEF Next, Pump

\* The poller has a printer when it reads and marks, and marks an index.
LEMMA PollerStep == LineInv /\ [Next]_vars => PollerOK'
<1> SUFFICES ASSUME LineInv, [Next]_vars
             PROVE  PollerOK'
  OBVIOUS
<1>1. PollerOK /\ NoPrinter \notin Printers /\ MaxRows \in Nat
  BY ParameterAssumption DEF LineInv
<1>2. FreshPoller = [pc |-> "visit", left |-> Printers, at |-> NoPrinter, index |-> 0]
  BY DEF FreshPoller
<1>3. poller' = FreshPoller => PollerOK'
  BY <1>1, <1>2 DEF PollerOK
<1>4. UNCHANGED poller => PollerOK'
  BY <1>1 DEF PollerOK
<1>5. CASE PollVisit
  <2>1. CASE poller' = FreshPoller
    BY <2>1, <1>3
  <2>2. CASE \E p \in poller.left :
               poller' \in {[poller EXCEPT !.left = poller.left \ {p}, !.pc = "read", !.at = p],
                           [poller EXCEPT !.left = poller.left \ {p}]}
    <3>1. PICK p \in poller.left :
             poller' \in {[poller EXCEPT !.left = poller.left \ {p}, !.pc = "read", !.at = p],
                         [poller EXCEPT !.left = poller.left \ {p}]}
      BY <2>2
    <3>2. poller.left \ {p} \in SUBSET Printers /\ p \in Printers /\ poller.pc = "visit"
      BY <1>1, <1>5, <3>1 DEF PollerOK, PollVisit
    <3> DEFINE left == poller.left \ {p}
    <3> HIDE DEF left
    <3>3. CASE poller' = [poller EXCEPT !.left = left, !.pc = "read", !.at = p]
      BY <1>1, <3>2, <3>3 DEF PollerOK, left
    <3>4. CASE poller' = [poller EXCEPT !.left = left]
      BY <1>1, <3>2, <3>4 DEF PollerOK, left
    <3> QED
      BY <3>1, <3>3, <3>4 DEF left
  <2> QED
    BY <1>5, <2>1, <2>2 DEF PollVisit
<1>6. CASE PollRead
  <2>1. slr[poller.at] \in 0..MaxRows
    BY <1>1, <1>6 DEF PollRead, PollerOK, LineInv, DevicesOK
  <2> QED
    BY <2>1, <1>1, <1>6 DEF PollRead, PollerOK
<1>7. CASE PollMark
  BY <1>1, <1>7 DEF PollMark, PollerOK
<1>8. CASE Restart
  BY <1>8, <1>3 DEF Restart
<1>9. ASSUME \/ \E items \in Batches : AppendInsert(items)
             \/ AppendActivate \/ AppendStart \/ Pump \/ StopRequest \/ Stop
             \/ \E p \in Printers : Label(p)
             \/ UNCHANGED vars
      PROVE  UNCHANGED poller
  BY <1>9 DEF AppendInsert, AppendActivate, AppendStart, Pump, PumpStatus, PumpSpace,
              PumpFetch, PumpSend, PumpExit, StopRequest, Stop, StopPoll, StopReconcile,
              StopClear, StopReturn, Label, vars
<1> QED
  BY <1>4, <1>5, <1>6, <1>7, <1>8, <1>9 DEF Next, Poll

\* The handlers keep their program counters, and read indices.
LEMMA HandlersStep == LineInv /\ [Next]_vars => HandlersOK'
<1> SUFFICES ASSUME LineInv, [Next]_vars
             PROVE  HandlersOK'
  OBVIOUS
<1> USE DEF HandlersOK, stopVars, bounds
<1>1. /\ HandlersOK /\ slr \in [Printers -> 0..MaxRows]
      /\ MaxStops \in Nat /\ MaxRestarts \in Nat
  BY LineAssumption DEF LineInv, DevicesOK
<1>2. ASSUME NEW items \in Batches, AppendInsert(items)
      PROVE  HandlersOK'
  BY <1>1, <1>2 DEF AppendInsert
<1>3. CASE AppendActivate \/ AppendStart
  BY <1>1, <1>3 DEF AppendActivate, AppendStart, StartPumping
<1>4. CASE Pump
  BY <1>1, <1>4 DEF Pump, PumpStatus, PumpSpace, PumpFetch, PumpSend, PumpExit
<1>5. CASE Poll
  BY <1>1, <1>5 DEF Poll, PollVisit, PollRead, PollMark
<1>6. CASE StopRequest \/ StopReturn
  BY <1>1, <1>6 DEF StopRequest, StopReturn
<1>7. ASSUME NEW p \in Printers, StopPoll(p)
      PROVE  HandlersOK'
  BY <1>1, <1>7 DEF StopPoll
<1>8. ASSUME NEW p \in Printers, StopReconcile(p) \/ StopClear(p)
      PROVE  HandlersOK'
  BY <1>1, <1>8 DEF StopReconcile, StopClear
<1>9. CASE Restart
  BY <1>1, <1>9 DEF Restart
<1>10. ASSUME NEW p \in Printers, Label(p)
       PROVE  HandlersOK'
  BY <1>1, <1>10 DEF Label
<1>11. CASE UNCHANGED vars
  BY <1>1, <1>11 DEF vars
<1> QED
  BY <1>2, <1>3, <1>4, <1>5, <1>6, <1>7, <1>8, <1>9, <1>10, <1>11 DEF Next, Stop

\* A printer holds and applies nothing but records it was sent.
LEMMA DevicesStep == LineInv /\ [Next]_vars => DevicesOK'
<1> SUFFICES ASSUME LineInv, [Next]_vars
             PROVE  DevicesOK'
  OBVIOUS
<1> USE DEF DevicesOK
<1>0. DevicesOK /\ PumpOK
  BY DEF LineInv
<1>1. ASSUME NEW p \in Printers, Label(p)
      PROVE  DevicesOK'
  <2>1. Head(queue[p]) \in Record /\ Tail(queue[p]) \in Seq(Record)
    BY <1>0, <1>1 DEF Label
  <2>2. Head(queue[p]).row \in 1..MaxRows /\ Head(queue[p]).index \in 0..MaxRows
    BY <2>1 DEF Record
  <2>3. Append(labels[p], Head(queue[p]).row) \in Seq(1..MaxRows)
    BY <1>0, <2>2
  <2> QED
    BY <1>0, <1>1, <2>1, <2>2, <2>3 DEF Label
<1>2. CASE PumpSend
  <2>1. PICK r \in pump.batch :
           queue' = queue \/ queue' = [queue EXCEPT ![pump.at] = Append(@, r)]
    BY <1>2 DEF PumpSend
  <2>2. r \in Record /\ pump.at \in Printers
    BY <1>0, <1>2 DEF PumpOK, PumpSend
  <2>3. Append(queue[pump.at], r) \in Seq(Record)
    BY <1>0, <2>2
  <2> QED
    BY <1>0, <1>2, <2>1, <2>2, <2>3 DEF PumpSend
<1>3. ASSUME NEW p \in Printers, StopClear(p)
      PROVE  DevicesOK'
  <2>1. <<>> \in Seq(Record)
    OBVIOUS
  <2> QED
    BY <1>0, <1>3, <2>1 DEF StopClear, QueueCleared
<1>4. ASSUME NEW items \in Batches, AppendInsert(items)
      PROVE  DevicesOK'
  BY <1>0, <1>4 DEF AppendInsert, deviceVars
<1>5. CASE \/ AppendActivate \/ AppendStart
           \/ PumpStatus \/ PumpSpace \/ PumpFetch \/ PumpExit \/ Poll
           \/ StopRequest \/ StopReturn \/ Restart
  BY <1>0, <1>5
     DEF AppendActivate, AppendStart, PumpStatus, PumpSpace, PumpFetch, PumpExit,
         Poll, PollVisit, PollRead, PollMark, StopRequest, StopReturn, Restart, deviceVars
<1>6. ASSUME NEW p \in Printers, StopPoll(p) \/ StopReconcile(p)
      PROVE  DevicesOK'
  BY <1>0, <1>6 DEF StopPoll, StopReconcile, deviceVars
<1>7. CASE UNCHANGED vars
  BY <1>0, <1>7 DEF vars, deviceVars
<1> QED
  BY <1>1, <1>2, <1>3, <1>4, <1>5, <1>6, <1>7 DEF Next, Pump, Stop

-----------------------------------------------------------------------------
(* The theorems.                                                            *)

\* The invariant holds at the start.
LEMMA LineInvInit == Init => LineInv
<1> SUFFICES ASSUME Init
             PROVE  LineInv
  OBVIOUS
<1>1. IInv /\ IndexBound
  BY ParameterAssumption
     DEF Init, ShardInit, IInv, Order, ShardTypeOK, AssignmentWellFormed, PrintOrder,
         ConfirmedPrefix, QueueBehindBuffer, AssignedTo, Fetchable, Ids, IndexBound
<1>2. PumpOK /\ PollerOK
  BY ParameterAssumption DEF Init, PumpOK, PollerOK, NoPump, FreshPoller
<1>3. HandlersOK
  <2>1. tracked \in BOOLEAN
    BY DEF Init
  <2>2. /\ taskStatus = "active" /\ append = "idle"
        /\ stop = [p \in Printers |-> "idle"] /\ odometer = [p \in Printers |-> 0]
        /\ stops = 0 /\ restarts = 0
    BY DEF Init
  <2> QED
    BY <2>1, <2>2, ParameterAssumption, LineAssumption DEF HandlersOK
<1>4. DevicesOK
  <2>1. slr \in [Printers -> 0..MaxRows]
    BY LineAssumption DEF Init
  <2>2. <<>> \in Seq(Record) /\ <<>> \in Seq(1..MaxRows)
    OBVIOUS
  <2> QED
    BY <2>1, <2>2 DEF Init, DevicesOK
<1> QED
  BY <1>1, <1>2, <1>3, <1>4 DEF LineInv

\* The invariant is kept by every step.
LEMMA LineInvStep == LineInv /\ [Next]_vars => LineInv'
<1> SUFFICES ASSUME LineInv, [Next]_vars
             PROVE  LineInv'
  OBVIOUS
<1>1. [ShardNext]_shardVars
  BY ShardStep
<1>2. IInv' /\ IndexBound'
  BY <1>1, IInvStep, IndexBoundStep DEF LineInv
<1> QED
  BY <1>2, PumpStep, PollerStep, HandlersStep, DevicesStep DEF LineInv

LEMMA LineInvariant == Spec => []LineInv
BY LineInvInit, LineInvStep, PTL DEF Spec

\* The variables of the line keep their types: an odometer never shows an
\* index the table could not have given, whatever is lost or restarted.
THEOREM LineTypeCorrect == Spec => []TypeOK
BY LineInvariant, LineInvTypes, PTL

\* The line implements the shard: handlers, pump and poller touch the rows by
\* the shard's transactions only, with arguments the shard allows.
THEOREM LineImplementsShard == Spec => ImplementsShard
<1>1. Init => ShardInit
  BY DEF Init
<1> QED
  BY <1>1, LineInvariant, ShardStep, PTL DEF Spec, ImplementsShard, ShardSpec

\* So what is proved of the shard holds on a line, under every failure and
\* interleaving: indices without a hole, in the order of delivery, each the
\* place of its row; reports confirm a front part and are final; every lane
\* is three numbers, which the steps of the other printers leave alone.
THEOREM LineInherits ==
    Spec => /\ [](AssignmentWellFormed /\ PrintOrder /\ ConfirmedPrefix)
            /\ [](QueueBehindBuffer /\ IndexesContiguous /\ UniqueCode /\ PlaceInLane)
            /\ PrintedFinal /\ LaneSteps /\ ImplementsLanes /\ ImplementsLedger
<1>1. ShardSpec => [](AssignmentWellFormed /\ PrintOrder /\ ConfirmedPrefix)
  BY Assignment, DeliveryOrder, Confirmation, PTL
<1>2. ShardSpec => [](QueueBehindBuffer /\ IndexesContiguous /\ UniqueCode /\ PlaceInLane)
  BY QueueOrder, NoHoles, CodesUnique, IndexIsPlace, PTL
<1>3. Spec => ShardSpec
  BY LineImplementsShard DEF ImplementsShard
<1> QED
  BY <1>1, <1>2, <1>3, ConfirmationIsFinal, TransactionsAreLaneSteps, LanesImplemented,
     Implementation

-----------------------------------------------------------------------------
(* No printer is overfilled: the room read before a fetch is still there    *)
(* when the batch arrives, because nobody but the pump fills a queue.       *)

\* A fetch hands out no more records than it was asked for.
LEMMA BatchSize ==
    ASSUME LineInv, NEW p \in Printers, NEW limit \in Limits
    PROVE  LET batch == {[row |-> i, index |-> rows'[i].index] :
                            i \in Selected(Task, p, limit)}
           IN  IsFiniteSet(batch) /\ Cardinality(batch) <= limit
<1> DEFINE F == Fetchable(Task, p)
           batch == {[row |-> i, index |-> rows'[i].index] : i \in Selected(Task, p, limit)}
           f == [r \in batch |-> Rank(F, r.row)]
<1>1. limit \in Nat /\ lastId \in Nat /\ F \in SUBSET (1..lastId)
  BY ParameterAssumption DEF LineInv, IInv, ShardTypeOK, Limits, Fetchable, Ids
<1>2. \A r \in batch : /\ r.row \in F /\ Rank(F, r.row) <= limit
                       /\ r = [row |-> r.row, index |-> rows'[r.row].index]
  BY DEF Selected
<1>3. /\ \A i \in F : Rank(F, i) \in Nat /\ Rank(F, i) >= 1
      /\ \A i, j \in F : i < j => Rank(F, i) < Rank(F, j)
  BY <1>1, RankFacts
<1>4. f \in [batch -> 1..limit]
  BY <1>1, <1>2, <1>3
<1>5. ASSUME NEW r \in batch, NEW s \in batch, f[r] = f[s]
      PROVE  r = s
  <2>1. r.row \in F /\ s.row \in F /\ Rank(F, r.row) = Rank(F, s.row)
    BY <1>2, <1>5
  <2>2. r.row \in Int /\ s.row \in Int
    BY <2>1, <1>1
  <2>3. r.row = s.row
    BY <2>1, <2>2, <1>3
  <2> QED
    BY <2>3, <1>2
<1>6. f \in Injection(batch, 1..limit)
  <2>1. DOMAIN f = batch
    OBVIOUS
  <2> HIDE DEF f, batch
  <2> QED
    BY <1>4, <1>5, <2>1 DEF Injection, IsInjective
<1>7. IsFiniteSet(1..limit) /\ Cardinality(1..limit) = limit
  BY <1>1, FS_Interval
<1> HIDE DEF f, batch
<1>8. IsFiniteSet(batch) /\ Cardinality(batch) <= limit
  BY <1>6, <1>7, FS_Injection
<1> QED
  BY <1>8 DEF batch

\* What is queued and what the pump is about to send fit together.
RoomInv ==
    /\ pump.pc = "fetch" => Len(queue[pump.at]) + pump.room <= Capacity
    /\ pump.pc = "send" => /\ IsFiniteSet(pump.batch)
                           /\ Len(queue[pump.at]) + Cardinality(pump.batch) <= Capacity
    /\ NeverOverfilled

LEMMA RoomStep == LineInv /\ RoomInv /\ [Next]_vars => RoomInv'
<1> SUFFICES ASSUME LineInv, RoomInv, [Next]_vars
             PROVE  RoomInv'
  OBVIOUS
<1>1. /\ queue \in [Printers -> Seq(Record)]
      /\ Capacity \in Nat /\ MaxBatch \in Nat
      /\ \A p \in Printers : Len(queue[p]) \in Nat /\ Len(queue[p]) <= Capacity
  BY LineAssumption DEF LineInv, DevicesOK, RoomInv, NeverOverfilled
<1>2. pump.pc \in {"fetch", "send"} => pump.at \in Printers /\ pump.room \in Limits
  BY DEF LineInv, PumpOK
\* A step that adds to no queue keeps the room there is.
<1>3. ASSUME queue' \in [Printers -> Seq(Record)],
             \A p \in Printers : Len(queue'[p]) <= Len(queue[p]),
             pump' = pump \/ pump'.pc \notin {"fetch", "send"}
      PROVE  RoomInv'
  <2>1. \A p \in Printers : Len(queue'[p]) \in Nat
    BY <1>3
  <2>2. NeverOverfilled'
    BY <1>1, <1>3, <2>1 DEF NeverOverfilled
  <2>3. CASE pump' = pump
    <3>1. pump.pc = "fetch" => Len(queue'[pump.at]) + pump.room <= Capacity
      BY <1>1, <1>2, <1>3, <2>1 DEF RoomInv, Limits
    <3>2. ASSUME pump.pc = "send"
          PROVE  /\ IsFiniteSet(pump.batch)
                 /\ Len(queue'[pump.at]) + Cardinality(pump.batch) <= Capacity
      <4>1. IsFiniteSet(pump.batch) /\ Cardinality(pump.batch) \in Nat
        BY <3>2, FS_CardinalityType DEF RoomInv
      <4> QED
        BY <4>1, <3>2, <1>1, <1>2, <1>3, <2>1 DEF RoomInv
    <3> QED
      BY <2>2, <2>3, <3>1, <3>2 DEF RoomInv
  <2> QED
    BY <1>3, <2>2, <2>3 DEF RoomInv
<1>4. ASSUME NEW p \in Printers, Label(p)
      PROVE  RoomInv'
  <2>1. Tail(queue[p]) \in Seq(Record) /\ Len(Tail(queue[p])) <= Len(queue[p])
    BY <1>1, <1>4 DEF Label
  <2>2. queue' = [queue EXCEPT ![p] = Tail(queue[p])] /\ pump' = pump
    BY <1>4 DEF Label
  <2> QED
    BY <1>1, <1>3, <2>1, <2>2
<1>5. ASSUME NEW p \in Printers, StopClear(p)
      PROVE  RoomInv'
  <2>1. <<>> \in Seq(Record) /\ Len(<<>>) = 0
    OBVIOUS
  <2>2. pump' = pump /\ (queue' = queue \/ queue' = [queue EXCEPT ![p] = <<>>])
    BY <1>5 DEF StopClear, QueueCleared
  <2>3. queue' \in [Printers -> Seq(Record)]
    BY <1>1, <2>1, <2>2
  <2>4. \A q \in Printers : Len(queue'[q]) <= Len(queue[q])
    <3>1. \A q \in Printers : queue'[q] = queue[q] \/ queue'[q] = <<>>
      BY <1>1, <2>2
    <3> QED
      BY <1>1, <2>1, <3>1
  <2> QED
    BY <1>3, <2>2, <2>3, <2>4
<1>6. ASSUME queue' = queue, pump' = pump \/ pump'.pc \notin {"fetch", "send"}
      PROVE  RoomInv'
  BY <1>1, <1>3, <1>6
<1>7. CASE PumpSpace
  <2>1. CASE pump'.pc \notin {"fetch", "send"} \/ pump' = pump
    <3>1. queue' = queue
      BY <1>7 DEF PumpSpace, deviceVars
    <3> QED
      BY <2>1, <3>1, <1>6
  <2>2. CASE pump'.pc \in {"fetch", "send"}
    <3>1. pump.pc = "next" /\ queue' = queue /\ FreshPump.pc = "tick"
      BY <1>7 DEF PumpSpace, deviceVars, FreshPump, NoPump
    <3>2. PICK p \in pump.left :
             LET free == GetBufferFreeSpace(p)
                 room == IF free > MaxBatch THEN MaxBatch ELSE free
                 skip == [pump EXCEPT !.left = @ \ {p}]
             IN  \/ pump' = IF room <= 0 THEN skip
                            ELSE [skip EXCEPT !.pc = "fetch", !.at = p, !.room = room]
                 \/ pump' = skip
      BY <1>7, <2>2, <3>1 DEF PumpSpace
    <3> DEFINE room == IF GetBufferFreeSpace(p) > MaxBatch THEN MaxBatch
                       ELSE GetBufferFreeSpace(p)
    <3>3. pump \in [pc : {"none", "tick", "next", "fetch", "send", "exit"},
                    left : SUBSET Printers, at : Printers \cup {NoPrinter},
                    room : 0..MaxBatch, batch : SUBSET Record]
      BY DEF LineInv, PumpOK
    <3>4. pump'.pc = "fetch" /\ pump'.at = p /\ pump'.room = room /\ p \in Printers
      BY <2>2, <3>1, <3>2, <3>3
    <3>5. room <= Capacity - Len(queue[p]) /\ room \in Int
      BY <1>1, <3>4 DEF GetBufferFreeSpace
    <3> HIDE DEF room
    <3>6. Len(queue'[pump'.at]) + pump'.room <= Capacity
      BY <3>1, <3>4, <3>5, <1>1
    <3>7. NeverOverfilled'
      BY <3>1 DEF RoomInv, NeverOverfilled
    <3> QED
      BY <3>4, <3>6, <3>7 DEF RoomInv
  <2> QED
    BY <2>1, <2>2
<1>8. CASE PumpFetch
  <2>1. /\ pump.pc = "fetch" /\ pump.at \in Printers /\ pump.room \in Limits /\ queue' = queue
        /\ pump \in [pc : {"none", "tick", "next", "fetch", "send", "exit"},
                     left : SUBSET Printers, at : Printers \cup {NoPrinter},
                     room : 0..MaxBatch, batch : SUBSET Record]
    BY <1>2, <1>8 DEF PumpFetch, deviceVars, LineInv, PumpOK
  <2> DEFINE batch == {[row |-> i, index |-> rows'[i].index] :
                          i \in Selected(Task, pump.at, pump.room)}
  <2>2. CASE pump' = [pump EXCEPT !.pc = "next"]
    BY <2>1, <2>2, <1>6
  <2>3. CASE pump' = [pump EXCEPT !.pc = "send", !.batch = batch]
    <3>1. IsFiniteSet(batch) /\ Cardinality(batch) <= pump.room
      BY <2>1, BatchSize
    <3>2. Cardinality(batch) \in Nat
      BY <3>1, FS_CardinalityType
    <3> HIDE DEF batch
    <3>3. pump'.pc = "send" /\ pump'.at = pump.at /\ pump'.batch = batch
      BY <2>1, <2>3
    <3>4. Len(queue[pump.at]) + pump.room <= Capacity
      BY <2>1 DEF RoomInv
    <3>5. Len(queue'[pump'.at]) + Cardinality(pump'.batch) <= Capacity
      BY <3>1, <3>2, <3>3, <3>4, <2>1, <1>1 DEF Limits
    <3>6. NeverOverfilled'
      BY <2>1 DEF RoomInv, NeverOverfilled
    <3> QED
      BY <3>1, <3>3, <3>5, <3>6 DEF RoomInv
  <2> QED
    BY <1>8, <2>2, <2>3 DEF PumpFetch
<1>9. CASE PumpSend
  <2>1. /\ pump.pc = "send" /\ pump.at \in Printers /\ IsFiniteSet(pump.batch)
        /\ Len(queue[pump.at]) + Cardinality(pump.batch) <= Capacity
        /\ pump \in [pc : {"none", "tick", "next", "fetch", "send", "exit"},
                     left : SUBSET Printers, at : Printers \cup {NoPrinter},
                     room : 0..MaxBatch, batch : SUBSET Record]
    BY <1>2, <1>9 DEF PumpSend, RoomInv, LineInv, PumpOK
  <2>2. PICK r \in pump.batch :
           /\ queue' \in {queue, [queue EXCEPT ![pump.at] = Append(@, r)]}
           /\ \/ pump' = [pump EXCEPT !.pc = "next", !.batch = {}]
              \/ pump' = [pump EXCEPT !.batch = pump.batch \ {r}]
    BY <1>9 DEF PumpSend, GiveUp
  <2>3. r \in Record /\ Append(queue[pump.at], r) \in Seq(Record)
        /\ Len(Append(queue[pump.at], r)) = Len(queue[pump.at]) + 1
    BY <1>1, <2>1
  <2>4. /\ IsFiniteSet(pump.batch \ {r})
        /\ Cardinality(pump.batch \ {r}) = Cardinality(pump.batch) - 1
        /\ Cardinality(pump.batch) \in Nat /\ Cardinality(pump.batch \ {r}) \in Nat
    BY <2>1, FS_RemoveElement, FS_CardinalityType
  <2>5. \A p \in Printers :
           Len(queue'[p]) \in Nat
           /\ Len(queue'[p]) <= IF p = pump.at THEN Len(queue[p]) + 1 ELSE Len(queue[p])
    BY <1>1, <2>1, <2>2, <2>3
  <2>6. NeverOverfilled'
    BY <1>1, <2>1, <2>4, <2>5 DEF NeverOverfilled
  <2>7. CASE pump' = [pump EXCEPT !.pc = "next", !.batch = {}]
    BY <2>1, <2>6, <2>7 DEF RoomInv
  <2>8. CASE pump' = [pump EXCEPT !.batch = pump.batch \ {r}]
    <3>1. pump'.pc = "send" /\ pump'.at = pump.at /\ pump'.batch = pump.batch \ {r}
      BY <2>1, <2>8
    <3>2. Len(queue'[pump.at]) + Cardinality(pump.batch \ {r}) <= Capacity
      BY <1>1, <2>1, <2>4, <2>5
    <3> QED
      BY <2>1, <2>4, <2>6, <3>1, <3>2 DEF RoomInv
  <2> QED
    BY <2>2, <2>7, <2>8
<1>10. CASE PumpStatus \/ PumpExit \/ AppendStart \/ Restart
  <2>1. queue' = queue
    BY <1>10 DEF PumpStatus, PumpExit, AppendStart, Restart, deviceVars
  <2>2. pump \in [pc : {"none", "tick", "next", "fetch", "send", "exit"},
                  left : SUBSET Printers, at : Printers \cup {NoPrinter},
                  room : 0..MaxBatch, batch : SUBSET Record]
    BY DEF LineInv, PumpOK
  <2>3. pump' = pump \/ pump'.pc \in {"none", "tick", "next", "exit"}
    <3>1. NoPump.pc = "none" /\ FreshPump.pc = "tick"
      BY DEF NoPump, FreshPump
    <3>2. CASE PumpStatus
      BY <2>2, <3>2 DEF PumpStatus
    <3>3. CASE PumpExit \/ AppendStart \/ Restart
      <4>1. pump' \in {pump, NoPump, FreshPump}
        BY <3>3 DEF PumpExit, AppendStart, StartPumping, Restart
      <4> QED
        BY <3>1, <4>1
    <3> QED
      BY <1>10, <3>2, <3>3
  <2> QED
    BY <2>1, <2>3, <1>6
<1>11. ASSUME \/ \E items \in Batches : AppendInsert(items)
              \/ AppendActivate \/ Poll \/ StopRequest \/ StopReturn
              \/ \E p \in Printers : StopPoll(p) \/ StopReconcile(p)
              \/ UNCHANGED vars
       PROVE  RoomInv'
  <2>1. queue' = queue /\ pump' = pump
    BY <1>11 DEF AppendInsert, AppendActivate, Poll, PollVisit, PollRead, PollMark,
                 StopRequest, StopReturn, StopPoll, StopReconcile, vars, deviceVars
  <2> QED
    BY <2>1, <1>6
<1> QED
  BY <1>4, <1>5, <1>7, <1>8, <1>9, <1>10, <1>11 DEF Next, Pump, Stop

\* No printer is ever given more records than it takes, whatever fails and
\* whoever stops, appends or restarts in between.
THEOREM LineNeverOverfilled == Spec => []NeverOverfilled
<1>1. Init => RoomInv
  BY LineAssumption DEF Init, RoomInv, NeverOverfilled, NoPump
<1>2. RoomInv => NeverOverfilled
  BY DEF RoomInv
<1> QED
  BY <1>1, <1>2, RoomStep, LineInvariant, PTL DEF Spec

-----------------------------------------------------------------------------
(* Codes keep to their lane: the lane of a row is fixed when it is          *)
(* inserted, and only a fetch hands a row to a printer.                     *)

\* The rows of a printer's lane.
OwnLane == [p \in Printers |-> {i \in Ids : InLane(p, i)}]

\* What the pump holds for a printer, what the printer holds and what it has
\* applied are rows of its lane.
LaneInv ==
    /\ pump.pc = "send" => \A r \in pump.batch : r.row \in OwnLane[pump.at]
    /\ \A p \in Printers : \A k \in DOMAIN queue[p] : queue[p][k].row \in OwnLane[p]
    /\ \A p \in Printers : \A k \in DOMAIN labels[p] : labels[p][k] \in OwnLane[p]

LEMMA LaneStep == LineInv /\ LaneInv /\ [Next]_vars => LaneInv'
<1> SUFFICES ASSUME LineInv, LaneInv, [Next]_vars
             PROVE  LaneInv'
  OBVIOUS
<1> USE DEF LaneInv
<1>1. \A p \in Printers : OwnLane[p] \subseteq OwnLane'[p]
  <2>1. \A i \in Ids : i \in Ids' /\ rows'[i].ext = rows[i].ext
    BY ShardStep, RowsKeepLane DEF LineInv, IInv
  <2>2. \A i \in Ids, p \in Printers : InLane(p, i)' <=> InLane(p, i)
    BY <2>1 DEF InLane, Parity
  <2> QED
    BY <2>1, <2>2 DEF OwnLane
<1>2. /\ queue \in [Printers -> Seq(Record)] /\ labels \in [Printers -> Seq(1..MaxRows)]
      /\ \A p \in Printers : queue[p] \in Seq(Record) /\ labels[p] \in Seq(1..MaxRows)
      /\ pump \in [pc : {"none", "tick", "next", "fetch", "send", "exit"},
                   left : SUBSET Printers, at : Printers \cup {NoPrinter},
                   room : 0..MaxBatch, batch : SUBSET Record]
      /\ pump.pc = "send" => pump.at \in Printers
  BY DEF LineInv, DevicesOK, PumpOK
\* A step that moves no record keeps every one of them in its lane.
<1>3. ASSUME queue' = queue, labels' = labels,
             pump' = pump \/ pump'.pc # "send"
      PROVE  LaneInv'
  BY <1>1, <1>2, <1>3
<1>4. ASSUME NEW p \in Printers, Label(p)
      PROVE  LaneInv'
  <2> DEFINE s == queue[p]
             l == labels[p]
             row == Head(s).row
  <2>1. /\ s # <<>> /\ pump' = pump
        /\ queue' = [queue EXCEPT ![p] = Tail(s)] /\ labels' = [labels EXCEPT ![p] = Append(l, row)]
    BY <1>4 DEF Label
  <2>2. /\ 1 \in DOMAIN s /\ Head(s) = s[1]
        /\ \A k \in DOMAIN Tail(s) : k + 1 \in DOMAIN s /\ Tail(s)[k] = s[k + 1]
    BY <1>2, <2>1
  <2>3. /\ \A k \in DOMAIN Append(l, row) :
              \/ k \in DOMAIN l /\ Append(l, row)[k] = l[k]
              \/ Append(l, row)[k] = row
    BY <1>2
  <2>4. \A q \in Printers : \A k \in DOMAIN queue'[q] :
           \E m \in DOMAIN queue[q] : queue'[q][k] = queue[q][m]
    BY <1>2, <2>1, <2>2
  <2>5. \A q \in Printers : \A k \in DOMAIN labels'[q] :
           \/ \E m \in DOMAIN labels[q] : labels'[q][k] = labels[q][m]
           \/ \E m \in DOMAIN queue[q] : labels'[q][k] = queue[q][m].row
    <3> HIDE DEF row, l
    <3>1. TAKE q \in Printers
    <3>2. CASE q = p
      BY <1>2, <2>1, <2>2, <2>3, <3>2 DEF l, row
    <3>3. CASE q # p
      BY <1>2, <2>1, <3>3
    <3> QED
      BY <3>2, <3>3
  <2>6. \A q \in Printers : \A k \in DOMAIN queue'[q] : queue'[q][k].row \in OwnLane'[q]
    BY <1>1, <2>4
  <2>7. \A q \in Printers : \A k \in DOMAIN labels'[q] : labels'[q][k] \in OwnLane'[q]
    BY <1>1, <2>5
  <2>8. pump'.pc = "send" => \A r \in pump'.batch : r.row \in OwnLane'[pump'.at]
    BY <1>1, <1>2, <2>1
  <2> QED
    BY <2>6, <2>7, <2>8
<1>5. ASSUME NEW p \in Printers, StopClear(p)
      PROVE  LaneInv'
  <2>1. /\ pump' = pump /\ labels' = labels
        /\ queue' = queue \/ queue' = [queue EXCEPT ![p] = <<>>]
    BY <1>5 DEF StopClear, QueueCleared
  <2>2. DOMAIN <<>> = {}
    OBVIOUS
  <2>3. \A q \in Printers : queue'[q] = queue[q] \/ queue'[q] = <<>>
    BY <1>2, <2>1
  <2>4. \A q \in Printers : \A k \in DOMAIN queue'[q] :
           k \in DOMAIN queue[q] /\ queue'[q][k] = queue[q][k]
    BY <2>2, <2>3
  <2>5. pump'.pc = "send" => \A r \in pump'.batch : r.row \in OwnLane'[pump'.at]
    BY <1>1, <1>2, <2>1
  <2>6. \A q \in Printers : \A k \in DOMAIN queue'[q] : queue'[q][k].row \in OwnLane'[q]
    BY <1>1, <2>4
  <2>7. \A q \in Printers : \A k \in DOMAIN labels'[q] : labels'[q][k] \in OwnLane'[q]
    BY <1>1, <2>1
  <2> QED
    BY <2>5, <2>6, <2>7
<1>6. CASE PumpFetch
  <2>1. /\ pump.at \in Printers /\ pump.room \in Limits /\ queue' = queue /\ labels' = labels
    BY <1>6 DEF PumpFetch, deviceVars, LineInv, PumpOK
  <2> DEFINE batch == {[row |-> i, index |-> rows'[i].index] :
                          i \in Selected(Task, pump.at, pump.room)}
  <2>2. CASE pump' = [pump EXCEPT !.pc = "next"]
    BY <1>2, <1>3, <2>1, <2>2
  <2>3. CASE pump' = [pump EXCEPT !.pc = "send", !.batch = batch]
    <3>1. \A i \in Selected(Task, pump.at, pump.room) : i \in OwnLane[pump.at]
      BY <2>1 DEF Selected, Fetchable, OwnLane
    <3>2. \A r \in batch : r.row \in OwnLane'[pump.at]
      BY <1>1, <2>1, <3>1
    <3> HIDE DEF batch
    <3>3. pump'.at = pump.at /\ pump'.batch = batch
      BY <1>2, <2>3
    <3>4. \A r \in pump'.batch : r.row \in OwnLane'[pump'.at]
      BY <3>2, <3>3
    <3> QED
      BY <1>1, <2>1, <3>4
  <2> QED
    BY <1>6, <2>2, <2>3 DEF PumpFetch
<1>7. CASE PumpSend
  <2>1. PICK r \in pump.batch :
           /\ queue' = queue \/ queue' = [queue EXCEPT ![pump.at] = Append(@, r)]
           /\ \/ pump' = [pump EXCEPT !.pc = "next", !.batch = {}]
              \/ pump' = [pump EXCEPT !.batch = pump.batch \ {r}]
    BY <1>7 DEF PumpSend, GiveUp
  <2>2. /\ pump.pc = "send" /\ pump.at \in Printers /\ labels' = labels /\ r \in Record
        /\ r.row \in OwnLane[pump.at]
    BY <1>7, <2>1 DEF PumpSend, LineInv, PumpOK
  <2>3. \A k \in DOMAIN Append(queue[pump.at], r) :
           \/ /\ k \in DOMAIN queue[pump.at]
              /\ Append(queue[pump.at], r)[k] = queue[pump.at][k]
           \/ Append(queue[pump.at], r)[k] = r
    BY <1>2, <2>2
  <2>4. \A q \in Printers : \A k \in DOMAIN queue'[q] :
           \/ k \in DOMAIN queue[q] /\ queue'[q][k] = queue[q][k]
           \/ q = pump.at /\ queue'[q][k] = r
    <3>1. CASE queue' = queue
      BY <3>1
    <3>2. CASE queue' = [queue EXCEPT ![pump.at] = Append(@, r)]
      <4>1. /\ queue'[pump.at] = Append(queue[pump.at], r)
            /\ \A q \in Printers : q # pump.at => queue'[q] = queue[q]
        BY <1>2, <2>2, <3>2
      <4> QED
        BY <4>1, <2>3
    <3> QED
      BY <2>1, <3>1, <3>2
  <2>5. \A q \in Printers : \A k \in DOMAIN queue'[q] : queue'[q][k].row \in OwnLane'[q]
    BY <1>1, <2>2, <2>4
  <2>6. \A q \in Printers : \A k \in DOMAIN labels'[q] : labels'[q][k] \in OwnLane'[q]
    BY <1>1, <2>2
  <2>7. pump'.pc = "send" => \A s \in pump'.batch : s.row \in OwnLane'[pump'.at]
    <3>1. CASE pump' = [pump EXCEPT !.pc = "next", !.batch = {}]
      BY <1>2, <3>1
    <3>2. CASE pump' = [pump EXCEPT !.batch = pump.batch \ {r}]
      <4>1. pump'.at = pump.at /\ pump'.batch \subseteq pump.batch
        BY <1>2, <3>2
      <4> QED
        BY <1>1, <2>2, <4>1
    <3> QED
      BY <2>1, <3>1, <3>2
  <2> QED
    BY <2>5, <2>6, <2>7
<1>8. CASE \/ PumpStatus \/ PumpExit \/ AppendStart \/ Restart
  <2>1. queue' = queue /\ labels' = labels
    BY <1>8 DEF PumpStatus, PumpExit, AppendStart, Restart, deviceVars
  <2>2. NoPump.pc = "none" /\ FreshPump.pc = "tick"
    BY DEF NoPump, FreshPump
  <2>3. CASE PumpStatus
    BY <1>2, <1>3, <2>1, <2>3 DEF PumpStatus
  <2>4. CASE PumpExit \/ AppendStart \/ Restart
    <3>1. pump' \in {pump, NoPump, FreshPump}
      BY <2>4 DEF PumpExit, AppendStart, StartPumping, Restart
    <3> QED
      BY <1>3, <2>1, <2>2, <3>1
  <2> QED
    BY <1>8, <2>3, <2>4
<1>9. CASE PumpSpace
  <2>1. queue' = queue /\ labels' = labels /\ pump.pc = "next"
    BY <1>9 DEF PumpSpace, deviceVars
  <2>2. NoPump.pc = "none" /\ FreshPump.pc = "tick"
    BY DEF NoPump, FreshPump
  <2>3. pump'.pc # "send"
    BY <1>2, <1>9, <2>1, <2>2 DEF PumpSpace
  <2> QED
    BY <1>3, <2>1, <2>3
<1>10. ASSUME \/ \E items \in Batches : AppendInsert(items)
              \/ AppendActivate \/ Poll \/ StopRequest \/ StopReturn
              \/ \E p \in Printers : StopPoll(p) \/ StopReconcile(p)
              \/ UNCHANGED vars
       PROVE  LaneInv'
  <2>1. queue' = queue /\ labels' = labels /\ pump' = pump
    BY <1>10 DEF AppendInsert, AppendActivate, Poll, PollVisit, PollRead, PollMark,
                 StopRequest, StopReturn, StopPoll, StopReconcile, vars, deviceVars
  <2> QED
    BY <2>1, <1>3
<1> QED
  BY <1>4, <1>5, <1>6, <1>7, <1>8, <1>9, <1>10 DEF Next, Pump, Stop

\* A printer only ever applies codes of its own lane, across stops, returns
\* to the queue, lost replies and restarts.
THEOREM LineKeepsLanes == Spec => []LabelsOfOwnLane
<1>1. Init => LaneInv
  BY DEF Init, LaneInv, NoPump
<1>2. LaneInv => LabelsOfOwnLane
  BY DEF LaneInv, LabelsOfOwnLane, LabelledBy, OwnLane
<1> QED
  BY <1>1, <1>2, LaneStep, LineInvariant, PTL DEF Spec

-----------------------------------------------------------------------------
(* The labels of the line: no code is on two products, labels come in the   *)
(* order of delivery, and a printer holds what the table says it holds.     *)
(*                                                                          *)
(* This holds of a line that is brought to rest before it is stopped,       *)
(* restarted or extended during a stop; the assumptions say which events    *)
(* that excludes.  Commands and replies may be lost.                        *)

\* No label was applied before the task's first, and no handler starts and no
\* process dies between two steps of a cycle of the pump or of a stop.
Uninterrupted ==
    /\ InitialSlr = {0}
    /\ Events \cap {"busyStop", "appendDuringStop", "busyRestart"} = {}

\* Besides, a stop finds the products at rest and its SCB arrives.
AtRest == Uninterrupted /\ Events \cap {"labelDuringStop", "clearFails"} = {}

\* Every record that is sent arrives, its reply too, and no reconciliation
\* is rolled back.
AllDelivered == Events \cap {"sendFails", "ackLost", "reconcileFails"} = {}

-----------------------------------------------------------------------------
(* The inductive invariant.                                                 *)

\* A row of the task that printer p took under this index.
TakenRow(p, i, index) ==
    /\ i \in Ids
    /\ rows[i].task = Task /\ rows[i].printer = p
    /\ rows[i].status # "pending" /\ rows[i].index = index

\* A row of the task that printer p still has to print.
HeldRow(p, i, index) == TakenRow(p, i, index) /\ rows[i].status = "in_buffer"

\* While a stop is served nothing else works on the line.
Halted ==
    ~StopIdle => /\ taskStatus = "stopped"
                 /\ append = "idle"
                 /\ pump.pc \in {"none", "tick", "exit"}

\* Nothing was printed since a stop, or the poller, read the odometer that
\* the table does not hear of.
OdometerRead == \A p \in Printers : stop[p] \in {"reconcile", "clear"} => odometer[p] = slr[p]
PollerBehind == poller.pc = "mark" => poller.index <= slr[poller.at]

\* The odometer shows the index of a row the printer took, so the next fetch
\* numbers past it.
OdometerKnown ==
    \A p \in Printers : slr[p] > 0 => \E i \in Ids : TakenRow(p, i, slr[p])

\* A labelled row stays with its printer, under the index it was sent with.
LabelsTaken ==
    \A p \in Printers : \A k \in DOMAIN labels[p] :
        /\ TakenRow(p, labels[p][k], rows[labels[p][k]].index)
        /\ rows[labels[p][k]].index > 0
        /\ rows[labels[p][k]].index <= slr[p]

LabelsRise ==
    \A p \in Printers : \A k, l \in DOMAIN labels[p] :
        k < l => rows[labels[p][k]].index < rows[labels[p][l]].index

\* A printer's records are rows it has to print, past its odometer; the
\* window between a reconciliation and SCB is the exception.
QueueHeld ==
    \A p \in Printers : stop[p] # "clear" => \A k \in DOMAIN queue[p] :
        /\ HeldRow(p, queue[p][k].row, queue[p][k].index)
        /\ queue[p][k].index > slr[p]

QueueRises ==
    \A p \in Printers : \A k, l \in DOMAIN queue[p] :
        k < l => queue[p][k].index < queue[p][l].index

\* What the pump has in hand comes after everything its printer has.
BatchHeld ==
    pump.pc = "send" => \A r \in pump.batch :
        /\ HeldRow(pump.at, r.row, r.index)
        /\ r.index > slr[pump.at]
        /\ \A k \in DOMAIN queue[pump.at] : queue[pump.at][k].index < r.index

LabelInv ==
    /\ Halted /\ OdometerRead /\ PollerBehind /\ OdometerKnown
    /\ LabelsTaken /\ LabelsRise /\ QueueHeld /\ QueueRises /\ BatchHeld

-----------------------------------------------------------------------------
(* What a step of the line does to the rows.                                *)

\* A row a printer took stays with it once its odometer has passed the row,
\* and a row it still has to print stays in the buffer unless a stop has
\* reconciled the printer: no report reaches past the odometer.
LEMMA RowsStep ==
    ASSUME AtRest, LineInv, LabelInv, [Next]_vars,
           NEW p \in Printers, NEW i, NEW x \in Nat, x > 0, TakenRow(p, i, x)
    PROVE  /\ x <= slr[p] => TakenRow(p, i, x)'
           /\ x > slr[p] /\ rows[i].status = "in_buffer" /\ stop'[p] # "clear"
                => HeldRow(p, i, x)'
<1> USE DEF TakenRow, HeldRow
<1>1. /\ Task \in Tasks /\ ShardTypeOK /\ NoPrinter \notin Printers
      /\ 0..MaxRows \subseteq Int /\ slr[p] \in 0..MaxRows
  BY LineAssumption, ParameterAssumption DEF LineInv, IInv, DevicesOK
<1>2. i \in Ids /\ rows[i].task = Task /\ rows[i].printer = p
      /\ rows[i].status # "pending" /\ rows[i].index = x
  OBVIOUS
<1>3. ASSUME i \in Ids', rows'[i] = rows[i]
      PROVE  TakenRow(p, i, x)' /\ (rows[i].status = "in_buffer" => HeldRow(p, i, x)')
  BY <1>2, <1>3
<1>4. ASSUME NEW items \in Batches, AppendInsert(items)
      PROVE  i \in Ids' /\ rows'[i] = rows[i]
  BY <1>1, <1>2, <1>4, AppendStep DEF AppendInsert
<1>5. ASSUME UNCHANGED shardVars
      PROVE  i \in Ids' /\ rows'[i] = rows[i]
  BY <1>2, <1>5 DEF shardVars, Ids
<1>6. CASE PumpFetch
  <2>1. CASE UNCHANGED shardVars
    BY <1>3, <1>5, <2>1
  <2>2. CASE FetchAndAssignCodes(Task, pump.at, pump.room)
    <3>1. pump.at \in Printers /\ pump.room \in Limits
      BY <1>6 DEF PumpFetch, LineInv, PumpOK
    <3>2. i \notin Fetchable(Task, pump.at)
      BY <1>2 DEF Fetchable
    <3>3. lastId' = lastId /\ rows'[i] = rows[i]
      BY <1>1, <1>2, <2>2, <3>1, <3>2, FetchStep
    <3> QED
      BY <1>2, <1>3, <3>3 DEF Ids
  <2> QED
    BY <1>6, <2>1, <2>2 DEF PumpFetch
<1>7. CASE PollMark
  <2>1. /\ poller.at \in Printers /\ poller.index \in Int /\ poller.index <= slr[poller.at]
        /\ MarkAsPrinted(Task, poller.at, poller.index)
    BY <1>1, <1>7 DEF PollMark, LineInv, PollerOK, LabelInv, PollerBehind
  <2>2. /\ lastId' = lastId /\ rows'[i].task = rows[i].task
        /\ rows'[i].printer = rows[i].printer /\ rows'[i].index = rows[i].index
        /\ rows'[i].status = IF i \in InBuffer(Task, poller.at) /\ rows[i].index <= poller.index
                             THEN "printed" ELSE rows[i].status
    BY <1>1, <1>2, <2>1, MarkStep
  <2>3. i \in InBuffer(Task, poller.at) => poller.at = p
    BY <1>2 DEF InBuffer, AssignedTo
  <2>4. x > slr[p] => rows'[i].status = rows[i].status
    BY <1>1, <1>2, <2>1, <2>2, <2>3
  <2> QED
    BY <1>2, <2>2, <2>4 DEF Ids
<1>8. ASSUME NEW q \in Printers, StopReconcile(q)
      PROVE  /\ x <= slr[p] => TakenRow(p, i, x)'
             /\ x > slr[p] /\ rows[i].status = "in_buffer" /\ stop'[p] # "clear"
                  => HeldRow(p, i, x)'
  <2>1. CASE UNCHANGED shardVars
    BY <1>3, <1>5, <2>1
  <2>2. CASE Reconcile(q)
    <3>1. odometer[q] \in Int /\ odometer[q] = slr[q] /\ ReconcileAndFinalizeTaskCodes(Task, q, odometer[q])
      BY <1>1, <1>8, <2>2 DEF StopReconcile, Reconcile, LineInv, HandlersOK, LabelInv, OdometerRead
    <3>2. CASE i \notin InBuffer(Task, q)
      <4>1. lastId' = lastId /\ rows'[i] = rows[i]
        BY <1>1, <1>2, <3>1, <3>2, ReconcileStep
      <4> QED
        BY <1>2, <1>3, <4>1 DEF Ids
    <3>3. CASE i \in InBuffer(Task, q)
      <4>1. q = p /\ stop'[p] = "clear"
        BY <1>2, <1>8, <3>3 DEF InBuffer, AssignedTo, StopReconcile, LineInv, HandlersOK
      <4>2. /\ lastId' = lastId /\ rows'[i].task = rows[i].task
            /\ x <= slr[p] => /\ rows'[i].status = "printed"
                              /\ rows'[i].printer = rows[i].printer
                              /\ rows'[i].index = rows[i].index
        BY <1>1, <1>2, <3>1, <3>3, <4>1, ReconcileStep
      <4> QED
        BY <1>2, <4>1, <4>2 DEF Ids
    <3> QED
      BY <3>2, <3>3
  <2> QED
    BY <1>8, <2>1, <2>2 DEF StopReconcile
<1>9. CASE \/ AppendActivate \/ AppendStart
           \/ PumpStatus \/ PumpSpace \/ PumpSend \/ PumpExit
           \/ PollVisit \/ PollRead
           \/ StopRequest \/ StopReturn \/ Restart
  BY <1>3, <1>5, <1>9
     DEF AppendActivate, AppendStart, PumpStatus, PumpSpace, PumpSend, PumpExit,
         PollVisit, PollRead, StopRequest, StopReturn, Restart
<1>10. ASSUME NEW q \in Printers, StopPoll(q) \/ StopClear(q) \/ Label(q)
       PROVE  UNCHANGED shardVars
  BY <1>10 DEF StopPoll, StopClear, Label
<1>11. CASE UNCHANGED vars
  BY <1>3, <1>5, <1>11 DEF vars
<1> QED
  BY <1>3, <1>4, <1>5, <1>6, <1>7, <1>8, <1>9, <1>10, <1>11 DEF Next, Pump, Poll, Stop

\* The handlers, the pump and the poller keep out of each other's way.
LEMMA HandlersStayApart ==
    ASSUME AtRest, LineInv, LabelInv, [Next]_vars
    PROVE  Halted' /\ OdometerRead' /\ PollerBehind'
<1> USE DEF Halted, OdometerRead, PollerBehind, StopIdle
<1>1. /\ Halted /\ OdometerRead /\ PollerBehind
      /\ stop \in [Printers -> {"idle", "poll", "reconcile", "clear", "done"}]
      /\ odometer \in [Printers -> 0..MaxRows] /\ slr \in [Printers -> 0..MaxRows]
      /\ MaxRows \in Nat
      /\ pump \in [pc : {"none", "tick", "next", "fetch", "send", "exit"},
                   left : SUBSET Printers, at : Printers \cup {NoPrinter},
                   room : 0..MaxBatch, batch : SUBSET Record]
      /\ poller \in [pc : {"visit", "read", "mark"}, left : SUBSET Printers,
                     at : Printers \cup {NoPrinter}, index : 0..MaxRows]
      /\ poller.pc \in {"read", "mark"} => poller.at \in Printers
  BY ParameterAssumption DEF LabelInv, LineInv, HandlersOK, DevicesOK, PumpOK, PollerOK
<1>2. NoPump.pc = "none" /\ FreshPump.pc = "tick" /\ FreshPoller.pc = "visit"
  BY DEF NoPump, FreshPump, FreshPoller
<1>3. ASSUME NEW p \in Printers, Label(p)
      PROVE  Halted' /\ OdometerRead' /\ PollerBehind'
  <2>1. /\ stop' = stop /\ odometer' = odometer /\ taskStatus' = taskStatus
        /\ append' = append /\ pump' = pump /\ poller' = poller
        /\ stop[p] \notin {"reconcile", "clear"}
        /\ queue[p] # <<>> /\ slr' = [slr EXCEPT ![p] = Head(queue[p]).index]
    BY <1>3 DEF Label, stopVars, AtRest
  <2>2. queue[p] \in Seq(Record) /\ Head(queue[p]) = queue[p][1] /\ 1 \in DOMAIN queue[p]
    BY <2>1 DEF LineInv, DevicesOK
  <2>3. queue[p][1] \in Record /\ queue[p][1].index > slr[p]
    BY <2>1, <2>2 DEF LabelInv, QueueHeld
  <2>4. \A q \in Printers : slr[q] <= slr'[q] /\ (q # p => slr'[q] = slr[q])
    <3>1. slr'[p] = queue[p][1].index /\ \A q \in Printers : q # p => slr'[q] = slr[q]
      BY <1>1, <2>1, <2>2
    <3>2. queue[p][1].index \in Nat /\ \A q \in Printers : slr[q] \in Nat
      BY <1>1, <2>3 DEF Record
    <3> QED
      BY <2>3, <3>1, <3>2
  <2>5. slr'[poller.at] \in Int \/ poller.pc # "mark"
    BY <1>1, <2>1, <2>2, <2>3 DEF Record
  <2> QED
    BY <1>1, <2>1, <2>4, <2>5
<1>4. CASE StopRequest
  BY <1>1, <1>4 DEF StopRequest, Quiet, Uninterrupted, AtRest, deviceVars
<1>5. ASSUME NEW p \in Printers, StopPoll(p)
      PROVE  Halted' /\ OdometerRead' /\ PollerBehind'
  BY <1>1, <1>5 DEF StopPoll, deviceVars
<1>6. ASSUME NEW p \in Printers, StopReconcile(p) \/ StopClear(p)
      PROVE  Halted' /\ OdometerRead' /\ PollerBehind'
  BY <1>1, <1>6 DEF StopReconcile, StopClear, deviceVars
<1>7. CASE StopReturn
  BY <1>1, <1>7 DEF StopReturn, deviceVars
<1>8. CASE Restart
  BY <1>1, <1>2, <1>8 DEF Restart, deviceVars
<1>9. CASE Poll
  <2>1. /\ stop' = stop /\ odometer' = odometer /\ slr' = slr /\ taskStatus' = taskStatus
        /\ append' = append /\ pump' = pump
    BY <1>9 DEF Poll, PollVisit, PollRead, PollMark, stopVars, deviceVars
  <2>2. CASE PollVisit
    <3>1. poller'.pc # "mark"
      BY <1>1, <1>2, <2>2 DEF PollVisit
    <3> QED
      BY <1>1, <2>1, <3>1
  <2>3. CASE PollRead
    <3>1. poller'.at = poller.at /\ poller'.index = slr[poller.at] /\ slr[poller.at] \in Int
      BY <1>1, <2>3 DEF PollRead
    <3> QED
      BY <1>1, <2>1, <3>1
  <2>4. CASE PollMark
    <3>1. poller'.pc # "mark"
      BY <1>1, <2>4 DEF PollMark
    <3> QED
      BY <1>1, <2>1, <3>1
  <2> QED
    BY <1>9, <2>2, <2>3, <2>4 DEF Poll
<1>10. CASE Pump
  <2>1. /\ stop' = stop /\ odometer' = odometer /\ slr' = slr /\ taskStatus' = taskStatus
        /\ append' = append /\ poller' = poller
    BY <1>10 DEF Pump, PumpStatus, PumpSpace, PumpFetch, PumpSend, PumpExit, stopVars, deviceVars
  <2>2. ~StopIdle => pump'.pc \in {"none", "tick", "exit"}
    BY <1>1, <1>2, <1>10 DEF Pump, PumpStatus, PumpSpace, PumpFetch, PumpSend, PumpExit
  <2> QED
    BY <1>1, <2>1, <2>2
<1>11. ASSUME NEW items \in Batches, AppendInsert(items)
       PROVE  Halted' /\ OdometerRead' /\ PollerBehind'
  BY <1>1, <1>11 DEF AppendInsert, Uninterrupted, AtRest, stopVars, deviceVars
<1>12. CASE AppendActivate \/ AppendStart
  <2>1. StopIdle /\ stop' = stop /\ odometer' = odometer /\ slr' = slr /\ poller' = poller
    BY <1>1, <1>12 DEF AppendActivate, AppendStart, stopVars, deviceVars
  <2> QED
    BY <1>1, <2>1
<1>13. CASE UNCHANGED vars
  BY <1>1, <1>13 DEF vars, stopVars, deviceVars
<1> QED
  BY <1>3, <1>4, <1>5, <1>6, <1>7, <1>8, <1>9, <1>10, <1>11, <1>12, <1>13 DEF Next, Stop

\* A step either applies a label or leaves the odometers and labels alone.
LEMMA LabelOrNot ==
    [Next]_vars => \/ \E p \in Printers : Label(p)
                   \/ slr' = slr /\ labels' = labels
<1> SUFFICES ASSUME [Next]_vars, \A p \in Printers : ~Label(p)
             PROVE  slr' = slr /\ labels' = labels
  OBVIOUS
<1>1. ASSUME \/ \E items \in Batches : AppendInsert(items)
             \/ AppendActivate \/ AppendStart \/ StopRequest \/ StopReturn \/ Restart
             \/ UNCHANGED vars
      PROVE  slr' = slr /\ labels' = labels
  BY <1>1 DEF AppendInsert, AppendActivate, AppendStart, StopRequest, StopReturn, Restart,
              vars, deviceVars
<1>2. CASE Pump \/ Poll
  BY <1>2 DEF Pump, PumpStatus, PumpSpace, PumpFetch, PumpSend, PumpExit,
              Poll, PollVisit, PollRead, PollMark, deviceVars
<1>3. ASSUME NEW p \in Printers, StopPoll(p) \/ StopReconcile(p) \/ StopClear(p)
      PROVE  slr' = slr /\ labels' = labels
  BY <1>3 DEF StopPoll, StopReconcile, StopClear, deviceVars
<1> QED
  BY <1>1, <1>2, <1>3 DEF Next, Stop

\* What a label does, and that it is the label of a row still to be printed.
LEMMA LabelFacts ==
    ASSUME AtRest, LineInv, LabelInv, NEW p \in Printers, Label(p)
    PROVE  LET r == queue[p][1] IN
           /\ r \in Record /\ HeldRow(p, r.row, r.index) /\ r.index > slr[p]
           /\ 1 \in DOMAIN queue[p] /\ stop[p] # "clear"
           /\ slr' = [slr EXCEPT ![p] = r.index]
           /\ labels' = [labels EXCEPT ![p] = Append(labels[p], r.row)]
           /\ queue' = [queue EXCEPT ![p] = Tail(queue[p])]
           /\ UNCHANGED <<rows, lastId, pump, stop>>
<1>1. /\ queue[p] # <<>> /\ queue[p] \in Seq(Record) /\ stop[p] # "clear"
      /\ slr' = [slr EXCEPT ![p] = Head(queue[p]).index]
      /\ labels' = [labels EXCEPT ![p] = Append(labels[p], Head(queue[p]).row)]
      /\ queue' = [queue EXCEPT ![p] = Tail(queue[p])]
      /\ UNCHANGED <<rows, lastId, pump, stop>>
  BY DEF Label, AtRest, LineInv, DevicesOK, shardVars, stopVars
<1>2. Head(queue[p]) = queue[p][1] /\ queue[p][1] \in Record /\ 1 \in DOMAIN queue[p]
  BY <1>1
<1>3. HeldRow(p, queue[p][1].row, queue[p][1].index) /\ queue[p][1].index > slr[p]
  BY <1>1, <1>2 DEF LabelInv, QueueHeld
<1> QED
  BY <1>1, <1>2, <1>3

\* The labels keep their rows, in rising order.
LEMMA LabelsKept ==
    ASSUME AtRest, LineInv, LabelInv, [Next]_vars
    PROVE  OdometerKnown' /\ LabelsTaken' /\ LabelsRise'
<1> USE DEF TakenRow, OdometerKnown, LabelsTaken, LabelsRise
<1>1. /\ OdometerKnown /\ LabelsTaken /\ LabelsRise /\ MaxRows \in Nat
      /\ slr \in [Printers -> 0..MaxRows] /\ labels \in [Printers -> Seq(1..MaxRows)]
      /\ \A p \in Printers : slr[p] \in Nat /\ labels[p] \in Seq(1..MaxRows)
      /\ \A i \in Ids : rows[i].index \in Nat
  BY ParameterAssumption DEF LabelInv, LineInv, DevicesOK, IInv, ShardTypeOK, Row
<1>2. CASE slr' = slr /\ labels' = labels
  <2>1. \A p \in Printers, i \in Ids : \A x \in Nat :
           TakenRow(p, i, x) /\ x > 0 /\ x <= slr[p] => TakenRow(p, i, x)'
    BY RowsStep
  <2>2. \A p \in Printers : \A k \in DOMAIN labels[p] :
           LET i == labels[p][k]
           IN  /\ i \in Ids' /\ rows'[i].task = Task /\ rows'[i].printer = p
               /\ rows'[i].status # "pending" /\ rows'[i].index = rows[i].index
    <3>1. TAKE p \in Printers
    <3>2. TAKE k \in DOMAIN labels[p]
    <3> DEFINE i == labels[p][k]
               x == rows[i].index
    <3>3. i \in Ids /\ x \in Nat /\ x > 0 /\ x <= slr[p] /\ TakenRow(p, i, x)
      BY <1>1
    <3> HIDE DEF i
    <3>4. \E c \in Nat : c = x
      BY <3>3
    <3>5. PICK c \in Nat : c = x
      BY <3>4
    <3>6. TakenRow(p, i, c) /\ c > 0 /\ c <= slr[p]
      BY <3>3, <3>5
    <3> QED
      BY <2>1, <3>3, <3>5, <3>6 DEF i
  <2>3. OdometerKnown'
    BY <1>1, <1>2, <2>1
  <2>4. LabelsTaken'
    BY <1>1, <1>2, <2>2
  <2>5. LabelsRise'
    BY <1>1, <1>2, <2>2
  <2> QED
    BY <2>3, <2>4, <2>5
<1>3. ASSUME NEW p \in Printers, Label(p)
      PROVE  OdometerKnown' /\ LabelsTaken' /\ LabelsRise'
  <2> DEFINE r == queue[p][1]
  <2>1. /\ r \in Record /\ HeldRow(p, r.row, r.index) /\ r.index > slr[p]
        /\ slr' = [slr EXCEPT ![p] = r.index]
        /\ labels' = [labels EXCEPT ![p] = Append(labels[p], r.row)]
        /\ UNCHANGED <<rows, lastId>>
    BY <1>3, LabelFacts
  <2>2. r.index \in Nat /\ r.index > 0 /\ r.row \in Ids /\ TakenRow(p, r.row, r.index)
    BY <1>1, <2>1 DEF HeldRow, Record
  <2> HIDE DEF r
  <2>3. /\ slr'[p] = r.index /\ labels'[p] = Append(labels[p], r.row) /\ Ids' = Ids
        /\ \A q \in Printers : q # p => slr'[q] = slr[q] /\ labels'[q] = labels[q]
    BY <1>1, <2>1 DEF Ids
  <2>4. \A k \in DOMAIN labels'[p] :
           \/ k \in DOMAIN labels[p] /\ labels'[p][k] = labels[p][k]
           \/ k = Len(labels[p]) + 1 /\ labels'[p][k] = r.row
    BY <1>1, <2>1, <2>3
  <2>5. OdometerKnown'
    <3>1. SUFFICES ASSUME NEW q \in Printers, slr'[q] > 0
                   PROVE  \E i \in Ids : TakenRow(q, i, slr'[q])
      BY <2>1, <2>3
    <3>2. CASE q = p
      BY <2>2, <2>3, <3>2
    <3>3. CASE q # p
      <4>1. slr'[q] = slr[q]
        BY <2>3, <3>3
      <4> QED
        BY <1>1, <3>1, <4>1
    <3> QED
      BY <3>2, <3>3
  <2>6. LabelsTaken'
    <3>1. SUFFICES ASSUME NEW q \in Printers, NEW k \in DOMAIN labels'[q]
                   PROVE  /\ TakenRow(q, labels'[q][k], rows[labels'[q][k]].index)
                          /\ rows[labels'[q][k]].index > 0
                          /\ rows[labels'[q][k]].index <= slr'[q]
      BY <2>1, <2>3
    <3>2. CASE q # p
      <4>1. slr'[q] = slr[q] /\ labels'[q] = labels[q] /\ k \in DOMAIN labels[q]
        BY <2>3, <3>2
      <4> QED
        BY <1>1, <3>1, <4>1
    <3>3. CASE q = p /\ k \in DOMAIN labels[p] /\ labels'[p][k] = labels[p][k]
      BY <1>1, <2>1, <2>2, <2>3, <3>3
    <3>4. CASE q = p /\ labels'[p][k] = r.row
      BY <1>1, <2>1, <2>2, <2>3, <3>4
    <3> QED
      BY <2>4, <3>2, <3>3, <3>4
  <2>7. LabelsRise'
    <3>1. SUFFICES ASSUME NEW q \in Printers, NEW k \in DOMAIN labels'[q],
                          NEW l \in DOMAIN labels'[q], k < l
                   PROVE  rows[labels'[q][k]].index < rows[labels'[q][l]].index
      BY <2>1, <2>3
    <3>2. CASE q # p
      <4>1. slr'[q] = slr[q] /\ labels'[q] = labels[q] /\ k \in DOMAIN labels[q]
        BY <2>3, <3>2
      <4> QED
        BY <1>1, <3>1, <4>1
    <3>3. CASE q = p /\ l \in DOMAIN labels[p]
      <4>1. k \in DOMAIN labels[p] /\ labels'[p][k] = labels[p][k] /\ labels'[p][l] = labels[p][l]
        BY <1>1, <2>4, <3>1, <3>3
      <4> QED
        BY <1>1, <3>1, <3>3, <4>1
    <3>4. CASE q = p /\ l \notin DOMAIN labels[p]
      <4>1. k \in DOMAIN labels[p] /\ labels'[p][k] = labels[p][k] /\ labels'[p][l] = r.row
        BY <1>1, <2>4, <3>1, <3>4
      <4> QED
        BY <1>1, <2>1, <2>2, <3>4, <4>1
    <3> QED
      BY <3>2, <3>3, <3>4
  <2> QED
    BY <2>5, <2>6, <2>7
<1> QED
  BY <1>2, <1>3, LabelOrNot

\* A step touches a printer's queue, or it leaves the queues and odometers
\* alone and the window of a stop does not end.
LEMMA QueueOrNot ==
    ASSUME AtRest, LineInv, LabelInv, [Next]_vars
    PROVE  \/ \E p \in Printers : Label(p) \/ StopClear(p)
           \/ PumpSend
           \/ /\ queue' = queue /\ slr' = slr
              /\ \A p \in Printers : stop[p] = "clear" => stop'[p] = "clear"
<1> DEFINE Still == /\ queue' = queue /\ slr' = slr
                    /\ \A p \in Printers : stop[p] = "clear" => stop'[p] = "clear"
<1>1. stop \in [Printers -> {"idle", "poll", "reconcile", "clear", "done"}]
  BY DEF LineInv, HandlersOK
<1>2. CASE \/ \E items \in Batches : AppendInsert(items)
           \/ AppendActivate \/ AppendStart \/ UNCHANGED vars
  BY <1>2 DEF AppendInsert, AppendActivate, AppendStart, vars, deviceVars, stopVars
<1>3. CASE StopRequest \/ StopReturn \/ Restart
  <2>1. queue' = queue /\ slr' = slr
    BY <1>3 DEF StopRequest, StopReturn, Restart, deviceVars
  <2>2. \A p \in Printers : stop[p] # "clear"
    BY <1>3 DEF StopRequest, StopReturn, Restart, Quiet, StopIdle, Uninterrupted, AtRest
  <2> QED
    BY <2>1, <2>2
<1>4. CASE PumpStatus \/ PumpSpace \/ PumpFetch \/ PumpExit \/ Poll
  BY <1>4 DEF PumpStatus, PumpSpace, PumpFetch, PumpExit, Poll, PollVisit, PollRead, PollMark,
              deviceVars, stopVars
<1>5. ASSUME NEW p \in Printers, StopPoll(p) \/ StopReconcile(p)
      PROVE  Still
  <2>1. queue' = queue /\ slr' = slr
    BY <1>5 DEF StopPoll, StopReconcile, deviceVars
  <2>2. /\ stop[p] # "clear"
        /\ \A q \in Printers : q # p => stop'[q] = stop[q]
    BY <1>1, <1>5 DEF StopPoll, StopReconcile
  <2> QED
    BY <2>1, <2>2
<1> QED
  BY <1>2, <1>3, <1>4, <1>5 DEF Next, Pump, Stop

\* What a printer holds is still to be printed, in rising order.
LEMMA RecordsKept ==
    ASSUME AtRest, LineInv, LabelInv, [Next]_vars
    PROVE  QueueHeld' /\ QueueRises'
<1> USE DEF TakenRow, HeldRow, QueueHeld, QueueRises
<1>1. /\ QueueHeld /\ QueueRises /\ MaxRows \in Nat
      /\ slr \in [Printers -> 0..MaxRows] /\ queue \in [Printers -> Seq(Record)]
      /\ \A p \in Printers : slr[p] \in Nat /\ queue[p] \in Seq(Record)
  BY ParameterAssumption DEF LabelInv, LineInv, DevicesOK
<1>2. \A p \in Printers : \A k \in DOMAIN queue[p] :
         queue[p][k] \in Record /\ queue[p][k].index \in Nat \ {0}
  <2>1. \A r \in Record : r.index \in Nat \ {0}
    BY <1>1 DEF Record
  <2>2. \A p \in Printers : \A k \in DOMAIN queue[p] : queue[p][k] \in Record
    BY <1>1
  <2> QED
    BY <2>1, <2>2
\* A record that is not taken back, of a row past the odometer, stays good.
<1>3. ASSUME NEW p \in Printers, NEW r \in Record, stop'[p] # "clear",
             HeldRow(p, r.row, r.index), r.index > slr[p]
      PROVE  /\ r.row \in Ids' /\ rows'[r.row].task = Task /\ rows'[r.row].printer = p
             /\ rows'[r.row].status = "in_buffer" /\ rows'[r.row].index = r.index
  <2>1. r.index \in Nat /\ r.index > 0
    BY DEF Record
  <2>2. PICK i, x : i = r.row /\ x = r.index
    OBVIOUS
  <2>3. HeldRow(p, i, x)'
    BY <1>3, <2>1, <2>2, RowsStep
  <2> QED
    BY <2>2, <2>3
<1>4. ASSUME queue' = queue, slr' = slr,
             \A p \in Printers : stop[p] = "clear" => stop'[p] = "clear"
      PROVE  QueueHeld' /\ QueueRises'
  <2>1. QueueRises'
    BY <1>1, <1>4
  <2>2. SUFFICES ASSUME NEW p \in Printers, stop'[p] # "clear", NEW k \in DOMAIN queue[p]
                 PROVE  HeldRow(p, queue[p][k].row, queue[p][k].index)'
                        /\ queue[p][k].index > slr[p]
    BY <1>4, <2>1
  <2>3. queue[p][k] \in Record /\ stop[p] # "clear"
    BY <1>2, <1>4, <2>2
  <2>4. HeldRow(p, queue[p][k].row, queue[p][k].index) /\ queue[p][k].index > slr[p]
    BY <1>1, <2>3
  <2> QED
    BY <1>3, <1>4, <2>2, <2>3, <2>4
<1>5. ASSUME NEW p \in Printers, StopClear(p)
      PROVE  QueueHeld' /\ QueueRises'
  <2>1. /\ slr' = slr /\ rows' = rows /\ lastId' = lastId
        /\ queue' = [queue EXCEPT ![p] = <<>>]
        /\ stop' = [stop EXCEPT ![p] = "done"]
    BY <1>5 DEF StopClear, QueueCleared, AtRest, shardVars
  <2>2. /\ DOMAIN queue'[p] = {} /\ Ids' = Ids
        /\ \A q \in Printers : q # p => queue'[q] = queue[q] /\ stop'[q] = stop[q]
    BY <1>1, <2>1 DEF LineInv, HandlersOK, Ids
  <2> QED
    BY <1>1, <2>1, <2>2
<1>6. ASSUME NEW p \in Printers, Label(p)
      PROVE  QueueHeld' /\ QueueRises'
  <2>1. /\ 1 \in DOMAIN queue[p] /\ slr' = [slr EXCEPT ![p] = queue[p][1].index]
        /\ queue' = [queue EXCEPT ![p] = Tail(queue[p])]
        /\ rows' = rows /\ lastId' = lastId /\ stop' = stop /\ stop[p] # "clear"
    BY <1>6, LabelFacts
  <2>2. /\ Ids' = Ids /\ slr'[p] = queue[p][1].index /\ queue'[p] = Tail(queue[p])
        /\ \A q \in Printers : q # p => queue'[q] = queue[q] /\ slr'[q] = slr[q]
    BY <1>1, <2>1 DEF Ids
  <2>3. \A k \in DOMAIN queue'[p] :
           k + 1 \in DOMAIN queue[p] /\ queue'[p][k] = queue[p][k + 1] /\ k \in Nat /\ k + 1 > 1
    BY <1>1, <2>1, <2>2
  <2>4. QueueHeld'
    <3>1. SUFFICES ASSUME NEW q \in Printers, stop'[q] # "clear", NEW k \in DOMAIN queue'[q]
                   PROVE  (/\ HeldRow(q, queue[q][k].row, queue[q][k].index)
                           /\ queue[q][k].index > slr[q])'
      OBVIOUS
    <3> DEFINE r == queue'[q][k]
    <3>0. rows' = rows /\ Ids' = Ids
      BY <2>1, <2>2
    <3>2. CASE q # p
      <4>1. queue'[q] = queue[q] /\ slr'[q] = slr[q] /\ stop[q] # "clear"
        BY <2>1, <2>2, <3>1, <3>2
      <4>2. HeldRow(q, r.row, r.index) /\ r.index > slr'[q]
        BY <1>1, <4>1
      <4> QED
        BY <3>0, <4>2
    <3>3. CASE q = p
      <4>1. k + 1 \in DOMAIN queue[p] /\ queue'[p][k] = queue[p][k + 1] /\ k + 1 > 1
        BY <2>3, <3>3
      <4>2. queue[p][1].index < queue[p][k + 1].index
        BY <1>1, <2>1, <4>1
      <4>3. HeldRow(q, r.row, r.index) /\ r.index > slr'[q]
        BY <1>1, <2>1, <2>2, <3>3, <4>1, <4>2
      <4> QED
        BY <3>0, <4>3
    <3> QED
      BY <3>2, <3>3
  <2>5. QueueRises'
    <3>1. SUFFICES ASSUME NEW q \in Printers, NEW k \in DOMAIN queue'[q],
                          NEW l \in DOMAIN queue'[q], k < l
                   PROVE  queue'[q][k].index < queue'[q][l].index
      OBVIOUS
    <3>2. CASE q # p
      <4>1. queue'[q] = queue[q]
        BY <2>2, <3>2
      <4> QED
        BY <1>1, <3>1, <4>1
    <3>3. CASE q = p
      <4>1. /\ k + 1 \in DOMAIN queue[p] /\ queue'[p][k] = queue[p][k + 1]
            /\ l + 1 \in DOMAIN queue[p] /\ queue'[p][l] = queue[p][l + 1]
            /\ k + 1 < l + 1
        BY <2>3, <3>1, <3>3
      <4> QED
        BY <1>1, <3>3, <4>1
    <3> QED
      BY <3>2, <3>3
  <2> QED
    BY <2>4, <2>5
<1>7. CASE PumpSend
  <2>1. PICK r \in pump.batch :
           queue' = queue \/ queue' = [queue EXCEPT ![pump.at] = Append(queue[pump.at], r)]
    BY <1>7 DEF PumpSend
  <2>2. /\ pump.pc = "send" /\ pump.at \in Printers /\ r \in Record
        /\ rows' = rows /\ lastId' = lastId /\ slr' = slr /\ stop' = stop
    BY <1>7 DEF PumpSend, LineInv, PumpOK, shardVars, stopVars
  <2>3. /\ HeldRow(pump.at, r.row, r.index) /\ r.index > slr[pump.at]
        /\ \A k \in DOMAIN queue[pump.at] : queue[pump.at][k].index < r.index
    BY <2>2 DEF LabelInv, BatchHeld
  <2>4. CASE queue' = queue
    BY <1>4, <2>2, <2>4
  <2>5. CASE queue' = [queue EXCEPT ![pump.at] = Append(queue[pump.at], r)]
    <3>1. /\ queue'[pump.at] = Append(queue[pump.at], r) /\ Ids' = Ids
          /\ \A q \in Printers : q # pump.at => queue'[q] = queue[q]
      BY <1>1, <2>2, <2>5 DEF Ids
    <3>2. \A k \in DOMAIN queue'[pump.at] :
             \/ k \in DOMAIN queue[pump.at] /\ queue'[pump.at][k] = queue[pump.at][k]
             \/ k = Len(queue[pump.at]) + 1 /\ queue'[pump.at][k] = r
      BY <1>1, <2>2, <3>1
    <3>3. QueueHeld'
      <4>1. SUFFICES ASSUME NEW q \in Printers, stop[q] # "clear", NEW k \in DOMAIN queue'[q]
                     PROVE  HeldRow(q, queue'[q][k].row, queue'[q][k].index)
                            /\ queue'[q][k].index > slr[q]
        BY <2>2, <3>1
      <4>2. \/ k \in DOMAIN queue[q] /\ queue'[q][k] = queue[q][k]
            \/ q = pump.at /\ queue'[q][k] = r
        BY <3>1, <3>2
      <4> QED
        BY <1>1, <2>3, <4>1, <4>2
    <3>4. QueueRises'
      <4>1. SUFFICES ASSUME NEW q \in Printers, NEW k \in DOMAIN queue'[q],
                            NEW l \in DOMAIN queue'[q], k < l
                     PROVE  queue'[q][k].index < queue'[q][l].index
        OBVIOUS
      <4>2. CASE q # pump.at
        <5>1. queue'[q] = queue[q]
          BY <3>1, <4>2
        <5> QED
          BY <1>1, <4>1, <5>1
      <4>3. CASE q = pump.at
        <5>1. k \in DOMAIN queue[q] /\ queue'[q][k] = queue[q][k]
          <6>1. k # Len(queue[q]) + 1
            BY <1>1, <2>2, <3>1, <4>1, <4>3
          <6> QED
            BY <3>2, <4>3, <6>1
        <5> QED
          BY <1>1, <2>3, <3>2, <4>1, <4>3, <5>1
      <4> QED
        BY <4>2, <4>3
    <3> QED
      BY <3>3, <3>4
  <2> QED
    BY <2>1, <2>4, <2>5
<1>8. \/ \E p \in Printers : Label(p) \/ StopClear(p)
      \/ PumpSend
      \/ /\ queue' = queue /\ slr' = slr
         /\ \A p \in Printers : stop[p] = "clear" => stop'[p] = "clear"
  BY QueueOrNot
<1> QED
  BY <1>4, <1>5, <1>6, <1>7, <1>8

\* A fetch numbers its rows past the odometer and past the printer's queue.
LEMMA FetchedAreNew ==
    ASSUME AtRest, LineInv, LabelInv, pump.pc = "fetch",
           FetchAndAssignCodes(Task, pump.at, pump.room),
           NEW i \in Selected(Task, pump.at, pump.room)
    PROVE  /\ i \in Ids /\ lastId' = lastId
           /\ rows'[i].task = Task /\ rows'[i].printer = pump.at
           /\ rows'[i].status = "in_buffer" /\ rows'[i].index \in Nat \ {0}
           /\ rows'[i].index > slr[pump.at]
           /\ \A k \in DOMAIN queue[pump.at] : queue[pump.at][k].index < rows'[i].index
<1>1. /\ Task \in Tasks /\ ShardTypeOK /\ pump.at \in Printers /\ pump.room \in Limits
      /\ slr[pump.at] \in Nat /\ stop[pump.at] # "clear"
  BY LineAssumption, ParameterAssumption
     DEF LineInv, IInv, PumpOK, DevicesOK, LabelInv, Halted, StopIdle
<1>2. /\ lastId' = lastId /\ i \in Fetchable(Task, pump.at)
      /\ rows'[i].task = rows[i].task /\ rows'[i].printer = pump.at
      /\ rows'[i].status = "in_buffer" /\ rows'[i].index \in Nat \ {0}
      /\ \A j \in AssignedTo(Task, pump.at) : rows[j].index < rows'[i].index
  BY <1>1, FetchStep
<1>3. i \in Ids /\ rows[i].task = Task
  BY <1>2 DEF Fetchable
<1>4. rows'[i].index > slr[pump.at]
  <2>1. CASE slr[pump.at] = 0
    BY <1>2, <2>1
  <2>2. CASE slr[pump.at] > 0
    <3>1. PICK j \in Ids : TakenRow(pump.at, j, slr[pump.at])
      BY <1>1, <2>2 DEF LabelInv, OdometerKnown
    <3>2. j \in AssignedTo(Task, pump.at) /\ rows[j].index = slr[pump.at]
      BY <3>1 DEF TakenRow, AssignedTo
    <3> QED
      BY <1>1, <1>2, <3>2
  <2> QED
    BY <1>1, <2>1, <2>2
<1>5. ASSUME NEW k \in DOMAIN queue[pump.at]
      PROVE  queue[pump.at][k].index < rows'[i].index
  <2>1. HeldRow(pump.at, queue[pump.at][k].row, queue[pump.at][k].index)
    BY <1>1 DEF LabelInv, QueueHeld
  <2>2. PICK j : j = queue[pump.at][k].row
    OBVIOUS
  <2>3. j \in AssignedTo(Task, pump.at) /\ rows[j].index = queue[pump.at][k].index
    BY <2>1, <2>2 DEF HeldRow, TakenRow, AssignedTo
  <2> QED
    BY <1>2, <2>3
<1> QED
  BY <1>2, <1>3, <1>4, <1>5

\* What the pump has in hand stays ahead of what its printer has.
LEMMA BatchKept ==
    ASSUME AtRest, LineInv, LabelInv, [Next]_vars, Halted'
    PROVE  BatchHeld'
<1>1. /\ BatchHeld /\ QueueHeld /\ QueueRises /\ MaxRows \in Nat
      /\ slr \in [Printers -> 0..MaxRows] /\ queue \in [Printers -> Seq(Record)]
      /\ pump \in [pc : {"none", "tick", "next", "fetch", "send", "exit"},
                   left : SUBSET Printers, at : Printers \cup {NoPrinter},
                   room : 0..MaxBatch, batch : SUBSET Record]
      /\ pump.pc \in {"fetch", "send"} => pump.at \in Printers
  BY ParameterAssumption DEF LabelInv, LineInv, DevicesOK, PumpOK
<1>2. NoPump.pc = "none" /\ FreshPump.pc = "tick"
  BY DEF NoPump, FreshPump
<1>3. \A r \in Record : r.index \in Nat /\ r.index > 0
  BY <1>1 DEF Record
<1>4. pump'.pc = "send" => \A p \in Printers : stop'[p] = "idle"
  BY DEF Halted, StopIdle
\* A step that hands the pump nothing leaves its records good.
<1>5. ASSUME pump' = pump, queue' = queue, slr' = slr
      PROVE  BatchHeld'
  <2>1. SUFFICES ASSUME pump.pc = "send", NEW r \in pump.batch
                 PROVE  HeldRow(pump.at, r.row, r.index)'
    BY <1>1, <1>5 DEF BatchHeld
  <2>2. /\ pump.at \in Printers /\ r \in Record
        /\ HeldRow(pump.at, r.row, r.index) /\ r.index > slr[pump.at]
    BY <1>1, <2>1 DEF BatchHeld
  <2>3. PICK i, x, p : i = r.row /\ x = r.index /\ p = pump.at
    OBVIOUS
  <2>4. HeldRow(p, i, x)'
    BY <1>3, <1>4, <1>5, <2>1, <2>2, <2>3, RowsStep DEF HeldRow
  <2> QED
    BY <1>5, <2>3, <2>4 DEF HeldRow, TakenRow
<1>6. ASSUME pump'.pc # "send"
      PROVE  BatchHeld'
  BY <1>6 DEF BatchHeld
<1>7. ASSUME NEW p \in Printers, Label(p)
      PROVE  BatchHeld'
  <2>1. /\ 1 \in DOMAIN queue[p] /\ slr' = [slr EXCEPT ![p] = queue[p][1].index]
        /\ queue' = [queue EXCEPT ![p] = Tail(queue[p])]
        /\ rows' = rows /\ lastId' = lastId /\ pump' = pump
    BY <1>7, LabelFacts
  <2>2. \A k \in DOMAIN Tail(queue[p]) : k + 1 \in DOMAIN queue[p] /\ Tail(queue[p])[k] = queue[p][k + 1]
    BY <1>1, <2>1
  <2>3. SUFFICES ASSUME pump.pc = "send", NEW r \in pump.batch
                 PROVE  /\ HeldRow(pump.at, r.row, r.index)'
                        /\ r.index > slr'[pump.at]
                        /\ \A k \in DOMAIN queue'[pump.at] : queue'[pump.at][k].index < r.index
    BY <2>1 DEF BatchHeld
  <2>4. /\ HeldRow(pump.at, r.row, r.index) /\ r.index > slr[pump.at] /\ pump.at \in Printers
        /\ \A k \in DOMAIN queue[pump.at] : queue[pump.at][k].index < r.index
        /\ r.index \in Nat
    BY <1>1, <1>3, <2>3 DEF BatchHeld
  <2>5. HeldRow(pump.at, r.row, r.index)'
    BY <2>1, <2>4 DEF HeldRow, TakenRow, Ids
  <2>6. CASE pump.at # p
    <3>1. slr'[pump.at] = slr[pump.at] /\ queue'[pump.at] = queue[pump.at]
      BY <1>1, <2>1, <2>4, <2>6
    <3> QED
      BY <2>4, <2>5, <3>1
  <2>7. CASE pump.at = p
    <3>1. slr'[pump.at] = queue[p][1].index /\ queue'[pump.at] = Tail(queue[p])
      BY <1>1, <2>1, <2>4, <2>7
    <3>2. queue[p][1] \in Record /\ queue[p][1].index \in Nat /\ queue[p][1].index < r.index
      BY <1>1, <1>3, <2>1, <2>4, <2>7
    <3>3. r.index > slr'[pump.at]
      BY <2>4, <3>1, <3>2
    <3>4. \A k \in DOMAIN queue'[pump.at] : queue'[pump.at][k].index < r.index
      BY <2>2, <2>4, <2>7, <3>1
    <3> QED
      BY <2>5, <3>3, <3>4
  <2> QED
    BY <2>6, <2>7
<1>8. ASSUME NEW p \in Printers, StopClear(p)
      PROVE  BatchHeld'
  <2>1. pump' = pump /\ pump.pc # "send"
    BY <1>8 DEF StopClear, LabelInv, Halted, StopIdle
  <2> QED
    BY <1>6, <2>1
<1>9. CASE PumpSend
  <2>1. PICK r \in pump.batch :
           /\ \A s \in pump.batch \ {r} : r.index < s.index
           /\ queue' = queue \/ queue' = [queue EXCEPT ![pump.at] = Append(queue[pump.at], r)]
           /\ \/ pump' = [pump EXCEPT !.pc = "next", !.batch = {}]
              \/ pump' = [pump EXCEPT !.batch = pump.batch \ {r}]
    BY <1>9 DEF PumpSend, GiveUp
  <2>2. /\ pump.pc = "send" /\ pump.at \in Printers /\ r \in Record
        /\ rows' = rows /\ lastId' = lastId /\ slr' = slr
    BY <1>1, <1>9, <2>1 DEF PumpSend, shardVars
  <2>3. CASE pump' = [pump EXCEPT !.pc = "next", !.batch = {}]
    BY <1>1, <1>6, <2>3
  <2>4. CASE pump' = [pump EXCEPT !.batch = pump.batch \ {r}]
    <3>1. pump'.at = pump.at /\ pump'.batch = pump.batch \ {r}
      BY <1>1, <2>4
    <3>2. SUFFICES ASSUME NEW s \in pump.batch, s # r
                   PROVE  /\ HeldRow(pump.at, s.row, s.index)
                          /\ s.index > slr[pump.at]
                          /\ \A k \in DOMAIN queue'[pump.at] : queue'[pump.at][k].index < s.index
      BY <2>2, <3>1 DEF BatchHeld, HeldRow, TakenRow, Ids
    <3>3. /\ HeldRow(pump.at, s.row, s.index) /\ s.index > slr[pump.at] /\ r.index < s.index
          /\ \A k \in DOMAIN queue[pump.at] : queue[pump.at][k].index < s.index
      BY <1>1, <2>1, <2>2, <3>2 DEF BatchHeld
    <3>4. \A k \in DOMAIN Append(queue[pump.at], r) :
             \/ k \in DOMAIN queue[pump.at] /\ Append(queue[pump.at], r)[k] = queue[pump.at][k]
             \/ Append(queue[pump.at], r)[k] = r
      BY <1>1, <2>2
    <3>5. queue'[pump.at] \in {queue[pump.at], Append(queue[pump.at], r)}
      BY <1>1, <2>1, <2>2
    <3> QED
      BY <3>3, <3>4, <3>5
  <2> QED
    BY <2>1, <2>3, <2>4
<1>10. CASE PumpFetch
  <2> DEFINE batch == {[row |-> i, index |-> rows'[i].index] :
                          i \in Selected(Task, pump.at, pump.room)}
  <2>1. pump.pc = "fetch" /\ queue' = queue /\ slr' = slr
    BY <1>10 DEF PumpFetch, deviceVars
  <2>2. CASE pump' = [pump EXCEPT !.pc = "next"]
    BY <1>1, <1>6, <2>2
  <2>3. CASE /\ FetchAndAssignCodes(Task, pump.at, pump.room)
             /\ pump' = [pump EXCEPT !.pc = "send", !.batch = batch]
    <3>1. \A r \in batch : \E i \in Selected(Task, pump.at, pump.room) :
             r.row = i /\ r.index = rows'[i].index
      OBVIOUS
    <3>2. \A i \in Selected(Task, pump.at, pump.room) :
             /\ i \in Ids' /\ rows'[i].task = Task /\ rows'[i].printer = pump.at
             /\ rows'[i].status = "in_buffer" /\ rows'[i].index > slr[pump.at]
             /\ \A k \in DOMAIN queue[pump.at] : queue[pump.at][k].index < rows'[i].index
      BY <2>1, <2>3, FetchedAreNew DEF Ids
    <3>3. pump'.at = pump.at /\ pump'.batch = batch
      BY <1>1, <2>3
    <3> HIDE DEF batch
    <3>4. \A r \in batch :
             /\ r.row \in Ids' /\ rows'[r.row].task = Task /\ rows'[r.row].printer = pump.at
             /\ rows'[r.row].status = "in_buffer" /\ rows'[r.row].index = r.index
             /\ r.index > slr[pump.at]
             /\ \A k \in DOMAIN queue[pump.at] : queue[pump.at][k].index < r.index
      BY <3>1, <3>2
    <3> QED
      BY <2>1, <3>3, <3>4 DEF BatchHeld, HeldRow, TakenRow
  <2> QED
    BY <1>10, <2>2, <2>3 DEF PumpFetch
<1>11. CASE PumpStatus \/ PumpSpace \/ PumpExit \/ AppendStart \/ Restart
  <2>1. queue' = queue /\ slr' = slr
    BY <1>11 DEF PumpStatus, PumpSpace, PumpExit, AppendStart, Restart, deviceVars
  <2>2. pump' = pump \/ pump'.pc # "send"
    <3>1. CASE PumpStatus \/ PumpSpace
      BY <1>1, <1>2, <3>1 DEF PumpStatus, PumpSpace
    <3>2. CASE PumpExit \/ AppendStart \/ Restart
      <4>1. pump' \in {pump, NoPump, FreshPump}
        BY <3>2 DEF PumpExit, AppendStart, StartPumping, Restart
      <4> QED
        BY <1>2, <4>1
    <3> QED
      BY <1>11, <3>1, <3>2
  <2> QED
    BY <1>5, <1>6, <2>1, <2>2
<1>12. ASSUME \/ \E items \in Batches : AppendInsert(items)
              \/ AppendActivate \/ Poll \/ StopRequest \/ StopReturn
              \/ \E p \in Printers : StopPoll(p) \/ StopReconcile(p)
              \/ UNCHANGED vars
       PROVE  BatchHeld'
  <2>1. queue' = queue /\ pump' = pump /\ slr' = slr
    BY <1>12 DEF AppendInsert, AppendActivate, Poll, PollVisit, PollRead, PollMark,
                 StopRequest, StopReturn, StopPoll, StopReconcile, vars, deviceVars
  <2> QED
    BY <2>1, <1>5
<1> QED
  BY <1>7, <1>8, <1>9, <1>10, <1>11, <1>12 DEF Next, Pump, Stop

-----------------------------------------------------------------------------
(* The theorems of a line that is stopped and restarted at rest.            *)

LEMMA LabelInvInit == AtRest /\ Init => LabelInv
<1> SUFFICES ASSUME AtRest, Init
             PROVE  LabelInv
  OBVIOUS
<1>1. /\ \A p \in Printers : /\ stop[p] = "idle" /\ slr[p] = 0
                             /\ queue[p] = <<>> /\ labels[p] = <<>>
      /\ pump.pc = "none" /\ poller.pc = "visit"
  BY DEF Init, Uninterrupted, AtRest, NoPump, FreshPoller
<1>2. DOMAIN <<>> = {}
  OBVIOUS
<1> QED
  BY <1>1, <1>2
     DEF LabelInv, Halted, StopIdle, OdometerRead, PollerBehind, OdometerKnown, LabelsTaken,
         LabelsRise, QueueHeld, QueueRises, BatchHeld

LEMMA LabelInvStep ==
    ASSUME AtRest, LineInv, LabelInv, [Next]_vars
    PROVE  LabelInv'
<1>1. Halted' /\ OdometerRead' /\ PollerBehind'
  BY HandlersStayApart
<1> QED
  BY <1>1, LabelsKept, RecordsKept, BatchKept DEF LabelInv

LEMMA LabelInvariant == ASSUME AtRest PROVE Spec => []LabelInv
<1>1. Init => LabelInv
  BY LabelInvInit
<1>2. LineInv /\ LabelInv /\ [Next]_vars => LabelInv'
  BY LabelInvStep
<1> QED
  BY <1>1, <1>2, LineInvariant, PTL DEF Spec

\* No code is on two products, across stops, returns to the queue, further
\* appends, restarts, lost commands and lost replies: a labelled row is never
\* fetched again, and two labels of a printer have two indices.
THEOREM NoDoubleLabel == ASSUME AtRest PROVE Spec => []NoCodeOnTwoLabels
<1>1. LineInv /\ LabelInv => NoCodeOnTwoLabels
  <2> SUFFICES ASSUME LineInv, LabelInv, NEW p \in Printers, NEW q \in Printers,
                      NEW k \in DOMAIN labels[p], NEW l \in DOMAIN labels[q],
                      labels[p][k] = labels[q][l]
               PROVE  p = q /\ k = l
    BY DEF NoCodeOnTwoLabels
  <2>1. TakenRow(p, labels[p][k], rows[labels[p][k]].index)
        /\ TakenRow(q, labels[q][l], rows[labels[q][l]].index)
    BY DEF LabelInv, LabelsTaken
  <2>2. p = q
    BY <2>1 DEF TakenRow
  <2>3. labels[p] \in Seq(1..MaxRows) /\ rows[labels[p][k]].index \in Nat
    BY <2>1 DEF LineInv, DevicesOK, TakenRow, IInv, ShardTypeOK, Row
  <2>4. k \in Nat /\ l \in Nat /\ ~(k < l) /\ ~(l < k)
    BY <2>2, <2>3 DEF LabelInv, LabelsRise
  <2> QED
    BY <2>2, <2>4
<1> QED
  BY <1>1, LineInvariant, LabelInvariant, PTL

\* A printer applies codes in the order they were delivered.
THEOREM LabelOrder == ASSUME AtRest PROVE Spec => []LabelsInOrder
<1>1. LineInv /\ LabelInv => LabelsInOrder
  <2> SUFFICES ASSUME LineInv, LabelInv, NEW p \in Printers,
                      NEW k \in DOMAIN labels[p], NEW l \in DOMAIN labels[p], k < l
               PROVE  labels[p][k] < labels[p][l]
    BY DEF LabelsInOrder
  <2> DEFINE i == labels[p][k]
             j == labels[p][l]
  <2>1. TakenRow(p, i, rows[i].index) /\ TakenRow(p, j, rows[j].index)
    BY DEF LabelInv, LabelsTaken
  <2>2. rows[i].index < rows[j].index
    BY DEF LabelInv, LabelsRise
  <2> HIDE DEF i, j
  <2>3. /\ i \in Ids /\ j \in Ids /\ i \in Int /\ j \in Int
        /\ rows[i].task = rows[j].task /\ rows[i].printer = p /\ rows[j].printer = p
        /\ rows[i].index \in Nat /\ rows[j].index \in Nat
    BY <2>1 DEF TakenRow, LineInv, IInv, ShardTypeOK, Row, Ids
  <2>4. ~(j < i)
    BY <2>2, <2>3, ParameterAssumption DEF LineInv, IInv, Order, PrintOrder
  <2> QED
    BY <2>2, <2>3, <2>4 DEF i, j
<1> QED
  BY <1>1, LineInvariant, LabelInvariant, PTL

\* Outside the window between a stop's reconciliation and its SCB, what a
\* printer holds is what the table says it holds, under the same index.
THEOREM QueueAgrees == ASSUME AtRest PROVE Spec => []QueueMatchesTable
<1>1. LineInv /\ LabelInv => QueueMatchesTable
  <2> SUFFICES ASSUME LineInv, LabelInv
               PROVE  QueueMatchesTable
    OBVIOUS
  <2>1. \A p \in Printers : queue[p] \in Seq(Record)
    BY DEF LineInv, DevicesOK
  <2> QED
    BY <2>1 DEF LabelInv, QueueHeld, HeldRow, TakenRow, QueueMatchesTable, QueuedAt
<1> QED
  BY <1>1, LineInvariant, LabelInvariant, PTL

-----------------------------------------------------------------------------
(* The account of every code.  When every record arrives and every          *)
(* reconciliation commits, what the table calls printed is on a product and *)
(* what it calls buffered is where the table says, or on a product not yet  *)
(* reported.  Products may pass during a stop, and the queue of a printer   *)
(* may survive it: such a printer applies codes twice, and its odometer     *)
(* goes back, but every code it shows has its whole lane before it applied. *)

\* The rows of a printer, the ones before row i, and the index of row i.
LaneRows(p) == LaneOf(Task, p)
Before(p, i) == {j \in LaneRows(p) : j < i}
Place(p, i) == Rank(LaneRows(p), i)

RowsIn(records) == {r.row : r \in records}
Ahead(p, k) == {queue[p][l].row : l \in 1..(k - 1)}

\* A record of the lane, with nothing before its row but what the printer has
\* applied and what is ahead of it.
InTurn(p, r, ahead) ==
    /\ r.row \in LaneRows(p) /\ r.index = Place(p, r.row)
    /\ Before(p, r.row) \subseteq LabelledBy(p) \cup ahead

\* An odometer shows nothing, or the place of a row the printer has applied.
Shown(p, n) == n = 0 \/ \E i \in LabelledBy(p) : n = Place(p, i)

\* A printer has applied a front part of its lane.
LabelsFromFront ==
    \A p \in Printers : \A i \in LabelledBy(p) :
        i \in LaneRows(p) /\ Before(p, i) \subseteq LabelledBy(p)

QueueFollows ==
    \A p \in Printers : \A k \in DOMAIN queue[p] : InTurn(p, queue[p][k], Ahead(p, k))

BatchFollows ==
    pump.pc = "send" => \A r \in pump.batch :
        InTurn(pump.at, r, RowsIn(QueuedAt(pump.at) \cup pump.batch))

OdometersShown ==
    /\ \A p \in Printers : Shown(p, slr[p]) /\ Shown(p, odometer[p])
    /\ poller.pc = "mark" => Shown(poller.at, poller.index)

\* No row is in the buffer of a printer that a stop has reconciled, and
\* nothing is in the pump's hands between fetches.
BufferEmptied == \A p \in Printers : stop[p] = "clear" => InBuffer(Task, p) = {}
HandsEmpty == pump.pc # "send" => pump.batch = {}
Tracked == pump.pc # "none" => tracked
OneTask == \A i \in Ids : rows[i].task = Task

AccountInv ==
    /\ Halted /\ BufferEmptied /\ HandsEmpty /\ Tracked /\ OneTask
    /\ LabelsFromFront /\ QueueFollows /\ BatchFollows /\ OdometersShown
    /\ BufferedIsAccounted /\ PrintedWasApplied

-----------------------------------------------------------------------------
(* What a step does to lanes, labels, queues and the pump.                  *)

\* A stop that finds the line quiet keeps it so until it returns.
LEMMA HaltedStep ==
    ASSUME Uninterrupted, LineInv, Halted, [Next]_vars
    PROVE  Halted'
<1> USE DEF Halted, StopIdle
<1>1. /\ stop \in [Printers -> {"idle", "poll", "reconcile", "clear", "done"}]
      /\ pump \in [pc : {"none", "tick", "next", "fetch", "send", "exit"},
                   left : SUBSET Printers, at : Printers \cup {NoPrinter},
                   room : 0..MaxBatch, batch : SUBSET Record]
      /\ NoPump.pc = "none" /\ FreshPump.pc = "tick"
  BY DEF LineInv, HandlersOK, PumpOK, NoPump, FreshPump
<1>2. CASE Poll \/ (\E p \in Printers : Label(p)) \/ UNCHANGED vars
  <2>1. UNCHANGED <<stop, taskStatus, append, pump>>
    BY <1>2 DEF Poll, PollVisit, PollRead, PollMark, Label, vars, stopVars
  <2> QED
    BY <2>1
<1>3. CASE Pump
  <2>1. UNCHANGED <<stop, taskStatus, append>>
    BY <1>3 DEF Pump, PumpStatus, PumpSpace, PumpFetch, PumpSend, PumpExit, stopVars
  <2>2. ~StopIdle => pump'.pc \in {"none", "tick", "exit"}
    BY <1>1, <1>3 DEF Pump, PumpStatus, PumpSpace, PumpFetch, PumpSend, PumpExit
  <2> QED
    BY <2>1, <2>2
<1>4. CASE StopRequest
  BY <1>4 DEF StopRequest, Quiet, Uninterrupted
<1>5. ASSUME NEW p \in Printers, StopPoll(p) \/ StopReconcile(p) \/ StopClear(p)
      PROVE  Halted'
  <2>1. ~StopIdle /\ UNCHANGED <<taskStatus, append, pump>>
    BY <1>5 DEF StopPoll, StopReconcile, StopClear
  <2> QED
    BY <2>1
<1>6. CASE StopReturn \/ Restart
  BY <1>6 DEF StopReturn, Restart
<1>7. CASE (\E items \in Batches : AppendInsert(items)) \/ AppendActivate \/ AppendStart
  <2>1. StopIdle /\ stop' = stop
    BY <1>7 DEF AppendInsert, AppendActivate, AppendStart, stopVars, Uninterrupted
  <2> QED
    BY <2>1
<1> QED
  BY <1>2, <1>3, <1>4, <1>5, <1>6, <1>7 DEF Next, Stop

\* Rows stay in their lane, at their place, behind the same rows.
LEMMA LanesStay ==
    ASSUME LineInv, LineInv', [Next]_vars, NEW p \in Printers, NEW i \in LaneRows(p)
    PROVE  i \in LaneRows(p)' /\ Before(p, i)' = Before(p, i) /\ Place(p, i)' = Place(p, i)
BY ShardStep, PlacesLast DEF LineInv, IInv, LaneRows, Before, Place

\* Later rows have later places.
LEMMA PlacesRise ==
    ASSUME LineInv, NEW p \in Printers
    PROVE  /\ \A i \in LaneRows(p) : i \in Int /\ Place(p, i) \in Nat /\ Place(p, i) >= 1
           /\ \A i, j \in LaneRows(p) : i < j => Place(p, i) < Place(p, j)
<1>1. lastId \in Nat /\ LaneRows(p) \in SUBSET (1..lastId)
  BY ParameterAssumption DEF LineInv, IInv, ShardTypeOK, LaneRows, LaneOf, Ids
<1>2. \A i \in LaneRows(p) : i \in Int
  BY <1>1
<1>3. /\ \A i \in LaneRows(p) : Rank(LaneRows(p), i) \in Nat /\ Rank(LaneRows(p), i) >= 1
      /\ \A i, j \in LaneRows(p) : i < j => Rank(LaneRows(p), i) < Rank(LaneRows(p), j)
  BY <1>1, RankFacts
<1> QED
  BY <1>2, <1>3 DEF Place

\* What a label does.
LEMMA LabelMoves ==
    ASSUME LineInv, NEW p \in Printers, Label(p)
    PROVE  LET r == queue[p][1] IN
           /\ r \in Record /\ 1 \in DOMAIN queue[p]
           /\ slr' = [slr EXCEPT ![p] = r.index]
           /\ labels' = [labels EXCEPT ![p] = Append(labels[p], r.row)]
           /\ queue' = [queue EXCEPT ![p] = Tail(queue[p])]
           /\ UNCHANGED <<rows, lastId, pump, stop, odometer, poller>>
<1>1. /\ queue[p] # <<>> /\ queue[p] \in Seq(Record)
      /\ slr' = [slr EXCEPT ![p] = Head(queue[p]).index]
      /\ labels' = [labels EXCEPT ![p] = Append(labels[p], Head(queue[p]).row)]
      /\ queue' = [queue EXCEPT ![p] = Tail(queue[p])]
      /\ UNCHANGED <<rows, lastId, pump, stop, odometer, poller>>
  BY DEF Label, LineInv, DevicesOK, shardVars, stopVars
<1>2. Head(queue[p]) = queue[p][1] /\ queue[p][1] \in Record /\ 1 \in DOMAIN queue[p]
  BY <1>1
<1> QED
  BY <1>1, <1>2

\* Labels stay, and only a label adds one.
LEMMA LabelsStay ==
    ASSUME LineInv, [Next]_vars, NEW p \in Printers
    PROVE  /\ LabelledBy(p) \subseteq LabelledBy(p)'
           /\ \A i \in LabelledBy(p)' : i \in LabelledBy(p) \/ (Label(p) /\ i = queue[p][1].row)
           /\ Label(p) => queue[p][1].row \in LabelledBy(p)'
<1>1. labels \in [Printers -> Seq(1..MaxRows)]
  BY DEF LineInv, DevicesOK
<1>2. ASSUME labels'[p] = labels[p], ~Label(p)
      PROVE  LabelledBy(p)' = LabelledBy(p)
  BY <1>2 DEF LabelledBy
<1>3. ASSUME NEW q \in Printers, q # p, Label(q)
      PROVE  labels'[p] = labels[p]
  BY <1>1, <1>3, LabelMoves
<1>4. CASE Label(p)
  <2>1. PICK row : row = queue[p][1].row
    OBVIOUS
  <2>2. labels'[p] = Append(labels[p], row) /\ labels[p] \in Seq(1..MaxRows)
    BY <1>1, <1>4, <2>1, LabelMoves
  <2>3. /\ \A k \in DOMAIN labels[p] : k \in DOMAIN labels'[p] /\ labels'[p][k] = labels[p][k]
        /\ \A k \in DOMAIN labels'[p] : \/ k \in DOMAIN labels[p] /\ labels'[p][k] = labels[p][k]
                                        \/ labels'[p][k] = row
        /\ Len(labels[p]) + 1 \in DOMAIN labels'[p] /\ labels'[p][Len(labels[p]) + 1] = row
    BY <2>2
  <2> QED
    BY <1>4, <2>1, <2>3 DEF LabelledBy
<1> QED
  BY <1>2, <1>3, <1>4, LabelOrNot

\* A step touches a printer's queue or leaves the queues alone.
LEMMA QueueMoves ==
    [Next]_vars => \/ \E p \in Printers : Label(p) \/ StopClear(p)
                   \/ PumpSend
                   \/ queue' = queue
<1> SUFFICES ASSUME [Next]_vars, ~PumpSend, \A p \in Printers : ~Label(p) /\ ~StopClear(p)
             PROVE  queue' = queue
  OBVIOUS
<1>1. ASSUME \/ \E items \in Batches : AppendInsert(items)
             \/ AppendActivate \/ AppendStart \/ StopRequest \/ StopReturn \/ Restart
             \/ UNCHANGED vars
      PROVE  queue' = queue
  BY <1>1 DEF AppendInsert, AppendActivate, AppendStart, StopRequest, StopReturn, Restart,
              vars, deviceVars
<1>2. CASE Pump \/ Poll
  BY <1>2 DEF Pump, PumpStatus, PumpSpace, PumpFetch, PumpExit,
              Poll, PollVisit, PollRead, PollMark, deviceVars
<1>3. ASSUME NEW p \in Printers, StopPoll(p) \/ StopReconcile(p)
      PROVE  queue' = queue
  BY <1>3 DEF StopPoll, StopReconcile, deviceVars
<1> QED
  BY <1>1, <1>2, <1>3 DEF Next, Stop

\* A pump that is sending was sending, or has just fetched.
LEMMA SendingSince ==
    ASSUME LineInv, [Next]_vars, pump'.pc = "send"
    PROVE  \/ PumpFetch
           \/ pump.pc = "send" /\ pump'.at = pump.at /\ pump'.batch \subseteq pump.batch
<1>1. /\ pump \in [pc : {"none", "tick", "next", "fetch", "send", "exit"},
                   left : SUBSET Printers, at : Printers \cup {NoPrinter},
                   room : 0..MaxBatch, batch : SUBSET Record]
      /\ NoPump.pc = "none" /\ FreshPump.pc = "tick"
  BY DEF LineInv, PumpOK, NoPump, FreshPump
<1>2. CASE pump' = pump
  BY <1>2
<1>3. CASE PumpSend
  <2>1. PICK r \in pump.batch :
           \/ pump' = IF pump.batch \ {r} = {} THEN [pump EXCEPT !.pc = "next", !.batch = {}]
                      ELSE [pump EXCEPT !.batch = pump.batch \ {r}]
           \/ pump' = GiveUp
    BY <1>3 DEF PumpSend
  <2>2. pump' = [pump EXCEPT !.batch = pump.batch \ {r}]
    BY <1>1, <2>1 DEF GiveUp
  <2> QED
    BY <1>1, <1>3, <2>2 DEF PumpSend
<1>4. ~(PumpStatus \/ PumpSpace \/ PumpExit \/ Restart)
  <2>1. ~(PumpStatus \/ PumpExit \/ Restart)
    BY <1>1 DEF PumpStatus, PumpExit, Restart
  <2>2. ASSUME PumpSpace
        PROVE  FALSE
    <3>1. pump.pc = "next" /\ pump' # FreshPump
      BY <1>1, <2>2 DEF PumpSpace
    <3>2. ASSUME NEW p \in pump.left, NEW room,
                 \/ pump' = [pump EXCEPT !.left = @ \ {p}]
                 \/ pump' = [[pump EXCEPT !.left = @ \ {p}] EXCEPT !.pc = "fetch", !.at = p, !.room = room]
          PROVE  FALSE
      BY <1>1, <3>1, <3>2
    <3> QED
      BY <2>2, <3>1, <3>2 DEF PumpSpace
  <2> QED
    BY <2>1, <2>2
<1>5. CASE AppendStart
  BY <1>1, <1>2, <1>5 DEF AppendStart, StartPumping
<1>6. CASE \/ \E items \in Batches : AppendInsert(items)
           \/ AppendActivate \/ Poll \/ StopRequest \/ StopReturn
           \/ \E p \in Printers : StopPoll(p) \/ StopReconcile(p) \/ StopClear(p) \/ Label(p)
           \/ UNCHANGED vars
  BY <1>2, <1>6
     DEF AppendInsert, AppendActivate, Poll, PollVisit, PollRead, PollMark,
         StopRequest, StopReturn, StopPoll, StopReconcile, StopClear, Label, vars
<1> QED
  BY <1>3, <1>4, <1>5, <1>6 DEF Next, Pump, Stop

\* A record of a queue is applied or stays; only the SCB of a stop drops any.
LEMMA RecordsStay ==
    ASSUME LineInv, [Next]_vars, NEW p \in Printers, ~StopClear(p), NEW r \in QueuedAt(p)
    PROVE  r \in QueuedAt(p)' \/ r.row \in LabelledBy(p)'
<1>1. queue \in [Printers -> Seq(Record)] /\ queue[p] \in Seq(Record)
  BY DEF LineInv, DevicesOK
<1>2. PICK k \in DOMAIN queue[p] : r = queue[p][k]
  BY DEF QueuedAt
<1>3. ASSUME queue'[p] = queue[p]
      PROVE  r \in QueuedAt(p)'
  BY <1>2, <1>3 DEF QueuedAt
<1>4. ASSUME NEW q \in Printers, q # p, Label(q) \/ StopClear(q)
      PROVE  queue'[p] = queue[p]
  BY <1>1, <1>4, LabelMoves DEF StopClear, QueueCleared
<1>5. CASE Label(p)
  <2>1. CASE k = 1
    BY <1>2, <1>5, <2>1, LabelsStay
  <2>2. CASE k # 1
    <3>1. queue'[p] = Tail(queue[p])
      BY <1>1, <1>5, LabelMoves
    <3>2. k - 1 \in DOMAIN queue'[p] /\ queue'[p][k - 1] = r
      BY <1>1, <1>2, <2>2, <3>1
    <3> QED
      BY <3>2 DEF QueuedAt
  <2> QED
    BY <2>1, <2>2
<1>6. CASE PumpSend
  <2>1. PICK s \in pump.batch :
           queue' = queue \/ queue' = [queue EXCEPT ![pump.at] = Append(queue[pump.at], s)]
    BY <1>6 DEF PumpSend
  <2>2. k \in DOMAIN queue'[p] /\ queue'[p][k] = r
    <3>1. CASE queue'[p] = queue[p]
      BY <1>2, <3>1
    <3>2. CASE p = pump.at /\ queue'[p] = Append(queue[p], s)
      BY <1>1, <1>2, <3>2
    <3> QED
      BY <1>1, <2>1, <3>1, <3>2
  <2> QED
    BY <2>2 DEF QueuedAt
<1> QED
  BY <1>3, <1>4, <1>5, <1>6, QueueMoves

\* A record in the pump's hands stays there or reaches the printer.
LEMMA HandsStay ==
    ASSUME Uninterrupted, AllDelivered, LineInv, Tracked, [Next]_vars,
           NEW p \in Printers, pump.at = p, NEW r \in pump.batch, pump.pc = "send"
    PROVE  \/ pump'.pc = "send" /\ pump'.at = p /\ r \in pump'.batch
           \/ r \in QueuedAt(p)'
<1>1. /\ queue \in [Printers -> Seq(Record)] /\ r \in Record
      /\ pump \in [pc : {"none", "tick", "next", "fetch", "send", "exit"},
                   left : SUBSET Printers, at : Printers \cup {NoPrinter},
                   room : 0..MaxBatch, batch : SUBSET Record]
  BY DEF LineInv, PumpOK, DevicesOK
<1>2. CASE pump' = pump
  BY <1>2
<1>3. CASE PumpSend
  <2>1. PICK s \in pump.batch :
           /\ queue' = [queue EXCEPT ![p] = Append(queue[p], s)]
           /\ pump' = IF pump.batch \ {s} = {} THEN [pump EXCEPT !.pc = "next", !.batch = {}]
                      ELSE [pump EXCEPT !.batch = pump.batch \ {s}]
    BY <1>3 DEF PumpSend, AllDelivered
  <2>2. CASE r = s
    <3>1. queue[p] \in Seq(Record) /\ queue'[p] = Append(queue[p], r)
      BY <1>1, <2>1, <2>2
    <3>2. Len(queue[p]) + 1 \in DOMAIN queue'[p]
          /\ queue'[p][Len(queue[p]) + 1] = r
      BY <1>1, <3>1
    <3> QED
      BY <3>2 DEF QueuedAt
  <2>3. CASE r # s
    BY <1>1, <2>1, <2>3
  <2> QED
    BY <2>2, <2>3
<1>4. CASE AppendStart
  <2>1. pump' = pump
    BY <1>4 DEF AppendStart, StartPumping, Tracked
  <2> QED
    BY <1>2, <2>1
<1>5. ~(PumpStatus \/ PumpSpace \/ PumpFetch \/ PumpExit)
  BY DEF PumpStatus, PumpSpace, PumpFetch, PumpExit
<1>6. ~Restart
  BY DEF Restart, Quiet, Uninterrupted
<1>7. CASE \/ \E items \in Batches : AppendInsert(items)
           \/ AppendActivate \/ Poll \/ StopRequest \/ StopReturn
           \/ \E q \in Printers : StopPoll(q) \/ StopReconcile(q) \/ StopClear(q) \/ Label(q)
           \/ UNCHANGED vars
  <2>1. pump' = pump
    BY <1>7 DEF AppendInsert, AppendActivate, Poll, PollVisit, PollRead, PollMark,
                StopRequest, StopReturn, StopPoll, StopReconcile, StopClear, Label, vars
  <2> QED
    BY <1>2, <2>1
<1> QED
  BY <1>3, <1>4, <1>5, <1>6, <1>7 DEF Next, Pump, Stop

\* What an odometer shows lies behind labelled rows only.
LEMMA PassedIsLabelled ==
    ASSUME LineInv, PlaceInLane, LabelsFromFront, NEW p \in Printers,
           NEW n \in Int, Shown(p, n), NEW i \in InBuffer(Task, p), rows[i].index <= n
    PROVE  i \in LabelledBy(p)
<1>1. /\ i \in LaneRows(p) /\ rows[i].index = Place(p, i) /\ rows[i].index \in Nat \ {0}
  <2>1. i \in AssignedTo(Task, p) /\ rows[i].status = "in_buffer" /\ Task \in Tasks
    BY LineAssumption DEF InBuffer
  <2>2. rows[i].index \in Nat \ {0}
    BY <2>1 DEF AssignedTo, LineInv, IInv, Order, AssignmentWellFormed, ShardTypeOK, Row
  <2> QED
    BY <2>1, <2>2 DEF PlaceInLane, LaneRows, Place
<1>2. PICK k \in LabelledBy(p) : n = Place(p, k)
  BY <1>1 DEF Shown
<1>3. k \in LaneRows(p) /\ Before(p, k) \subseteq LabelledBy(p)
  BY DEF LabelsFromFront
<1>4. i \in Int /\ k \in Int /\ ~(k < i)
  BY <1>1, <1>2, <1>3, PlacesRise
<1> QED
  BY <1>1, <1>3, <1>4 DEF Before

\* Where a row in the buffer, or a printed one, comes from.
Origin(i) ==
    /\ rows'[i].task = Task
    /\ rows'[i].status = "in_buffer" =>
         \/ /\ i \in Ids /\ rows[i].status = "in_buffer"
            /\ rows'[i].printer = rows[i].printer /\ rows'[i].index = rows[i].index
         \/ /\ pump.pc = "fetch" /\ pump'.pc = "send" /\ pump'.at = pump.at
            /\ rows'[i].printer = pump.at
            /\ [row |-> i, index |-> rows'[i].index] \in pump'.batch
    /\ rows'[i].status = "printed" =>
         /\ i \in Ids /\ rows'[i].printer = rows[i].printer
         /\ \/ rows[i].status = "printed"
            \/ rows[i].status = "in_buffer" /\ i \in LabelledBy(rows[i].printer)

LEMMA RowsOrigin ==
    ASSUME LineInv, PlaceInLane, AccountInv, [Next]_vars, NEW i \in Ids'
    PROVE  Origin(i)
<1>1. /\ Task \in Tasks /\ ShardTypeOK /\ MaxRows \in Nat
      /\ \A j \in Ids : rows[j].task = Task /\ rows[j].index \in Nat
      /\ \A p \in Printers : odometer[p] \in Int
  BY LineAssumption, ParameterAssumption
     DEF LineInv, HandlersOK, IInv, AccountInv, OneTask, ShardTypeOK, Row
<1>2. ASSUME i \in Ids, rows'[i] = rows[i]
      PROVE  Origin(i)
  BY <1>1, <1>2 DEF Origin
<1>3. ASSUME UNCHANGED shardVars
      PROVE  Origin(i)
  <2>1. i \in Ids /\ rows'[i] = rows[i]
    BY <1>3 DEF shardVars, Ids
  <2> QED
    BY <1>2, <2>1
<1>4. ASSUME NEW items \in Batches, AppendInsert(items)
      PROVE  Origin(i)
  <2>1. \/ i \in Ids /\ rows'[i] = rows[i]
        \/ rows'[i] = NewRow(Task, items[i - lastId])
    BY <1>1, <1>4, AppendStep DEF AppendInsert
  <2>2. CASE rows'[i] = NewRow(Task, items[i - lastId])
    <3>1. rows'[i].task = Task /\ rows'[i].status = "pending"
      BY <2>2 DEF NewRow
    <3> QED
      BY <3>1 DEF Origin
  <2> QED
    BY <1>2, <2>1, <2>2
<1>5. CASE PumpFetch
  <2> DEFINE batch == {[row |-> j, index |-> rows'[j].index] :
                          j \in Selected(Task, pump.at, pump.room)}
  <2>1. CASE UNCHANGED shardVars
    BY <1>3, <2>1
  <2>2. CASE /\ FetchAndAssignCodes(Task, pump.at, pump.room)
             /\ pump' = [pump EXCEPT !.pc = "send", !.batch = batch]
    <3>1. /\ pump.pc = "fetch" /\ pump.at \in Printers /\ pump.room \in Limits
          /\ pump \in [pc : {"none", "tick", "next", "fetch", "send", "exit"},
                       left : SUBSET Printers, at : Printers \cup {NoPrinter},
                       room : 0..MaxBatch, batch : SUBSET Record]
      BY <1>5 DEF PumpFetch, LineInv, PumpOK
    <3>2. /\ lastId' = lastId /\ i \in Ids
          /\ \A j \in Ids \ Selected(Task, pump.at, pump.room) : rows'[j] = rows[j]
          /\ \A j \in Selected(Task, pump.at, pump.room) :
                /\ rows'[j].task = rows[j].task /\ rows'[j].status = "in_buffer"
                /\ rows'[j].printer = pump.at
      BY <1>1, <2>2, <3>1, FetchStep DEF Ids
    <3>3. CASE i \in Selected(Task, pump.at, pump.room)
      <4>1. [row |-> i, index |-> rows'[i].index] \in batch
        BY <3>3
      <4> HIDE DEF batch
      <4>2. pump'.pc = "send" /\ pump'.at = pump.at /\ pump'.batch = batch
        BY <2>2, <3>1
      <4>3. rows'[i].task = Task /\ rows'[i].status = "in_buffer" /\ rows'[i].printer = pump.at
        BY <1>1, <3>2, <3>3
      <4> QED
        BY <3>1, <4>1, <4>2, <4>3 DEF Origin
    <3> QED
      BY <1>2, <3>2, <3>3
  <2> QED
    BY <1>5, <2>1, <2>2 DEF PumpFetch
<1>6. CASE PollMark
  <2>1. /\ poller.at \in Printers /\ poller.index \in Int
        /\ MarkAsPrinted(Task, poller.at, poller.index) /\ Shown(poller.at, poller.index)
    BY <1>1, <1>6 DEF PollMark, LineInv, PollerOK, AccountInv, OdometersShown
  <2>2. /\ lastId' = lastId /\ i \in Ids /\ rows'[i].task = rows[i].task
        /\ rows'[i].printer = rows[i].printer /\ rows'[i].index = rows[i].index
        /\ rows'[i].status = IF i \in InBuffer(Task, poller.at) /\ rows[i].index <= poller.index
                             THEN "printed" ELSE rows[i].status
    BY <1>1, <2>1, MarkStep DEF Ids
  <2>3. i \in InBuffer(Task, poller.at) /\ rows[i].index <= poller.index =>
           /\ rows[i].printer = poller.at /\ rows[i].status = "in_buffer"
           /\ i \in LabelledBy(poller.at)
    BY <2>1, PassedIsLabelled DEF AccountInv, InBuffer, AssignedTo
  <2> QED
    BY <1>1, <2>2, <2>3 DEF Origin
<1>7. ASSUME NEW q \in Printers, StopReconcile(q)
      PROVE  Origin(i)
  <2>1. CASE UNCHANGED shardVars
    BY <1>3, <2>1
  <2>2. CASE Reconcile(q)
    <3>1. /\ odometer[q] \in Int /\ Shown(q, odometer[q])
          /\ ReconcileAndFinalizeTaskCodes(Task, q, odometer[q])
      BY <1>1, <2>2 DEF Reconcile, AccountInv, OdometersShown
    <3>2. CASE i \notin InBuffer(Task, q)
      <4>1. i \in Ids /\ rows'[i] = rows[i]
        BY <1>1, <3>1, <3>2, ReconcileStep DEF Ids
      <4> QED
        BY <1>2, <4>1
    <3>3. CASE i \in InBuffer(Task, q)
      <4>1. i \in Ids /\ rows[i].printer = q /\ rows[i].status = "in_buffer"
        BY <3>3 DEF InBuffer, AssignedTo
      <4>2. /\ rows'[i].task = rows[i].task
            /\ \/ rows'[i].status = "pending"
               \/ /\ rows[i].index <= odometer[q] /\ rows'[i].status = "printed"
                  /\ rows'[i].printer = rows[i].printer
        BY <1>1, <3>1, <3>3, <4>1, ReconcileStep
      <4>3. rows[i].index <= odometer[q] => i \in LabelledBy(q)
        BY <3>1, <3>3, PassedIsLabelled DEF AccountInv
      <4> QED
        BY <1>1, <4>1, <4>2, <4>3 DEF Origin
    <3> QED
      BY <3>2, <3>3
  <2> QED
    BY <1>7, <2>1, <2>2 DEF StopReconcile
<1>8. CASE \/ AppendActivate \/ AppendStart
           \/ PumpStatus \/ PumpSpace \/ PumpSend \/ PumpExit
           \/ PollVisit \/ PollRead
           \/ StopRequest \/ StopReturn \/ Restart
  <2>1. UNCHANGED shardVars
    BY <1>8
       DEF AppendActivate, AppendStart, PumpStatus, PumpSpace, PumpSend, PumpExit,
           PollVisit, PollRead, StopRequest, StopReturn, Restart
  <2> QED
    BY <1>3, <2>1
<1>9. ASSUME NEW q \in Printers, StopPoll(q) \/ StopClear(q) \/ Label(q)
      PROVE  Origin(i)
  <2>1. UNCHANGED shardVars
    BY <1>9 DEF StopPoll, StopClear, Label
  <2> QED
    BY <1>3, <2>1
<1>10. CASE UNCHANGED vars
  <2>1. UNCHANGED shardVars
    BY <1>10 DEF vars
  <2> QED
    BY <1>3, <2>1
<1> QED
  BY <1>4, <1>5, <1>6, <1>7, <1>8, <1>9, <1>10 DEF Next, Pump, Poll, Stop

\* A record stays in turn while nothing ahead of it is dropped unlabelled.
LEMMA InTurnStays ==
    ASSUME LineInv, LineInv', [Next]_vars, NEW p \in Printers, NEW r, NEW ahead, NEW still,
           InTurn(p, r, ahead), ahead \subseteq LabelledBy(p)' \cup still
    PROVE  /\ r.row \in LaneRows(p)' /\ r.index = Place(p, r.row)'
           /\ Before(p, r.row)' \subseteq LabelledBy(p)' \cup still
<1>1. PICK i : i = r.row
  OBVIOUS
<1>2. /\ i \in LaneRows(p) /\ r.index = Place(p, i)
      /\ Before(p, i) \subseteq LabelledBy(p) \cup ahead
  BY <1>1 DEF InTurn
<1>3. i \in LaneRows(p)' /\ Before(p, i)' = Before(p, i) /\ Place(p, i)' = Place(p, i)
  BY <1>2, LanesStay
<1>4. LabelledBy(p) \subseteq LabelledBy(p)'
  BY LabelsStay
<1>5. Before(p, i)' \subseteq LabelledBy(p)' \cup still
  BY <1>2, <1>3, <1>4
<1> QED
  BY <1>1, <1>2, <1>3, <1>5

\* The labels stay a front part: the head of a queue is in turn by itself.
LEMMA FrontStep ==
    ASSUME LineInv, LineInv', LabelsFromFront, QueueFollows, [Next]_vars
    PROVE  LabelsFromFront'
<1> SUFFICES ASSUME NEW p \in Printers, NEW i \in LabelledBy(p)'
             PROVE  i \in LaneRows(p)' /\ Before(p, i)' \subseteq LabelledBy(p)'
  BY DEF LabelsFromFront
<1>1. LabelledBy(p) \subseteq LabelledBy(p)'
  BY LabelsStay
<1>2. i \in LaneRows(p) /\ Before(p, i) \subseteq LabelledBy(p)
  <2>1. CASE i \in LabelledBy(p)
    BY <2>1 DEF LabelsFromFront
  <2>2. CASE Label(p) /\ i = queue[p][1].row
    <3>1. 1 \in DOMAIN queue[p] /\ Ahead(p, 1) = {}
      BY <2>2, LabelMoves DEF Ahead
    <3>2. InTurn(p, queue[p][1], {})
      BY <3>1 DEF QueueFollows
    <3> QED
      BY <2>2, <3>2 DEF InTurn
  <2> QED
    BY <2>1, <2>2, LabelsStay
<1>3. i \in LaneRows(p)' /\ Before(p, i)' = Before(p, i)
  BY <1>2, LanesStay
<1> QED
  BY <1>1, <1>2, <1>3

\* The queues stay in turn: a label takes the head, and what the pump sends
\* follows everything in the queue and everything it still holds.
LEMMA QueueStep ==
    ASSUME LineInv, LineInv', QueueFollows, BatchFollows, [Next]_vars
    PROVE  QueueFollows'
<1>1. /\ queue \in [Printers -> Seq(Record)]
      /\ \A p \in Printers : queue[p] \in Seq(Record)
  BY DEF LineInv, DevicesOK
<1> SUFFICES ASSUME NEW p \in Printers, NEW k \in DOMAIN queue'[p]
             PROVE  InTurn(p, queue[p][k], Ahead(p, k))'
  BY DEF QueueFollows
<1>2. ASSUME NEW r, r = queue'[p][k], NEW ahead, InTurn(p, r, ahead),
             ahead \subseteq LabelledBy(p)' \cup Ahead(p, k)'
      PROVE  InTurn(p, queue[p][k], Ahead(p, k))'
  <2>1. PICK still : still = Ahead(p, k)'
    OBVIOUS
  <2>2. /\ r.row \in LaneRows(p)' /\ r.index = Place(p, r.row)'
        /\ Before(p, r.row)' \subseteq LabelledBy(p)' \cup still
    BY <1>2, <2>1, InTurnStays
  <2> QED
    BY <1>2, <2>1, <2>2 DEF InTurn
<1>3. CASE queue'[p] = queue[p]
  <2>1. k \in DOMAIN queue[p] /\ Ahead(p, k)' = Ahead(p, k) /\ queue'[p][k] = queue[p][k]
    BY <1>3 DEF Ahead
  <2>2. InTurn(p, queue[p][k], Ahead(p, k))
    BY <2>1 DEF QueueFollows
  <2>3. PICK r, ahead : r = queue[p][k] /\ ahead = Ahead(p, k)
    OBVIOUS
  <2> QED
    BY <1>2, <2>1, <2>2, <2>3
<1>4. CASE Label(p)
  <2>1. queue'[p] = Tail(queue[p]) /\ queue[p] \in Seq(Record) /\ 1 \in DOMAIN queue[p]
    BY <1>1, <1>4, LabelMoves
  <2>2. /\ k \in Nat /\ k + 1 \in DOMAIN queue[p] /\ queue'[p][k] = queue[p][k + 1]
        /\ \A l \in 1..k : \/ l = 1
                           \/ l - 1 \in 1..(k - 1) /\ queue'[p][l - 1] = queue[p][l]
    BY <2>1
  <2>3. queue[p][1].row \in LabelledBy(p)'
    BY <1>4, LabelsStay
  <2>4. Ahead(p, k + 1) = {queue[p][l].row : l \in 1..k}
    BY <2>2 DEF Ahead
  <2>5. Ahead(p, k + 1) \subseteq LabelledBy(p)' \cup Ahead(p, k)'
    BY <2>2, <2>3, <2>4 DEF Ahead
  <2>6. InTurn(p, queue[p][k + 1], Ahead(p, k + 1))
    BY <2>2 DEF QueueFollows
  <2>7. PICK r, ahead : r = queue[p][k + 1] /\ ahead = Ahead(p, k + 1)
    OBVIOUS
  <2> QED
    BY <1>2, <2>2, <2>5, <2>6, <2>7
<1>5. CASE PumpSend /\ queue'[p] # queue[p]
  <2>1. /\ pump.pc = "send" /\ pump.at \in Printers /\ pump.batch \in SUBSET Record
    BY <1>5 DEF PumpSend, LineInv, PumpOK
  <2>2. PICK s \in pump.batch : /\ \A q \in pump.batch \ {s} : s.index < q.index
                                /\ queue' = [queue EXCEPT ![pump.at] = Append(queue[pump.at], s)]
    BY <1>5 DEF PumpSend
  <2>3. p = pump.at /\ queue'[p] = Append(queue[p], s) /\ queue[p] \in Seq(Record)
    BY <1>1, <1>5, <2>1, <2>2
  <2>4. /\ \A l \in DOMAIN queue[p] : queue'[p][l] = queue[p][l]
        /\ \/ k \in DOMAIN queue[p]
           \/ k = Len(queue[p]) + 1 /\ queue'[p][k] = s
    BY <2>1, <2>2, <2>3
  <2>5. CASE k \in DOMAIN queue[p]
    <3>1. Ahead(p, k)' = Ahead(p, k) /\ queue'[p][k] = queue[p][k]
      <4>1. \A l \in 1..(k - 1) : l \in DOMAIN queue[p]
        BY <2>3, <2>5
      <4> QED
        BY <2>4, <2>5, <4>1 DEF Ahead
    <3>2. InTurn(p, queue[p][k], Ahead(p, k))
      BY <2>5 DEF QueueFollows
    <3>3. PICK r, ahead : r = queue[p][k] /\ ahead = Ahead(p, k)
      OBVIOUS
    <3> QED
      BY <1>2, <3>1, <3>2, <3>3
  <2>6. CASE k = Len(queue[p]) + 1 /\ queue'[p][k] = s
    <3>1. Ahead(p, k)' = RowsIn(QueuedAt(p))
      <4>1. 1..(k - 1) = DOMAIN queue[p]
        BY <2>3, <2>6
      <4> QED
        BY <2>4, <4>1 DEF Ahead, RowsIn, QueuedAt
    <3>2. \A q \in pump.batch : InTurn(p, q, RowsIn(QueuedAt(p) \cup pump.batch))
      BY <2>1, <2>3 DEF BatchFollows
    <3>3. \A q \in pump.batch : q.row \in LaneRows(p) /\ q.index = Place(p, q.row)
      BY <3>2 DEF InTurn
    <3>4. \A q \in pump.batch : ~(q.row < s.row)
      <4>1. SUFFICES ASSUME NEW q \in pump.batch, q.row < s.row
                     PROVE  FALSE
        OBVIOUS
      <4>2. q.index \in Nat /\ s.index \in Nat /\ q.index < s.index
        BY <3>3, <4>1, PlacesRise
      <4> QED
        BY <2>2, <4>1, <4>2
    <3>5. \A j \in Before(p, s.row) : j < s.row
      BY DEF Before
    <3>6. Before(p, s.row) \subseteq LabelledBy(p) \cup RowsIn(QueuedAt(p))
      BY <3>2, <3>4, <3>5 DEF InTurn, RowsIn
    <3>7. InTurn(p, s, RowsIn(QueuedAt(p)))
      BY <3>2, <3>6 DEF InTurn
    <3>8. PICK ahead : ahead = RowsIn(QueuedAt(p))
      OBVIOUS
    <3> QED
      BY <1>2, <2>6, <3>1, <3>7, <3>8
  <2> QED
    BY <2>4, <2>5, <2>6
<1>6. CASE StopClear(p) /\ queue'[p] # queue[p]
  <2>1. queue'[p] = <<>>
    BY <1>1, <1>6 DEF StopClear, QueueCleared
  <2> QED
    BY <2>1
<1>7. ASSUME NEW q \in Printers, q # p, Label(q) \/ StopClear(q)
      PROVE  queue'[p] = queue[p]
  BY <1>1, <1>7, LabelMoves DEF StopClear, QueueCleared
<1> QED
  BY <1>3, <1>4, <1>5, <1>6, <1>7, QueueMoves

\* What a fetch hands to the pump is in turn: an earlier row of the lane is
\* handed over with it, or the printer took it before.
LEMMA FetchInTurn ==
    ASSUME LineInv, LineInv', PlaceInLane', AccountInv, PumpFetch, pump'.pc = "send"
    PROVE  BatchFollows'
<1>0. PICK p \in Printers : p = pump.at
  BY DEF PumpFetch, LineInv, PumpOK
<1> DEFINE Sel == Selected(Task, p, pump.room)
<1>1. /\ Task \in Tasks /\ ShardTypeOK /\ IInv /\ pump.at = p /\ pump.room \in Limits
      /\ pump \in [pc : {"none", "tick", "next", "fetch", "send", "exit"},
                   left : SUBSET Printers, at : Printers \cup {NoPrinter},
                   room : 0..MaxBatch, batch : SUBSET Record]
      /\ pump.pc = "fetch" /\ pump.batch = {}
  BY <1>0, LineAssumption DEF PumpFetch, LineInv, PumpOK, IInv, AccountInv, HandsEmpty
<1>2. /\ FetchAndAssignCodes(Task, p, pump.room)
      /\ pump' = [pump EXCEPT !.pc = "send",
                    !.batch = {[row |-> i, index |-> rows'[i].index] : i \in Sel}]
  BY <1>1 DEF PumpFetch
<1>3. /\ queue' = queue /\ labels' = labels /\ pump'.at = p
      /\ pump'.batch = {[row |-> i, index |-> rows'[i].index] : i \in Sel}
  BY <1>1, <1>2 DEF PumpFetch, deviceVars
<1>4. /\ lastId' = lastId
      /\ \A i \in Sel : i \in Fetchable(Task, p) /\ rows'[i].task = rows[i].task
                        /\ rows'[i].printer = p
                        /\ \A j \in Fetchable(Task, p) \ Sel : i < j
      /\ AssignedTo(Task, p)' = AssignedTo(Task, p) \cup Sel
  BY <1>1, <1>2, FetchStep, FetchAssigns
<1>5. \A j \in LaneRows(p)' : j \in LaneRows(p)
  <2>1. [ShardNext]_shardVars
    BY <1>1, <1>2 DEF ShardNext
  <2>2. \A j \in Ids : rows'[j].task = rows[j].task /\ rows'[j].ext = rows[j].ext
    BY <1>1, <2>1, RowsKeepLane
  <2> QED
    BY <1>4, <2>2 DEF LaneRows, LaneOf, InLane, Parity, Ids
<1>6. RowsIn(pump'.batch) = Sel
  <2> HIDE DEF Sel
  <2>1. ASSUME NEW i \in Sel
        PROVE  \E r \in pump'.batch : r.row = i
    <3>1. [row |-> i, index |-> rows'[i].index] \in pump'.batch
      BY <1>3
    <3>2. [row |-> i, index |-> rows'[i].index].row = i
      OBVIOUS
    <3> QED
      BY <3>1, <3>2
  <2>2. ASSUME NEW r \in pump'.batch
        PROVE  r.row \in Sel
    <3>1. PICK i \in Sel : r = [row |-> i, index |-> rows'[i].index]
      BY <1>3
    <3> QED
      BY <3>1
  <2> QED
    BY <2>1, <2>2 DEF RowsIn
<1>7. QueuedAt(p)' = QueuedAt(p) /\ LabelledBy(p)' = LabelledBy(p)
  BY <1>3 DEF QueuedAt, LabelledBy
<1> HIDE DEF Sel
<1>8. \A j \in AssignedTo(Task, p) : rows[j].status # "pending" =>
         j \in LabelledBy(p) \cup RowsIn(QueuedAt(p))
  <2>1. SUFFICES ASSUME NEW j \in AssignedTo(Task, p), rows[j].status # "pending"
                 PROVE  j \in LabelledBy(p) \cup RowsIn(QueuedAt(p))
    OBVIOUS
  <2>2. /\ j \in Ids /\ rows[j].printer = p
        /\ rows[j].status \in {"printed", "in_buffer"}
    BY <1>1, <2>1 DEF AssignedTo, ShardTypeOK, Row, Statuses
  <2>3. CASE rows[j].status = "printed"
    BY <2>2, <2>3 DEF AccountInv, PrintedWasApplied
  <2>4. CASE rows[j].status = "in_buffer"
    <3>1. PICK r : r = [row |-> j, index |-> rows[j].index]
      OBVIOUS
    <3>2. j \in LabelledBy(p) \/ r \in QueuedAt(p)
      BY <1>1, <2>2, <2>4, <3>1 DEF AccountInv, BufferedIsAccounted
    <3>3. r.row = j
      BY <3>1
    <3> QED
      BY <3>2, <3>3 DEF RowsIn
  <2> QED
    BY <2>2, <2>3, <2>4
<1>9. ASSUME NEW i \in Sel, NEW j \in Before(p, i)'
      PROVE  j \in LabelledBy(p) \cup RowsIn(QueuedAt(p)) \cup Sel
  <2>1. j \in LaneRows(p) /\ j < i /\ j \in Int /\ i \in Int
    BY <1>1, <1>4, <1>5, <1>9, ParameterAssumption
       DEF Before, LaneRows, LaneOf, Fetchable, ShardTypeOK, Ids
  <2>2. CASE j \in Fetchable(Task, p)
    <3>1. j \in Sel \/ i < j
      BY <1>4, <1>9, <2>2
    <3> QED
      BY <2>1, <3>1
  <2>3. CASE j \notin Fetchable(Task, p)
    BY <1>1, <1>8, <2>1, <2>3, TakenByLane DEF LaneRows
  <2> QED
    BY <2>2, <2>3
<1>10. \A i \in Sel : i \in LaneRows(p)' /\ rows'[i].index = Place(p, i)'
  BY <1>1, <1>4 DEF PlaceInLane, LaneRows, Place
<1>11. ASSUME NEW r \in pump'.batch
       PROVE  InTurn(pump.at, r, RowsIn(QueuedAt(pump.at) \cup pump.batch))'
  <2>1. PICK i \in Sel : r = [row |-> i, index |-> rows'[i].index]
    BY <1>3
  <2>2. r.row = i /\ r.index = rows'[i].index
    BY <2>1
  <2>3. Before(p, i)' \subseteq LabelledBy(p)' \cup RowsIn(QueuedAt(p)' \cup pump'.batch)
    BY <1>6, <1>7, <1>9 DEF RowsIn
  <2> QED
    BY <1>3, <1>10, <2>2, <2>3 DEF InTurn, RowsIn
<1> QED
  BY <1>11 DEF BatchFollows

\* What the pump holds stays in turn: a stop does not come between.
LEMMA BatchStep ==
    ASSUME Uninterrupted, AllDelivered, LineInv, LineInv', PlaceInLane', AccountInv,
           [Next]_vars
    PROVE  BatchFollows'
<1>1. CASE PumpFetch
  BY <1>1, FetchInTurn DEF BatchFollows
<1>2. CASE ~PumpFetch /\ pump'.pc = "send"
  <2>1. /\ pump.pc = "send" /\ pump'.at = pump.at /\ pump'.batch \subseteq pump.batch
        /\ pump.at \in Printers
    BY <1>2, SendingSince DEF LineInv, PumpOK
  <2>2. PICK p \in Printers : p = pump.at
    BY <2>1
  <2>3. ~StopClear(p)
    BY <2>1, <2>2 DEF StopClear, AccountInv, Halted, StopIdle
  <2>4. PICK still, ahead : /\ still = RowsIn(QueuedAt(p)' \cup pump'.batch)
                            /\ ahead = RowsIn(QueuedAt(p) \cup pump.batch)
    OBVIOUS
  <2>5. \A s \in pump.batch : s \in pump'.batch \/ s \in QueuedAt(p)'
    BY <2>1, <2>2, HandsStay DEF AccountInv
  <2>6. \A s \in QueuedAt(p) : s \in QueuedAt(p)' \/ s.row \in LabelledBy(p)'
    BY <2>3, RecordsStay
  <2>7. ahead \subseteq LabelledBy(p)' \cup still
    BY <2>4, <2>5, <2>6 DEF RowsIn
  <2>8. ASSUME NEW r \in pump'.batch
        PROVE  InTurn(pump.at, r, RowsIn(QueuedAt(pump.at) \cup pump.batch))'
    <3>1. InTurn(p, r, ahead)
      BY <2>1, <2>2, <2>4, <2>8 DEF AccountInv, BatchFollows
    <3>2. /\ r.row \in LaneRows(p)' /\ r.index = Place(p, r.row)'
          /\ Before(p, r.row)' \subseteq LabelledBy(p)' \cup still
      BY <2>7, <3>1, InTurnStays
    <3> QED
      BY <2>1, <2>2, <2>4, <3>2 DEF InTurn, RowsIn
  <2> QED
    BY <2>8 DEF BatchFollows
<1> QED
  BY <1>1, <1>2 DEF BatchFollows

\* The odometers go on showing places of labelled rows, and so does what a
\* goroutine remembers of them.
LEMMA OdometersStep ==
    ASSUME LineInv, LineInv', LabelsFromFront, QueueFollows, OdometersShown, [Next]_vars
    PROVE  OdometersShown'
<1>1. /\ slr \in [Printers -> 0..MaxRows] /\ odometer \in [Printers -> 0..MaxRows]
      /\ poller \in [pc : {"visit", "read", "mark"}, left : SUBSET Printers,
                     at : Printers \cup {NoPrinter}, index : 0..MaxRows]
      /\ poller.pc \in {"read", "mark"} => poller.at \in Printers
      /\ FreshPoller.pc = "visit"
  BY DEF LineInv, HandlersOK, DevicesOK, PollerOK, FreshPoller
\* What is shown stays shown.
<1>2. ASSUME NEW p \in Printers, NEW n, Shown(p, n)
      PROVE  n = 0 \/ \E i \in LabelledBy(p)' : n = Place(p, i)'
  <2>1. CASE n = 0
    BY <2>1
  <2>2. ASSUME NEW i \in LabelledBy(p), n = Place(p, i)
        PROVE  i \in LabelledBy(p)' /\ n = Place(p, i)'
    <3>1. i \in LaneRows(p)
      BY DEF LabelsFromFront
    <3> QED
      BY <2>2, <3>1, LanesStay, LabelsStay
  <2> QED
    BY <1>2, <2>1, <2>2 DEF Shown
<1>3. ASSUME NEW p \in Printers, NEW n, Shown(p, n), NEW m, m' = n
      PROVE  Shown(p, m)'
  BY <1>2, <1>3 DEF Shown
<1>4. \A p \in Printers : Shown(p, slr[p])'
  <2> SUFFICES ASSUME NEW p \in Printers
               PROVE  Shown(p, slr[p])'
    OBVIOUS
  <2>1. CASE slr'[p] = slr[p]
    <3>1. PICK n : n = slr[p]
      OBVIOUS
    <3>2. n = 0 \/ \E i \in LabelledBy(p)' : n = Place(p, i)'
      BY <1>2, <3>1 DEF OdometersShown
    <3> QED
      BY <2>1, <3>1, <3>2 DEF Shown
  <2>2. CASE Label(p)
    <3>1. 1 \in DOMAIN queue[p] /\ slr'[p] = queue[p][1].index
      BY <1>1, <2>2, LabelMoves
    <3>2. PICK i, n : i = queue[p][1].row /\ n = queue[p][1].index
      OBVIOUS
    <3>3. i \in LaneRows(p) /\ n = Place(p, i)
      BY <3>1, <3>2 DEF QueueFollows, InTurn
    <3>4. n = Place(p, i)' /\ i \in LabelledBy(p)'
      BY <2>2, <3>2, <3>3, LanesStay, LabelsStay
    <3> QED
      BY <3>1, <3>2, <3>4 DEF Shown
  <2>3. ASSUME NEW q \in Printers, q # p, Label(q)
        PROVE  slr'[p] = slr[p]
    BY <1>1, <2>3, LabelMoves
  <2> QED
    BY <2>1, <2>2, <2>3, LabelOrNot
<1>5. \A p \in Printers : Shown(p, odometer[p])'
  <2> SUFFICES ASSUME NEW p \in Printers
               PROVE  Shown(p, odometer[p])'
    OBVIOUS
  <2>1. odometer'[p] = odometer[p] \/ odometer'[p] = slr[p]
    <3>1. ASSUME NEW q \in Printers, StopPoll(q)
          PROVE  odometer'[p] = odometer[p] \/ odometer'[p] = slr[p]
      BY <1>1, <3>1 DEF StopPoll
    <3>2. CASE odometer' = odometer
      BY <3>2
    <3>3. CASE \/ \E items \in Batches : AppendInsert(items)
               \/ AppendActivate \/ AppendStart \/ Pump \/ Poll
               \/ StopRequest \/ StopReturn \/ Restart
               \/ \E q \in Printers : StopReconcile(q) \/ StopClear(q) \/ Label(q)
               \/ UNCHANGED vars
      <4>1. odometer' = odometer
        BY <3>3
           DEF AppendInsert, AppendActivate, AppendStart, Pump, PumpStatus, PumpSpace,
               PumpFetch, PumpSend, PumpExit, Poll, PollVisit, PollRead, PollMark,
               StopRequest, StopReturn, Restart, StopReconcile, StopClear, Label, vars, stopVars
      <4> QED
        BY <3>2, <4>1
    <3> QED
      BY <3>1, <3>3 DEF Next, Stop
  <2>2. PICK n : n = odometer'[p] /\ Shown(p, n)
    BY <2>1 DEF OdometersShown
  <2>3. n = 0 \/ \E i \in LabelledBy(p)' : n = Place(p, i)'
    BY <1>2, <2>2
  <2> QED
    BY <2>2, <2>3 DEF Shown
<1>6. poller'.pc = "mark" => Shown(poller.at, poller.index)'
  <2> SUFFICES ASSUME poller'.pc = "mark"
               PROVE  Shown(poller.at, poller.index)'
    OBVIOUS
  <2>1. \/ poller' = poller
        \/ /\ poller.pc = "read" /\ poller'.at = poller.at
           /\ poller'.index = slr[poller.at]
    <3>1. CASE PollRead
      BY <1>1, <3>1 DEF PollRead
    <3>2. ~(PollVisit \/ PollMark \/ Restart)
      BY <1>1 DEF PollVisit, PollMark, Restart
    <3>3. CASE \/ \E items \in Batches : AppendInsert(items)
               \/ AppendActivate \/ AppendStart \/ Pump
               \/ StopRequest \/ StopReturn
               \/ \E q \in Printers : StopPoll(q) \/ StopReconcile(q) \/ StopClear(q) \/ Label(q)
               \/ UNCHANGED vars
      BY <3>3
         DEF AppendInsert, AppendActivate, AppendStart, Pump, PumpStatus, PumpSpace,
             PumpFetch, PumpSend, PumpExit, StopRequest, StopReturn, StopPoll, StopReconcile,
             StopClear, Label, vars
    <3> QED
      BY <3>1, <3>2, <3>3 DEF Next, Poll, Stop
  <2>2. PICK p \in Printers : p = poller.at /\ p = poller'.at
    BY <1>1, <2>1
  <2>3. PICK n : n = poller'.index /\ Shown(p, n)
    BY <1>1, <2>1, <2>2 DEF OdometersShown
  <2>4. n = 0 \/ \E i \in LabelledBy(p)' : n = Place(p, i)'
    BY <1>2, <2>3
  <2> QED
    BY <2>2, <2>3, <2>4 DEF Shown
<1> QED
  BY <1>4, <1>5, <1>6 DEF OdometersShown

\* The pump has nothing in hand but what it is sending, and is tracked.
LEMMA HandsStep ==
    ASSUME LineInv, HandsEmpty, Tracked, [Next]_vars
    PROVE  HandsEmpty' /\ Tracked'
<1> USE DEF HandsEmpty, Tracked
<1>1. /\ pump \in [pc : {"none", "tick", "next", "fetch", "send", "exit"},
                   left : SUBSET Printers, at : Printers \cup {NoPrinter},
                   room : 0..MaxBatch, batch : SUBSET Record]
      /\ NoPump.pc = "none" /\ NoPump.batch = {}
      /\ FreshPump.pc = "tick" /\ FreshPump.batch = {}
  BY DEF LineInv, PumpOK, NoPump, FreshPump
<1>2. CASE PumpStatus \/ PumpSpace \/ PumpFetch
  <2>1. /\ pump.pc \in {"tick", "next", "fetch"} /\ tracked' = tracked /\ pump.batch = {}
    BY <1>2 DEF PumpStatus, PumpSpace, PumpFetch
  <2>2. CASE PumpStatus \/ PumpFetch
    <3>1. pump'.pc = "send" \/ pump'.batch = {}
      BY <1>1, <2>1, <2>2 DEF PumpStatus, PumpFetch
    <3> QED
      BY <2>1, <3>1
  <2>3. CASE PumpSpace
    <3>1. CASE pump' = FreshPump
      BY <1>1, <2>1, <3>1
    <3>2. ASSUME NEW p \in pump.left, NEW room,
                 \/ pump' = [pump EXCEPT !.left = @ \ {p}]
                 \/ pump' = [[pump EXCEPT !.left = @ \ {p}] EXCEPT !.pc = "fetch", !.at = p, !.room = room]
          PROVE  pump'.batch = {}
      BY <1>1, <2>1, <3>2
    <3>3. pump' = FreshPump \/ pump'.batch = {}
      BY <2>3, <3>2 DEF PumpSpace
    <3> QED
      BY <2>1, <3>1, <3>3
  <2> QED
    BY <1>2, <2>2, <2>3
<1>3. CASE PumpSend
  BY <1>1, <1>3 DEF PumpSend, GiveUp
<1>4. CASE PumpExit \/ AppendStart \/ Restart
  <2>1. \/ pump' = pump /\ tracked' = tracked
        \/ pump' = NoPump
        \/ pump' = FreshPump /\ tracked'
    BY <1>4 DEF PumpExit, AppendStart, StartPumping, Restart
  <2> QED
    BY <1>1, <2>1
<1>5. CASE \/ \E items \in Batches : AppendInsert(items)
           \/ AppendActivate \/ Poll \/ StopRequest \/ StopReturn
           \/ \E p \in Printers : StopPoll(p) \/ StopReconcile(p) \/ StopClear(p) \/ Label(p)
           \/ UNCHANGED vars
  <2>1. pump' = pump /\ tracked' = tracked
    BY <1>5 DEF AppendInsert, AppendActivate, Poll, PollVisit, PollRead, PollMark,
                StopRequest, StopReturn, StopPoll, StopReconcile, StopClear, Label, vars
  <2> QED
    BY <2>1
<1> QED
  BY <1>2, <1>3, <1>4, <1>5 DEF Next, Pump, Stop

\* A reconciliation leaves nothing in the buffer, and until SCB nothing comes.
LEMMA EmptiedStep ==
    ASSUME AllDelivered, LineInv, PlaceInLane, AccountInv, Halted', [Next]_vars
    PROVE  BufferEmptied'
<1>1. /\ stop \in [Printers -> {"idle", "poll", "reconcile", "clear", "done"}]
      /\ BufferEmptied /\ ShardTypeOK /\ Task \in Tasks /\ 0..MaxRows \subseteq Int
  BY LineAssumption, ParameterAssumption DEF LineInv, HandlersOK, AccountInv, IInv
<1>2. SUFFICES ASSUME NEW p \in Printers, stop'[p] = "clear", NEW i \in Ids',
                      rows'[i].status = "in_buffer", rows'[i].printer = p
               PROVE  FALSE
  BY DEF BufferEmptied, InBuffer, AssignedTo
<1>3. pump'.pc # "send"
  BY <1>2 DEF Halted, StopIdle
<1>4. i \in Ids /\ rows[i].status = "in_buffer" /\ rows[i].printer = p /\ rows[i].task = Task
  BY <1>2, <1>3, RowsOrigin DEF Origin, AccountInv, OneTask
<1>5. i \in InBuffer(Task, p) /\ stop[p] # "clear"
  BY <1>1, <1>4 DEF InBuffer, AssignedTo, BufferEmptied
<1>6. StopReconcile(p)
  <2>1. ASSUME NEW q \in Printers, q # p, StopPoll(q) \/ StopReconcile(q) \/ StopClear(q)
        PROVE  FALSE
    BY <1>1, <1>2, <1>5, <2>1 DEF StopPoll, StopReconcile, StopClear
  <2>2. ~(StopPoll(p) \/ StopClear(p) \/ StopRequest \/ StopReturn \/ Restart)
    BY <1>1, <1>2, <1>5 DEF StopPoll, StopClear, StopRequest, StopReturn, Restart
  <2>3. ASSUME \/ \E items \in Batches : AppendInsert(items)
               \/ AppendActivate \/ AppendStart \/ Poll \/ Pump
               \/ \E q \in Printers : Label(q)
               \/ UNCHANGED vars
        PROVE  FALSE
    <3>1. stop' = stop
      BY <2>3 DEF AppendInsert, AppendActivate, AppendStart, Poll, PollVisit, PollRead, PollMark,
                  Pump, PumpStatus, PumpSpace, PumpFetch, PumpSend, PumpExit, Label, vars, stopVars
    <3> QED
      BY <1>2, <1>5, <3>1
  <2> QED
    BY <2>1, <2>2, <2>3 DEF Next, Stop
<1>7. odometer[p] \in Int /\ ReconcileAndFinalizeTaskCodes(Task, p, odometer[p])
  BY <1>1, <1>6 DEF StopReconcile, Reconcile, LineInv, HandlersOK, AllDelivered
<1>8. rows'[i].status \in {"printed", "pending"}
  BY <1>1, <1>5, <1>7, ReconcileStep
<1> QED
  BY <1>2, <1>8

\* The account balances: a buffered row is in hand, in a queue or labelled.
LEMMA BufferedStep ==
    ASSUME Uninterrupted, AllDelivered, LineInv, PlaceInLane, AccountInv, [Next]_vars
    PROVE  BufferedIsAccounted'
<1>1. \A i \in Ids' : Origin(i)
  BY RowsOrigin
<1>2. BufferEmptied /\ HandsEmpty /\ Tracked /\ BufferedIsAccounted /\ OneTask
  BY DEF AccountInv
<1>3. SUFFICES ASSUME NEW i \in Ids', rows'[i].status = "in_buffer",
                      NEW p, p = rows'[i].printer, NEW r, r = [row |-> i, index |-> rows'[i].index]
               PROVE  \/ i \in LabelledBy(p)'
                      \/ r \in QueuedAt(p)'
                      \/ pump'.at = p /\ r \in pump'.batch
  BY DEF BufferedIsAccounted
<1>4. CASE ~(/\ i \in Ids /\ rows[i].status = "in_buffer"
             /\ rows'[i].printer = rows[i].printer /\ rows'[i].index = rows[i].index)
  BY <1>1, <1>3, <1>4 DEF Origin
<1>5. CASE /\ i \in Ids /\ rows[i].status = "in_buffer"
           /\ rows'[i].printer = rows[i].printer /\ rows'[i].index = rows[i].index
  <2>1. /\ p \in Printers /\ rows[i].printer = p /\ rows[i].task = Task
        /\ r = [row |-> i, index |-> rows[i].index] /\ r.row = i
    BY <1>2, <1>3, <1>5, ParameterAssumption
       DEF LineInv, IInv, Order, AssignmentWellFormed, ShardTypeOK, Row, OneTask
  <2>2. \/ i \in LabelledBy(p)
        \/ r \in QueuedAt(p)
        \/ pump.at = p /\ r \in pump.batch
    BY <1>2, <1>5, <2>1 DEF BufferedIsAccounted
  <2>3. CASE i \in LabelledBy(p)
    BY <2>1, <2>3, LabelsStay
  <2>4. CASE r \in QueuedAt(p)
    <3>1. ~StopClear(p)
      BY <1>2, <1>5, <2>1 DEF StopClear, BufferEmptied, InBuffer, AssignedTo
    <3> QED
      BY <2>1, <2>4, <3>1, RecordsStay
  <2>5. CASE pump.at = p /\ r \in pump.batch
    <3>1. pump.pc = "send"
      BY <1>2, <2>5 DEF HandsEmpty
    <3> QED
      BY <1>2, <2>1, <2>5, <3>1, HandsStay
  <2> QED
    BY <2>2, <2>3, <2>4, <2>5
<1> QED
  BY <1>4, <1>5

\* A row is called printed when it was, or once its label is on a product.
LEMMA PrintedStep ==
    ASSUME LineInv, PlaceInLane, AccountInv, [Next]_vars
    PROVE  PrintedWasApplied'
<1>1. SUFFICES ASSUME NEW i \in Ids', rows'[i].status = "printed",
                      NEW p, p = rows'[i].printer
               PROVE  i \in LabelledBy(p)'
  BY DEF PrintedWasApplied
<1>2. /\ i \in Ids /\ rows[i].printer = p
      /\ \/ rows[i].status = "printed"
         \/ rows[i].status = "in_buffer" /\ i \in LabelledBy(p)
  BY <1>1, RowsOrigin DEF Origin
<1>3. i \in LabelledBy(p)
  BY <1>2 DEF AccountInv, PrintedWasApplied
<1>4. p \in Printers
  BY <1>2, ParameterAssumption
     DEF LineInv, IInv, Order, AssignmentWellFormed, ShardTypeOK, Row
<1> QED
  BY <1>3, <1>4, LabelsStay

\* Places hold on the line: its steps are the shard's.
LEMMA LinePlaces == Spec => []PlaceInLane
BY LineImplementsShard, IndexIsPlace, PTL DEF ImplementsShard

LEMMA AccountInit == Uninterrupted /\ Init => AccountInv
<1> SUFFICES ASSUME Uninterrupted, Init
             PROVE  AccountInv
  OBVIOUS
<1>1. /\ Ids = {} /\ pump = NoPump /\ StopIdle /\ poller = FreshPoller
      /\ \A p \in Printers : /\ queue[p] = <<>> /\ labels[p] = <<>>
                             /\ slr[p] = 0 /\ odometer[p] = 0 /\ stop[p] = "idle"
  BY DEF Init, Uninterrupted, ShardInit, Ids, StopIdle
<1>2. NoPump.pc = "none" /\ NoPump.batch = {} /\ FreshPoller.pc = "visit"
  BY DEF NoPump, FreshPoller
<1>3. Halted /\ BufferEmptied /\ HandsEmpty /\ Tracked /\ OneTask
  BY <1>1, <1>2 DEF Halted, BufferEmptied, HandsEmpty, Tracked, OneTask
<1>4. LabelsFromFront /\ QueueFollows /\ BatchFollows /\ OdometersShown
  BY <1>1, <1>2
     DEF LabelsFromFront, LabelledBy, QueueFollows, BatchFollows, OdometersShown, Shown
<1>5. BufferedIsAccounted /\ PrintedWasApplied
  BY <1>1 DEF BufferedIsAccounted, PrintedWasApplied
<1> QED
  BY <1>3, <1>4, <1>5 DEF AccountInv

LEMMA AccountStep ==
    ASSUME Uninterrupted, AllDelivered, LineInv, LineInv', PlaceInLane, PlaceInLane',
           AccountInv, [Next]_vars
    PROVE  AccountInv'
<1>1. Halted'
  BY HaltedStep DEF AccountInv
<1>2. BufferEmptied' /\ HandsEmpty' /\ Tracked'
  BY <1>1, EmptiedStep, HandsStep DEF AccountInv
<1>3. OneTask'
  BY RowsOrigin DEF OneTask, Origin
<1>4. LabelsFromFront' /\ QueueFollows' /\ BatchFollows' /\ OdometersShown'
  BY FrontStep, QueueStep, BatchStep, OdometersStep DEF AccountInv
<1>5. BufferedIsAccounted' /\ PrintedWasApplied'
  BY BufferedStep, PrintedStep
<1> QED
  BY <1>1, <1>2, <1>3, <1>4, <1>5 DEF AccountInv

LEMMA AccountInvariant == ASSUME Uninterrupted, AllDelivered PROVE Spec => []AccountInv
<1>1. Init => AccountInv
  BY AccountInit
<1>2. /\ LineInv /\ LineInv' /\ PlaceInLane /\ PlaceInLane' /\ AccountInv /\ [Next]_vars
      => AccountInv'
  BY AccountStep
<1> QED
  BY <1>1, <1>2, LineInvariant, LinePlaces, PTL DEF Spec

\* The point of the gateway: a code is reported printed only when its label
\* is on a product, across polls, stops, returns to the queue and restarts.
THEOREM PrintedIsApplied == ASSUME Uninterrupted, AllDelivered PROVE Spec => []PrintedWasApplied
<1>1. AccountInv => PrintedWasApplied
  BY DEF AccountInv
<1> QED
  BY <1>1, AccountInvariant, PTL

\* No code is lost in the buffer: the pump has it, its printer has it, or it
\* is on a product.
THEOREM BufferIsAccounted == ASSUME Uninterrupted, AllDelivered PROVE Spec => []BufferedIsAccounted
<1>1. AccountInv => BufferedIsAccounted
  BY DEF AccountInv
<1> QED
  BY <1>1, AccountInvariant, PTL

\* No code is skipped: when a code is on a product, so is every code that was
\* delivered before it for the same printer, although a stop returned them to
\* the queue in between.
THEOREM NoneSkipped == ASSUME Uninterrupted, AllDelivered PROVE Spec => []LabelsFromFront
<1>1. AccountInv => LabelsFromFront
  BY DEF AccountInv
<1> QED
  BY <1>1, AccountInvariant, PTL

-----------------------------------------------------------------------------
(* How often a code may be applied when products pass during a stop and its *)
(* clear may fail: each stop costs a printer as many labels as its queue    *)
(* takes.  A lane is three numbers (LaneCounts), an index is a place in it. *)

\* What printer p has taken and what it has confirmed.
Taken(p) == Cardinality(AssignedTo(Task, p))
Done(p) == Cardinality(Confirmed(Task, p))

\* What the pump holds for p, and up to which index it has sent.
InHand(p) == IF pump.at = p THEN pump.batch ELSE {}
Sent(p) == Taken(p) - Cardinality(InHand(p))

\* The records of what p has to confirm end its queue, one after another, or
\* have left it.
TailSent ==
    \A p \in Printers : \A x \in (Done(p) + 1)..Sent(p) :
        IF Sent(p) - x < Len(queue[p])
        THEN queue[p][Len(queue[p]) - (Sent(p) - x)].index = x
        ELSE x <= slr[p]

\* The pump holds what was taken last.
HandLast ==
    pump.pc = "send" =>
        {r.index : r \in pump.batch} = (Sent(pump.at) + 1)..Taken(pump.at)

\* A stop that has read the odometer returns no more than a queue takes.
FewReturned ==
    \A p \in Printers : stop[p] = "reconcile" =>
        Taken(p) <= odometer[p] + Capacity \/ Taken(p) <= Done(p) + Capacity

\* What p has applied, holds and is about to be given, and what that may
\* exceed its lane by: a stop counts once it has reconciled.
Spent(p) == Len(labels[p]) + Len(queue[p]) + Cardinality(InHand(p))
Owing(p) == (IF stop[p] \in {"poll", "reconcile"} THEN stops - 1 ELSE stops) * Capacity
WithinRights == \A p \in Printers : Spent(p) <= Taken(p) + Owing(p)

DoubtInv == TailSent /\ HandLast /\ FewReturned /\ WithinRights

\* A printer applies codes again at most as often as its queue takes, for
\* each stop.
DoubleLabelsBounded ==
    \A p \in Printers : Len(labels[p]) <= Cardinality(LabelledBy(p)) + stops * Capacity

\* The invariants this rests on.
Ground == LineInv /\ NoGap /\ IndexesContiguous /\ RoomInv /\ AccountInv

-----------------------------------------------------------------------------
LEMMA CountsAre ==
    ASSUME Ground, NEW p \in Printers
    PROVE  /\ Taken(p) \in Nat /\ Done(p) \in Nat /\ Done(p) <= Taken(p)
           /\ IsFiniteSet(AssignedTo(Task, p))
           /\ IsFiniteSet(InHand(p)) /\ Cardinality(InHand(p)) \in Nat
           /\ Len(queue[p]) \in Nat /\ Len(queue[p]) <= Capacity /\ Len(labels[p]) \in Nat
           /\ slr[p] \in Nat /\ odometer[p] \in Nat
<1>1. IInv /\ NoGap /\ Task \in Tasks /\ MaxRows \in Nat
  BY LineAssumption, ParameterAssumption DEF Ground, LineInv
<1>2. /\ IsFiniteSet(AssignedTo(Task, p)) /\ Taken(p) \in Nat /\ Done(p) \in 0..Taken(p)
  BY <1>1, LaneFacts DEF Taken, Done
<1>3. IsFiniteSet(InHand(p))
  BY FS_EmptySet DEF Ground, RoomInv, AccountInv, HandsEmpty, InHand
<1>4. Cardinality(InHand(p)) \in Nat
  BY <1>3, FS_CardinalityType
<1>5. /\ queue[p] \in Seq(Record) /\ labels[p] \in Seq(1..MaxRows)
      /\ slr[p] \in 0..MaxRows /\ odometer[p] \in 0..MaxRows
      /\ Len(queue[p]) <= Capacity
  BY DEF Ground, LineInv, DevicesOK, HandlersOK, RoomInv, NeverOverfilled
<1>6. Len(queue[p]) \in Nat /\ Len(labels[p]) \in Nat
  BY <1>5
<1> QED
  BY <1>1, <1>2, <1>3, <1>4, <1>5, <1>6

\* What a step does to the two numbers of a printer's lane.
LEMMA CountsStep ==
    ASSUME AllDelivered, Ground, Ground', [Next]_vars, NEW p \in Printers
    PROVE  \/ PumpFetch /\ pump.at = p /\ FetchAndAssignCodes(Task, p, pump.room)
           \/ StopReconcile(p) /\ Reconcile(p)
           \/ Taken(p)' = Taken(p) /\ Done(p)' >= Done(p)
<1>1. /\ IInv /\ NoGap /\ IInv' /\ NoGap' /\ Task \in Tasks
      /\ Taken(p) \in Nat /\ Done(p) \in Nat /\ Done(p) <= Taken(p)
  BY LineAssumption, CountsAre DEF Ground, LineInv
<1>2. ASSUME UNCHANGED Lane(Task, p)!laneVars
      PROVE  Taken(p)' = Taken(p) /\ Done(p)' >= Done(p)
  BY <1>1, <1>2 DEF Lane!laneVars, Taken, Done
<1>3. ASSUME UNCHANGED shardVars
      PROVE  Taken(p)' = Taken(p) /\ Done(p)' >= Done(p)
  <2>1. AssignedTo(Task, p)' = AssignedTo(Task, p) /\ Confirmed(Task, p)' = Confirmed(Task, p)
    BY <1>3 DEF shardVars, AssignedTo, Confirmed, Ids
  <2> QED
    BY <1>1, <2>1 DEF Taken, Done
<1>4. ASSUME NEW items \in Batches, AppendInsert(items)
      PROVE  Taken(p)' = Taken(p) /\ Done(p)' >= Done(p)
  <2>1. Lane(Task, p)!Deliver
    BY <1>1, <1>4, AppendDelivers DEF AppendInsert
  <2> QED
    BY <1>1, <2>1 DEF Lane!Deliver, Taken, Done
<1>5. CASE PumpFetch
  <2>1. pump.at \in Printers /\ pump.room \in Limits
    BY <1>5 DEF PumpFetch, Ground, LineInv, PumpOK
  <2>2. CASE FetchAndAssignCodes(Task, pump.at, pump.room) /\ pump.at # p
    BY <1>1, <1>2, <2>1, <2>2, FetchTakes DEF OthersRest
  <2> QED
    BY <1>3, <1>5, <2>2 DEF PumpFetch
<1>6. CASE PollMark
  <2>1. poller.at \in Printers /\ poller.index \in Nat /\ MarkAsPrinted(Task, poller.at, poller.index)
    BY <1>6, ParameterAssumption DEF PollMark, Ground, LineInv, PollerOK
  <2>2. Lane(Task, poller.at)!Mark(poller.index) /\ OthersRest(Task, poller.at)
    BY <1>1, <2>1, MarkMarks
  <2>3. CASE poller.at = p
    <3>1. PICK n \in Nat : Lane(Task, p)!Mark(n)
      BY <2>1, <2>2, <2>3
    <3>2. /\ Taken(p)' = Taken(p)
          /\ Done(p)' = IF n <= Done(p) THEN Done(p) ELSE IF n < Taken(p) THEN n ELSE Taken(p)
      BY <3>1 DEF Lane!Mark, Lane!UpTo, Taken, Done
    <3> QED
      BY <1>1, <3>2
  <2>4. CASE poller.at # p
    BY <1>1, <1>2, <2>2, <2>4 DEF OthersRest
  <2> QED
    BY <2>3, <2>4
<1>7. ASSUME NEW q \in Printers, StopReconcile(q)
      PROVE  \/ q = p /\ Reconcile(p)
             \/ Taken(p)' = Taken(p) /\ Done(p)' >= Done(p)
  <2>1. odometer[q] \in Nat /\ ReconcileAndFinalizeTaskCodes(Task, q, odometer[q])
    BY <1>7, CountsAre DEF StopReconcile, Reconcile, AllDelivered
  <2>2. OthersRest(Task, q)
    BY <1>1, <2>1, ReconcileReturns
  <2>3. CASE q # p
    BY <1>1, <1>2, <2>2, <2>3 DEF OthersRest
  <2> QED
    BY <2>1, <2>3 DEF Reconcile
<1>8. ASSUME \/ AppendActivate \/ AppendStart \/ PumpStatus \/ PumpSpace \/ PumpSend \/ PumpExit
             \/ PollVisit \/ PollRead \/ StopRequest \/ StopReturn \/ Restart
             \/ \E q \in Printers : StopPoll(q) \/ StopClear(q) \/ Label(q)
             \/ UNCHANGED vars
      PROVE  Taken(p)' = Taken(p) /\ Done(p)' >= Done(p)
  <2>1. UNCHANGED shardVars
    BY <1>8 DEF AppendActivate, AppendStart, PumpStatus, PumpSpace, PumpSend, PumpExit, PollVisit,
                PollRead, StopRequest, StopReturn, Restart, StopPoll, StopClear, Label, vars
  <2> QED
    BY <1>3, <2>1
<1> QED
  BY <1>4, <1>5, <1>6, <1>7, <1>8 DEF Next, Pump, Poll, Stop

\* Where the stop of a printer goes.
LEMMA StopMoves ==
    ASSUME Uninterrupted, Ground, [Next]_vars, NEW p \in Printers
    PROVE  \/ stop'[p] = stop[p] /\ odometer'[p] = odometer[p] /\ stops' = stops
           \/ stop[p] = "idle" /\ stop'[p] = "poll" /\ stops' = stops + 1
           \/ stop[p] = "poll" /\ stops' = stops /\ StopPoll(p)
              /\ \/ stop'[p] = "reconcile" /\ odometer'[p] = slr[p]
                 \/ stop'[p] = "done"
           \/ stop[p] = "reconcile" /\ stop'[p] = "clear" /\ stops' = stops /\ StopReconcile(p)
           \/ stop[p] \in {"clear", "done"} /\ stop'[p] \in {"done", "idle"} /\ stops' = stops
<1>1. /\ stop \in [Printers -> {"idle", "poll", "reconcile", "clear", "done"}]
      /\ odometer \in [Printers -> 0..MaxRows]
  BY DEF Ground, LineInv, HandlersOK
<1>2. CASE StopRequest
  BY <1>1, <1>2 DEF StopRequest, StopIdle
<1>3. CASE StopReturn
  BY <1>1, <1>3 DEF StopReturn, bounds
<1>4. CASE Restart
  BY <1>1, <1>4 DEF Restart, Uninterrupted, Quiet, StopIdle
<1>5. ASSUME NEW q \in Printers, StopPoll(q)
      PROVE  \/ stop'[p] = stop[p] /\ odometer'[p] = odometer[p] /\ stops' = stops
             \/ stop[p] = "poll" /\ stops' = stops /\ StopPoll(p)
                /\ \/ stop'[p] = "reconcile" /\ odometer'[p] = slr[p]
                   \/ stop'[p] = "done"
  <2>1. stops' = stops /\ stop[q] = "poll"
    BY <1>5 DEF StopPoll, bounds
  <2>2. \/ /\ odometer' = [odometer EXCEPT ![q] = slr[q]]
           /\ stop' = [stop EXCEPT ![q] = "reconcile"]
        \/ stop' = [stop EXCEPT ![q] = "done"] /\ odometer' = odometer
    BY <1>5 DEF StopPoll
  <2>3. CASE q # p
    BY <1>1, <2>1, <2>2, <2>3
  <2>4. CASE q = p
    <3>1. StopPoll(p)
      BY <1>5, <2>4
    <3> QED
      BY <1>1, <2>1, <2>2, <2>4, <3>1
  <2> QED
    BY <2>3, <2>4
<1>6. ASSUME NEW q \in Printers, StopReconcile(q)
      PROVE  \/ stop'[p] = stop[p] /\ odometer'[p] = odometer[p] /\ stops' = stops
             \/ stop[p] = "reconcile" /\ stop'[p] = "clear" /\ stops' = stops /\ StopReconcile(p)
  <2>1. /\ stops' = stops /\ odometer' = odometer /\ stop[q] = "reconcile"
        /\ stop' = [stop EXCEPT ![q] = "clear"]
    BY <1>6 DEF StopReconcile, bounds
  <2> QED
    BY <1>1, <1>6, <2>1
<1>7. ASSUME NEW q \in Printers, StopClear(q)
      PROVE  \/ stop'[p] = stop[p] /\ odometer'[p] = odometer[p] /\ stops' = stops
             \/ stop[p] = "clear" /\ stop'[p] = "done" /\ stops' = stops
  <2>1. /\ stops' = stops /\ odometer' = odometer /\ stop[q] = "clear"
        /\ stop' = [stop EXCEPT ![q] = "done"]
    BY <1>7 DEF StopClear, bounds
  <2> QED
    BY <1>1, <2>1
<1>8. ASSUME \/ \E items \in Batches : AppendInsert(items)
             \/ AppendActivate \/ AppendStart \/ Pump \/ Poll
             \/ \E q \in Printers : Label(q)
             \/ UNCHANGED vars
      PROVE  stop'[p] = stop[p] /\ odometer'[p] = odometer[p] /\ stops' = stops
  BY <1>8 DEF AppendInsert, AppendActivate, AppendStart, Pump, PumpStatus, PumpSpace, PumpFetch,
              PumpSend, PumpExit, Poll, PollVisit, PollRead, PollMark, Label, vars, stopVars, bounds
<1> QED
  BY <1>2, <1>3, <1>4, <1>5, <1>6, <1>7, <1>8 DEF Next, Stop

\* What a printer may exceed its lane by never shrinks.
LEMMA OwingStep ==
    ASSUME Uninterrupted, Ground, [Next]_vars, NEW p \in Printers
    PROVE  /\ Owing(p) \in Int /\ Owing(p)' \in Int /\ Owing(p) <= Owing(p)'
           /\ StopReconcile(p) => Owing(p)' = Owing(p) + Capacity
<1>1. stops \in Nat /\ Capacity \in Nat
  BY LineAssumption DEF Ground, LineInv, HandlersOK
<1>2. \A n \in Int : n * Capacity \in Int
  BY <1>1
<1>3. \A n \in Int : (n + 1) * Capacity = n * Capacity + Capacity
  BY <1>1
<1>4. /\ (stops - 1) * Capacity \in Int /\ stops * Capacity \in Int
      /\ (stops + 1) * Capacity \in Int
      /\ stops * Capacity = (stops - 1) * Capacity + Capacity
  <2>1. stops - 1 \in Int /\ stops + 1 \in Int /\ (stops - 1) + 1 = stops
    BY <1>1
  <2> QED
    BY <1>1, <1>2, <1>3, <2>1
<1> DEFINE less == (stops - 1) * Capacity
           full == stops * Capacity
<1>5. Owing(p) = IF stop[p] \in {"poll", "reconcile"} THEN less ELSE full
  BY DEF Owing
<1>6. CASE stops' = stops
  <2>1. Owing(p)' = IF stop'[p] \in {"poll", "reconcile"} THEN less ELSE full
    BY <1>6 DEF Owing
  <2>2. less \in Int /\ full \in Int /\ full = less + Capacity
    BY <1>4
  <2>3. /\ stop[p] \notin {"poll", "reconcile"} => stop'[p] \notin {"poll", "reconcile"}
        /\ StopReconcile(p) => stop[p] = "reconcile" /\ stop'[p] = "clear"
    <3>1. stop[p] \notin {"poll", "reconcile"} => stop'[p] \notin {"poll", "reconcile"}
      BY <1>1, <1>6, StopMoves
    <3>2. stop \in [Printers -> {"idle", "poll", "reconcile", "clear", "done"}]
      BY DEF Ground, LineInv, HandlersOK
    <3> QED
      BY <3>1, <3>2 DEF StopReconcile
  <2> HIDE DEF less, full
  <2> QED
    BY <1>1, <1>5, <2>1, <2>2, <2>3
<1>7. CASE stop[p] = "idle" /\ stop'[p] = "poll" /\ stops' = stops + 1
  <2>1. stops' - 1 = stops
    BY <1>1, <1>7
  <2>2. Owing(p)' = full
    BY <1>7, <2>1 DEF Owing
  <2>3. ~StopReconcile(p) /\ Owing(p) = full /\ full \in Int
    BY <1>4, <1>5, <1>7 DEF StopReconcile
  <2> HIDE DEF full
  <2> QED
    BY <2>2, <2>3
<1> QED
  BY <1>6, <1>7, StopMoves

\* What a step does to the labels and the queue of a printer and to what the
\* pump holds for it.
LabelsOne(p) ==
    /\ 1 \in DOMAIN queue[p]
    /\ labels'[p] = Append(labels[p], queue[p][1].row) /\ queue'[p] = Tail(queue[p])
    /\ slr'[p] = queue[p][1].index
    /\ InHand(p)' = InHand(p)

SendsOne(p) ==
    /\ labels'[p] = labels[p] /\ slr'[p] = slr[p]
    /\ pump.pc = "send" /\ pump.at = p
    /\ \E s \in InHand(p) : /\ \A r \in InHand(p) \ {s} : s.index < r.index
                            /\ queue'[p] = Append(queue[p], s)
                            /\ InHand(p)' = InHand(p) \ {s}

LeavesAlone(p) ==
    /\ labels'[p] = labels[p] /\ slr'[p] = slr[p] /\ queue'[p] = queue[p]
    /\ InHand(p)' = InHand(p)

LEMMA PumpHands ==
    ASSUME Uninterrupted, Ground, [Next]_vars,
           ~PumpFetch, ~PumpSend
    PROVE  pump' = pump \/ (pump.batch = {} /\ pump'.batch = {})
<1>1. /\ pump \in [pc : {"none", "tick", "next", "fetch", "send", "exit"},
                   left : SUBSET Printers, at : Printers \cup {NoPrinter},
                   room : 0..MaxBatch, batch : SUBSET Record]
      /\ NoPump.batch = {} /\ FreshPump.batch = {}
      /\ HandsEmpty /\ Tracked
  BY DEF Ground, LineInv, PumpOK, NoPump, FreshPump, AccountInv
<1>2. CASE PumpStatus
  BY <1>1, <1>2 DEF PumpStatus, HandsEmpty
<1>3. CASE PumpSpace
  <2>1. pump.batch = {}
    BY <1>1, <1>3 DEF PumpSpace, HandsEmpty
  <2>2. ASSUME NEW p \in pump.left, NEW room,
               \/ pump' = [pump EXCEPT !.left = @ \ {p}]
               \/ pump' = [[pump EXCEPT !.left = @ \ {p}] EXCEPT !.pc = "fetch", !.at = p, !.room = room]
        PROVE  pump'.batch = {}
    BY <1>1, <2>1, <2>2
  <2>3. pump' = FreshPump \/ pump'.batch = {}
    BY <1>3, <2>2 DEF PumpSpace
  <2> QED
    BY <1>1, <2>1, <2>3
<1>4. CASE PumpExit \/ AppendStart \/ Restart
  <2>1. pump.pc # "send" \/ pump' = pump
    BY <1>1, <1>4 DEF PumpExit, AppendStart, StartPumping, Tracked, Restart, Quiet, Uninterrupted
  <2>2. pump' \in {pump, NoPump, FreshPump}
    BY <1>4 DEF PumpExit, AppendStart, StartPumping, Restart
  <2> QED
    BY <1>1, <2>1, <2>2 DEF HandsEmpty
<1>5. ASSUME \/ \E items \in Batches : AppendInsert(items)
             \/ AppendActivate \/ Poll \/ StopRequest \/ StopReturn
             \/ \E q \in Printers : StopPoll(q) \/ StopReconcile(q) \/ StopClear(q) \/ Label(q)
             \/ UNCHANGED vars
      PROVE  pump' = pump
  BY <1>5 DEF AppendInsert, AppendActivate, Poll, PollVisit, PollRead, PollMark,
              StopRequest, StopReturn, StopPoll, StopReconcile, StopClear, Label, vars
<1> QED
  BY <1>2, <1>3, <1>4, <1>5 DEF Next, Pump, Stop

LEMMA HandMoves ==
    ASSUME Uninterrupted, AllDelivered, Ground, [Next]_vars, NEW p \in Printers
    PROVE  \/ PumpFetch /\ pump.at = p /\ FetchAndAssignCodes(Task, p, pump.room)
           \/ UNCHANGED shardVars /\ Label(p) /\ LabelsOne(p)
           \/ UNCHANGED shardVars /\ SendsOne(p)
           \/ /\ UNCHANGED shardVars /\ StopClear(p)
              /\ labels'[p] = labels[p] /\ slr'[p] = slr[p]
              /\ queue'[p] = <<>> \/ queue'[p] = queue[p]
              /\ InHand(p)' = InHand(p)
           \/ LeavesAlone(p)
<1>1. /\ pump \in [pc : {"none", "tick", "next", "fetch", "send", "exit"},
                   left : SUBSET Printers, at : Printers \cup {NoPrinter},
                   room : 0..MaxBatch, batch : SUBSET Record]
      /\ queue \in [Printers -> Seq(Record)] /\ labels \in [Printers -> Seq(1..MaxRows)]
      /\ slr \in [Printers -> 0..MaxRows]
      /\ HandsEmpty /\ LineInv
  BY DEF Ground, LineInv, PumpOK, DevicesOK, AccountInv
<1>2. CASE Label(p)
  <2>1. UNCHANGED shardVars /\ pump' = pump
    BY <1>2 DEF Label
  <2>2. LabelsOne(p)
    BY <1>1, <1>2, <2>1, LabelMoves DEF LabelsOne, InHand
  <2> QED
    BY <1>2, <2>1, <2>2
<1>3. CASE StopClear(p)
  <2>1. /\ UNCHANGED <<shardVars, pump, labels, slr>>
        /\ queue' = [queue EXCEPT ![p] = <<>>] \/ queue' = queue
    BY <1>3 DEF StopClear, QueueCleared
  <2> QED
    BY <1>1, <1>3, <2>1 DEF InHand
<1>4. CASE PumpSend
  <2>1. /\ pump.pc = "send" /\ UNCHANGED <<shardVars, slr, labels>>
        /\ pump.at \in Printers
    BY <1>1, <1>4 DEF PumpSend, LineInv, PumpOK
  <2>2. PICK s \in pump.batch :
           /\ \A r \in pump.batch \ {s} : s.index < r.index
           /\ queue' = [queue EXCEPT ![pump.at] = Append(queue[pump.at], s)]
           /\ pump' = IF pump.batch \ {s} = {} THEN [pump EXCEPT !.pc = "next", !.batch = {}]
                      ELSE [pump EXCEPT !.batch = pump.batch \ {s}]
    BY <1>4 DEF PumpSend, AllDelivered
  <2>3. pump'.at = pump.at /\ pump'.batch = pump.batch \ {s}
    BY <1>1, <2>2
  <2>4. CASE pump.at = p
    <3>1. InHand(p) = pump.batch /\ InHand(p)' = pump.batch \ {s}
      BY <2>3, <2>4 DEF InHand
    <3> QED
      BY <1>1, <2>1, <2>2, <2>4, <3>1 DEF SendsOne
  <2>5. CASE pump.at # p
    BY <1>1, <2>1, <2>2, <2>3, <2>5 DEF LeavesAlone, InHand
  <2> QED
    BY <2>4, <2>5
<1>5. CASE PumpFetch
  <2>1. UNCHANGED <<queue, labels, slr>> /\ pump.pc = "fetch" /\ pump.batch = {}
    BY <1>1, <1>5 DEF PumpFetch, deviceVars, HandsEmpty
  <2>2. pump'.at = pump.at
    BY <1>1, <1>5 DEF PumpFetch
  <2>3. CASE FetchAndAssignCodes(Task, pump.at, pump.room) /\ pump.at # p
    BY <2>1, <2>2, <2>3 DEF LeavesAlone, InHand
  <2>4. CASE pump' = [pump EXCEPT !.pc = "next"]
    <3>1. pump'.batch = {}
      BY <1>1, <2>1, <2>4
    <3> QED
      BY <2>1, <2>2, <3>1 DEF LeavesAlone, InHand
  <2> QED
    BY <1>5, <2>3, <2>4 DEF PumpFetch
<1>6. CASE ~PumpFetch /\ ~PumpSend /\ ~Label(p) /\ ~StopClear(p)
  <2>1. InHand(p)' = InHand(p)
    BY <1>6, PumpHands DEF InHand
  <2>2. labels'[p] = labels[p] /\ slr'[p] = slr[p]
    <3>1. ASSUME NEW q \in Printers, q # p, Label(q)
          PROVE  labels'[p] = labels[p] /\ slr'[p] = slr[p]
      BY <1>1, <3>1, LabelMoves
    <3> QED
      BY <1>6, <3>1, LabelOrNot
  <2>3. queue'[p] = queue[p]
    <3>1. ASSUME NEW q \in Printers, q # p, Label(q) \/ StopClear(q)
          PROVE  queue'[p] = queue[p]
      BY <1>1, <3>1, LabelMoves DEF StopClear, QueueCleared
    <3> QED
      BY <1>6, <3>1, QueueMoves
  <2> QED
    BY <2>1, <2>2, <2>3 DEF LeavesAlone
<1> QED
  BY <1>2, <1>3, <1>4, <1>5, <1>6

\* A fetch hands the pump the records behind everything the printer took.
LEMMA FetchHands ==
    ASSUME Ground, Ground', NEW p \in Printers,
           PumpFetch, pump.at = p, FetchAndAssignCodes(Task, p, pump.room)
    PROVE  /\ InHand(p) = {} /\ IsFiniteSet(InHand(p)') /\ pump'.at = p /\ pump'.pc = "send"
           /\ Taken(p)' = Taken(p) + Cardinality(InHand(p)')
           /\ Done(p)' = Done(p)
           /\ {r.index : r \in InHand(p)'} = (Taken(p) + 1)..Taken(p)'
           /\ labels'[p] = labels[p] /\ slr'[p] = slr[p] /\ queue'[p] = queue[p]
<1> DEFINE A == AssignedTo(Task, p)
           Sel == Selected(Task, p, pump.room)
           rec == [i \in Sel |-> [row |-> i, index |-> rows'[i].index]]
           batch == {[row |-> i, index |-> rows'[i].index] : i \in Sel}
<1>1. /\ IInv /\ NoGap /\ IInv' /\ NoGap' /\ ShardTypeOK /\ Task \in Tasks
      /\ pump.room \in Limits /\ pump.pc = "fetch" /\ pump.batch = {}
      /\ pump \in [pc : {"none", "tick", "next", "fetch", "send", "exit"},
                   left : SUBSET Printers, at : Printers \cup {NoPrinter},
                   room : 0..MaxBatch, batch : SUBSET Record]
  BY LineAssumption
     DEF PumpFetch, Ground, LineInv, PumpOK, IInv, AccountInv, HandsEmpty
<1>2. pump' = [pump EXCEPT !.pc = "send", !.batch = batch]
  <2>1. Fetchable(Task, p) # {}
    BY DEF FetchAndAssignCodes
  <2> QED
    BY <1>1, <2>1 DEF PumpFetch
<1>3. /\ InHand(p) = {} /\ InHand(p)' = batch /\ pump'.at = p /\ pump'.pc = "send"
      /\ labels'[p] = labels[p] /\ slr'[p] = slr[p] /\ queue'[p] = queue[p]
  <2>1. UNCHANGED <<labels, slr, queue>>
    BY DEF PumpFetch, deviceVars
  <2> HIDE DEF batch
  <2> QED
    BY <1>1, <1>2, <2>1 DEF InHand
<1>4. /\ A' = A \cup Sel /\ A \cap Sel = {}
      /\ \A i \in A : rows'[i] = rows[i]
      /\ \A i \in Sel : \A j \in A : rows[j].index < rows'[i].index
  <2>1. /\ A' = A \cup Sel
        /\ \A i \in Ids : i \notin Sel => rows'[i] = rows[i]
    BY <1>1, FetchAssigns
  <2>2. /\ Sel \subseteq Fetchable(Task, p)
        /\ \A i \in Sel : \A j \in A : rows[j].index < rows'[i].index
    BY <1>1, FetchStep
  <2>3. A \cap Sel = {} /\ A \subseteq Ids
    BY <2>2, ParameterAssumption DEF AssignedTo, Fetchable
  <2> QED
    BY <2>1, <2>2, <2>3
<1>5. IsFiniteSet(A) /\ IsFiniteSet(Sel)
  <2>1. IsFiniteSet(A) /\ IsFiniteSet(Fetchable(Task, p))
    BY <1>1, LaneFacts
  <2> QED
    BY <2>1, FS_Subset DEF Selected
<1>6. Taken(p)' = Taken(p) + Cardinality(Sel) /\ Taken(p) \in Nat /\ Cardinality(Sel) \in Nat
  <2> HIDE DEF A, Sel
  <2>1. Cardinality(A \cup Sel) = Cardinality(A) + Cardinality(Sel)
        /\ Cardinality(A) \in Nat /\ Cardinality(Sel) \in Nat
    BY <1>4, <1>5, DisjointCount
  <2>2. Cardinality(A') = Cardinality(A) + Cardinality(Sel)
    BY <1>4, <2>1
  <2> QED
    BY <2>1, <2>2 DEF Taken, A
<1>7. IsFiniteSet(batch) /\ Cardinality(batch) = Cardinality(Sel)
  <2>1. rec \in Bijection(Sel, batch)
    <3>1. rec \in [Sel -> batch] /\ DOMAIN rec = Sel
      OBVIOUS
    <3>2. \A i, j \in Sel : rec[i] = rec[j] => i = j
      <4>1. \A i \in Sel : rec[i].row = i
        OBVIOUS
      <4> QED
        BY <4>1
    <3>3. \A r \in batch : \E i \in Sel : rec[i] = r
      OBVIOUS
    <3> HIDE DEF rec, batch, Sel
    <3> QED
      BY <3>1, <3>2, <3>3 DEF Bijection, Injection, Surjection, IsInjective
  <2> HIDE DEF rec, batch, Sel
  <2> QED
    BY <1>5, <2>1, FS_Bijection DEF ExistsBijection
<1>8. Done(p)' = Done(p)
  <2>1. Lane(Task, p)!Fetch(pump.room)
    BY <1>1, FetchTakes
  <2> QED
    BY <2>1 DEF Lane!Fetch, Done
<1>9. /\ {rows[i].index : i \in A} = 1..Taken(p)
      /\ {rows'[i].index : i \in A'} = 1..Taken(p)'
  <2>1. IndexesContiguous /\ IndexesContiguous'
    BY DEF Ground
  <2> QED
    BY <1>1, <2>1 DEF IndexesContiguous, Taken
<1>10. {rows'[i].index : i \in Sel} = (Taken(p) + 1)..Taken(p)'
  <2> DEFINE old(i) == rows[i].index
             new(i) == rows'[i].index
  <2>1. /\ \A i \in A : old(i) \in 1..Taken(p) /\ new(i) = old(i)
        /\ \A x \in 1..Taken(p) : \E i \in A : old(i) = x
        /\ \A i \in A \cup Sel : new(i) \in 1..Taken(p)'
        /\ \A x \in 1..Taken(p)' : \E i \in A \cup Sel : new(i) = x
        /\ \A i \in Sel : \A j \in A : old(j) < new(i)
    BY <1>4, <1>9
  <2>2. Taken(p) \in Nat /\ Taken(p)' \in Nat
    BY <1>6
  <2> HIDE DEF old, new, A, Sel
  <2>3. ASSUME NEW i \in Sel
        PROVE  new(i) \in (Taken(p) + 1)..Taken(p)'
    <3>1. new(i) \in 1..Taken(p)'
      BY <2>1
    <3>2. new(i) > Taken(p)
      <4>1. CASE Taken(p) = 0
        BY <3>1, <2>2, <4>1
      <4>2. CASE Taken(p) # 0
        <5>1. Taken(p) \in 1..Taken(p)
          BY <2>2, <4>2
        <5>2. PICK j \in A : old(j) = Taken(p)
          BY <2>1, <5>1
        <5> QED
          BY <2>1, <2>2, <3>1, <5>2
      <4> QED
        BY <4>1, <4>2
    <3> QED
      BY <2>2, <3>1, <3>2
  <2>4. ASSUME NEW x \in (Taken(p) + 1)..Taken(p)'
        PROVE  \E i \in Sel : new(i) = x
    <3>1. x \in 1..Taken(p)' /\ x > Taken(p) /\ x \in Int
      BY <2>2
    <3>2. PICK i \in A \cup Sel : new(i) = x
      BY <2>1, <3>1
    <3>3. i \notin A
      BY <2>1, <2>2, <3>1, <3>2
    <3> QED
      BY <3>2, <3>3
  <2>5. {new(i) : i \in Sel} = (Taken(p) + 1)..Taken(p)'
    BY <2>3, <2>4
  <2> QED
    BY <2>5 DEF new
<1>11. {r.index : r \in batch} = {rows'[i].index : i \in Sel}
  <2>1. \A i \in Sel : \E r \in batch : r.index = rows'[i].index
    <3>1. \A i \in Sel : /\ [row |-> i, index |-> rows'[i].index] \in batch
                         /\ [row |-> i, index |-> rows'[i].index].index = rows'[i].index
      OBVIOUS
    <3> HIDE DEF batch, Sel
    <3> QED
      BY <3>1
  <2>2. \A r \in batch : \E i \in Sel : r.index = rows'[i].index
    OBVIOUS
  <2> HIDE DEF batch, Sel
  <2> QED
    BY <2>1, <2>2
<1> HIDE DEF batch, Sel, A
<1> QED
  BY <1>3, <1>6, <1>7, <1>8, <1>10, <1>11

\* A stop returns no more than a queue takes, and leaves nothing to confirm.
LEMMA ReturnStep ==
    ASSUME AllDelivered, Ground, Ground', FewReturned, NEW p \in Printers,
           StopReconcile(p), Reconcile(p)
    PROVE  /\ Taken(p)' = Done(p)' /\ Taken(p)' \in Nat
           /\ Taken(p) <= Taken(p)' + Capacity
           /\ pump.pc # "send" /\ InHand(p) = {}
<1>1. /\ IInv /\ NoGap /\ Task \in Tasks /\ Capacity \in Nat
      /\ odometer[p] \in Nat /\ Taken(p) \in Nat /\ Done(p) \in Nat /\ Done(p) <= Taken(p)
  BY CountsAre, LineAssumption DEF Ground, LineInv
<1>2. stop[p] = "reconcile" /\ ReconcileAndFinalizeTaskCodes(Task, p, odometer[p])
  BY DEF StopReconcile, Reconcile
<1>3. pump.pc # "send" /\ InHand(p) = {}
  <2>1. pump.pc # "send"
    BY <1>2 DEF Ground, AccountInv, Halted, StopIdle
  <2> QED
    BY <2>1 DEF Ground, AccountInv, HandsEmpty, InHand
<1>4. Lane(Task, p)!Reconcile(odometer[p])
  BY <1>1, <1>2, ReconcileReturns
<1>5. PICK n \in Nat : n = odometer[p]
  BY <1>1
<1>6. /\ Done(p)' = IF n <= Done(p) THEN Done(p) ELSE IF n < Taken(p) THEN n ELSE Taken(p)
      /\ Taken(p)' = Done(p)'
  BY <1>4, <1>5 DEF Lane!Reconcile, Lane!UpTo, Taken, Done
<1>7. Taken(p) <= n + Capacity \/ Taken(p) <= Done(p) + Capacity
  BY <1>2, <1>5 DEF FewReturned
<1> QED
  BY <1>1, <1>3, <1>6, <1>7

\* The record sent next is the first one behind what was sent.
LEMMA SendNext ==
    ASSUME Ground, HandLast, NEW p \in Printers, SendsOne(p)
    PROVE  \E s \in InHand(p) :
              /\ s \in Record /\ s.index = Sent(p) + 1 /\ queue'[p] = Append(queue[p], s)
              /\ IsFiniteSet(InHand(p)')
              /\ Cardinality(InHand(p)') = Cardinality(InHand(p)) - 1
              /\ {r.index : r \in InHand(p)'} = (Sent(p) + 2)..Taken(p)
<1>1. PICK s \in InHand(p) : /\ \A r \in InHand(p) \ {s} : s.index < r.index
                             /\ queue'[p] = Append(queue[p], s)
                             /\ InHand(p)' = InHand(p) \ {s}
  BY DEF SendsOne
<1>2. InHand(p) = pump.batch /\ {r.index : r \in InHand(p)} = (Sent(p) + 1)..Taken(p)
  BY DEF SendsOne, InHand, HandLast
<1>3. s \in Record /\ \A r \in InHand(p) : r.index \in Int
  BY <1>2, ParameterAssumption DEF Ground, LineInv, PumpOK, Record
<1>4. /\ IsFiniteSet(InHand(p)) /\ Cardinality(InHand(p)) \in Nat /\ Taken(p) \in Nat
      /\ Sent(p) \in Int /\ Sent(p) = Taken(p) - Cardinality(InHand(p))
  BY CountsAre DEF Sent
<1>5. /\ IsFiniteSet(InHand(p)') /\ Cardinality(InHand(p)') = Cardinality(InHand(p)) - 1
      /\ Cardinality(InHand(p)') \in Nat
  <2>1. /\ IsFiniteSet(InHand(p) \ {s})
        /\ Cardinality(InHand(p) \ {s}) = Cardinality(InHand(p)) - 1
    BY <1>4, FS_RemoveElement
  <2>2. Cardinality(InHand(p) \ {s}) \in Nat
    BY <2>1, FS_CardinalityType
  <2> QED
    BY <1>1, <2>1, <2>2
<1>6. /\ \A r \in InHand(p) : r.index \in (Sent(p) + 1)..Taken(p)
      /\ \A x \in (Sent(p) + 1)..Taken(p) : \E r \in InHand(p) : r.index = x
  BY <1>2
<1>7. s.index = Sent(p) + 1
  <2>1. PICK r \in InHand(p) : r.index = Sent(p) + 1
    BY <1>4, <1>5, <1>6
  <2> QED
    BY <1>1, <1>3, <1>4, <1>6, <2>1
<1>8. /\ \A r \in InHand(p)' : r.index \in (Sent(p) + 2)..Taken(p)
      /\ \A x \in (Sent(p) + 2)..Taken(p) : \E r \in InHand(p)' : r.index = x
  <2>1. ASSUME NEW r \in InHand(p)'
        PROVE  r.index \in (Sent(p) + 2)..Taken(p)
    BY <1>1, <1>3, <1>4, <1>6, <1>7, <2>1
  <2>2. ASSUME NEW x \in (Sent(p) + 2)..Taken(p)
        PROVE  \E r \in InHand(p)' : r.index = x
    <3>1. x \in (Sent(p) + 1)..Taken(p) /\ x # s.index
      BY <1>4, <1>7
    <3>2. PICK r \in InHand(p) : r.index = x
      BY <1>6, <3>1
    <3> QED
      BY <1>1, <3>1, <3>2
  <2> QED
    BY <2>1, <2>2
<1>9. {r.index : r \in InHand(p)'} = (Sent(p) + 2)..Taken(p)
  BY <1>8
<1> QED
  BY <1>1, <1>3, <1>5, <1>7, <1>9

LEMMA UnchangedCounts ==
    ASSUME UNCHANGED shardVars, NEW p \in Printers
    PROVE  Taken(p)' = Taken(p) /\ Done(p)' = Done(p)
BY DEF shardVars, Taken, Done, AssignedTo, Confirmed, Ids

\* Places counted from the end of a queue of m, of which the last is for n.
LEMMA FromTheEnd ==
    ASSUME NEW m \in Nat, NEW n \in Int, NEW d \in Nat, NEW x \in (d + 1)..n
    PROVE  /\ x \in Int
           /\ n - x < m => m - (n - x) \in 1..m
           /\ n - x < m - 1 => m - 1 - (n - x) \in 1..(m - 1)
           /\ (m - 1 - (n - x)) + 1 = m - (n - x)
           /\ (m + 1) - ((n + 1) - x) = m - (n - x)
           /\ (n + 1) - x < m + 1 <=> n - x < m
           /\ m >= 1 /\ ~(n - x < m - 1) =>
                 /\ n - (m - 1) \in (d + 1)..n /\ x <= n - (m - 1)
                 /\ n - (n - (m - 1)) < m /\ m - (n - (n - (m - 1))) = 1
OBVIOUS

LEMMA TailStep ==
    ASSUME Uninterrupted, AllDelivered, Ground, Ground', DoubtInv, [Next]_vars
    PROVE  TailSent'
<1> SUFFICES ASSUME NEW p \in Printers, NEW x \in (Done(p)' + 1)..Sent(p)'
             PROVE  IF Sent(p)' - x < Len(queue'[p])
                    THEN queue'[p][Len(queue'[p]) - (Sent(p)' - x)].index = x
                    ELSE x <= slr'[p]
  BY DEF TailSent
<1>1. /\ Taken(p) \in Nat /\ Done(p) \in Nat /\ Done(p) <= Taken(p)
      /\ Cardinality(InHand(p)) \in Nat /\ Len(queue[p]) \in Nat /\ slr[p] \in Nat
      /\ Sent(p) = Taken(p) - Cardinality(InHand(p))
      /\ Sent(p)' = Taken(p)' - Cardinality(InHand(p)')
      /\ queue[p] \in Seq(Record)
  BY CountsAre DEF Sent, Ground, LineInv, DevicesOK
<1>2. \A y \in (Done(p) + 1)..Sent(p) :
         IF Sent(p) - y < Len(queue[p])
         THEN queue[p][Len(queue[p]) - (Sent(p) - y)].index = y
         ELSE y <= slr[p]
  BY DEF DoubtInv, TailSent
<1>3. ASSUME Sent(p)' = Sent(p), Done(p)' \in Int, Done(p)' >= Done(p),
             queue'[p] = queue[p], slr'[p] = slr[p]
      PROVE  IF Sent(p)' - x < Len(queue'[p])
             THEN queue'[p][Len(queue'[p]) - (Sent(p)' - x)].index = x
             ELSE x <= slr'[p]
  <2>1. x \in (Done(p) + 1)..Sent(p)
    BY <1>1, <1>3
  <2> QED
    BY <1>2, <1>3, <2>1
<1>4. CASE PumpFetch /\ pump.at = p /\ FetchAndAssignCodes(Task, p, pump.room)
  <2>1. /\ InHand(p) = {} /\ Taken(p)' = Taken(p) + Cardinality(InHand(p)')
        /\ Cardinality(InHand(p)') \in Nat
        /\ Done(p)' = Done(p) /\ slr'[p] = slr[p] /\ queue'[p] = queue[p]
    BY <1>4, FetchHands, FS_CardinalityType
  <2>2. Cardinality(InHand(p)) = 0
    BY <2>1, FS_EmptySet
  <2>3. Sent(p)' = Sent(p)
    BY <1>1, <2>1, <2>2
  <2> QED
    BY <1>1, <1>3, <2>1, <2>3
<1>5. CASE UNCHANGED shardVars /\ LabelsOne(p)
  <2>1. /\ Taken(p)' = Taken(p) /\ Done(p)' = Done(p) /\ Sent(p)' = Sent(p)
        /\ 1 \in DOMAIN queue[p] /\ queue'[p] = Tail(queue[p]) /\ slr'[p] = queue[p][1].index
    BY <1>1, <1>5, UnchangedCounts DEF LabelsOne
  <2>2. /\ Len(queue'[p]) = Len(queue[p]) - 1 /\ Len(queue[p]) >= 1
        /\ \A k \in 1..Len(queue'[p]) : queue'[p][k] = queue[p][k + 1]
    BY <1>1, <2>1
  <2>3. Sent(p) \in Int /\ x \in (Done(p) + 1)..Sent(p) /\ x \in Int
    BY <1>1, <2>1
  <2>4. CASE Sent(p) - x < Len(queue[p]) - 1
    <3>1. PICK k : k = Len(queue'[p]) - (Sent(p) - x)
      OBVIOUS
    <3>2. k \in 1..Len(queue'[p]) /\ k + 1 = Len(queue[p]) - (Sent(p) - x)
      <4>1. PICK m \in Nat, n \in Int, d \in Nat :
               m = Len(queue[p]) /\ n = Sent(p) /\ d = Done(p)
        BY <1>1, <2>3
      <4>2. /\ x \in (d + 1)..n /\ n - x < m - 1
            /\ Len(queue'[p]) = m - 1 /\ k = m - 1 - (n - x)
        BY <2>2, <2>3, <2>4, <3>1, <4>1
      <4>3. k \in 1..(m - 1) /\ k + 1 = m - (n - x)
        BY <4>2, FromTheEnd
      <4> QED
        BY <4>1, <4>2, <4>3
    <3>3. queue[p][k + 1].index = x
      BY <1>1, <1>2, <2>3, <2>4, <3>2
    <3> QED
      BY <2>1, <2>2, <2>4, <3>1, <3>2, <3>3
  <2>5. CASE ~(Sent(p) - x < Len(queue[p]) - 1)
    <3>1. PICK y : y = Sent(p) - (Len(queue[p]) - 1)
      OBVIOUS
    <3>2. /\ y \in (Done(p) + 1)..Sent(p) /\ x <= y
          /\ Sent(p) - y < Len(queue[p]) /\ Len(queue[p]) - (Sent(p) - y) = 1
      BY <1>1, <2>2, <2>3, <2>5, <3>1, FromTheEnd
    <3>3. queue[p][1].index = y
      BY <1>2, <3>2
    <3>4. ~(Sent(p)' - x < Len(queue'[p]))
      BY <2>1, <2>2, <2>5
    <3> QED
      BY <2>1, <3>2, <3>3, <3>4
  <2> QED
    BY <2>4, <2>5
<1>6. CASE UNCHANGED shardVars /\ SendsOne(p)
  <2>1. PICK s \in InHand(p) :
           /\ s \in Record /\ s.index = Sent(p) + 1 /\ queue'[p] = Append(queue[p], s)
           /\ Cardinality(InHand(p)') = Cardinality(InHand(p)) - 1
    BY <1>6, SendNext DEF DoubtInv
  <2>2. Taken(p)' = Taken(p) /\ Done(p)' = Done(p) /\ slr'[p] = slr[p]
    BY <1>6, UnchangedCounts DEF SendsOne
  <2>3. Sent(p) \in Int /\ Sent(p)' = Sent(p) + 1 /\ x \in Int
        /\ Done(p) + 1 <= x /\ x <= Sent(p) + 1
    BY <1>1, <2>1, <2>2
  <2>4. /\ Len(queue'[p]) = Len(queue[p]) + 1
        /\ \A k \in 1..Len(queue[p]) : queue'[p][k] = queue[p][k]
        /\ queue'[p][Len(queue[p]) + 1] = s
    BY <1>1, <2>1
  <2>5. CASE x = Sent(p) + 1
    <3>1. /\ Sent(p)' - x = 0 /\ Len(queue'[p]) - (Sent(p)' - x) = Len(queue[p]) + 1
          /\ Sent(p)' - x < Len(queue'[p])
      BY <1>1, <2>3, <2>4, <2>5
    <3> QED
      BY <2>1, <2>4, <2>5, <3>1
  <2>6. CASE x # Sent(p) + 1
    <3>1. x \in (Done(p) + 1)..Sent(p)
      BY <1>1, <2>3, <2>6
    <3>2. PICK k : k = Len(queue[p]) - (Sent(p) - x)
      OBVIOUS
    <3>3. /\ Len(queue'[p]) - (Sent(p)' - x) = k
          /\ Sent(p)' - x < Len(queue'[p]) <=> Sent(p) - x < Len(queue[p])
          /\ Sent(p) - x < Len(queue[p]) => k \in 1..Len(queue[p])
      <4>1. PICK m \in Nat, n \in Int, d \in Nat :
               m = Len(queue[p]) /\ n = Sent(p) /\ d = Done(p)
        BY <1>1, <2>3
      <4>2. /\ x \in (d + 1)..n /\ k = m - (n - x)
            /\ Len(queue'[p]) = m + 1 /\ Sent(p)' = n + 1
        BY <2>3, <2>4, <3>1, <3>2, <4>1
      <4>3. /\ (m + 1) - ((n + 1) - x) = m - (n - x)
            /\ (n + 1) - x < m + 1 <=> n - x < m
            /\ n - x < m => k \in 1..m
        BY <4>2, FromTheEnd
      <4> QED
        BY <4>1, <4>2, <4>3
    <3>4. IF Sent(p) - x < Len(queue[p]) THEN queue[p][k].index = x ELSE x <= slr[p]
      BY <1>2, <3>1, <3>2
    <3> QED
      BY <2>2, <2>4, <3>3, <3>4
  <2> QED
    BY <2>5, <2>6
<1>7. CASE UNCHANGED shardVars /\ StopClear(p) /\ InHand(p)' = InHand(p)
  <2>1. InBuffer(Task, p) = {} /\ AssignmentWellFormed /\ ShardTypeOK
    BY <1>7 DEF StopClear, Ground, AccountInv, BufferEmptied, LineInv, IInv, Order
  <2>2. AssignedTo(Task, p) = Confirmed(Task, p)
    BY <2>1, ParameterAssumption
       DEF InBuffer, Confirmed, AssignedTo, AssignmentWellFormed, ShardTypeOK, Row, Statuses
  <2>3. Taken(p) = Done(p)
    BY <2>2 DEF Taken, Done
  <2>4. Taken(p)' = Taken(p) /\ Done(p)' = Done(p)
    BY <1>7, UnchangedCounts
  <2> QED
    BY <1>1, <1>7, <2>3, <2>4
<1>8. CASE /\ LeavesAlone(p)
           /\ ~(PumpFetch /\ pump.at = p /\ FetchAndAssignCodes(Task, p, pump.room))
  <2>1. InHand(p)' = InHand(p) /\ queue'[p] = queue[p] /\ slr'[p] = slr[p]
    BY <1>8 DEF LeavesAlone
  <2>2. CASE StopReconcile(p) /\ Reconcile(p)
    <3>1. Taken(p)' = Done(p)' /\ Taken(p)' \in Nat
      BY <2>2, ReturnStep DEF DoubtInv
    <3> QED
      BY <1>1, <2>1, <3>1
  <2>3. CASE Taken(p)' = Taken(p) /\ Done(p)' >= Done(p) /\ Done(p)' \in Int
    BY <1>1, <1>3, <2>1, <2>3
  <2>4. Done(p)' \in Int
    <3>1. IsFiniteSet(Confirmed(Task, p)')
      <4>1. IsFiniteSet(Ids') /\ Confirmed(Task, p)' \subseteq Ids'
        <5>1. lastId' \in Int
          BY DEF Ground, LineInv, IInv, ShardTypeOK
        <5> QED
          BY <5>1, FS_Interval DEF Ids, Confirmed, AssignedTo
      <4> QED
        BY <4>1, FS_Subset
    <3> QED
      BY <3>1, FS_CardinalityType DEF Done
  <2> QED
    BY <1>8, <2>2, <2>3, <2>4, CountsStep
<1> QED
  BY <1>4, <1>5, <1>6, <1>7, <1>8, HandMoves

LEMMA HandLastStep ==
    ASSUME Uninterrupted, AllDelivered, Ground, Ground', DoubtInv, [Next]_vars
    PROVE  HandLast'
<1> SUFFICES ASSUME pump'.pc = "send"
             PROVE  {r.index : r \in pump'.batch} = (Sent(pump.at)' + 1)..Taken(pump.at)'
  BY DEF HandLast
<1>1. pump'.at \in Printers
  BY DEF Ground, LineInv, PumpOK
<1>2. PICK p \in Printers : p = pump'.at
  BY <1>1
<1>3. InHand(p)' = pump'.batch
  BY <1>2 DEF InHand
<1>4. SUFFICES {r.index : r \in InHand(p)'} = (Sent(p)' + 1)..Taken(p)'
  BY <1>2, <1>3 DEF Sent, Taken, InHand
<1>5. /\ Taken(p) \in Nat /\ Cardinality(InHand(p)) \in Nat
      /\ Sent(p) = Taken(p) - Cardinality(InHand(p))
      /\ Sent(p)' = Taken(p)' - Cardinality(InHand(p)')
      /\ LineInv
  BY CountsAre DEF Sent, Ground
<1>6. CASE PumpFetch /\ pump.at = p /\ FetchAndAssignCodes(Task, p, pump.room)
  <2>1. /\ Taken(p)' = Taken(p) + Cardinality(InHand(p)') /\ Cardinality(InHand(p)') \in Nat
        /\ {r.index : r \in InHand(p)'} = (Taken(p) + 1)..Taken(p)'
    BY <1>6, FetchHands, FS_CardinalityType
  <2>2. Sent(p)' = Taken(p)
    BY <1>5, <2>1
  <2> QED
    BY <2>1, <2>2
<1>7. CASE ~(PumpFetch /\ pump.at = p /\ FetchAndAssignCodes(Task, p, pump.room))
  <2>1. pump.pc = "send" /\ pump.at = p
    <3>1. CASE PumpFetch
      <4>1. pump' = [pump EXCEPT !.pc = "next"] \/ FetchAndAssignCodes(Task, pump.at, pump.room)
        BY <3>1 DEF PumpFetch
      <4>2. pump \in [pc : {"none", "tick", "next", "fetch", "send", "exit"},
                      left : SUBSET Printers, at : Printers \cup {NoPrinter},
                      room : 0..MaxBatch, batch : SUBSET Record]
        BY <1>5 DEF LineInv, PumpOK
      <4>3. pump'.at = pump.at
        BY <3>1, <4>2 DEF PumpFetch
      <4> QED
        BY <1>2, <1>7, <3>1, <4>1, <4>2, <4>3
    <3>2. CASE ~PumpFetch
      BY <1>2, <1>5, <3>2, SendingSince
    <3> QED
      BY <3>1, <3>2
  <2>2. {r.index : r \in InHand(p)} = (Sent(p) + 1)..Taken(p)
    BY <2>1 DEF DoubtInv, HandLast, InHand
  <2>3. ASSUME Taken(p)' = Taken(p), InHand(p)' = InHand(p)
        PROVE  {r.index : r \in InHand(p)'} = (Sent(p)' + 1)..Taken(p)'
    BY <1>5, <2>2, <2>3
  <2>4. CASE UNCHANGED shardVars /\ SendsOne(p)
    <3>1. /\ Cardinality(InHand(p)') = Cardinality(InHand(p)) - 1
          /\ {r.index : r \in InHand(p)'} = (Sent(p) + 2)..Taken(p)
      BY <2>4, SendNext DEF DoubtInv
    <3>2. Taken(p)' = Taken(p)
      BY <2>4, UnchangedCounts
    <3>3. Sent(p)' + 1 = Sent(p) + 2
      BY <1>5, <3>1, <3>2
    <3> QED
      BY <3>1, <3>2, <3>3
  <2>5. CASE UNCHANGED shardVars /\ InHand(p)' = InHand(p)
    BY <2>3, <2>5, UnchangedCounts
  <2>6. CASE LeavesAlone(p)
    <3>1. InHand(p)' = InHand(p)
      BY <2>6 DEF LeavesAlone
    <3>2. ~StopReconcile(p)
      BY <2>1, ReturnStep DEF StopReconcile, Ground, AccountInv, Halted, StopIdle
    <3> QED
      BY <1>7, <2>3, <3>1, <3>2, CountsStep
  <2> QED
    BY <1>7, <2>4, <2>5, <2>6, HandMoves DEF LabelsOne
<1> QED
  BY <1>6, <1>7

LEMMA FewStep ==
    ASSUME Uninterrupted, AllDelivered, Ground, Ground', DoubtInv, [Next]_vars
    PROVE  FewReturned'
<1> SUFFICES ASSUME NEW p \in Printers, stop'[p] = "reconcile"
             PROVE  \/ Taken(p)' <= odometer'[p] + Capacity
                    \/ Taken(p)' <= Done(p)' + Capacity
  BY DEF FewReturned
<1>1. /\ Taken(p) \in Nat /\ Done(p) \in Nat /\ Done(p) <= Taken(p)
      /\ Len(queue[p]) \in Nat /\ Len(queue[p]) <= Capacity
      /\ slr[p] \in Nat /\ odometer[p] \in Nat /\ Capacity \in Nat
  BY CountsAre, LineAssumption
<1>2. CASE stop'[p] = stop[p] /\ odometer'[p] = odometer[p]
  <2>1. Taken(p) <= odometer[p] + Capacity \/ Taken(p) <= Done(p) + Capacity
    BY <1>2 DEF DoubtInv, FewReturned
  <2>2. ~PumpFetch
    BY <1>2 DEF PumpFetch, Ground, AccountInv, Halted, StopIdle
  <2>3. ~StopReconcile(p)
    <3>1. StopReconcile(p) => stop'[p] = "clear"
      BY DEF StopReconcile, Ground, LineInv, HandlersOK
    <3> QED
      BY <3>1
  <2>4. Taken(p)' = Taken(p) /\ Done(p)' >= Done(p)
    BY <2>2, <2>3, CountsStep
  <2>5. Done(p)' \in Int
    <3>1. IsFiniteSet(Ids') /\ Confirmed(Task, p)' \subseteq Ids'
      <4>1. lastId' \in Int
        BY DEF Ground, LineInv, IInv, ShardTypeOK
      <4> QED
        BY <4>1, FS_Interval DEF Ids, Confirmed, AssignedTo
    <3> QED
      BY <3>1, FS_Subset, FS_CardinalityType DEF Done
  <2> QED
    BY <1>1, <1>2, <2>1, <2>4, <2>5
<1>3. CASE StopPoll(p) /\ odometer'[p] = slr[p]
  <2>1. UNCHANGED shardVars /\ stop[p] = "poll"
    BY <1>3 DEF StopPoll
  <2>2. Taken(p)' = Taken(p) /\ Done(p)' = Done(p)
    BY <2>1, UnchangedCounts
  <2>3. Sent(p) = Taken(p)
    <3>1. pump.pc # "send"
      BY <2>1 DEF Ground, AccountInv, Halted, StopIdle
    <3>2. InHand(p) = {}
      BY <3>1 DEF Ground, AccountInv, HandsEmpty, InHand
    <3>3. Cardinality(InHand(p)) = 0
      BY <3>2, FS_EmptySet
    <3> QED
      BY <1>1, <3>3 DEF Sent
  <2>4. CASE Taken(p) <= Done(p) + Len(queue[p])
    BY <1>1, <2>2, <2>4
  <2>5. CASE ~(Taken(p) <= Done(p) + Len(queue[p]))
    <3>1. PICK x : x = Taken(p) - Len(queue[p])
      OBVIOUS
    <3>2. x \in (Done(p) + 1)..Sent(p) /\ ~(Sent(p) - x < Len(queue[p]))
      BY <1>1, <2>3, <2>5, <3>1
    <3>3. x <= slr[p]
      BY <3>2 DEF DoubtInv, TailSent
    <3> QED
      BY <1>1, <1>3, <2>2, <3>1, <3>3
  <2> QED
    BY <2>4, <2>5
<1> QED
  BY <1>2, <1>3, StopMoves

LEMMA RightsStep ==
    ASSUME Uninterrupted, AllDelivered, Ground, Ground', DoubtInv, [Next]_vars
    PROVE  WithinRights'
<1> SUFFICES ASSUME NEW p \in Printers
             PROVE  Spent(p)' <= Taken(p)' + Owing(p)'
  BY DEF WithinRights
<1>1. /\ Taken(p) \in Nat /\ Capacity \in Nat
      /\ Len(queue[p]) \in Nat /\ Len(labels[p]) \in Nat /\ Cardinality(InHand(p)) \in Nat
      /\ Spent(p) = Len(labels[p]) + Len(queue[p]) + Cardinality(InHand(p))
      /\ Spent(p)' = Len(labels'[p]) + Len(queue'[p]) + Cardinality(InHand(p)')
      /\ Spent(p) <= Taken(p) + Owing(p)
  BY CountsAre, LineAssumption DEF Spent, DoubtInv, WithinRights
<1>2. /\ Owing(p) \in Int /\ Owing(p)' \in Int /\ Owing(p) <= Owing(p)'
      /\ StopReconcile(p) => Owing(p)' = Owing(p) + Capacity
  BY OwingStep
<1>3. queue[p] \in Seq(Record) /\ labels[p] \in Seq(1..MaxRows)
  BY DEF Ground, LineInv, DevicesOK
<1>4. PICK a \in Nat, q \in Nat, h \in Nat, t \in Nat, o \in Int, o2 \in Int :
        /\ a = Len(labels[p]) /\ q = Len(queue[p]) /\ h = Cardinality(InHand(p))
        /\ t = Taken(p) /\ o = Owing(p) /\ o2 = Owing(p)'
  BY <1>1, <1>2
<1>5. a + q + h <= t + o /\ o <= o2
  <2>1. Spent(p) = a + q + h /\ Spent(p) <= t + o
    BY <1>1, <1>4
  <2> QED
    BY <1>2, <1>4, <2>1
<1>6. ASSUME NEW a2 \in Nat, NEW q2 \in Nat, NEW h2 \in Nat, NEW t2 \in Nat,
             a2 = Len(labels'[p]), q2 = Len(queue'[p]), h2 = Cardinality(InHand(p)'),
             t2 = Taken(p)', a2 + q2 + h2 <= t2 + o2
      PROVE  Spent(p)' <= Taken(p)' + Owing(p)'
  <2>1. Spent(p)' = a2 + q2 + h2
    BY <1>1, <1>6
  <2> QED
    BY <1>4, <1>6, <2>1
<1>7. CASE PumpFetch /\ pump.at = p /\ FetchAndAssignCodes(Task, p, pump.room)
  <2>1. /\ InHand(p) = {} /\ Taken(p)' = Taken(p) + Cardinality(InHand(p)')
        /\ Cardinality(InHand(p)') \in Nat
        /\ labels'[p] = labels[p] /\ queue'[p] = queue[p]
    BY <1>7, FetchHands, FS_CardinalityType
  <2>2. h = 0
    BY <1>4, <2>1, FS_EmptySet
  <2>3. PICK h2 \in Nat : h2 = Cardinality(InHand(p)')
    BY <2>1
  <2>4. PICK t2 \in Nat : t2 = t + h2
    OBVIOUS
  <2>5. t2 = Taken(p)' /\ a = Len(labels'[p]) /\ q = Len(queue'[p])
    BY <1>4, <2>1, <2>3, <2>4
  <2>6. a + q + h2 <= t2 + o2
    BY <1>5, <2>2, <2>4
  <2> QED
    BY <1>6, <2>3, <2>5, <2>6
<1>8. CASE UNCHANGED shardVars /\ LabelsOne(p)
  <2>1. /\ labels'[p] = Append(labels[p], queue[p][1].row) /\ queue'[p] = Tail(queue[p])
        /\ InHand(p)' = InHand(p) /\ 1 \in DOMAIN queue[p]
    BY <1>8 DEF LabelsOne
  <2>2. Len(queue'[p]) = Len(queue[p]) - 1 /\ Len(labels'[p]) = Len(labels[p]) + 1
        /\ Len(queue[p]) >= 1
    BY <1>3, <2>1
  <2>3. Taken(p)' = Taken(p)
    BY <1>8, UnchangedCounts
  <2>4. PICK a2 \in Nat, q2 \in Nat : a2 = a + 1 /\ q2 = q - 1
    <3>1. q >= 1
      BY <1>4, <2>2
    <3>2. a + 1 \in Nat /\ q - 1 \in Nat
      BY <3>1
    <3> QED
      BY <3>2
  <2>5. a2 = Len(labels'[p]) /\ q2 = Len(queue'[p]) /\ h = Cardinality(InHand(p)') /\ t = Taken(p)'
    BY <1>4, <2>1, <2>2, <2>3, <2>4
  <2>6. a2 + q2 + h <= t + o2
    BY <1>5, <2>4
  <2> QED
    BY <1>6, <2>5, <2>6
<1>9. CASE UNCHANGED shardVars /\ SendsOne(p)
  <2>1. PICK s \in InHand(p) : /\ queue'[p] = Append(queue[p], s)
                               /\ IsFiniteSet(InHand(p)')
                               /\ Cardinality(InHand(p)') = Cardinality(InHand(p)) - 1
    BY <1>9, SendNext DEF DoubtInv
  <2>2. Len(queue'[p]) = Len(queue[p]) + 1
    BY <1>3, <2>1
  <2>3. Taken(p)' = Taken(p) /\ labels'[p] = labels[p]
    BY <1>9, UnchangedCounts DEF SendsOne
  <2>4. PICK q2 \in Nat, h2 \in Int : q2 = q + 1 /\ h2 = h - 1
    OBVIOUS
  <2>5. a = Len(labels'[p]) /\ q2 = Len(queue'[p]) /\ h2 = Cardinality(InHand(p)') /\ t = Taken(p)'
    BY <1>4, <2>1, <2>2, <2>3, <2>4
  <2>6. h2 \in Nat
    BY <2>1, <2>5, FS_CardinalityType
  <2>7. a + q2 + h2 <= t + o2
    BY <1>5, <2>4
  <2> QED
    BY <1>6, <2>4, <2>5, <2>6, <2>7
<1>10. CASE /\ UNCHANGED shardVars /\ labels'[p] = labels[p] /\ InHand(p)' = InHand(p)
            /\ queue'[p] = <<>> \/ queue'[p] = queue[p]
  <2>1. Len(queue'[p]) \in Nat /\ Len(queue'[p]) <= Len(queue[p])
    BY <1>1, <1>3, <1>10
  <2>2. Taken(p)' = Taken(p)
    BY <1>10, UnchangedCounts
  <2>3. PICK q2 \in Nat : q2 = Len(queue'[p])
    BY <2>1
  <2>4. a = Len(labels'[p]) /\ h = Cardinality(InHand(p)') /\ t = Taken(p)'
    BY <1>4, <1>10, <2>1, <2>2, <2>3
  <2>5. q2 <= q
    BY <1>4, <2>1, <2>3
  <2>6. a + q2 + h <= t + o2
    BY <1>5, <2>5
  <2> QED
    BY <1>6, <2>3, <2>4, <2>6
<1>11. CASE /\ LeavesAlone(p)
            /\ ~(PumpFetch /\ pump.at = p /\ FetchAndAssignCodes(Task, p, pump.room))
  <2>1. a = Len(labels'[p]) /\ q = Len(queue'[p]) /\ h = Cardinality(InHand(p)')
    BY <1>4, <1>11 DEF LeavesAlone
  <2>2. CASE StopReconcile(p) /\ Reconcile(p)
    <3>1. Taken(p)' \in Nat /\ Taken(p) <= Taken(p)' + Capacity
      BY <2>2, ReturnStep DEF DoubtInv
    <3>2. PICK t2 \in Nat, c \in Nat : t2 = Taken(p)' /\ c = Capacity
      BY <1>1, <3>1
    <3>3. t <= t2 + c /\ o2 = o + c
      BY <1>2, <1>4, <2>2, <3>1, <3>2
    <3>4. a + q + h <= t2 + o2
      BY <1>5, <3>3
    <3> QED
      BY <1>6, <2>1, <3>2, <3>4
  <2>3. CASE Taken(p)' = Taken(p)
    <3>1. t = Taken(p)'
      BY <1>4, <2>3
    <3>2. a + q + h <= t + o2
      BY <1>5
    <3> QED
      BY <1>6, <2>1, <3>1, <3>2
  <2> QED
    BY <1>11, <2>2, <2>3, CountsStep
<1> QED
  BY <1>7, <1>8, <1>9, <1>10, <1>11, HandMoves

LEMMA DoubtInit == Uninterrupted /\ Init => DoubtInv
<1> SUFFICES ASSUME Uninterrupted, Init
             PROVE  DoubtInv
  OBVIOUS
<1>1. /\ Ids = {} /\ pump.pc = "none" /\ pump.batch = {} /\ stops = 0
      /\ \A p \in Printers : queue[p] = <<>> /\ labels[p] = <<>> /\ stop[p] = "idle"
  BY DEF Init, ShardInit, Ids, NoPump
<1>2. ASSUME NEW p \in Printers
      PROVE  /\ Taken(p) = 0 /\ Done(p) = 0 /\ Cardinality(InHand(p)) = 0 /\ Sent(p) = 0
             /\ Spent(p) = 0 /\ Owing(p) = 0
  <2>1. AssignedTo(Task, p) = {} /\ Confirmed(Task, p) = {} /\ InHand(p) = {}
    BY <1>1 DEF AssignedTo, Confirmed, InHand
  <2>2. Taken(p) = 0 /\ Done(p) = 0 /\ Cardinality(InHand(p)) = 0
    BY <2>1, FS_EmptySet DEF Taken, Done
  <2>3. Owing(p) = 0
    <3>1. 0 * Capacity = 0
      BY LineAssumption
    <3>2. Owing(p) = stops * Capacity
      BY <1>1 DEF Owing
    <3> QED
      BY <1>1, <3>1, <3>2
  <2>4. Sent(p) = 0
    BY <2>2 DEF Sent
  <2>5. Len(labels[p]) = 0 /\ Len(queue[p]) = 0
    BY <1>1
  <2>6. Spent(p) = 0
    BY <2>2, <2>5 DEF Spent
  <2> QED
    BY <2>2, <2>3, <2>4, <2>6
<1>3. TailSent
  BY <1>2 DEF TailSent
<1> QED
  BY <1>1, <1>2, <1>3 DEF DoubtInv, HandLast, FewReturned, WithinRights

LEMMA LineGround == ASSUME Uninterrupted, AllDelivered PROVE Spec => []Ground
<1>1. Init => RoomInv
  BY LineAssumption DEF Init, RoomInv, NeverOverfilled, NoPump
<1>2. Spec => []RoomInv
  BY <1>1, RoomStep, LineInvariant, PTL DEF Spec
<1>3. Spec => ShardSpec
  BY LineImplementsShard DEF ImplementsShard
<1>4. Spec => []AccountInv
  BY AccountInvariant
<1> QED
  BY <1>2, <1>3, <1>4, LineInvariant, NoGapInvariant, NoHoles, PTL DEF Ground

LEMMA DoubtInvariant == ASSUME Uninterrupted, AllDelivered PROVE Spec => []DoubtInv
<1>1. Init => DoubtInv
  BY DoubtInit
<1>2. Ground /\ Ground' /\ DoubtInv /\ [Next]_vars => DoubtInv'
  BY TailStep, HandLastStep, FewStep, RightsStep DEF DoubtInv
<1> QED
  BY <1>1, <1>2, LineGround, PTL DEF Spec

\* The rows of a sequence, or of the pump's hands, are no more than it has.
LEMMA ImageCount ==
    ASSUME NEW S, IsFiniteSet(S), NEW f, DOMAIN f = S
    PROVE  /\ IsFiniteSet({f[x] : x \in S}) /\ Cardinality({f[x] : x \in S}) \in Nat
           /\ Cardinality({f[x] : x \in S}) <= Cardinality(S)
<1> DEFINE T == {f[x] : x \in S}
           g == [x \in S |-> f[x]]
<1>1. g \in Surjection(S, T)
  <2>1. g \in [S -> T] /\ \A y \in T : \E x \in S : g[x] = y
    OBVIOUS
  <2> HIDE DEF g, T
  <2> QED
    BY <2>1 DEF Surjection
<1> HIDE DEF g, T
<1>2. IsFiniteSet(T) /\ Cardinality(T) <= Cardinality(S)
  BY <1>1, FS_Surjection
<1>3. Cardinality(T) \in Nat
  BY <1>2, FS_CardinalityType
<1> QED
  BY <1>2, <1>3 DEF T

\* What a stop may cost: a queue of a printer is applied a second time, and
\* no more, although products pass between the stop's reading of the odometer
\* and its clear, and the clear may fail (handlers_tasks.go:350, :356).
THEOREM DoubtIsBounded ==
    ASSUME Uninterrupted, AllDelivered PROVE Spec => []DoubleLabelsBounded
<1>1. ASSUME Ground, DoubtInv, NEW p \in Printers
      PROVE  Len(labels[p]) <= Cardinality(LabelledBy(p)) + stops * Capacity
  <2> DEFINE L == LabelledBy(p)
             Q == {queue[p][k].row : k \in DOMAIN queue[p]}
             H == {r.row : r \in InHand(p)}
  <2>1. /\ Taken(p) \in Nat /\ IsFiniteSet(AssignedTo(Task, p))
        /\ IsFiniteSet(InHand(p)) /\ Cardinality(InHand(p)) \in Nat
        /\ Len(queue[p]) \in Nat /\ Len(labels[p]) \in Nat
        /\ queue[p] \in Seq(Record) /\ labels[p] \in Seq(1..MaxRows)
    BY <1>1, CountsAre DEF Ground, LineInv, DevicesOK
  <2>2. AssignedTo(Task, p) \subseteq L \cup Q \cup H
    <3>1. SUFFICES ASSUME NEW i \in AssignedTo(Task, p)
                   PROVE  i \in L \cup Q \cup H
      OBVIOUS
    <3>2. /\ i \in Ids /\ rows[i].printer = p /\ rows[i].status \in {"printed", "in_buffer"}
      BY <1>1, <3>1, ParameterAssumption
         DEF AssignedTo, Ground, LineInv, IInv, Order, AssignmentWellFormed, ShardTypeOK, Row, Statuses
    <3>3. CASE rows[i].status = "printed"
      BY <1>1, <3>2, <3>3 DEF Ground, AccountInv, PrintedWasApplied
    <3>4. CASE rows[i].status = "in_buffer"
      <4>1. PICK r : r = [row |-> i, index |-> rows[i].index]
        OBVIOUS
      <4>2. i \in L \/ r \in QueuedAt(p) \/ r \in InHand(p)
        BY <1>1, <3>2, <3>4, <4>1 DEF Ground, AccountInv, BufferedIsAccounted, InHand
      <4>3. r.row = i
        BY <4>1
      <4> QED
        BY <4>2, <4>3 DEF QueuedAt
    <3> QED
      BY <3>2, <3>3, <3>4
  <2>3. IsFiniteSet(L) /\ Cardinality(L) \in Nat
    <3>1. PICK n \in Nat : n = Len(labels[p])
      BY <2>1
    <3>2. DOMAIN labels[p] = 1..n
      BY <2>1, <3>1
    <3>3. IsFiniteSet(1..n)
      BY FS_Interval
    <3>4. L = {labels[p][k] : k \in 1..n}
      BY <3>2 DEF LabelledBy
    <3> HIDE DEF L
    <3> QED
      BY <3>2, <3>3, <3>4, ImageCount
  <2>4. IsFiniteSet(Q) /\ Cardinality(Q) \in Nat /\ Cardinality(Q) <= Len(queue[p])
    <3>1. PICK n \in Nat : n = Len(queue[p])
      BY <2>1
    <3>2. DOMAIN queue[p] = 1..n
      BY <2>1, <3>1
    <3>3. IsFiniteSet(1..n) /\ Cardinality(1..n) = n
      <4>1. 1 \in Int /\ n \in Int
        OBVIOUS
      <4>2. IsFiniteSet(1..n) /\ Cardinality(1..n) = IF 1 > n THEN 0 ELSE n - 1 + 1
        BY <4>1, FS_Interval
      <4> QED
        BY <4>2
    <3> DEFINE f == [k \in 1..n |-> queue[p][k].row]
    <3>4. Q = {f[k] : k \in 1..n} /\ DOMAIN f = 1..n
      BY <3>2
    <3> HIDE DEF f, Q
    <3>5. IsFiniteSet(Q) /\ Cardinality(Q) \in Nat /\ Cardinality(Q) <= Cardinality(1..n)
      BY <3>3, <3>4, ImageCount
    <3> QED
      BY <3>1, <3>3, <3>5
  <2>5. IsFiniteSet(H) /\ Cardinality(H) \in Nat /\ Cardinality(H) <= Cardinality(InHand(p))
    <3> DEFINE f == [r \in InHand(p) |-> r.row]
    <3>1. H = {f[r] : r \in InHand(p)} /\ DOMAIN f = InHand(p)
      OBVIOUS
    <3> HIDE DEF f, H
    <3> QED
      BY <2>1, <3>1, ImageCount
  <2>6. Taken(p) <= Cardinality(L) + Cardinality(Q) + Cardinality(H)
    <3> HIDE DEF L, Q, H
    <3>1. IsFiniteSet(L \cup Q) /\ Cardinality(L \cup Q) <= Cardinality(L) + Cardinality(Q)
          /\ Cardinality(L \cup Q) \in Nat
      <4>1. IsFiniteSet(L \cap Q) /\ Cardinality(L \cap Q) \in Nat
        BY <2>3, FS_Subset, FS_CardinalityType
      <4>2. /\ IsFiniteSet(L \cup Q)
            /\ Cardinality(L \cup Q)
                  = Cardinality(L) + Cardinality(Q) - Cardinality(L \cap Q)
        BY <2>3, <2>4, FS_Union
      <4>3. Cardinality(L \cup Q) \in Nat
        BY <4>2, FS_CardinalityType
      <4> QED
        BY <2>3, <2>4, <4>1, <4>2, <4>3
    <3>2. IsFiniteSet((L \cup Q) \cup H)
          /\ Cardinality((L \cup Q) \cup H) <= Cardinality(L \cup Q) + Cardinality(H)
          /\ Cardinality((L \cup Q) \cup H) \in Nat
      <4>1. IsFiniteSet((L \cup Q) \cap H) /\ Cardinality((L \cup Q) \cap H) \in Nat
        BY <3>1, FS_Subset, FS_CardinalityType
      <4>2. /\ IsFiniteSet((L \cup Q) \cup H)
            /\ Cardinality((L \cup Q) \cup H)
                  = Cardinality(L \cup Q) + Cardinality(H) - Cardinality((L \cup Q) \cap H)
        BY <2>5, <3>1, FS_Union
      <4>3. Cardinality((L \cup Q) \cup H) \in Nat
        BY <4>2, FS_CardinalityType
      <4> QED
        BY <2>5, <3>1, <4>1, <4>2, <4>3
    <3>3. Taken(p) <= Cardinality((L \cup Q) \cup H)
      BY <2>2, <3>2, FS_Subset DEF Taken
    <3> QED
      BY <2>1, <2>3, <2>4, <2>5, <3>1, <3>2, <3>3
  <2>7. Owing(p) \in Int /\ Owing(p) <= stops * Capacity /\ stops * Capacity \in Int
    <3>1. stops \in Nat /\ Capacity \in Nat
      BY <1>1, LineAssumption DEF Ground, LineInv, HandlersOK
    <3>2. \A n \in Int : n * Capacity \in Int /\ (n + 1) * Capacity = n * Capacity + Capacity
      BY <3>1
    <3>3. stops - 1 \in Int /\ (stops - 1) + 1 = stops /\ stops \in Int
      BY <3>1
    <3>4. (stops - 1) * Capacity \in Int /\ stops * Capacity \in Int
          /\ stops * Capacity = (stops - 1) * Capacity + Capacity
      BY <3>2, <3>3
    <3>5. Owing(p) = (stops - 1) * Capacity \/ Owing(p) = stops * Capacity
      BY DEF Owing
    <3> DEFINE full == stops * Capacity
               less == (stops - 1) * Capacity
    <3>6. /\ full \in Int /\ less \in Int /\ full = less + Capacity
          /\ Owing(p) = less \/ Owing(p) = full
      BY <3>4, <3>5
    <3> HIDE DEF full, less
    <3>7. Owing(p) \in Int /\ Owing(p) <= full /\ full \in Int
      BY <3>1, <3>6
    <3> QED
      BY <3>7 DEF full
  <2>8. Len(labels[p]) + Len(queue[p]) + Cardinality(InHand(p)) <= Taken(p) + Owing(p)
    BY <1>1 DEF DoubtInv, WithinRights, Spent
  <2> DEFINE full == stops * Capacity
  <2>9. Owing(p) \in Int /\ Owing(p) <= full /\ full \in Int
    BY <2>7
  <2> HIDE DEF full, L, Q, H
  <2>10. PICK a \in Nat, q \in Nat, h \in Nat, t \in Nat, l \in Nat, m \in Nat, k \in Nat, o \in Int :
           /\ a = Len(labels[p]) /\ q = Len(queue[p]) /\ h = Cardinality(InHand(p))
           /\ t = Taken(p) /\ l = Cardinality(L) /\ m = Cardinality(Q) /\ k = Cardinality(H)
           /\ o = Owing(p)
    BY <2>1, <2>3, <2>4, <2>5, <2>9
  <2>11. a + q + h <= t + o /\ t <= l + m + k /\ m <= q /\ k <= h /\ o <= full /\ full \in Int
    BY <2>4, <2>5, <2>6, <2>8, <2>9, <2>10
  <2>12. a <= l + full
    BY <2>11
  <2> QED
    BY <2>10, <2>12 DEF full, L
<1>2. Ground /\ DoubtInv => DoubleLabelsBounded
  BY <1>1 DEF DoubleLabelsBounded
<1> QED
  BY <1>2, LineGround, DoubtInvariant, PTL
=============================================================================

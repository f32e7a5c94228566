-------------------------- MODULE ValentinLineProofs --------------------------
(***************************************************************************)
(* Proofs about ValentinLine, for every number of codes and failures and   *)
(* every set of registered printers: labels come in order, no code is on   *)
(* two of them, what is printed stays as it is, and a code that was        *)
(* reported printed was armed and not replaced before its label.           *)
(***************************************************************************)
EXTENDS ValentinLine, CodeShardProofs, SequenceTheorems

-----------------------------------------------------------------------------
(* What the transactions do to the rows of one task.                        *)

\* Rows keep their task and their external id.
Kept == \A i \in Ids : i \in Ids' /\ rows'[i].task = rows[i].task /\ rows'[i].ext = rows[i].ext

\* The row of a push: the first that waits in the printer's lane.
LEMMA FirstSelected ==
    ASSUME ShardTypeOK, NEW p \in Printers, NEW i \in Selected(Task, p, 1)
    PROVE  /\ i \in Fetchable(Task, p) /\ Rank(Fetchable(Task, p), i) = 1
           /\ \A j \in Fetchable(Task, p) : i <= j
           /\ \A j \in Selected(Task, p, 1) : j = i
<1> DEFINE F == Fetchable(Task, p)
<1>1. lastId \in Nat /\ F \in SUBSET (1..lastId)
  BY ParameterAssumption DEF ShardTypeOK, Fetchable, Ids
<1>2. /\ \A j \in F : Rank(F, j) \in Nat /\ Rank(F, j) >= 1
      /\ \A j, k \in F : j < k => Rank(F, j) < Rank(F, k)
  BY <1>1, RankFacts
<1>3. \A j \in Selected(Task, p, 1) : j \in F /\ Rank(F, j) = 1
  <2>1. \A j \in Selected(Task, p, 1) : j \in F /\ Rank(F, j) <= 1
    BY DEF Selected
  <2> QED
    BY <2>1, <1>2
<1>4. \A j \in F : ~(j < i)
  BY <1>2, <1>3
<1>5. \A j \in F : j \in Int
  BY <1>1
<1>6. \A j \in Selected(Task, p, 1) : ~(i < j)
  BY <1>2, <1>3
<1> QED
  BY <1>3, <1>4, <1>5, <1>6

LEMMA FetchOne ==
    ASSUME ShardTypeOK, NEW p \in Printers, FetchAndAssignCodes(Task, p, 1),
           NEW i \in Selected(Task, p, 1)
    PROVE  /\ lastId' = lastId
           /\ \A j \in Ids : j # i => rows'[j] = rows[j]
           /\ \E last \in LastIndex(Task, p) :
                 rows'[i] = [rows[i] EXCEPT !.status = "in_buffer", !.printer = p,
                                            !.index = last + 1]
<1>1. /\ Rank(Fetchable(Task, p), i) = 1 /\ i \in Ids
      /\ \A j \in Selected(Task, p, 1) : j = i
  BY FirstSelected DEF Fetchable
<1> QED
  BY <1>1 DEF FetchAndAssignCodes

LEMMA LastIndexType ==
    ASSUME ShardTypeOK, NEW p \in Printers, NEW last \in LastIndex(Task, p)
    PROVE  /\ last \in Nat
           /\ \A j \in AssignedTo(Task, p) : rows[j].index <= last
           /\ last = 0 \/ \E j \in AssignedTo(Task, p) : rows[j].index = last
  BY DEF LastIndex, AssignedTo, ShardTypeOK, Row

LEMMA FetchOneRow ==
    ASSUME ShardTypeOK, NEW p \in Printers, FetchAndAssignCodes(Task, p, 1),
           NEW i \in Selected(Task, p, 1)
    PROVE  /\ i \in Ids /\ rows[i].task = Task /\ InLane(p, i)
           /\ rows[i].status = "pending" /\ rows[i].printer = NoPrinter
           /\ rows'[i] \in Row
           /\ rows'[i].task = Task /\ rows'[i].ext = rows[i].ext
           /\ rows'[i].status = "in_buffer" /\ rows'[i].printer = p
           /\ rows'[i].index \in Nat
           /\ ShardTypeOK' /\ Kept
<1>1. i \in Ids /\ rows[i].task = Task /\ InLane(p, i) /\ rows[i] \in Row
      /\ rows[i].status = "pending" /\ rows[i].printer = NoPrinter
  BY FirstSelected DEF Fetchable, ShardTypeOK
<1>2. PICK last \in LastIndex(Task, p) :
         rows'[i] = [rows[i] EXCEPT !.status = "in_buffer", !.printer = p,
                                    !.index = last + 1]
  BY FetchOne
<1>3. last + 1 \in Nat
  BY LastIndexType
<1>4. /\ rows'[i] \in Row /\ rows'[i].task = Task /\ rows'[i].ext = rows[i].ext
      /\ rows'[i].status = "in_buffer" /\ rows'[i].printer = p
      /\ rows'[i].index \in Nat
  BY <1>1, <1>2, <1>3 DEF Row, Statuses
<1>5. lastId' = lastId /\ \A j \in Ids : j # i => rows'[j] = rows[j]
  BY FetchOne
<1>6. DOMAIN rows' = Ids
  BY DEF FetchAndAssignCodes
<1>7. \A j \in Ids : rows'[j] \in Row
  BY <1>4, <1>5 DEF ShardTypeOK
<1>8. ShardTypeOK'
  <2>1. rows' = [j \in Ids |-> rows'[j]]
    BY <1>6 DEF FetchAndAssignCodes
  <2>2. Ids' = Ids
    BY <1>5 DEF Ids
  <2> HIDE DEF Ids
  <2>3. rows' \in [Ids -> Row]
    BY <2>1, <1>7
  <2> QED
    BY <2>2, <2>3, <1>5 DEF ShardTypeOK
<1>9. Kept
  BY <1>1, <1>4, <1>5 DEF Kept, Ids
<1> QED
  BY <1>1, <1>4, <1>8, <1>9

LEMMA AppendRows ==
    ASSUME ShardTypeOK, NEW items \in Batches, AppendTaskCodes(Task, items)
    PROVE  /\ ShardTypeOK' /\ Kept
           /\ \A i \in Ids : rows'[i] = rows[i]
           /\ \A i \in Ids' \ Ids : /\ i > lastId /\ rows'[i].printer = NoPrinter
                                   /\ rows'[i].status = "pending"
<1>1. /\ \A i \in Ids : i \in Ids' /\ rows'[i] = rows[i]
      /\ \A i \in Ids' \ Ids : /\ i > lastId
                              /\ rows'[i] = NewRow(Task, items[i - lastId])
  BY AppendStep, ValentinAssumption
<1>2. \A item : NewRow(Task, item).printer = NoPrinter /\ NewRow(Task, item).status = "pending"
  BY DEF NewRow
<1>3. ShardTypeOK'
  BY TypeStep, ValentinAssumption DEF ShardNext
<1> QED
  BY <1>1, <1>2, <1>3 DEF Kept

LEMMA ReconcileRows ==
    ASSUME ShardTypeOK, NEW p \in Printers, NEW n \in Int,
           ReconcileAndFinalizeTaskCodes(Task, p, n)
    PROVE  /\ ShardTypeOK' /\ Kept /\ lastId' = lastId
           /\ \A i \in Ids \ InBuffer(Task, p) : rows'[i] = rows[i]
           /\ \A i \in InBuffer(Task, p) :
                 \/ rows[i].index <= n /\ rows'[i].status = "printed"
                 \/ rows'[i].status = "pending" /\ rows'[i].printer = NoPrinter
<1>1. Task \in Tasks
  BY ValentinAssumption
<1>2. /\ lastId' = lastId
      /\ \A i \in Ids : rows'[i].task = rows[i].task /\ rows'[i].ext = rows[i].ext
      /\ \A i \in Ids \ InBuffer(Task, p) : rows'[i] = rows[i]
      /\ \A i \in InBuffer(Task, p) :
            \/ rows[i].index <= n /\ rows'[i].status = "printed"
            \/ rows'[i].status = "pending" /\ rows'[i].printer = NoPrinter
  BY <1>1, ReconcileStep
<1>3. ShardTypeOK'
  <2>1. Ids' = Ids
    BY <1>2 DEF Ids
  <2>2. \A i \in Ids : rows[i] \in Row
    BY DEF ShardTypeOK
  <2>3. \A r \in Row : /\ [r EXCEPT !.status = "printed"] \in Row
                       /\ [r EXCEPT !.status = "pending", !.printer = NoPrinter, !.index = 0] \in Row
    BY DEF Row, Statuses
  <2> HIDE DEF Ids
  <2>4. rows' \in [Ids -> Row]
    BY <2>2, <2>3 DEF ReconcileAndFinalizeTaskCodes
  <2> QED
    BY <2>1, <2>4, <1>2 DEF ShardTypeOK
<1> QED
  BY <1>2, <1>3 DEF Kept, Ids

LEMMA ReportRows ==
    ASSUME ShardTypeOK, NEW i \in Ids, NEW index \in Nat, UpdateCodeStatusByID(i, index)
    PROVE  /\ ShardTypeOK' /\ Kept /\ lastId' = lastId
           /\ \A j \in Ids : j # i => rows'[j] = rows[j]
           /\ rows'[i].status = "printed" /\ rows'[i].index = index
           /\ rows'[i].printer = rows[i].printer
<1>1. rows[i] \in Row /\ rows \in [Ids -> Row]
  BY DEF ShardTypeOK
<1>2. rows' = [rows EXCEPT ![i] = [@ EXCEPT !.status = "printed", !.index = index]]
  BY DEF UpdateCodeStatusByID
<1>3. [rows[i] EXCEPT !.status = "printed", !.index = index] \in Row
  BY <1>1 DEF Row, Statuses
<1>4. rows' \in [Ids -> Row] /\ lastId' = lastId /\ Ids' = Ids
  BY <1>1, <1>2, <1>3 DEF UpdateCodeStatusByID, Ids
<1>5. rows'[i] = [rows[i] EXCEPT !.status = "printed", !.index = index]
      /\ \A j \in Ids : j # i => rows'[j] = rows[j]
  BY <1>1, <1>2
<1>6. /\ rows'[i].status = "printed" /\ rows'[i].index = index
      /\ rows'[i].printer = rows[i].printer
      /\ rows'[i].task = rows[i].task /\ rows'[i].ext = rows[i].ext
  BY <1>5, <1>1 DEF Row
<1> QED
  BY <1>4, <1>5, <1>6 DEF ShardTypeOK, Kept

LEMMA KeptLanes ==
    ASSUME Kept, NEW q, NEW i \in Ids
    PROVE  InLane(q, i)' <=> InLane(q, i)
  BY DEF Kept, InLane, Parity

-----------------------------------------------------------------------------
(* Types, under every event, and what a pump has in its hands: a row of the *)
(* task in its printer's lane.                                              *)

PumpPlaces == {"none", "tick", "count", "push", "send", "report", "exit"}
PumpType == [pc : PumpPlaces, last : Nat \cup {-1}, todo : Nat, row : 0..MaxRows, index : Nat]

Hand(p) ==
    /\ pump[p].pc \in {"push", "send", "report"} => pump[p].todo >= 1
    /\ pump[p].pc \in {"send", "report"} =>
          pump[p].row \in Ids /\ rows[pump[p].row].task = Task /\ InLane(p, pump[p].row)

Typed == TypeOK /\ \A p \in Registered : Hand(p)

LEMMA PrinterOf == \A p \in Registered : p \in Printers
  BY ValentinAssumption

\* A label is that printer's alone.
LEMMA LabelElsewhere ==
    ASSUME Typed, NEW p \in Registered, NEW q \in Registered, p # q, Label(p)
    PROVE  /\ UNCHANGED <<shardVars, taskVars, stopVars, pump, driverVars, field>>
           /\ labels'[q] = labels[q] /\ waiting'[q] = waiting[q] /\ fbbc'[q] = fbbc[q]
<1>1. /\ labels \in [Registered -> Seq(0..MaxRows)] /\ waiting \in [Registered -> BOOLEAN]
      /\ fbbc \in [Registered -> Nat]
  BY DEF Typed, TypeOK
<1> QED
  BY <1>1 DEF Label

LEMMA CountType ==
    ASSUME TypeOK, NEW p \in Registered, GetCurrentPrintCount(p)
    PROVE  /\ lastCount' \in [Registered -> Nat] /\ lastRawFBBC' \in [Registered -> Nat]
           /\ faults' \in 0..MaxFaults
<1>1. VirtualCount(p, fbbc[p]) \in Nat /\ fbbc[p] \in Nat
  BY DEF TypeOK, VirtualCount
<1>2. faults' \in 0..MaxFaults
  BY ValentinAssumption DEF TypeOK, GetCurrentPrintCount, Fault, NoFault
<1>3. \/ UNCHANGED driverVars
      \/ /\ lastCount' = [lastCount EXCEPT ![p] = VirtualCount(p, fbbc[p])]
         /\ lastRawFBBC' = [lastRawFBBC EXCEPT ![p] = fbbc[p]]
  BY DEF GetCurrentPrintCount
<1>4. lastCount \in [Registered -> Nat] /\ lastRawFBBC \in [Registered -> Nat]
  BY DEF TypeOK
<1>5. lastCount' \in [Registered -> Nat] /\ lastRawFBBC' \in [Registered -> Nat]
  <2>1. CASE UNCHANGED driverVars
    BY <2>1, <1>4 DEF driverVars
  <2>2. CASE /\ lastCount' = [lastCount EXCEPT ![p] = VirtualCount(p, fbbc[p])]
             /\ lastRawFBBC' = [lastRawFBBC EXCEPT ![p] = fbbc[p]]
    BY <2>2, <1>1, <1>4
  <2> QED
    BY <2>1, <2>2, <1>3
<1> QED
  BY <1>2, <1>5

\* A step of one pump.
LEMMA PumpTyped ==
    ASSUME pump \in [Registered -> PumpType], NEW p \in Registered, NEW next \in PumpType,
           Step(p, next)
    PROVE  /\ pump' \in [Registered -> PumpType] /\ pump'[p] = next
           /\ \A q \in Registered : q # p => pump'[q] = pump[q]
  BY DEF Step

LEMMA PumpPart == TypeOK <=> (TypeOK /\ pump \in [Registered -> PumpType])
  BY DEF TypeOK, PumpType, PumpPlaces

\* What a pump becomes is a pump.
LEMMA PumpEmptied ==
    ASSUME NEW k \in PumpType, NEW n \in Nat, NEW r \in 0..MaxRows, NEW m \in Nat,
           NEW place \in PumpPlaces
    PROVE  [k EXCEPT !.todo = n, !.row = r, !.index = m, !.pc = place] \in PumpType
  BY DEF PumpType

LEMMA PumpMarked ==
    ASSUME NEW k \in PumpType, NEW n \in Nat, NEW place \in PumpPlaces,
           NEW last \in Nat \cup {-1}
    PROVE  [k EXCEPT !.pc = place, !.todo = n, !.last = last] \in PumpType
  BY DEF PumpType

LEMMA PushedPump ==
    ASSUME NEW k \in PumpType, k.todo >= 1
    PROVE  /\ Pushed(k) \in PumpType
           /\ Pushed(k).pc \in {"tick", "push"}
           /\ Pushed(k).pc = "push" => Pushed(k).todo >= 1
<1>1. PICK n \in Nat : n = k.todo - 1
  BY DEF PumpType
<1>2. NoRow \in 0..MaxRows /\ 0 \in Nat /\ "tick" \in PumpPlaces /\ "push" \in PumpPlaces
  BY ParameterAssumption DEF NoRow, PumpPlaces
<1>3. CASE k.todo = 1
  <2>1. [k EXCEPT !.todo = n, !.row = NoRow, !.index = 0, !.pc = "tick"] \in PumpType
    BY <1>2, PumpEmptied
  <2>2. Pushed(k) = [k EXCEPT !.todo = n, !.row = NoRow, !.index = 0, !.pc = "tick"]
    BY <1>1, <1>3 DEF Pushed
  <2> QED
    BY <2>1, <2>2 DEF PumpType
<1>4. CASE k.todo # 1
  <2>1. [k EXCEPT !.todo = n, !.row = NoRow, !.index = 0, !.pc = "push"] \in PumpType
    BY <1>2, PumpEmptied
  <2>2. Pushed(k) = [k EXCEPT !.todo = n, !.row = NoRow, !.index = 0, !.pc = "push"]
    BY <1>1, <1>4 DEF Pushed
  <2>3. n >= 1
    BY <1>1, <1>4 DEF PumpType
  <2> QED
    BY <2>1, <2>2, <2>3 DEF PumpType
<1> QED
  BY <1>3, <1>4

LEMMA NextPumps ==
    ASSUME NEW k \in PumpType
    PROVE  /\ \A place \in PumpPlaces : [k EXCEPT !.pc = place] \in PumpType
           /\ NoPump \in PumpType /\ FreshPump \in PumpType
           /\ GiveUp(k) \in PumpType
<1>1. 0 \in 0..MaxRows
  BY ParameterAssumption
<1>2. NoPump \in PumpType
  BY <1>1 DEF NoPump, NoRow, PumpType, PumpPlaces
<1>3. [NoPump EXCEPT !.pc = "push", !.todo = 1] \in PumpType
  BY <1>2 DEF PumpType, PumpPlaces
<1>4. \A place \in PumpPlaces : [k EXCEPT !.pc = place] \in PumpType
  BY DEF PumpType
<1>5. GiveUp(k) \in PumpType
  BY <1>1 DEF GiveUp, NoRow, PumpType, PumpPlaces
<1> QED
  BY <1>2, <1>3, <1>4, <1>5 DEF FreshPump

\* Where the pumps of the other printers stand does not change, nor their rows.
LEMMA HandStays ==
    ASSUME Kept, NEW q \in Registered, Hand(q), pump'[q] = pump[q]
    PROVE  Hand(q)'
<1>1. \A i \in Ids : i \in Ids' /\ rows'[i].task = rows[i].task
  BY DEF Kept
<1>2. \A i \in Ids : InLane(q, i)' <=> InLane(q, i)
  BY KeptLanes
<1> QED
  BY <1>1, <1>2 DEF Hand

LEMMA SameRows ==
    ASSUME UNCHANGED shardVars
    PROVE  Kept /\ rows' = rows /\ lastId' = lastId /\ Ids' = Ids
  BY DEF shardVars, Kept, Ids

\* A step of a pump keeps the types if its own and the rows' are kept.
LEMMA PumpStepTyped ==
    ASSUME Typed, ShardTypeOK', Kept, NEW p \in Registered, NEW next \in PumpType,
           Step(p, next), Hand(p)',
           UNCHANGED <<taskVars, stopVars, stops, labels>>,
           lastCount' \in [Registered -> Nat] /\ lastRawFBBC' \in [Registered -> Nat],
           field' \in [Registered -> 0..MaxRows] /\ waiting' \in [Registered -> BOOLEAN],
           fbbc' \in [Registered -> Nat], faults' \in 0..MaxFaults
    PROVE  Typed'
<1>1. /\ pump' \in [Registered -> PumpType]
      /\ \A q \in Registered : q # p => pump'[q] = pump[q]
  BY PumpTyped, PumpPart DEF Typed
<1>2. \A q \in Registered : Hand(q)'
  BY <1>1, HandStays DEF Typed
<1>3. TypeOK'
  BY <1>1 DEF Typed, TypeOK, PumpType, PumpPlaces, taskVars, stopVars
<1> QED
  BY <1>2, <1>3 DEF Typed

LEMMA TickTyped == ASSUME Typed, NEW p \in Registered, PumpTick(p) PROVE Typed'
<1> DEFINE next == [pump[p] EXCEPT !.pc = IF taskStatus = "stopped" THEN "exit" ELSE "count"]
<1>1. pump[p] \in PumpType /\ next \in PumpType /\ next.pc \in {"exit", "count"}
  BY PumpPart, NextPumps DEF Typed, PumpPlaces, PumpType
<1>2. Step(p, next) /\ UNCHANGED shardVars
  BY DEF PumpTick
<1>3. Kept /\ ShardTypeOK'
  BY <1>2, SameRows DEF Typed, TypeOK, ShardTypeOK
<1>4. pump'[p] = next
  BY <1>1, <1>2, PumpTyped, PumpPart DEF Typed
<1>5. Hand(p)'
  BY <1>1, <1>4 DEF Hand
<1> HIDE DEF next
<1> QED
  BY <1>1, <1>2, <1>3, <1>5, PumpStepTyped
     DEF PumpTick, Typed, TypeOK, taskVars, stopVars, driverVars, deviceVars, bounds

LEMMA CountTyped == ASSUME Typed, NEW p \in Registered, PumpCount(p) PROVE Typed'
<1>1. pump[p] \in PumpType /\ UNCHANGED shardVars
  BY PumpPart DEF Typed, PumpCount
<1>2. Kept /\ ShardTypeOK'
  BY <1>1, SameRows DEF Typed, TypeOK, ShardTypeOK
<1>3. ASSUME GetCurrentPrintCount(p),
             Step(p, [pump[p] EXCEPT
                        !.pc = IF Delta(pump[p], lastCount'[p]) > 0 THEN "push" ELSE "tick",
                        !.todo = Delta(pump[p], lastCount'[p]),
                        !.last = IF pump[p].last < 0 \/ Delta(pump[p], lastCount'[p]) > 0
                                 THEN lastCount'[p] ELSE @])
      PROVE  Typed'
  <2> DEFINE delta == Delta(pump[p], lastCount'[p])
             next == [pump[p] EXCEPT !.pc = IF delta > 0 THEN "push" ELSE "tick",
                        !.todo = delta,
                        !.last = IF pump[p].last < 0 \/ delta > 0 THEN lastCount'[p] ELSE @]
  <2>1. /\ lastCount' \in [Registered -> Nat] /\ lastRawFBBC' \in [Registered -> Nat]
        /\ faults' \in 0..MaxFaults
    BY <1>3, CountType DEF Typed
  <2>2. delta \in Nat
    BY <2>1, <1>1 DEF Delta, PumpType
  <2>3. next \in PumpType /\ next.pc \in {"push", "tick"} /\ (next.pc = "push" => next.todo >= 1)
    <3> HIDE DEF delta
    <3>1. lastCount'[p] \in Nat /\ lastCount'[p] \in Nat \cup {-1}
      BY <2>1
    <3>4. "push" \in PumpPlaces /\ "tick" \in PumpPlaces
      BY DEF PumpPlaces
    <3>2. CASE delta > 0
      <4>1. next = [pump[p] EXCEPT !.pc = "push", !.todo = delta, !.last = lastCount'[p]]
        BY <3>2
      <4>2. [pump[p] EXCEPT !.pc = "push", !.todo = delta, !.last = lastCount'[p]] \in PumpType
        BY <3>1, <3>4, <2>2, <1>1, PumpMarked
      <4> HIDE DEF next
      <4>3. next.pc = "push" /\ next.todo = delta
        BY <4>1, <1>1 DEF PumpType
      <4> QED
        BY <4>1, <4>2, <4>3, <3>2, <2>2
    <3>3. CASE ~(delta > 0)
      <4>1. PICK last \in Nat \cup {-1} :
               next = [pump[p] EXCEPT !.pc = "tick", !.todo = delta, !.last = last]
        BY <3>1, <3>3, <1>1 DEF PumpType
      <4>2. [pump[p] EXCEPT !.pc = "tick", !.todo = delta, !.last = last] \in PumpType
        BY <3>4, <2>2, <1>1, PumpMarked
      <4> HIDE DEF next
      <4>3. next.pc = "tick"
        BY <4>1, <1>1 DEF PumpType
      <4> QED
        BY <4>1, <4>2, <4>3
    <3> QED
      BY <3>2, <3>3
  <2>4. Step(p, next)
    BY <1>3
  <2> HIDE DEF next
  <2>5. pump'[p] = next
    BY <2>3, <2>4, PumpTyped, PumpPart DEF Typed
  <2>6. Hand(p)'
    BY <2>3, <2>5 DEF Hand
  <2> QED
    BY <2>1, <2>3, <2>4, <2>6, <1>2, PumpStepTyped
       DEF PumpCount, Typed, TypeOK, taskVars, stopVars, deviceVars
<1>4. ASSUME Fault, Step(p, [pump[p] EXCEPT !.pc = "tick"]), UNCHANGED driverVars
      PROVE  Typed'
  <2> DEFINE next == [pump[p] EXCEPT !.pc = "tick"]
  <2>1. next \in PumpType /\ next.pc = "tick" /\ Step(p, next)
    BY <1>1, <1>4, NextPumps DEF PumpPlaces, PumpType
  <2> HIDE DEF next
  <2>2. Hand(p)'
    BY <2>1, PumpTyped, PumpPart DEF Typed, Hand
  <2>3. faults' \in 0..MaxFaults
    BY <1>4, ValentinAssumption DEF Fault, Typed, TypeOK
  <2> QED
    BY <2>1, <2>2, <2>3, <1>2, <1>4, PumpStepTyped
       DEF PumpCount, Typed, TypeOK, taskVars, stopVars, deviceVars, driverVars
<1> QED
  BY <1>3, <1>4 DEF PumpCount

LEMMA FetchTyped == ASSUME Typed, NEW p \in Registered, PumpFetch(p) PROVE Typed'
<1>1. pump[p] \in PumpType /\ pump[p].pc = "push" /\ pump[p].todo >= 1
  BY PumpPart DEF Typed, PumpFetch, Hand
<1>2. ASSUME FetchAndAssignCodes(Task, p, 1), NEW i \in Selected(Task, p, 1),
             Step(p, [pump[p] EXCEPT !.pc = "send", !.row = i, !.index = rows'[i].index])
      PROVE  Typed'
  <2> DEFINE next == [pump[p] EXCEPT !.pc = "send", !.row = i, !.index = rows'[i].index]
  <2>1. /\ i \in Ids /\ rows[i].task = Task /\ InLane(p, i)
        /\ rows'[i].index \in Nat /\ ShardTypeOK' /\ Kept
    BY <1>2, FetchOneRow, PrinterOf DEF Typed, TypeOK
  <2>2. i \in 0..MaxRows
    BY <2>1, ParameterAssumption DEF Typed, TypeOK, ShardTypeOK, Ids
  <2>3. next \in PumpType /\ next.pc = "send" /\ next.todo >= 1 /\ next.row = i /\ Step(p, next)
    BY <2>1, <2>2, <1>1, <1>2 DEF PumpType, PumpPlaces
  <2> HIDE DEF next
  <2>4. pump'[p] = next
    BY <2>3, PumpTyped, PumpPart DEF Typed
  <2>5. Hand(p)'
    BY <2>1, <2>3, <2>4, KeptLanes DEF Hand, Kept
  <2> QED
    BY <2>1, <2>3, <2>5, PumpStepTyped
       DEF PumpFetch, Typed, TypeOK, taskVars, stopVars, deviceVars, driverVars, bounds
<1>3. ASSUME Step(p, Pushed(pump[p])), UNCHANGED shardVars
      PROVE  Typed'
  <2> DEFINE next == Pushed(pump[p])
  <2>1. /\ next \in PumpType /\ next.pc \in {"tick", "push"} /\ Step(p, next)
        /\ next.pc = "push" => next.todo >= 1
    BY <1>1, <1>3, PushedPump
  <2> HIDE DEF next
  <2>2. Hand(p)'
    BY <2>1, PumpTyped, PumpPart DEF Typed, Hand
  <2>3. Kept /\ ShardTypeOK'
    BY <1>3, SameRows DEF Typed, TypeOK, ShardTypeOK
  <2> QED
    BY <2>1, <2>2, <2>3, PumpStepTyped
       DEF PumpFetch, Typed, TypeOK, taskVars, stopVars, deviceVars, driverVars, bounds
<1> QED
  BY <1>2, <1>3 DEF PumpFetch

LEMMA SendTyped == ASSUME Typed, NEW p \in Registered, PumpSend(p) PROVE Typed'
<1>1. pump[p] \in PumpType /\ UNCHANGED shardVars /\ pump[p].pc = "send" /\ Hand(p)
  BY PumpPart DEF Typed, PumpSend
<1>2. Kept /\ ShardTypeOK' /\ Ids' = Ids /\ rows' = rows
  BY <1>1, SameRows DEF Typed, TypeOK, ShardTypeOK
<1>3. /\ field' \in [Registered -> 0..MaxRows] /\ waiting' \in [Registered -> BOOLEAN]
      /\ fbbc' \in [Registered -> Nat] /\ faults' \in 0..MaxFaults
  <2>1. faults' \in 0..MaxFaults
    <3>1. faults' = faults \/ (faults < MaxFaults /\ faults' = faults + 1)
      BY DEF PumpSend, Fault, NoFault
    <3>2. faults \in 0..MaxFaults /\ MaxFaults \in Nat
      BY ValentinAssumption DEF Typed, TypeOK
    <3> QED
      BY <3>1, <3>2
  <2>2. pump[p].row \in 0..MaxRows
    BY <1>1 DEF PumpType
  <2>3. field' = field \/ field' = [field EXCEPT ![p] = pump[p].row]
    BY DEF PumpSend
  <2>4. waiting' = waiting \/ waiting' = [waiting EXCEPT ![p] = TRUE]
    BY DEF PumpSend
  <2>5. fbbc' = fbbc \/ fbbc' = [fbbc EXCEPT ![p] = 0]
    BY DEF PumpSend
  <2>6. /\ field \in [Registered -> 0..MaxRows] /\ waiting \in [Registered -> BOOLEAN]
        /\ fbbc \in [Registered -> Nat]
    BY DEF Typed, TypeOK
  <2>7. field' \in [Registered -> 0..MaxRows]
    BY <2>2, <2>3, <2>6
  <2>8. waiting' \in [Registered -> BOOLEAN]
    BY <2>4, <2>6
  <2>9. fbbc' \in [Registered -> Nat]
    BY <2>5, <2>6
  <2> QED
    BY <2>1, <2>7, <2>8, <2>9
<1>4. ASSUME NEW next \in PumpType, Step(p, next), Hand(p)'
      PROVE  Typed'
  BY <1>2, <1>3, <1>4, PumpStepTyped
     DEF PumpSend, Typed, TypeOK, taskVars, stopVars, driverVars
<1>5. CASE Step(p, [pump[p] EXCEPT !.pc = "report"])
  <2> DEFINE next == [pump[p] EXCEPT !.pc = "report"]
  <2>1. /\ next \in PumpType /\ Step(p, next)
        /\ next.row = pump[p].row /\ next.todo = pump[p].todo
    BY <1>1, <1>5, NextPumps DEF PumpPlaces, PumpType
  <2> HIDE DEF next
  <2>2. pump'[p] = next
    BY <2>1, PumpTyped, PumpPart DEF Typed
  <2>3. Hand(p)'
    BY <2>1, <2>2, <1>1, <1>2, KeptLanes DEF Hand
  <2> QED
    BY <2>1, <2>3, <1>4
<1>6. CASE Step(p, GiveUp(pump[p]))
  <2> DEFINE next == GiveUp(pump[p])
  <2>1. next \in PumpType /\ Step(p, next) /\ next.pc = "tick"
    BY <1>1, <1>6, NextPumps DEF GiveUp, PumpType
  <2> HIDE DEF next
  <2>2. Hand(p)'
    BY <2>1, PumpTyped, PumpPart DEF Typed, Hand
  <2> QED
    BY <2>1, <2>2, <1>4
<1> QED
  BY <1>5, <1>6 DEF PumpSend

LEMMA ReportTyped == ASSUME Typed, NEW p \in Registered, PumpReport(p) PROVE Typed'
<1>1. pump[p] \in PumpType /\ pump[p].pc = "report" /\ Hand(p) /\ pump[p].todo >= 1
  BY PumpPart DEF Typed, PumpReport, Hand
<1>2. ShardTypeOK' /\ Kept /\ faults' \in 0..MaxFaults
  <2>1. CASE UpdateCodeStatusByID(pump[p].row, pump[p].index) /\ NoFault
    BY <2>1, <1>1, ReportRows DEF Hand, PumpType, Typed, TypeOK, NoFault
  <2>2. CASE Fault /\ UNCHANGED shardVars
    BY <2>2, SameRows, ValentinAssumption DEF Typed, TypeOK, ShardTypeOK, Fault
  <2> QED
    BY <2>1, <2>2 DEF PumpReport
<1> DEFINE next == Pushed(pump[p])
<1>3. /\ next \in PumpType /\ next.pc \in {"tick", "push"} /\ Step(p, next)
      /\ next.pc = "push" => next.todo >= 1
  BY <1>1, PushedPump DEF PumpReport
<1> HIDE DEF next
<1>4. Hand(p)'
  BY <1>3, PumpTyped, PumpPart DEF Typed, Hand
<1> QED
  BY <1>2, <1>3, <1>4, PumpStepTyped
     DEF PumpReport, Typed, TypeOK, taskVars, stopVars, deviceVars, driverVars

LEMMA ExitTyped == ASSUME Typed, NEW p \in Registered, PumpExit(p) PROVE Typed'
<1>1. Kept /\ ShardTypeOK'
  BY SameRows DEF PumpExit, Typed, TypeOK, ShardTypeOK
<1>2. NoPump \in PumpType /\ NoPump.pc = "none" /\ pump \in [Registered -> PumpType]
  BY PumpPart, NextPumps DEF Typed, NoPump
<1>3. /\ pump' \in [Registered -> PumpType] /\ pump'[p] = NoPump
      /\ \A q \in Registered : q # p => pump'[q] = pump[q]
  BY <1>2, PumpTyped DEF PumpExit
<1>4. Hand(p)'
  BY <1>2, <1>3 DEF Hand
<1>5. \A q \in Registered : Hand(q)'
  BY <1>1, <1>3, <1>4, HandStays DEF Typed
<1>6. TypeOK'
  BY <1>1, <1>3 DEF PumpExit, Typed, TypeOK, PumpType, PumpPlaces, stopVars, driverVars,
                    deviceVars, bounds
<1> QED
  BY <1>5, <1>6 DEF Typed

\* Steps that leave the pumps alone.
LEMMA OtherTyped ==
    ASSUME Typed, ShardTypeOK', Kept, UNCHANGED pump,
           taskStatus' \in {"active", "stopped"} /\ tracked' \in BOOLEAN,
           stop' \in [Registered -> {"idle", "poll", "reconcile", "clear"}],
           odometer' \in [Registered -> Nat], lastCount' \in [Registered -> Nat],
           lastRawFBBC' \in [Registered -> Nat], UNCHANGED field,
           waiting' \in [Registered -> BOOLEAN], fbbc' \in [Registered -> Nat],
           labels' \in [Registered -> Seq(0..MaxRows)], stops' \in 0..MaxStops,
           faults' \in 0..MaxFaults
    PROVE  Typed'
<1>1. \A q \in Registered : Hand(q)'
  BY HandStays DEF Typed
<1>2. TypeOK'
  BY DEF Typed, TypeOK
<1> QED
  BY <1>1, <1>2 DEF Typed

LEMMA AppendTyped == ASSUME Typed, NEW items \in Batches, TaskAppend(items) PROVE Typed'
<1>1. ShardTypeOK' /\ Kept
  BY AppendRows DEF TaskAppend, Typed, TypeOK
<1>2. CASE UNCHANGED pump
  BY <1>1, <1>2, OtherTyped DEF TaskAppend, Typed, TypeOK, stopVars, driverVars, deviceVars, bounds
<1>3. CASE pump' = [p \in Registered |-> FreshPump]
  <2>1. FreshPump \in PumpType /\ FreshPump.pc = "push" /\ FreshPump.todo = 1
    <3>1. NoPump \in PumpType
      BY ParameterAssumption DEF NoPump, NoRow, PumpType, PumpPlaces
    <3> QED
      BY <3>1 DEF FreshPump, PumpType, PumpPlaces
  <2>2. pump' \in [Registered -> PumpType] /\ \A p \in Registered : Hand(p)'
    BY <2>1, <1>3 DEF Hand
  <2>3. TypeOK'
    BY <2>2, <1>1 DEF TaskAppend, Typed, TypeOK, PumpType, PumpPlaces, stopVars, driverVars,
                      deviceVars, bounds
  <2> QED
    BY <2>2, <2>3 DEF Typed
<1> QED
  BY <1>2, <1>3 DEF TaskAppend

LEMMA TypedStep == Typed /\ [Next]_vars => Typed'
<1> SUFFICES ASSUME Typed, [Next]_vars
             PROVE  Typed'
  OBVIOUS
<1>0. ASSUME UNCHANGED shardVars
      PROVE  ShardTypeOK' /\ Kept
  BY <1>0, SameRows DEF Typed, TypeOK, ShardTypeOK
<1>1. ASSUME StopRequest PROVE Typed'
  <2>1. /\ stop' \in [Registered -> {"idle", "poll", "reconcile", "clear"}]
        /\ taskStatus' \in {"active", "stopped"} /\ tracked' \in BOOLEAN
        /\ stops' \in 0..MaxStops
    BY <1>1, ValentinAssumption DEF StopRequest, Typed, TypeOK
  <2> QED
    BY <2>1, <1>0, <1>1, OtherTyped
       DEF StopRequest, Typed, TypeOK, driverVars, deviceVars
<1>2. ASSUME NEW p \in Registered, Label(p) PROVE Typed'
  <2>1. Append(labels[p], field[p]) \in Seq(0..MaxRows) /\ fbbc[p] + 1 \in Nat
    BY DEF Typed, TypeOK
  <2> QED
    BY <2>1, <1>0, <1>2, OtherTyped
       DEF Label, Typed, TypeOK, taskVars, stopVars, driverVars, bounds
<1>3. ASSUME NEW p \in Registered, Poll(p) PROVE Typed'
  BY <1>0, <1>3, CountType, OtherTyped
     DEF Poll, Typed, TypeOK, taskVars, stopVars, deviceVars
<1>4. ASSUME NEW p \in Registered, Pump(p) PROVE Typed'
  BY <1>4, TickTyped, CountTyped, FetchTyped, SendTyped, ReportTyped, ExitTyped DEF Pump
<1>5. ASSUME NEW p \in Registered, Stop(p) PROVE Typed'
  <2>1. CASE StopPoll(p)
    BY <2>1, <1>0, OtherTyped
       DEF StopPoll, Typed, TypeOK, taskVars, driverVars, deviceVars, bounds
  <2>2. CASE StopReconcile(p)
    <3>1. odometer[p] \in Int
      BY DEF Typed, TypeOK
    <3>2. ShardTypeOK' /\ Kept
      BY <2>2, <3>1, ReconcileRows, PrinterOf DEF StopReconcile, Typed, TypeOK
    <3> QED
      BY <2>2, <3>2, OtherTyped
         DEF StopReconcile, Typed, TypeOK, taskVars, driverVars, deviceVars, bounds
  <2>3. CASE StopClear(p)
    BY <2>3, <1>0, OtherTyped DEF StopClear, Typed, TypeOK, taskVars, deviceVars, bounds
  <2> QED
    BY <1>5, <2>1, <2>2, <2>3 DEF Stop
<1>6. CASE UNCHANGED vars
  BY <1>0, <1>6, OtherTyped
     DEF vars, Typed, TypeOK, taskVars, stopVars, driverVars, deviceVars, bounds
<1> QED
  BY <1>1, <1>2, <1>3, <1>4, <1>5, <1>6, AppendTyped DEF Next

LEMMA TypedInit == Init => Typed
<1> SUFFICES ASSUME Init
             PROVE  Typed
  OBVIOUS
<1>1. ShardTypeOK
  BY ParameterAssumption DEF Init, ShardInit, ShardTypeOK, Ids
<1>2. NoPump \in PumpType /\ NoPump.pc = "none"
  BY ParameterAssumption DEF NoPump, NoRow, PumpType, PumpPlaces
<1>3. \A p \in Registered : Hand(p)
  BY <1>2 DEF Init, Hand
<1>4. <<>> \in Seq(0..MaxRows) /\ NoRow \in 0..MaxRows
  BY ParameterAssumption, EmptySeq DEF NoRow
<1>5. TypeOK
  <2>1. pump \in [Registered -> PumpType] /\ field \in [Registered -> 0..MaxRows]
    BY <1>2, <1>4 DEF Init
  <2>2. labels \in [Registered -> Seq(0..MaxRows)]
    BY <1>4 DEF Init
  <2>3. stops \in 0..MaxStops /\ faults \in 0..MaxFaults
    BY ValentinAssumption DEF Init
  <2>4. fbbc \in [Registered -> Nat]
    BY ValentinAssumption DEF Init
  <2> QED
    BY <1>1, <2>1, <2>2, <2>3, <2>4 DEF Init, TypeOK, PumpType, PumpPlaces
<1> QED
  BY <1>3, <1>5 DEF Typed

\* The rows, the pumps, the drivers and the printers keep their types.
THEOREM ValentinTypeCorrect == Spec => []TypeOK
<1>1. Typed => TypeOK
  BY DEF Typed
<1> QED
  BY <1>1, TypedInit, TypedStep, PTL DEF Spec


-----------------------------------------------------------------------------
(* Labels in order.  As long as no exchange failed, a printer has at most   *)
(* one row in its buffer, the one its pump has in its hands; what waits in  *)
(* its lane lies behind that row and behind the code in its field.          *)

Calm(q) ==
    /\ InBuffer(Task, q)' \subseteq InBuffer(Task, q)
    /\ \A j \in Fetchable(Task, q)' : j \in Fetchable(Task, q) \/ lastId < j
    /\ lastId <= lastId'

Carrying(p) == pump[p].pc \in {"send", "report"}

Ahead(p) ==
    /\ field[p] <= lastId
    /\ \A i \in InBuffer(Task, p) : Carrying(p) /\ i = pump[p].row
    /\ Carrying(p) => \A j \in Fetchable(Task, p) : pump[p].row <= j
    /\ pump[p].pc = "send" => field[p] < pump[p].row
    /\ pump[p].pc = "report" => field[p] = pump[p].row
    /\ pump[p].pc # "report" => \A j \in Fetchable(Task, p) : field[p] < j

Behind(p) ==
    \A l \in DOMAIN labels[p] :
        /\ labels[p][l] <= field[p]
        /\ waiting[p] /\ labels[p][l] # NoRow => labels[p][l] < field[p]

Rising(p) ==
    \A k, l \in DOMAIN labels[p] :
        k < l /\ labels[p][k] # NoRow => labels[p][k] < labels[p][l]

Turn(p) == Ahead(p) /\ Behind(p) /\ Rising(p)

InTurn == faults = 0 => \A p \in Registered : Turn(p)

\* The lanes of two printers of the line have no row in common.
LEMMA OneLane ==
    ASSUME NEW p \in Registered, NEW q \in Registered, p # q, NEW i, InLane(p, i)
    PROVE  ~InLane(q, i)
<1>1. p \in Printers /\ q \in Printers /\ Printers # {p} /\ Printers # {q}
  BY ValentinAssumption
<1>2. TargetModulo(p) # TargetModulo(q)
  BY <1>1, LaneAssumption
<1> QED
  BY <1>1, <1>2 DEF InLane

LEMMA SameCalm ==
    ASSUME ShardTypeOK, UNCHANGED shardVars, NEW q
    PROVE  Calm(q)
<1>1. lastId' = lastId /\ lastId \in Int /\ rows' = rows
  BY DEF ShardTypeOK, shardVars
<1>2. InBuffer(Task, q)' = InBuffer(Task, q) /\ Fetchable(Task, q)' = Fetchable(Task, q)
  BY <1>1 DEF InBuffer, AssignedTo, Fetchable, InLane, Parity, Ids
<1> QED
  BY <1>1, <1>2 DEF Calm

LEMMA AppendCalm ==
    ASSUME ShardTypeOK, NEW items \in Batches, AppendTaskCodes(Task, items), NEW q \in Printers
    PROVE  Calm(q)
<1>1. /\ ShardTypeOK' /\ Kept
      /\ \A i \in Ids : rows'[i] = rows[i]
      /\ \A i \in Ids' \ Ids : i > lastId /\ rows'[i].printer = NoPrinter
  BY AppendRows
<1>2. q # NoPrinter /\ lastId \in Int /\ lastId' \in Int
  BY <1>1, ParameterAssumption DEF ShardTypeOK
<1>3. InBuffer(Task, q)' \subseteq InBuffer(Task, q)
  BY <1>1, <1>2 DEF InBuffer, AssignedTo
<1>4. \A j \in Fetchable(Task, q)' : j \in Fetchable(Task, q) \/ lastId < j
  <2> SUFFICES ASSUME NEW j \in Fetchable(Task, q)', j \in Ids
               PROVE  j \in Fetchable(Task, q)
    BY <1>1 DEF Fetchable
  <2> QED
    BY <1>1, KeptLanes DEF Fetchable
<1>5. lastId <= lastId'
  <2>1. Len(items) \in Nat
    BY DEF Batches, Items
  <2> QED
    BY <2>1, <1>2 DEF AppendTaskCodes
<1> QED
  BY <1>3, <1>4, <1>5 DEF Calm

\* A fetch is none of the other printer's business.
LEMMA FetchCalm ==
    ASSUME ShardTypeOK, NEW p \in Registered, FetchAndAssignCodes(Task, p, 1),
           NEW i \in Selected(Task, p, 1), NEW q \in Registered, q # p
    PROVE  Calm(q)
<1>1. /\ i \in Ids /\ rows'[i].status = "in_buffer" /\ rows'[i].printer = p /\ Kept
      /\ lastId' = lastId /\ lastId \in Int /\ Ids' = Ids
      /\ \A j \in Ids : j # i => rows'[j] = rows[j]
  <2>1. p \in Printers
    BY PrinterOf
  <2>2. i \in Ids /\ rows'[i].status = "in_buffer" /\ rows'[i].printer = p /\ Kept
    BY <2>1, FetchOneRow
  <2>3. lastId' = lastId /\ \A j \in Ids : j # i => rows'[j] = rows[j]
    BY <2>1, FetchOne
  <2> QED
    BY <2>2, <2>3 DEF ShardTypeOK, Ids
<1>2. InBuffer(Task, q)' \subseteq InBuffer(Task, q)
  BY <1>1 DEF InBuffer, AssignedTo
<1>3. Fetchable(Task, q)' \subseteq Fetchable(Task, q)
  BY <1>1, KeptLanes DEF Fetchable
<1> QED
  BY <1>1, <1>2, <1>3 DEF Calm

LEMMA ReportCalm ==
    ASSUME ShardTypeOK, NEW i \in Ids, NEW index \in Nat, UpdateCodeStatusByID(i, index), NEW q
    PROVE  Calm(q)
<1>1. /\ rows'[i].status = "printed" /\ Kept /\ Ids' = Ids
      /\ lastId' = lastId /\ lastId \in Int
      /\ \A j \in Ids : j # i => rows'[j] = rows[j]
  BY ReportRows DEF ShardTypeOK, Ids
<1>2. InBuffer(Task, q)' \subseteq InBuffer(Task, q)
  BY <1>1 DEF InBuffer, AssignedTo
<1>3. Fetchable(Task, q)' \subseteq Fetchable(Task, q)
  BY <1>1, KeptLanes DEF Fetchable
<1> QED
  BY <1>1, <1>2, <1>3 DEF Calm

\* What a stop returns to one lane does not show in the other.
LEMMA ReconcileCalm ==
    ASSUME ShardTypeOK, NEW p \in Registered, NEW n \in Int,
           ReconcileAndFinalizeTaskCodes(Task, p, n), NEW q \in Registered, q # p,
           \A i \in InBuffer(Task, p) : InLane(p, i)
    PROVE  Calm(q)
<1>1. /\ Kept /\ Ids' = Ids /\ lastId' = lastId /\ lastId \in Int
      /\ \A i \in Ids \ InBuffer(Task, p) : rows'[i] = rows[i]
      /\ \A i \in InBuffer(Task, p) :
            rows'[i].status = "printed" \/ rows'[i].status = "pending"
  BY ReconcileRows, PrinterOf DEF ShardTypeOK, Ids
<1>2. InBuffer(Task, q)' \subseteq InBuffer(Task, q)
  BY <1>1 DEF InBuffer, AssignedTo
<1>3. Fetchable(Task, q)' \subseteq Fetchable(Task, q)
  <2> SUFFICES ASSUME NEW j \in Fetchable(Task, q)'
               PROVE  j \in Fetchable(Task, q)
    OBVIOUS
  <2>1. j \in Ids /\ InLane(q, j)
    BY <1>1, KeptLanes DEF Fetchable
  <2>2. j \notin InBuffer(Task, p)
    BY <2>1, OneLane
  <2> QED
    BY <1>1, <2>1, <2>2 DEF Fetchable
<1> QED
  BY <1>1, <1>2, <1>3 DEF Calm

\* What a calm step leaves of the order.
LEMMA AheadStays ==
    ASSUME Typed, Typed', NEW q \in Registered, Ahead(q), Calm(q), field'[q] = field[q],
           \/ pump'[q] = pump[q]
           \/ ~Carrying(q) /\ ~Carrying(q)'
    PROVE  Ahead(q)'
<1>1. field[q] \in Int /\ lastId \in Int /\ lastId' \in Int /\ pump[q].row \in Int
  BY PumpPart DEF Typed, TypeOK, ShardTypeOK, PumpType
<1>2. field'[q] <= lastId'
  BY <1>1 DEF Ahead, Calm
<1>3. \A j \in Fetchable(Task, q)' : j \in Int
  BY <1>1 DEF Fetchable, Ids
<1>4. CASE pump'[q] = pump[q]
  <2>1. Carrying(q)' <=> Carrying(q)
    BY <1>4 DEF Carrying
  <2>2. \A i \in InBuffer(Task, q)' : Carrying(q)' /\ i = pump'[q].row
    BY <1>4, <2>1 DEF Ahead, Calm
  <2>3. Carrying(q) => pump[q].row <= lastId
    BY <1>1 DEF Typed, Hand, Carrying, Ids
  <2>4. Carrying(q)' => \A j \in Fetchable(Task, q)' : pump'[q].row <= j
    BY <1>1, <1>3, <1>4, <2>1, <2>3 DEF Ahead, Calm
  <2>5. pump'[q].pc # "report" => \A j \in Fetchable(Task, q)' : field'[q] < j
    BY <1>1, <1>3, <1>4 DEF Ahead, Calm
  <2> QED
    BY <1>2, <1>4, <2>2, <2>4, <2>5 DEF Ahead
<1>5. CASE ~Carrying(q) /\ ~Carrying(q)'
  <2>1. \A i : i \notin InBuffer(Task, q)'
    BY <1>5 DEF Ahead, Calm
  <2>2. \A j \in Fetchable(Task, q)' : field'[q] < j
    BY <1>1, <1>3, <1>5 DEF Ahead, Calm, Carrying
  <2> QED
    BY <1>2, <1>5, <2>1, <2>2 DEF Ahead, Carrying
<1> QED
  BY <1>4, <1>5

LEMMA TurnStays ==
    ASSUME Typed, Typed', NEW q \in Registered, Turn(q), Calm(q),
           field'[q] = field[q], waiting'[q] = waiting[q], labels'[q] = labels[q],
           \/ pump'[q] = pump[q]
           \/ ~Carrying(q) /\ ~Carrying(q)'
    PROVE  Turn(q)'
<1>1. Ahead(q)'
  BY AheadStays DEF Turn
<1>2. Behind(q)' /\ Rising(q)'
  BY DEF Turn, Behind, Rising
<1> QED
  BY <1>1, <1>2 DEF Turn

\* A label takes the code of the field, behind all codes before it.
LEMMA LabelTurn ==
    ASSUME Typed, Typed', NEW p \in Registered, Label(p), Turn(p)
    PROVE  Turn(p)'
<1>1. /\ labels[p] \in Seq(0..MaxRows) /\ field[p] \in 0..MaxRows /\ MaxRows \in Nat
      /\ labels'[p] = Append(labels[p], field[p]) /\ field' = field /\ pump' = pump
      /\ waiting[p] /\ ~waiting'[p] /\ UNCHANGED shardVars
  BY ParameterAssumption DEF Label, Typed, TypeOK
<1>2. Ahead(p)'
  BY <1>1, SameCalm, AheadStays DEF Turn, Typed, TypeOK
<1>3. /\ Len(labels[p]) \in Nat /\ DOMAIN labels[p] = 1..Len(labels[p])
      /\ DOMAIN labels'[p] = 1..(Len(labels[p]) + 1)
      /\ \A l \in DOMAIN labels[p] : labels'[p][l] = labels[p][l] /\ labels[p][l] \in 0..MaxRows
      /\ labels'[p][Len(labels[p]) + 1] = field[p]
  BY <1>1
<1>4. \A l \in DOMAIN labels'[p] : l \in DOMAIN labels[p] \/ l = Len(labels[p]) + 1
  BY <1>3
<1>5. Behind(p)'
  <2> SUFFICES ASSUME NEW l \in DOMAIN labels'[p]
               PROVE  labels'[p][l] <= field'[p]
    BY <1>1 DEF Behind
  <2>1. CASE l \in DOMAIN labels[p]
    BY <2>1, <1>1, <1>3 DEF Turn, Behind
  <2>2. CASE l = Len(labels[p]) + 1
    BY <2>2, <1>1, <1>3
  <2> QED
    BY <2>1, <2>2, <1>4
<1>6. Rising(p)'
  <2> SUFFICES ASSUME NEW k \in DOMAIN labels'[p], NEW l \in DOMAIN labels'[p],
                      k < l, labels'[p][k] # NoRow
               PROVE  labels'[p][k] < labels'[p][l]
    BY DEF Rising
  <2>1. k \in DOMAIN labels[p]
    BY <1>3
  <2>2. CASE l \in DOMAIN labels[p]
    BY <2>1, <2>2, <1>3 DEF Turn, Rising
  <2>3. CASE l = Len(labels[p]) + 1
    BY <2>1, <2>3, <1>1, <1>3 DEF Turn, Behind
  <2> QED
    BY <2>2, <2>3, <1>4
<1> QED
  BY <1>2, <1>5, <1>6 DEF Turn

\* A fetch takes the first row of the lane into the pump's hands.
LEMMA FetchTurn ==
    ASSUME Typed, Typed', NEW p \in Registered, PumpFetch(p), Turn(p)
    PROVE  Turn(p)'
<1>0. /\ pump[p].pc = "push" /\ ~Carrying(p) /\ p \in Printers /\ ShardTypeOK
      /\ UNCHANGED <<field, waiting, labels>> /\ pump[p] \in PumpType
      /\ pump \in [Registered -> PumpType]
  BY PrinterOf, PumpPart DEF PumpFetch, Carrying, deviceVars, Typed, TypeOK
<1>1. ASSUME FetchAndAssignCodes(Task, p, 1), NEW i \in Selected(Task, p, 1),
             Step(p, [pump[p] EXCEPT !.pc = "send", !.row = i, !.index = rows'[i].index])
      PROVE  Turn(p)'
  <2>1. pump'[p].pc = "send" /\ pump'[p].row = i
    BY <1>0, <1>1 DEF Step, PumpType
  <2>2. /\ i \in Fetchable(Task, p) /\ \A j \in Fetchable(Task, p) : i <= j
    BY <1>0, <1>1, FirstSelected
  <2>3. /\ rows'[i].status = "in_buffer" /\ rows'[i].printer = p /\ Kept
        /\ lastId' = lastId /\ Ids' = Ids
        /\ \A j \in Ids : j # i => rows'[j] = rows[j]
    <3>1. rows'[i].status = "in_buffer" /\ rows'[i].printer = p /\ Kept
      BY <1>0, <1>1, FetchOneRow
    <3>2. lastId' = lastId /\ \A j \in Ids : j # i => rows'[j] = rows[j]
      BY <1>0, <1>1, FetchOne
    <3> QED
      BY <3>1, <3>2 DEF Ids
  <2>4. \A j \in InBuffer(Task, p)' : j = i
    <3> SUFFICES ASSUME NEW j \in InBuffer(Task, p)', j # i
                 PROVE  FALSE
      OBVIOUS
    <3>1. j \in InBuffer(Task, p)
      BY <2>3 DEF InBuffer, AssignedTo
    <3> QED
      BY <3>1, <1>0 DEF Turn, Ahead
  <2>5. Fetchable(Task, p)' \subseteq Fetchable(Task, p)
    BY <2>3, KeptLanes DEF Fetchable
  <2>6. field[p] < i /\ field[p] <= lastId /\ \A j \in Fetchable(Task, p) : field[p] < j
    BY <1>0, <2>2 DEF Turn, Ahead
  <2>7. Ahead(p)'
    BY <1>0, <2>1, <2>2, <2>3, <2>4, <2>5, <2>6 DEF Ahead, Carrying
  <2> QED
    BY <1>0, <2>7 DEF Turn, Behind, Rising
<1>2. ASSUME UNCHANGED shardVars, Step(p, Pushed(pump[p]))
      PROVE  Turn(p)'
  <2>1. pump'[p].pc \in {"tick", "push"}
    BY <1>0, <1>2, PushedPump DEF Step, Typed, Hand
  <2> QED
    BY <1>0, <1>2, <2>1, SameCalm, TurnStays DEF Carrying
<1> QED
  BY <1>1, <1>2 DEF PumpFetch

\* A send that succeeds moves the field on to the row in hand.
LEMMA SendTurn ==
    ASSUME Typed, Typed', NEW p \in Registered, PumpSend(p), Turn(p), faults' = 0
    PROVE  Turn(p)'
<1>1. faults \in Nat
  BY DEF Typed, TypeOK
<1>2. /\ pump[p].pc = "send"
      /\ field' = [field EXCEPT ![p] = pump[p].row]
      /\ waiting' = [waiting EXCEPT ![p] = TRUE]
      /\ Step(p, [pump[p] EXCEPT !.pc = "report"])
      /\ UNCHANGED shardVars /\ UNCHANGED labels
  BY <1>1 DEF PumpSend, Fault
<1>3. /\ field'[p] = pump[p].row /\ pump'[p].pc = "report" /\ pump'[p].row = pump[p].row
      /\ labels' = labels /\ rows' = rows /\ lastId' = lastId
      /\ pump[p].row \in 1..lastId /\ field[p] \in Int /\ lastId \in Int
      /\ labels[p] \in Seq(0..MaxRows)
  BY <1>2, PumpPart DEF Typed, TypeOK, Step, shardVars, Hand, Ids, PumpType, ShardTypeOK
<1>4. /\ InBuffer(Task, p)' = InBuffer(Task, p)
      /\ Fetchable(Task, p)' = Fetchable(Task, p)
  BY <1>3 DEF InBuffer, AssignedTo, Fetchable, InLane, Parity, Ids
<1>5. Ahead(p)'
  BY <1>2, <1>3, <1>4 DEF Turn, Ahead, Carrying
<1>6. Behind(p)'
  <2>1. \A l \in DOMAIN labels[p] : labels[p][l] \in Int
    <3>1. \A l \in DOMAIN labels[p] : labels[p][l] \in 0..MaxRows
      <4>1. DOMAIN labels[p] = 1..Len(labels[p])
        BY <1>3, LenProperties
      <4> QED
        BY <1>3, <4>1, ElementOfSeq
    <3> QED
      BY <3>1, ParameterAssumption
  <2>2. \A l \in DOMAIN labels[p] : labels[p][l] <= field[p] /\ field[p] < pump[p].row
    BY <1>2 DEF Turn, Behind, Ahead
  <2>3. \A l \in DOMAIN labels[p] : labels[p][l] <= pump[p].row /\ labels[p][l] < pump[p].row
    BY <1>3, <2>1, <2>2
  <2> QED
    BY <1>3, <2>3 DEF Behind
<1>7. Rising(p)'
  BY <1>3 DEF Turn, Rising
<1> QED
  BY <1>5, <1>6, <1>7 DEF Turn

\* The report empties the pump's hands; what is left waits behind the field.
LEMMA ReportTurn ==
    ASSUME Typed, Typed', NEW p \in Registered, PumpReport(p), Turn(p), faults' = 0
    PROVE  Turn(p)'
<1>1. faults \in Nat
  BY DEF Typed, TypeOK
<1>2. /\ pump[p].pc = "report" /\ UNCHANGED deviceVars /\ Step(p, Pushed(pump[p]))
      /\ UpdateCodeStatusByID(pump[p].row, pump[p].index)
  BY <1>1 DEF PumpReport, Fault
<1>3. /\ pump[p] \in PumpType /\ pump \in [Registered -> PumpType]
      /\ pump[p].row \in Ids /\ pump[p].index \in Nat /\ pump[p].todo >= 1 /\ ShardTypeOK
      /\ field[p] = pump[p].row /\ lastId \in Int
  <2>1. pump[p] \in PumpType /\ pump \in [Registered -> PumpType]
    BY PumpPart DEF Typed
  <2>2. pump[p].row \in Ids /\ pump[p].todo >= 1
    BY <1>2 DEF Typed, Hand
  <2>3. ShardTypeOK /\ lastId \in Int
    BY DEF Typed, TypeOK, ShardTypeOK
  <2>4. field[p] = pump[p].row
    BY <1>2 DEF Turn, Ahead
  <2> QED
    BY <2>1, <2>2, <2>3, <2>4 DEF PumpType
<1>4. pump'[p].pc \in {"tick", "push"}
  BY <1>2, <1>3, PushedPump DEF Step
<1>5. /\ rows'[pump[p].row].status = "printed" /\ lastId' = lastId /\ Kept /\ Ids' = Ids
      /\ \A j \in Ids : j # pump[p].row => rows'[j] = rows[j]
  BY <1>2, <1>3, ReportRows DEF Ids
<1>6. \A i : i \notin InBuffer(Task, p)'
  <2> SUFFICES ASSUME NEW i \in InBuffer(Task, p)'
               PROVE  FALSE
    OBVIOUS
  <2>1. i \in Ids /\ i # pump[p].row /\ rows'[i] = rows[i]
    BY <1>5 DEF InBuffer, AssignedTo
  <2>2. i \in InBuffer(Task, p)
    BY <2>1 DEF InBuffer, AssignedTo
  <2> QED
    BY <2>1, <2>2 DEF Turn, Ahead
<1>7. \A j \in Fetchable(Task, p)' : field[p] < j
  <2> SUFFICES ASSUME NEW j \in Fetchable(Task, p)'
               PROVE  field[p] < j
    OBVIOUS
  <2>1. j \in Ids /\ j # pump[p].row /\ rows'[j] = rows[j] /\ j \in Int
    BY <1>5, <1>3 DEF Fetchable, Ids
  <2>2. j \in Fetchable(Task, p)
    BY <2>1, <1>5, KeptLanes DEF Fetchable
  <2>3. pump[p].row <= j
    BY <2>2, <1>2 DEF Turn, Ahead, Carrying
  <2> QED
    BY <2>1, <2>3, <1>3 DEF Ids
<1>8. Ahead(p)'
  BY <1>2, <1>3, <1>4, <1>5, <1>6, <1>7 DEF Ahead, Turn, Carrying, deviceVars
<1> QED
  BY <1>2, <1>8 DEF Turn, Behind, Rising, deviceVars

\* A stop returns at most the row in the pump's hands, to where it waited.
LEMMA ReconcileTurn ==
    ASSUME Typed, Typed', NEW p \in Registered, StopReconcile(p), Turn(p)
    PROVE  Turn(p)'
<1>1. /\ odometer[p] \in Int /\ p \in Printers /\ UNCHANGED <<pump, deviceVars>>
      /\ ReconcileAndFinalizeTaskCodes(Task, p, odometer[p]) /\ ShardTypeOK
      /\ lastId \in Int /\ field[p] \in Int
  BY PrinterOf DEF StopReconcile, Typed, TypeOK, ShardTypeOK
<1>2. /\ Kept /\ Ids' = Ids /\ lastId' = lastId
      /\ \A i \in Ids \ InBuffer(Task, p) : rows'[i] = rows[i]
      /\ \A i \in InBuffer(Task, p) : rows'[i].status = "printed" \/ rows'[i].status = "pending"
  BY <1>1, ReconcileRows DEF Ids
<1>3. \A i : i \notin InBuffer(Task, p)'
  BY <1>2 DEF InBuffer, AssignedTo
<1>4. \A j \in Fetchable(Task, p)' :
         j \in Fetchable(Task, p) \/ (Carrying(p) /\ j = pump[p].row)
  <2> SUFFICES ASSUME NEW j \in Fetchable(Task, p)', j \notin InBuffer(Task, p)
               PROVE  j \in Fetchable(Task, p)
    BY DEF Turn, Ahead
  <2>1. j \in Ids /\ InLane(p, j)
    BY <1>2, KeptLanes DEF Fetchable
  <2> QED
    BY <1>2, <2>1 DEF Fetchable
<1>5. Carrying(p) => pump[p].row \in Int
  BY <1>1 DEF Typed, Hand, Carrying, Ids
<1>6. Ahead(p)'
  BY <1>1, <1>2, <1>3, <1>4, <1>5 DEF Turn, Ahead, Carrying, deviceVars
<1> QED
  BY <1>1, <1>6 DEF Turn, Behind, Rising, deviceVars

LEMMA FaultsGrow ==
    ASSUME Typed, [Next]_vars, faults' = 0
    PROVE  faults = 0
<1>1. faults \in Nat
  BY DEF Typed, TypeOK
<1>2. faults' = faults \/ faults' = faults + 1
  BY DEF Next, TaskAppend, StopRequest, Label, Poll, GetCurrentPrintCount, Pump, PumpTick,
         PumpCount, PumpFetch, PumpSend, PumpReport, PumpExit, Stop, StopPoll, StopReconcile,
         StopClear, Fault, NoFault, bounds, vars
<1> QED
  BY <1>1, <1>2

\* What a reading makes of the pump.
LEMMA CountStep ==
    ASSUME Typed, NEW p \in Registered, PumpCount(p)
    PROVE  /\ pump[p].pc = "count"
           /\ \A q \in Registered : q # p => pump'[q] = pump[q]
           /\ \/ /\ GetCurrentPrintCount(p)
                 /\ pump'[p].pc = IF Delta(pump[p], lastCount'[p]) > 0 THEN "push" ELSE "tick"
                 /\ pump'[p].todo = Delta(pump[p], lastCount'[p])
                 /\ pump'[p].last = IF pump[p].last < 0 \/ Delta(pump[p], lastCount'[p]) > 0
                                    THEN lastCount'[p] ELSE pump[p].last
              \/ /\ Fault /\ UNCHANGED driverVars
                 /\ pump'[p].pc = "tick" /\ pump'[p].last = pump[p].last
<1> DEFINE delta == Delta(pump[p], lastCount'[p])
<1>1. pump[p] \in PumpType /\ pump \in [Registered -> PumpType] /\ pump[p].pc = "count"
  BY PumpPart DEF Typed, PumpCount
<1>2. CASE /\ GetCurrentPrintCount(p)
           /\ Step(p, [pump[p] EXCEPT
                        !.pc = IF delta > 0 THEN "push" ELSE "tick",
                        !.todo = delta,
                        !.last = IF pump[p].last < 0 \/ delta > 0 THEN lastCount'[p] ELSE @])
  <2> HIDE DEF delta
  <2>1. /\ pump'[p].pc = IF delta > 0 THEN "push" ELSE "tick"
        /\ pump'[p].todo = delta
        /\ pump'[p].last = IF pump[p].last < 0 \/ delta > 0 THEN lastCount'[p] ELSE pump[p].last
        /\ \A q \in Registered : q # p => pump'[q] = pump[q]
    BY <1>1, <1>2 DEF Step, PumpType
  <2> USE DEF delta
  <2> QED
    BY <2>1, <1>1, <1>2
<1>3. CASE Fault /\ Step(p, [pump[p] EXCEPT !.pc = "tick"]) /\ UNCHANGED driverVars
  BY <1>1, <1>3 DEF Step, PumpType
<1>4. \/ /\ GetCurrentPrintCount(p)
         /\ Step(p, [pump[p] EXCEPT
                        !.pc = IF delta > 0 THEN "push" ELSE "tick",
                        !.todo = delta,
                        !.last = IF pump[p].last < 0 \/ delta > 0 THEN lastCount'[p] ELSE @])
      \/ Fault /\ Step(p, [pump[p] EXCEPT !.pc = "tick"]) /\ UNCHANGED driverVars
  BY DEF PumpCount
<1> QED
  BY <1>2, <1>3, <1>4

\* Steps of one pump: the other printers' order stays.
LEMMA PumpTurn ==
    ASSUME Typed, Typed', \A q \in Registered : Turn(q), NEW p \in Registered, Pump(p),
           faults' = 0, NEW q \in Registered
    PROVE  Turn(q)'
<1>0. pump[p] \in PumpType /\ pump \in [Registered -> PumpType] /\ ShardTypeOK /\ Hand(p)
      /\ field \in [Registered -> 0..MaxRows] /\ waiting \in [Registered -> BOOLEAN]
  BY PumpPart DEF Typed, TypeOK
<1>1. CASE PumpTick(p)
  <2>1. pump'[q] = pump[q] \/ (~Carrying(q) /\ ~Carrying(q)')
    BY <1>0, <1>1 DEF PumpTick, Step, Carrying, PumpType
  <2> QED
    BY <1>0, <1>1, <2>1, SameCalm, TurnStays DEF PumpTick, deviceVars
<1>2. CASE PumpCount(p)
  <2>1. pump'[q] = pump[q] \/ (~Carrying(q) /\ ~Carrying(q)')
    BY <1>2, CountStep DEF Carrying
  <2> QED
    BY <1>0, <1>2, <2>1, SameCalm, TurnStays DEF PumpCount, deviceVars
<1>3. CASE PumpExit(p)
  <2>1. pump'[q] = pump[q] \/ (~Carrying(q) /\ ~Carrying(q)')
    BY <1>0, <1>3 DEF PumpExit, Step, Carrying, NoPump
  <2> QED
    BY <1>0, <1>3, <2>1, SameCalm, TurnStays DEF PumpExit, deviceVars
<1>4. CASE q # p /\ PumpFetch(p)
  <2>1. pump'[q] = pump[q]
    BY <1>0, <1>4 DEF PumpFetch, Step
  <2>2. Calm(q)
    BY <1>0, <1>4, SameCalm, FetchCalm DEF PumpFetch
  <2> QED
    BY <1>4, <2>1, <2>2, TurnStays DEF PumpFetch, deviceVars
<1>5. CASE q # p /\ PumpSend(p)
  <2>1. pump'[q] = pump[q] /\ field'[q] = field[q] /\ waiting'[q] = waiting[q]
    BY <1>0, <1>5 DEF PumpSend, Step
  <2> QED
    BY <1>0, <1>5, <2>1, SameCalm, TurnStays DEF PumpSend
<1>6. CASE q # p /\ PumpReport(p)
  <2>1. pump'[q] = pump[q]
    BY <1>6 DEF PumpReport, Step
  <2>2. Calm(q)
    BY <1>0, <1>6, SameCalm, ReportCalm DEF PumpReport, Hand, PumpType
  <2> QED
    BY <1>6, <2>1, <2>2, TurnStays DEF PumpReport, deviceVars
<1>7. CASE q = p
  BY <1>1, <1>2, <1>3, <1>7, FetchTurn, SendTurn, ReportTurn DEF Pump
<1> QED
  BY <1>1, <1>2, <1>3, <1>4, <1>5, <1>6, <1>7 DEF Pump

LEMMA InTurnStep == Typed /\ Typed' /\ InTurn /\ [Next]_vars => InTurn'
<1> SUFFICES ASSUME Typed, Typed', InTurn, [Next]_vars, faults' = 0, NEW q \in Registered
             PROVE  Turn(q)'
  BY DEF InTurn
<1>1. \A p \in Registered : Turn(p)
  BY FaultsGrow DEF InTurn
<1>2. ShardTypeOK /\ q \in Printers
  BY PrinterOf DEF Typed, TypeOK
<1>3. ASSUME NEW items \in Batches, TaskAppend(items) PROVE Turn(q)'
  <2>1. pump'[q] = pump[q] \/ (~Carrying(q) /\ ~Carrying(q)')
    <3>1. CASE pump' = pump
      BY <3>1
    <3>2. CASE pump[q].pc = "none" /\ pump' = [p \in Registered |-> FreshPump]
      <4>1. pump'[q].pc = "push"
        BY <3>2 DEF FreshPump, NoPump
      <4> QED
        BY <3>2, <4>1 DEF Carrying
    <3> QED
      BY <1>3, <3>1, <3>2 DEF TaskAppend
  <2> QED
    BY <1>1, <1>2, <1>3, <2>1, AppendCalm, TurnStays DEF TaskAppend, deviceVars
<1>4. CASE StopRequest
  BY <1>1, <1>2, <1>4, SameCalm, TurnStays DEF StopRequest, deviceVars
<1>5. ASSUME NEW p \in Registered, Label(p) PROVE Turn(q)'
  <2>1. CASE q = p
    BY <1>1, <1>5, <2>1, LabelTurn
  <2>2. CASE q # p
    <3>1. /\ UNCHANGED <<shardVars, pump, field>> /\ labels'[q] = labels[q]
          /\ waiting'[q] = waiting[q]
      BY <1>5, <2>2, LabelElsewhere
    <3> QED
      BY <1>1, <1>2, <3>1, SameCalm, TurnStays
  <2> QED
    BY <2>1, <2>2
<1>6. ASSUME NEW p \in Registered, Poll(p) PROVE Turn(q)'
  BY <1>1, <1>2, <1>6, SameCalm, TurnStays DEF Poll, deviceVars
<1>7. ASSUME NEW p \in Registered, Pump(p) PROVE Turn(q)'
  BY <1>1, <1>7, PumpTurn
<1>8. ASSUME NEW p \in Registered, StopPoll(p) \/ StopClear(p) PROVE Turn(q)'
  BY <1>1, <1>2, <1>8, SameCalm, TurnStays DEF StopPoll, StopClear, deviceVars
<1>9. ASSUME NEW p \in Registered, StopReconcile(p) PROVE Turn(q)'
  <2>1. CASE q = p
    BY <1>1, <1>9, <2>1, ReconcileTurn
  <2>2. CASE q # p
    <3>1. \A i \in InBuffer(Task, p) : InLane(p, i)
      BY <1>1 DEF Turn, Ahead, Carrying, Typed, Hand
    <3>2. odometer[p] \in Int
      BY DEF Typed, TypeOK
    <3>3. Calm(q)
      BY <1>2, <1>9, <2>2, <3>1, <3>2, ReconcileCalm DEF StopReconcile
    <3> QED
      BY <1>1, <1>9, <3>3, TurnStays DEF StopReconcile, deviceVars
  <2> QED
    BY <2>1, <2>2
<1>10. CASE UNCHANGED vars
  BY <1>1, <1>2, <1>10, SameCalm, TurnStays DEF vars, deviceVars
<1> QED
  BY <1>3, <1>4, <1>5, <1>6, <1>7, <1>8, <1>9, <1>10 DEF Next, Stop

LEMMA InTurnInit == Init => InTurn
<1> SUFFICES ASSUME Init, NEW p \in Registered
             PROVE  Turn(p)
  BY DEF InTurn
<1>1. lastId = 0 /\ field[p] = 0 /\ labels[p] = <<>> /\ pump[p].pc = "none"
  BY DEF Init, ShardInit, NoRow, NoPump
<1>2. InBuffer(Task, p) = {} /\ Fetchable(Task, p) = {}
  BY <1>1 DEF InBuffer, AssignedTo, Fetchable, Ids
<1> QED
  BY <1>1, <1>2 DEF Turn, Ahead, Behind, Rising, Carrying

LEMMA TypedAlways == Spec => []Typed
  BY TypedInit, TypedStep, PTL DEF Spec

\* Whatever products, stops, resumptions and readings of the counter do, the
\* codes a printer applies are in the order 1C delivered them, as long as no
\* exchange failed: the pump has one code in its hands, and nothing that
\* waits in the printer's lane lies before it.
THEOREM DeliveredInOrder == Spec => []LabelsInOrder
<1>1. InTurn => LabelsInOrder
  BY DEF InTurn, Turn, Rising, LabelsInOrder
<1> QED
  BY <1>1, TypedAlways, InTurnInit, InTurnStep, PTL DEF Spec

-----------------------------------------------------------------------------
(* A code on one label of the line, and a label that stays confirmed,       *)
(* although the report of a push asks nothing of the row it writes.         *)

\* A printer is only ever given rows of its own lane.
Own(p, i) == i = NoRow \/ (i \in Ids /\ rows[i].task = Task /\ InLane(p, i))

OwnLane ==
    \A p \in Registered : Own(p, field[p]) /\ \A k \in DOMAIN labels[p] : Own(p, labels[p][k])

\* What a pump is about to report is in its row already, unless a stop has
\* returned the row.
Indexed ==
    \A p \in Registered : Carrying(p) /\ rows[pump[p].row].status # "pending" =>
        rows[pump[p].row].index = pump[p].index

OwnInv == Typed /\ OwnLane /\ Indexed /\ UniqueCode

\* What each transaction does to the rows it finds.
LEMMA FetchOwn ==
    ASSUME Typed, NEW p \in Registered, PumpFetch(p)
    PROVE  /\ Kept /\ (UniqueCode => UniqueCode')
           /\ \A i \in Ids : \/ rows'[i] = rows[i]
                             \/ InLane(p, i) /\ rows[i].status = "pending"
           /\ \/ ~Carrying(p)'
              \/ pump'[p].index = rows'[pump'[p].row].index
           /\ \A q \in Registered : q # p => pump'[q] = pump[q]
<1>1. pump[p] \in PumpType /\ pump[p].pc = "push" /\ pump \in [Registered -> PumpType]
      /\ p \in Printers /\ ShardTypeOK
  BY PumpPart, PrinterOf DEF Typed, TypeOK, PumpFetch
<1>2. ASSUME FetchAndAssignCodes(Task, p, 1), NEW i \in Selected(Task, p, 1),
             Step(p, [pump[p] EXCEPT !.pc = "send", !.row = i, !.index = rows'[i].index])
      PROVE  /\ Kept /\ (UniqueCode => UniqueCode')
             /\ \A j \in Ids : \/ rows'[j] = rows[j]
                               \/ InLane(p, j) /\ rows[j].status = "pending"
             /\ pump'[p].index = rows'[pump'[p].row].index
  <2>1. /\ i \in Ids /\ InLane(p, i) /\ rows[i].status = "pending" /\ Kept
        /\ rows'[i].task = rows[i].task
    BY <1>1, <1>2, FetchOneRow
  <2>2. lastId' = lastId /\ Ids' = Ids /\ \A j \in Ids : j # i => rows'[j] = rows[j]
    BY <1>1, <1>2, FetchOne DEF Ids
  <2>3. rows'[i].code = rows[i].code
    <3>1. PICK last \in LastIndex(Task, p) :
             rows'[i] = [rows[i] EXCEPT !.status = "in_buffer", !.printer = p, !.index = last + 1]
      BY <1>1, <1>2, FetchOne
    <3>2. rows[i] \in Row
      BY <1>1, <2>1 DEF ShardTypeOK
    <3> QED
      BY <3>1, <3>2 DEF Row
  <2>4. UniqueCode => UniqueCode'
    <3>1. \A j \in Ids : rows'[j].task = rows[j].task /\ rows'[j].code = rows[j].code
      BY <2>1, <2>2, <2>3
    <3> QED
      BY <2>2, <3>1, UniqueKept
  <2>5. pump'[p].index = rows'[i].index /\ pump'[p].row = i
    BY <1>1, <1>2 DEF Step, PumpType
  <2> QED
    BY <2>1, <2>2, <2>4, <2>5
<1>3. ASSUME Step(p, Pushed(pump[p])), UNCHANGED shardVars
      PROVE  /\ Kept /\ (UniqueCode => UniqueCode') /\ rows' = rows
             /\ ~Carrying(p)'
  <2>1. Kept /\ rows' = rows /\ Ids' = Ids
    BY <1>3, SameRows
  <2>2. UniqueCode => UniqueCode'
    BY <2>1, UniqueKept
  <2>3. pump'[p] = Pushed(pump[p])
    BY <1>1, <1>3 DEF Step
  <2>4. Pushed(pump[p]).pc \in {"tick", "push"}
    BY <1>1, PushedPump DEF Typed, Hand
  <2> QED
    BY <2>1, <2>2, <2>3, <2>4 DEF Carrying
<1>4. \A q \in Registered : q # p => pump'[q] = pump[q]
  BY <1>1 DEF PumpFetch, Step
<1> QED
  BY <1>2, <1>3, <1>4 DEF PumpFetch

LEMMA ReportOwn ==
    ASSUME Typed, NEW p \in Registered, PumpReport(p)
    PROVE  /\ Kept /\ (UniqueCode => UniqueCode')
           /\ \A i \in Ids : rows'[i] = rows[i] \/ i = pump[p].row
           /\ Indexed /\ rows[pump[p].row].status = "printed" =>
                 rows'[pump[p].row] = rows[pump[p].row]
           /\ ~Carrying(p)'
           /\ \A q \in Registered : q # p => pump'[q] = pump[q]
<1> DEFINE i == pump[p].row
           index == pump[p].index
<1>1. /\ pump[p] \in PumpType /\ pump[p].pc = "report" /\ pump \in [Registered -> PumpType]
      /\ ShardTypeOK /\ i \in Ids /\ index \in Nat /\ Carrying(p)
  BY PumpPart DEF Typed, TypeOK, PumpReport, Hand, Carrying, PumpType
<1>2. pump'[p] = Pushed(pump[p]) /\ \A q \in Registered : q # p => pump'[q] = pump[q]
  BY <1>1 DEF PumpReport, Step
<1>3. ~Carrying(p)'
  <2>1. Pushed(pump[p]).pc \in {"tick", "push"}
    BY <1>1, PushedPump DEF Typed, Hand
  <2> QED
    BY <1>2, <2>1 DEF Carrying
<1>4. ASSUME UpdateCodeStatusByID(i, index)
      PROVE  /\ Kept /\ (UniqueCode => UniqueCode')
             /\ \A j \in Ids : rows'[j] = rows[j] \/ j = i
             /\ Indexed /\ rows[i].status = "printed" => rows'[i] = rows[i]
  <2> HIDE DEF i, index
  <2>1. /\ Kept /\ Ids' = Ids /\ \A j \in Ids : j # i => rows'[j] = rows[j]
    BY <1>1, <1>4, ReportRows DEF Ids
  <2>2. rows[i] \in Row /\ rows'[i] = [rows[i] EXCEPT !.status = "printed", !.index = index]
    <3>1. rows \in [Ids -> Row]
      BY <1>1 DEF ShardTypeOK
    <3>2. rows' = [rows EXCEPT ![i] = [@ EXCEPT !.status = "printed", !.index = index]]
      BY <1>4 DEF UpdateCodeStatusByID
    <3> QED
      BY <1>1, <3>1, <3>2
  <2>3. rows'[i].task = rows[i].task /\ rows'[i].code = rows[i].code
    BY <2>2 DEF Row
  <2>4. UniqueCode => UniqueCode'
    <3>1. \A j \in Ids : rows'[j].task = rows[j].task /\ rows'[j].code = rows[j].code
      BY <2>1, <2>3
    <3> QED
      BY <2>1, <3>1, UniqueKept
  <2>5. Indexed /\ rows[i].status = "printed" => rows[i].index = index
    BY <1>1 DEF Indexed, i, index
  <2>6. ASSUME rows[i].index = index, rows[i].status = "printed"
        PROVE  rows'[i] = rows[i]
    <3>1. rows'[i] = [rows[i] EXCEPT !.status = rows[i].status, !.index = rows[i].index]
      BY <2>2, <2>6
    <3>2. \A r \in Row : [r EXCEPT !.status = r.status, !.index = r.index] = r
      BY DEF Row
    <3> QED
      BY <2>2, <3>1, <3>2
  <2> QED
    BY <2>1, <2>4, <2>5, <2>6
<1>5. ASSUME UNCHANGED shardVars
      PROVE  Kept /\ (UniqueCode => UniqueCode') /\ rows' = rows
  BY <1>5, SameRows, UniqueKept
<1> QED
  BY <1>2, <1>3, <1>4, <1>5 DEF PumpReport

LEMMA ReconcileOwn ==
    ASSUME Typed, NEW p \in Registered, StopReconcile(p)
    PROVE  /\ Kept /\ (UniqueCode => UniqueCode')
           /\ \A i \in Ids : \/ rows'[i] = rows[i]
                             \/ rows[i].status = "in_buffer" /\ rows'[i].index = rows[i].index
                             \/ rows[i].status = "in_buffer" /\ rows'[i].status = "pending"
<1>1. odometer[p] \in Int /\ p \in Printers /\ Task \in Tasks /\ ShardTypeOK
  BY PrinterOf, ValentinAssumption DEF Typed, TypeOK
<1>2. ReconcileAndFinalizeTaskCodes(Task, p, odometer[p])
  BY DEF StopReconcile
<1>3. /\ Ids' = Ids
      /\ \A i \in Ids : rows'[i].task = rows[i].task /\ rows'[i].code = rows[i].code
      /\ \A i \in Ids \ InBuffer(Task, p) : rows'[i] = rows[i]
      /\ \A i \in InBuffer(Task, p) : \/ rows'[i].index = rows[i].index
                                      \/ rows'[i].status = "pending"
  BY <1>1, <1>2, ReconcileStep DEF Ids
<1>4. Kept
  BY <1>1, <1>2, ReconcileRows
<1>5. \A i \in InBuffer(Task, p) : rows[i].status = "in_buffer"
  BY DEF InBuffer
<1> QED
  BY <1>3, <1>4, <1>5, UniqueKept

LEMMA AppendOwn ==
    ASSUME Typed, NEW items \in Batches, TaskAppend(items)
    PROVE  /\ Kept /\ (UniqueCode => UniqueCode')
           /\ \A i \in Ids : rows'[i] = rows[i]
           /\ \A p \in Registered : pump'[p] = pump[p] \/ ~Carrying(p)'
<1>1. ShardTypeOK /\ Task \in Tasks /\ AppendTaskCodes(Task, items)
  BY ValentinAssumption DEF Typed, TypeOK, TaskAppend
<1>2. Kept /\ (UniqueCode => UniqueCode') /\ \A i \in Ids : rows'[i] = rows[i]
  BY <1>1, AppendRows, UniqueAppend
<1>3. pump' = pump \/ pump' = [p \in Registered |-> FreshPump]
  BY DEF TaskAppend
<1> QED
  BY <1>2, <1>3 DEF Carrying, FreshPump, NoPump

\* The other steps leave the rows alone, and what a pump carries.
LEMMA OthersOwn ==
    ASSUME Typed, [Next]_vars,
           \A items \in Batches : ~TaskAppend(items),
           \A p \in Registered : ~PumpFetch(p) /\ ~PumpReport(p) /\ ~StopReconcile(p)
    PROVE  /\ UNCHANGED shardVars
           /\ \A p \in Registered : \/ pump'[p].row = pump[p].row /\ pump'[p].index = pump[p].index
                                       /\ (pump'[p].pc \in {"send", "report"} => Carrying(p))
                                    \/ pump'[p].pc \notin {"send", "report"}
<1> USE DEF Carrying
<1>1. pump \in [Registered -> PumpType]
  BY PumpPart DEF Typed
<1>2. CASE StopRequest \/ UNCHANGED vars
  BY <1>2 DEF StopRequest, vars
<1>3. ASSUME NEW p \in Registered, Label(p) \/ Poll(p) \/ StopPoll(p) \/ StopClear(p)
      PROVE  UNCHANGED <<shardVars, pump>>
  BY <1>3 DEF Label, Poll, StopPoll, StopClear
<1>4. ASSUME NEW p \in Registered, PumpTick(p) \/ PumpCount(p) \/ PumpExit(p)
      PROVE  /\ UNCHANGED shardVars
             /\ \A q \in Registered : pump'[q] = pump[q] \/ pump'[q].pc \notin {"send", "report"}
  <2>1. UNCHANGED shardVars
    BY <1>4 DEF PumpTick, PumpCount, PumpExit
  <2>2. CASE PumpTick(p)
    BY <1>1, <2>2 DEF PumpTick, Step, PumpType
  <2>3. CASE PumpCount(p)
    <3>1. pump'[p].pc \in {"push", "tick"} /\ \A q \in Registered : q # p => pump'[q] = pump[q]
      BY <2>3, CountStep
    <3> QED
      BY <2>1, <3>1
  <2>4. CASE PumpExit(p)
    BY <1>1, <2>4 DEF PumpExit, Step, NoPump
  <2> QED
    BY <1>4, <2>1, <2>2, <2>3, <2>4
<1>5. ASSUME NEW p \in Registered, PumpSend(p)
      PROVE  /\ UNCHANGED shardVars
             /\ \A q \in Registered : \/ pump'[q].row = pump[q].row /\ pump'[q].index = pump[q].index
                                         /\ (pump'[q].pc \in {"send", "report"} => Carrying(q))
                                      \/ pump'[q].pc \notin {"send", "report"}
  <2>1. UNCHANGED shardVars /\ pump[p].pc = "send"
    BY <1>5 DEF PumpSend
  <2>2. Step(p, [pump[p] EXCEPT !.pc = "report"]) \/ Step(p, GiveUp(pump[p]))
    BY <1>5 DEF PumpSend
  <2>3. /\ \A q \in Registered : q # p => pump'[q] = pump[q]
        /\ \/ pump'[p].row = pump[p].row /\ pump'[p].index = pump[p].index
           \/ pump'[p].pc = "tick"
    BY <1>1, <2>2 DEF Step, GiveUp, PumpType
  <2> QED
    BY <2>1, <2>3
<1> QED
  BY <1>2, <1>3, <1>4, <1>5 DEF Next, Pump, Stop

LEMMA OwnInit == Init => OwnInv
<1> SUFFICES ASSUME Init
             PROVE  OwnInv
  OBVIOUS
<1>1. Typed
  BY TypedInit
<1>2. OwnLane
  BY DEF Init, OwnLane, Own
<1>3. Indexed
  BY DEF Init, Indexed, Carrying, NoPump
<1>4. UniqueCode
  BY DEF Init, ShardInit, UniqueCode, Ids
<1> QED
  BY <1>1, <1>2, <1>3, <1>4 DEF OwnInv

LEMMA RowsOwn ==
    ASSUME Typed, [Next]_vars
    PROVE  Kept /\ (UniqueCode => UniqueCode')
<1>1. CASE UNCHANGED shardVars
  BY <1>1, SameRows, UniqueKept
<1> QED
  BY <1>1, FetchOwn, ReportOwn, ReconcileOwn, AppendOwn, OthersOwn

\* A field gets what its printer's pump carries, a label what is in the field.
LEMMA OwnLaneStep ==
    ASSUME Typed, OwnLane, [Next]_vars
    PROVE  OwnLane'
<1>1. /\ field \in [Registered -> 0..MaxRows] /\ labels \in [Registered -> Seq(0..MaxRows)]
      /\ \A p \in Registered : Hand(p) /\ pump[p] \in PumpType
  BY PumpPart DEF Typed, TypeOK
<1>2. ASSUME NEW p \in Registered, NEW i, Own(p, i)
      PROVE  Own(p, i)'
  <2>1. i \in Ids => i \in Ids' /\ rows'[i].task = rows[i].task /\ (InLane(p, i)' <=> InLane(p, i))
    BY RowsOwn, KeptLanes DEF Kept
  <2> QED
    BY <1>2, <2>1 DEF Own
<1>3. ASSUME NEW p \in Registered
      PROVE  field'[p] = field[p] \/ Own(p, field'[p])
  <2>1. CASE UNCHANGED field
    BY <2>1
  <2>2. ASSUME NEW q \in Registered, PumpSend(q)
        PROVE  field'[p] = field[p] \/ Own(p, field'[p])
    <3>1. Own(q, pump[q].row)
      BY <1>1, <2>2 DEF PumpSend, Hand, Own
    <3>2. field' = field \/ field' = [field EXCEPT ![q] = pump[q].row]
      BY <2>2 DEF PumpSend
    <3> QED
      BY <1>1, <3>1, <3>2
  <2> QED
    BY <2>1, <2>2
       DEF Next, TaskAppend, StopRequest, Label, Poll, Pump, PumpTick, PumpCount, PumpFetch,
           PumpReport, PumpExit, Stop, StopPoll, StopReconcile, StopClear, deviceVars, vars
<1>4. ASSUME NEW p \in Registered
      PROVE  labels'[p] = labels[p] \/ labels'[p] = Append(labels[p], field[p])
  <2>1. CASE UNCHANGED labels
    BY <2>1
  <2>2. ASSUME NEW q \in Registered, Label(q)
        PROVE  labels'[p] = labels[p] \/ labels'[p] = Append(labels[p], field[p])
    BY <1>1, <2>2 DEF Label
  <2> QED
    BY <2>1, <2>2
       DEF Next, TaskAppend, StopRequest, Poll, Pump, PumpTick, PumpCount, PumpFetch, PumpSend,
           PumpReport, PumpExit, Stop, StopPoll, StopReconcile, StopClear, deviceVars, vars
<1> SUFFICES ASSUME NEW p \in Registered
             PROVE  Own(p, field[p])' /\ \A k \in DOMAIN labels'[p] : Own(p, labels[p][k])'
  BY DEF OwnLane
<1>5. Own(p, field[p]) /\ \A k \in DOMAIN labels[p] : Own(p, labels[p][k])
  BY DEF OwnLane
<1>6. \A i : Own(p, i) => Own(p, i)'
  BY <1>2
<1>7. Own(p, field[p])'
  <2>1. Own(p, field'[p])
    BY <1>3, <1>5
  <2> QED
    BY <1>6, <2>1 DEF Own
<1>8. ASSUME NEW k \in DOMAIN labels'[p]
      PROVE  Own(p, labels'[p][k])
  <2>1. labels[p] \in Seq(0..MaxRows) /\ field[p] \in 0..MaxRows
    BY <1>1
  <2>2. CASE labels'[p] = labels[p]
    BY <1>5, <1>8, <2>2
  <2>3. CASE labels'[p] = Append(labels[p], field[p])
    <3>1. \/ k \in DOMAIN labels[p] /\ labels'[p][k] = labels[p][k]
          \/ labels'[p][k] = field[p]
      BY <1>8, <2>1, <2>3
    <3> QED
      BY <1>5, <3>1
  <2> QED
    BY <1>4, <2>2, <2>3
<1> QED
  BY <1>6, <1>7, <1>8 DEF Own

\* The rows that pumps carry are of different lanes, so only its own pump
\* fetches or reports one.
LEMMA IndexedStep ==
    ASSUME Typed, Indexed, [Next]_vars
    PROVE  Indexed'
<1> SUFFICES ASSUME NEW p \in Registered, Carrying(p)', rows'[pump'[p].row].status # "pending"
             PROVE  rows'[pump'[p].row].index = pump'[p].index
  BY DEF Indexed
<1>1. ASSUME NEW q \in Registered
      PROVE  Carrying(q) => pump[q].row \in Ids /\ InLane(q, pump[q].row)
  BY DEF Typed, Hand, Carrying
<1>2. ASSUME Carrying(p), pump'[p].row = pump[p].row, pump'[p].index = pump[p].index,
             rows'[pump[p].row] = rows[pump[p].row]
      PROVE  rows'[pump'[p].row].index = pump'[p].index
  BY <1>2 DEF Indexed
<1>3. ASSUME pump'[p] = pump[p] PROVE Carrying(p)
  BY <1>3 DEF Carrying
<1>4. ASSUME NEW items \in Batches, TaskAppend(items)
      PROVE  rows'[pump'[p].row].index = pump'[p].index
  BY <1>1, <1>2, <1>3, <1>4, AppendOwn
<1>5. ASSUME NEW q \in Registered, PumpFetch(q)
      PROVE  rows'[pump'[p].row].index = pump'[p].index
  <2>1. CASE q = p
    BY <1>5, <2>1, FetchOwn
  <2>2. CASE q # p
    <3>1. pump'[p] = pump[p]
      BY <1>5, <2>2, FetchOwn
    <3>2. ~InLane(q, pump[p].row) /\ pump[p].row \in Ids
      BY <1>1, <1>3, <2>2, <3>1, OneLane
    <3>3. rows'[pump[p].row] = rows[pump[p].row]
      BY <1>5, <3>2, FetchOwn
    <3> QED
      BY <1>2, <1>3, <3>1, <3>3
  <2> QED
    BY <2>1, <2>2
<1>6. ASSUME NEW q \in Registered, PumpReport(q)
      PROVE  rows'[pump'[p].row].index = pump'[p].index
  <2>1. q # p
    BY <1>6, ReportOwn
  <2>2. pump'[p] = pump[p]
    BY <1>6, <2>1, ReportOwn
  <2>3. pump[p].row # pump[q].row /\ pump[p].row \in Ids
    <3>1. Carrying(q)
      BY <1>6 DEF PumpReport, Carrying
    <3> QED
      BY <1>1, <1>3, <2>1, <2>2, <3>1, OneLane
  <2>4. rows'[pump[p].row] = rows[pump[p].row]
    BY <1>6, <2>3, ReportOwn
  <2> QED
    BY <1>2, <1>3, <2>2, <2>4
<1>7. ASSUME NEW q \in Registered, StopReconcile(q)
      PROVE  rows'[pump'[p].row].index = pump'[p].index
  <2>1. pump' = pump
    BY <1>7 DEF StopReconcile
  <2>2. Carrying(p) /\ pump[p].row \in Ids
    BY <1>1, <1>3, <2>1
  <2>3. \/ rows'[pump[p].row] = rows[pump[p].row]
        \/ rows[pump[p].row].status = "in_buffer"
           /\ rows'[pump[p].row].index = rows[pump[p].row].index
    BY <1>7, <2>1, <2>2, ReconcileOwn
  <2> QED
    BY <1>2, <2>1, <2>2, <2>3 DEF Indexed
<1>8. CASE /\ \A items \in Batches : ~TaskAppend(items)
           /\ \A q \in Registered : ~PumpFetch(q) /\ ~PumpReport(q) /\ ~StopReconcile(q)
  <2>1. rows' = rows
    BY <1>8, OthersOwn DEF shardVars
  <2>2. pump'[p].row = pump[p].row /\ pump'[p].index = pump[p].index /\ Carrying(p)
    BY <1>8, OthersOwn DEF Carrying
  <2> QED
    BY <1>2, <2>1, <2>2
<1> QED
  BY <1>4, <1>5, <1>6, <1>7, <1>8

LEMMA OwnStep == OwnInv /\ [Next]_vars => OwnInv'
  BY TypedStep, OwnLaneStep, IndexedStep, RowsOwn DEF OwnInv

\* No code is on two labels of the line, under every event: two printers have
\* different rows, and so different codes; one has a row twice at most after
\* an exchange that failed.
OneLabelEach ==
    \A p, q \in Registered : \A k \in DOMAIN labels[p], l \in DOMAIN labels[q] :
        \/ labels[p][k] = NoRow \/ labels[q][l] = NoRow
        \/ p = q /\ (k = l \/ faults > 0)
        \/ rows[labels[p][k]].code # rows[labels[q][l]].code

THEOREM CodesOnOneLabel == Spec => []OneLabelEach
<1>1. OwnInv /\ LabelsInOrder => OneLabelEach
  <2> SUFFICES ASSUME OwnInv, LabelsInOrder, NEW p \in Registered, NEW q \in Registered,
                      NEW k \in DOMAIN labels[p], NEW l \in DOMAIN labels[q],
                      labels[p][k] # NoRow, labels[q][l] # NoRow,
                      p # q \/ (k # l /\ ~(faults > 0)),
                      rows[labels[p][k]].code = rows[labels[q][l]].code
               PROVE  FALSE
    BY DEF OneLabelEach
  <2>1. Own(p, labels[p][k]) /\ Own(q, labels[q][l])
    BY DEF OwnInv, OwnLane
  <2>2. labels[p][k] = labels[q][l]
    BY <2>1 DEF OwnInv, UniqueCode, Own
  <2>3. p = q
    BY <2>1, <2>2, OneLane DEF Own
  <2>4. labels[p] \in Seq(0..MaxRows) /\ MaxRows \in Nat
    BY ParameterAssumption DEF OwnInv, Typed, TypeOK
  <2>5. k \in Nat /\ l \in Nat /\ labels[p][k] \in Nat
    BY <2>3, <2>4
  <2>6. k < l \/ l < k
    BY <2>3, <2>5
  <2>7. k # l /\ faults = 0
    BY <2>3 DEF OwnInv, Typed, TypeOK
  <2> QED
    BY <2>2, <2>3, <2>5, <2>6, <2>7 DEF LabelsInOrder
<1> QED
  BY <1>1, OwnInit, OwnStep, DeliveredInOrder, PTL DEF Spec

\* A report never changes a row that is printed already, although the statement
\* asks only for the row's id (storage.go:576): neither the pump that was
\* overtaken by a stop nor the other printer's writes anything new.
THEOREM ReportsAreFinal == Spec => PrintedFinal
<1>1. OwnInv /\ [Next]_vars =>
         [\A i \in Ids : rows[i].status = "printed" => rows'[i] = rows[i]]_shardVars
  <2> SUFFICES ASSUME OwnInv, [Next]_vars, NEW i \in Ids, rows[i].status = "printed"
               PROVE  rows'[i] = rows[i]
    BY DEF shardVars
  <2>1. Typed /\ Indexed
    BY DEF OwnInv
  <2>2. ASSUME NEW p \in Registered, PumpReport(p)
        PROVE  rows'[i] = rows[i]
    BY <2>1, <2>2, ReportOwn
  <2>3. ASSUME NEW p \in Registered, PumpFetch(p) \/ StopReconcile(p)
        PROVE  rows'[i] = rows[i]
    BY <2>1, <2>3, FetchOwn, ReconcileOwn
  <2>4. ASSUME NEW items \in Batches, TaskAppend(items)
        PROVE  rows'[i] = rows[i]
    BY <2>1, <2>4, AppendOwn
  <2> QED
    BY <2>1, <2>2, <2>3, <2>4, OthersOwn DEF shardVars
<1> QED
  BY <1>1, OwnInit, OwnStep, PTL DEF Spec, PrintedFinal

-----------------------------------------------------------------------------
(* What is reported was armed.  The first half counts: the virtual counter  *)
(* never runs ahead of the labels, and a pump whose mark it has passed has  *)
(* no product waiting, so what a push replaces was applied.                 *)

Length(p) == Len(labels[p])
Reading(p) == VirtualCount(p, fbbc[p])
Pushing(p) == pump[p].pc \in {"push", "send"}
Working(p) == pump[p].pc \notin {"none", "exit"}

\* A label the pump has not seen yet.
Slack(p) == IF Pushing(p) \/ waiting[p] THEN 0 ELSE 1

Delivered(p, i) == i \in Labelled(p) \/ (field[p] = i /\ waiting[p])

\* Before the first reading no label passes; after it the counter is ahead
\* of the mark by at most the label that ended the wait.
Marked(p) ==
    /\ pump[p].last < 0 => Length(p) = 0 /\ (Pushing(p) => field[p] = NoRow)
    /\ pump[p].last >= 0 => /\ Reading(p) <= pump[p].last + Slack(p)
                            /\ fbbc[p] <= pump[p].last + Slack(p)
                            /\ Pushing(p) => ~waiting[p]

Counted(p) ==
    /\ Reading(p) <= Length(p) /\ fbbc[p] <= Length(p)
    /\ pump[p].pc \in {"push", "send", "report"} => pump[p].todo = 1
    /\ Working(p) => Marked(p)
    /\ pump[p].pc = "report" => Delivered(p, pump[p].row)

Mine(p) == AssignedTo(Task, p)

\* Until its first append the printer was given nothing.
Untouched(p) == Length(p) = 0 /\ field[p] = NoRow /\ Mine(p) = {}

Begun(p) ==
    /\ Working(p) \/ taskStatus = "stopped" \/ Untouched(p)
    /\ stop[p] # "idle" => taskStatus = "stopped"
    /\ \A i \in Mine(p) : InLane(p, i)

\* The types of what Counted(p) speaks of.
LEMMA LineTypes ==
    ASSUME Typed, NEW p \in Registered
    PROVE  /\ pump[p] \in PumpType /\ pump[p].last \in Int /\ pump[p].last >= -1
           /\ pump[p].todo \in Nat /\ pump[p].row \in Nat /\ pump[p].index \in Nat
           /\ labels[p] \in Seq(0..MaxRows) /\ Length(p) \in Nat
           /\ DOMAIN labels[p] = 1..Length(p)
           /\ fbbc[p] \in Nat /\ lastCount[p] \in Nat /\ lastRawFBBC[p] \in Nat
           /\ Reading(p) \in Nat /\ lastCount[p] <= Reading(p)
           /\ field[p] \in Nat /\ waiting[p] \in BOOLEAN /\ odometer[p] \in Nat
           /\ Slack(p) \in 0..1
<1>1. pump[p] \in PumpType /\ pump[p].last \in Int /\ pump[p].last >= -1
      /\ pump[p].todo \in Nat /\ pump[p].row \in Nat /\ pump[p].index \in Nat
  BY PumpPart, ParameterAssumption DEF Typed, PumpType
<1>2. labels[p] \in Seq(0..MaxRows)
  BY DEF Typed, TypeOK
<1>3. Length(p) \in Nat /\ DOMAIN labels[p] = 1..Length(p)
  BY <1>2, LenProperties DEF Length
<1>4. /\ fbbc[p] \in Nat /\ lastCount[p] \in Nat /\ lastRawFBBC[p] \in Nat
      /\ field[p] \in Nat /\ waiting[p] \in BOOLEAN /\ odometer[p] \in Nat
  BY ParameterAssumption DEF Typed, TypeOK
<1>5. Reading(p) \in Nat /\ lastCount[p] <= Reading(p)
  BY <1>4 DEF Reading, VirtualCount
<1> QED
  BY <1>1, <1>2, <1>3, <1>4, <1>5 DEF Slack

\* The same of the state a step leads to.
LEMMA NextTypes ==
    ASSUME Typed', NEW p \in Registered
    PROVE  /\ fbbc'[p] \in Nat /\ Reading(p)' \in Nat /\ Length(p)' \in Nat
           /\ pump'[p].last \in Int /\ Slack(p)' \in 0..1 /\ waiting'[p] \in BOOLEAN
<1>1. /\ fbbc'[p] \in Nat /\ lastCount'[p] \in Nat /\ lastRawFBBC'[p] \in Nat
      /\ waiting'[p] \in BOOLEAN /\ labels'[p] \in Seq(0..MaxRows)
      /\ pump'[p].last \in Int
  BY DEF Typed, TypeOK
<1>2. Reading(p)' \in Nat
  BY <1>1 DEF Reading, VirtualCount
<1>3. Length(p)' \in Nat
  BY <1>1, LenProperties DEF Length
<1> QED
  BY <1>1, <1>2, <1>3 DEF Slack

\* One label moves the counter by at most one; a reading does not move it;
\* after a reset of the register it is what it was read to be; after a stop
\* has cleared it, it is at most the register.
LEMMA LabelReading ==
    ASSUME Typed, NEW p \in Registered, Label(p)
    PROVE  /\ Reading(p)' <= Reading(p) + 1 /\ fbbc'[p] = fbbc[p] + 1
           /\ Length(p)' = Length(p) + 1
           /\ \A l \in DOMAIN labels[p] : l \in DOMAIN labels'[p] /\ labels'[p][l] = labels[p][l]
           /\ Length(p) + 1 \in DOMAIN labels'[p] /\ labels'[p][Length(p) + 1] = field[p]
<1>1. /\ fbbc'[p] = fbbc[p] + 1 /\ labels'[p] = Append(labels[p], field[p])
      /\ field[p] \in 0..MaxRows /\ UNCHANGED driverVars
  BY DEF Label, Typed, TypeOK
<1>2. Reading(p)' <= Reading(p) + 1
  <2>1. /\ fbbc[p] \in Nat /\ lastCount[p] \in Nat /\ lastRawFBBC[p] \in Nat /\ MaxJump \in Nat
        /\ fbbc'[p] = fbbc[p] + 1 /\ lastCount' = lastCount /\ lastRawFBBC' = lastRawFBBC
    BY <1>1, LineTypes, ValentinAssumption DEF driverVars
  <2> QED
    BY <2>1 DEF Reading, VirtualCount
<1>3. /\ Length(p)' = Length(p) + 1
      /\ \A l \in DOMAIN labels[p] : l \in DOMAIN labels'[p] /\ labels'[p][l] = labels[p][l]
      /\ Length(p) + 1 \in DOMAIN labels'[p] /\ labels'[p][Length(p) + 1] = field[p]
  BY <1>1, LineTypes DEF Length
<1> QED
  BY <1>1, <1>2, <1>3

LEMMA CountReading ==
    ASSUME Typed, NEW p \in Registered, GetCurrentPrintCount(p), UNCHANGED fbbc
    PROVE  /\ Reading(p)' = Reading(p)
           /\ lastCount'[p] = Reading(p) \/ (UNCHANGED driverVars /\ Fault)
           /\ lastCount'[p] \in Nat /\ lastCount'[p] <= Reading(p)
           /\ \A q \in Registered : q # p => lastCount'[q] = lastCount[q]
                                             /\ lastRawFBBC'[q] = lastRawFBBC[q]
<1>1. CASE UNCHANGED driverVars /\ Fault
  BY <1>1, LineTypes DEF driverVars, Reading, VirtualCount
<1>2. CASE /\ lastCount' = [lastCount EXCEPT ![p] = VirtualCount(p, fbbc[p])]
           /\ lastRawFBBC' = [lastRawFBBC EXCEPT ![p] = fbbc[p]]
  <2>1. lastCount'[p] = Reading(p) /\ lastRawFBBC'[p] = fbbc[p]
    BY <1>2 DEF Reading, Typed, TypeOK
  <2>2. Reading(p)' = Reading(p)
    BY <2>1, LineTypes DEF Reading, VirtualCount
  <2> QED
    BY <1>2, <2>1, <2>2, LineTypes
<1> QED
  BY <1>1, <1>2 DEF GetCurrentPrintCount

\* A step that leaves the pump and the labels alone, and the counter where
\* it is or below.
LEMMA CountedStays ==
    ASSUME Typed, Typed', NEW q \in Registered, Counted(q), pump'[q] = pump[q],
           labels'[q] = labels[q], field'[q] = field[q], waiting'[q] = waiting[q],
           fbbc'[q] <= fbbc[q], Reading(q)' <= Reading(q) \/ Reading(q)' <= fbbc[q]
    PROVE  Counted(q)'
<1>1. /\ Length(q)' = Length(q) /\ Slack(q)' = Slack(q)
      /\ (Pushing(q)' <=> Pushing(q)) /\ (Working(q)' <=> Working(q))
  BY DEF Length, Slack, Pushing, Working
<1>2. /\ Reading(q) \in Nat /\ Reading(q)' \in Nat /\ fbbc[q] \in Nat /\ fbbc'[q] \in Nat
      /\ Length(q) \in Nat /\ Slack(q) \in 0..1 /\ pump[q].last \in Int
  BY LineTypes, NextTypes
<1>3. Marked(q) => Marked(q)'
  BY <1>1, <1>2 DEF Marked
<1>4. \A i : Delivered(q, i)' <=> Delivered(q, i)
  BY DEF Delivered, Labelled
<1>5. Reading(q)' <= Length(q)' /\ fbbc'[q] <= Length(q)'
  BY <1>1, <1>2 DEF Counted
<1> QED
  BY <1>1, <1>3, <1>4, <1>5 DEF Counted

LEMMA SameReading ==
    ASSUME Typed, NEW q \in Registered, fbbc'[q] = fbbc[q], lastCount'[q] = lastCount[q],
           lastRawFBBC'[q] = lastRawFBBC[q]
    PROVE  fbbc'[q] <= fbbc[q] /\ Reading(q)' <= Reading(q)
<1>1. Reading(q)' = Reading(q)
  BY DEF Reading, VirtualCount
<1> QED
  BY <1>1, LineTypes

-----------------------------------------------------------------------------
(* What the steps of a pump make of it.                                     *)

LEMMA TickStep ==
    ASSUME Typed, NEW p \in Registered, PumpTick(p)
    PROVE  /\ pump[p].pc = "tick" /\ UNCHANGED <<shardVars, driverVars, deviceVars>>
           /\ pump'[p].pc = IF taskStatus = "stopped" THEN "exit" ELSE "count"
           /\ pump'[p].last = pump[p].last
           /\ \A q \in Registered : q # p => pump'[q] = pump[q]
<1>1. pump[p] \in PumpType /\ pump \in [Registered -> PumpType]
  BY PumpPart DEF Typed
<1> QED
  BY <1>1 DEF PumpTick, Step, PumpType

\* One turn of the push loop is over.
TurnOver(p) ==
    /\ pump'[p].pc = IF pump[p].todo = 1 THEN "tick" ELSE "push"
    /\ pump'[p].last = pump[p].last

LEMMA TakeStep ==
    ASSUME Typed, NEW p \in Registered, PumpFetch(p)
    PROVE  /\ pump[p].pc = "push" /\ UNCHANGED <<driverVars, deviceVars>>
           /\ pump'[p].last = pump[p].last
           /\ \A q \in Registered : q # p => pump'[q] = pump[q]
           /\ \/ /\ FetchAndAssignCodes(Task, p, 1)
                 /\ pump'[p].row \in Selected(Task, p, 1) /\ pump'[p].pc = "send"
                 /\ pump'[p].index = rows'[pump'[p].row].index
                 /\ pump'[p].todo = pump[p].todo
              \/ UNCHANGED shardVars /\ TurnOver(p)
<1>1. pump[p] \in PumpType /\ pump \in [Registered -> PumpType]
  BY PumpPart DEF Typed
<1>2. ASSUME NEW i \in Selected(Task, p, 1), FetchAndAssignCodes(Task, p, 1),
             Step(p, [pump[p] EXCEPT !.pc = "send", !.row = i, !.index = rows'[i].index])
      PROVE  /\ pump'[p].row = i /\ pump'[p].pc = "send" /\ pump'[p].index = rows'[i].index
             /\ pump'[p].todo = pump[p].todo /\ pump'[p].last = pump[p].last
             /\ \A q \in Registered : q # p => pump'[q] = pump[q]
  BY <1>1, <1>2 DEF Step, PumpType
<1>3. ASSUME Step(p, Pushed(pump[p]))
      PROVE  TurnOver(p) /\ \A q \in Registered : q # p => pump'[q] = pump[q]
  BY <1>1, <1>3 DEF Step, PumpType, Pushed, TurnOver
<1> QED
  BY <1>2, <1>3 DEF PumpFetch, TurnOver

LEMMA SendStep ==
    ASSUME Typed, NEW p \in Registered, PumpSend(p)
    PROVE  /\ pump[p].pc = "send" /\ UNCHANGED <<shardVars, driverVars, labels>>
           /\ pump'[p].last = pump[p].last
           /\ \A q \in Registered : q # p => /\ pump'[q] = pump[q] /\ field'[q] = field[q]
                                            /\ waiting'[q] = waiting[q] /\ fbbc'[q] = fbbc[q]
           /\ fbbc'[p] = fbbc[p] \/ fbbc'[p] = 0
           /\ \/ /\ field'[p] = pump[p].row /\ waiting'[p]
                 /\ pump'[p].pc = "report" /\ pump'[p].row = pump[p].row
                 /\ pump'[p].index = pump[p].index /\ pump'[p].todo = pump[p].todo
              \/ /\ field'[p] = field[p] \/ field'[p] = pump[p].row
                 /\ waiting'[p] = waiting[p] /\ pump'[p].pc = "tick"
<1>1. /\ pump[p] \in PumpType /\ pump \in [Registered -> PumpType]
      /\ field \in [Registered -> 0..MaxRows] /\ waiting \in [Registered -> BOOLEAN]
      /\ fbbc \in [Registered -> Nat]
  BY PumpPart DEF Typed, TypeOK
<1>2. ASSUME Step(p, [pump[p] EXCEPT !.pc = "report"])
      PROVE  /\ pump'[p].pc = "report" /\ pump'[p].row = pump[p].row
             /\ pump'[p].index = pump[p].index /\ pump'[p].todo = pump[p].todo
             /\ pump'[p].last = pump[p].last
             /\ \A q \in Registered : q # p => pump'[q] = pump[q]
  BY <1>1, <1>2 DEF Step, PumpType
<1>3. ASSUME Step(p, GiveUp(pump[p]))
      PROVE  /\ pump'[p].pc = "tick" /\ pump'[p].last = pump[p].last
             /\ \A q \in Registered : q # p => pump'[q] = pump[q]
  BY <1>1, <1>3 DEF Step, PumpType, GiveUp
<1>4. /\ pump[p].pc = "send" /\ UNCHANGED <<shardVars, driverVars, labels>>
      /\ \/ /\ field' = [field EXCEPT ![p] = pump[p].row]
            /\ waiting' = [waiting EXCEPT ![p] = TRUE]
            /\ fbbc' = fbbc \/ fbbc' = [fbbc EXCEPT ![p] = 0]
            /\ Step(p, [pump[p] EXCEPT !.pc = "report"])
         \/ /\ field' = field \/ field' = [field EXCEPT ![p] = pump[p].row]
            /\ waiting' = waiting /\ fbbc' = fbbc
            /\ Step(p, GiveUp(pump[p]))
  BY DEF PumpSend
<1>5. CASE /\ field' = [field EXCEPT ![p] = pump[p].row]
           /\ waiting' = [waiting EXCEPT ![p] = TRUE]
           /\ fbbc' = fbbc \/ fbbc' = [fbbc EXCEPT ![p] = 0]
           /\ Step(p, [pump[p] EXCEPT !.pc = "report"])
  BY <1>1, <1>2, <1>4, <1>5
<1>6. CASE /\ field' = field \/ field' = [field EXCEPT ![p] = pump[p].row]
           /\ waiting' = waiting /\ fbbc' = fbbc
           /\ Step(p, GiveUp(pump[p]))
  BY <1>1, <1>3, <1>4, <1>6
<1> QED
  BY <1>4, <1>5, <1>6

LEMMA ReportStep ==
    ASSUME Typed, NEW p \in Registered, PumpReport(p)
    PROVE  /\ pump[p].pc = "report" /\ UNCHANGED <<driverVars, deviceVars>> /\ TurnOver(p)
           /\ \A q \in Registered : q # p => pump'[q] = pump[q]
           /\ UNCHANGED shardVars \/ UpdateCodeStatusByID(pump[p].row, pump[p].index)
<1>1. pump[p] \in PumpType /\ pump \in [Registered -> PumpType]
  BY PumpPart DEF Typed
<1>2. TurnOver(p) /\ \A q \in Registered : q # p => pump'[q] = pump[q]
  BY <1>1 DEF PumpReport, Step, PumpType, Pushed, TurnOver
<1> QED
  BY <1>2 DEF PumpReport

LEMMA ExitStep ==
    ASSUME Typed, NEW p \in Registered, PumpExit(p)
    PROVE  /\ pump[p].pc = "exit" /\ UNCHANGED <<shardVars, driverVars, deviceVars, taskStatus>>
           /\ pump'[p] = NoPump /\ NoPump.pc = "none"
           /\ \A q \in Registered : q # p => pump'[q] = pump[q]
<1>1. pump \in [Registered -> PumpType]
  BY PumpPart DEF Typed
<1> QED
  BY <1>1 DEF PumpExit, Step, NoPump

-----------------------------------------------------------------------------
(* The rows a printer was given.                                            *)

\* No product passes before the pump's first reading, a task that was stopped is
\* not appended to, and the registers start at 0.
FirstRun ==
    Events \cap {"earlyLabel", "resume"} = {} /\ InitialFbbc \subseteq {0}

MineKept(q) == Mine(q)' = Mine(q) /\ \A i \in Mine(q) : rows'[i].index = rows[i].index

LEMMA SameMine ==
    ASSUME UNCHANGED shardVars, NEW q
    PROVE  MineKept(q)
  BY DEF MineKept, Mine, AssignedTo, Ids, shardVars

LEMMA AppendMine ==
    ASSUME ShardTypeOK, NEW items \in Batches, AppendTaskCodes(Task, items), NEW q \in Printers
    PROVE  MineKept(q)
<1>1. /\ \A i \in Ids : i \in Ids' /\ rows'[i] = rows[i]
      /\ \A i \in Ids' \ Ids : rows'[i].printer = NoPrinter
  BY AppendRows DEF Kept
<1>2. q # NoPrinter
  BY ParameterAssumption
<1>3. \A i : i \in Mine(q)' <=> i \in Mine(q)
  BY <1>1, <1>2 DEF Mine, AssignedTo
<1> QED
  BY <1>1, <1>3 DEF MineKept, Mine, AssignedTo

LEMMA FetchMine ==
    ASSUME ShardTypeOK, NEW p \in Printers, FetchAndAssignCodes(Task, p, 1),
           NEW i \in Selected(Task, p, 1)
    PROVE  /\ Mine(p)' = Mine(p) \cup {i} /\ i \notin Mine(p) /\ InLane(p, i)
           /\ \A j \in Mine(p) : rows'[j].index = rows[j].index
           /\ \E last \in LastIndex(Task, p) : rows'[i].index = last + 1
           /\ \A q \in Printers : q # p => MineKept(q)
<1>1. /\ i \in Ids /\ rows[i].printer = NoPrinter /\ rows'[i].printer = p
      /\ rows'[i].task = Task /\ Kept /\ InLane(p, i) /\ rows[i] \in Row
  BY FetchOneRow DEF ShardTypeOK
<1>2. lastId' = lastId /\ Ids' = Ids /\ \A j \in Ids : j # i => rows'[j] = rows[j]
  BY FetchOne DEF Ids
<1>3. \A q \in Printers : q # NoPrinter
  BY ParameterAssumption
<1>4. Mine(p)' = Mine(p) \cup {i} /\ i \notin Mine(p)
  BY <1>1, <1>2, <1>3 DEF Mine, AssignedTo
<1>5. \A j \in Mine(p) : rows'[j].index = rows[j].index
  BY <1>2, <1>4 DEF Mine, AssignedTo
<1>6. \E last \in LastIndex(Task, p) : rows'[i].index = last + 1
  <2>1. PICK last \in LastIndex(Task, p) :
           rows'[i] = [rows[i] EXCEPT !.status = "in_buffer", !.printer = p, !.index = last + 1]
    BY FetchOne
  <2> QED
    BY <2>1, <1>1 DEF Row
<1>7. ASSUME NEW q \in Printers, q # p
      PROVE  MineKept(q)
  BY <1>1, <1>2, <1>3, <1>7 DEF MineKept, Mine, AssignedTo
<1> QED
  BY <1>1, <1>4, <1>5, <1>6, <1>7

LEMMA ReportMine ==
    ASSUME ShardTypeOK, NEW i \in Ids, NEW index \in Nat, UpdateCodeStatusByID(i, index), NEW q
    PROVE  Mine(q)' = Mine(q) /\ (i \notin Mine(q) \/ index = rows[i].index => MineKept(q))
<1>1. /\ Kept /\ Ids' = Ids /\ rows'[i].index = index /\ rows'[i].printer = rows[i].printer
      /\ \A j \in Ids : j # i => rows'[j] = rows[j]
  BY ReportRows DEF Ids
<1>2. Mine(q)' = Mine(q)
  BY <1>1 DEF Mine, AssignedTo, Kept
<1>3. ASSUME i \notin Mine(q) \/ index = rows[i].index
      PROVE  MineKept(q)
  BY <1>1, <1>2, <1>3 DEF MineKept, Mine, AssignedTo
<1> QED
  BY <1>2, <1>3

LEMMA ReconcileMine ==
    ASSUME ShardTypeOK, NEW p \in Printers, NEW n \in Int,
           ReconcileAndFinalizeTaskCodes(Task, p, n)
    PROVE  /\ Mine(p)' \subseteq Mine(p)
           /\ \A q \in Printers : q # p => MineKept(q)
<1>1. /\ Kept /\ Ids' = Ids
      /\ \A i \in Ids \ InBuffer(Task, p) : rows'[i] = rows[i]
  BY ReconcileRows DEF Ids
<1>2. \A i \in InBuffer(Task, p) : /\ i \in Ids /\ rows[i].printer = p /\ rows[i].task = Task
                                  /\ rows'[i].printer \in {p, NoPrinter}
  <2> SUFFICES ASSUME NEW i \in InBuffer(Task, p)
               PROVE  rows'[i].printer \in {p, NoPrinter}
    BY DEF InBuffer, AssignedTo
  <2>1. i \in Ids /\ rows[i].printer = p /\ rows[i] \in Row
    BY DEF InBuffer, AssignedTo, ShardTypeOK
  <2> QED
    BY <2>1 DEF ReconcileAndFinalizeTaskCodes, Row
<1>3. p # NoPrinter /\ \A q \in Printers : q # NoPrinter
  BY ParameterAssumption
<1>4. Mine(p)' \subseteq Mine(p)
  <2> SUFFICES ASSUME NEW i \in Mine(p)', i \notin InBuffer(Task, p)
               PROVE  i \in Mine(p)
    BY <1>2 DEF Mine, AssignedTo
  <2> QED
    BY <1>1 DEF Mine, AssignedTo
<1>5. ASSUME NEW q \in Printers, q # p
      PROVE  MineKept(q)
  <2>1. ASSUME NEW i \in Mine(q)
        PROVE  i \in Mine(q)' /\ rows'[i].index = rows[i].index
    BY <1>1, <1>5, <2>1 DEF Mine, AssignedTo, InBuffer
  <2>2. ASSUME NEW i \in Mine(q)'
        PROVE  i \in Mine(q)
    <3>1. i \notin InBuffer(Task, p)
      BY <1>2, <1>3, <1>5 DEF Mine, AssignedTo
    <3> QED
      BY <3>1, <1>1 DEF Mine, AssignedTo
  <2> QED
    BY <2>1, <2>2 DEF MineKept
<1> QED
  BY <1>4, <1>5

LEMMA BegunStays ==
    ASSUME NEW q \in Registered, Begun(q), Mine(q)' = Mine(q), Kept, UNCHANGED taskStatus,
           stop'[q] = stop[q] \/ taskStatus = "stopped",
           \/ labels'[q] = labels[q] /\ field'[q] = field[q] /\ (Working(q) => Working(q)')
           \/ Working(q)'
           \/ taskStatus = "stopped"
    PROVE  Begun(q)'
<1>1. labels'[q] = labels[q] /\ field'[q] = field[q] => (Untouched(q)' <=> Untouched(q))
  BY DEF Untouched, Length
<1>2. \A i \in Mine(q)' : InLane(q, i)'
  BY KeptLanes DEF Begun, Mine, AssignedTo
<1> QED
  BY <1>1, <1>2 DEF Begun

LEMMA BegunStep ==
    ASSUME FirstRun, Typed, \A q \in Registered : Begun(q), [Next]_vars, NEW q \in Registered
    PROVE  Begun(q)'
<1>0. ShardTypeOK /\ q \in Printers /\ Begun(q) /\ pump \in [Registered -> PumpType]
      /\ stop \in [Registered -> {"idle", "poll", "reconcile", "clear"}]
  BY PrinterOf, PumpPart DEF Typed, TypeOK
<1>1. ASSUME UNCHANGED shardVars PROVE Kept /\ Mine(q)' = Mine(q)
  BY <1>1, SameRows, SameMine DEF MineKept
<1>2. ASSUME NEW items \in Batches, TaskAppend(items) PROVE Begun(q)'
  <2>1. taskStatus = "active" /\ taskStatus' = "active" /\ stop[q] = "idle" /\ stop' = stop
    BY <1>2 DEF TaskAppend, FirstRun, StopIdle, stopVars
  <2>2. Kept /\ Mine(q)' = Mine(q)
    BY <1>0, <1>2, AppendRows, AppendMine DEF TaskAppend, MineKept
  <2>3. pump' = pump \/ Working(q)'
    BY <1>2 DEF TaskAppend, Working, FreshPump, NoPump
  <2> QED
    BY <1>0, <1>2, <2>1, <2>2, <2>3, BegunStays DEF TaskAppend, deviceVars, Working
<1>3. CASE StopRequest
  <2>1. taskStatus' = "stopped" /\ Kept /\ Mine(q)' = Mine(q)
    BY <1>1, <1>3 DEF StopRequest
  <2> QED
    BY <1>0, <2>1, KeptLanes DEF Begun, Mine, AssignedTo
<1>4. ASSUME NEW p \in Registered, Label(p) PROVE Begun(q)'
  <2>1. p # q => labels'[q] = labels[q] /\ field'[q] = field[q]
    BY <1>4 DEF Label, Typed, TypeOK
  <2>2. p = q => Working(q) \/ taskStatus = "stopped"
    BY <1>0, <1>4 DEF Label, FirstRun, Begun, Untouched
  <2> QED
    BY <1>0, <1>1, <1>4, <2>1, <2>2, BegunStays DEF Label, Working, taskVars, stopVars
<1>5. ASSUME NEW p \in Registered, Poll(p) PROVE Begun(q)'
  BY <1>0, <1>1, <1>5, BegunStays DEF Poll, Working, taskVars, stopVars, deviceVars
<1>6. ASSUME NEW p \in Registered, Pump(p) PROVE Begun(q)'
  <2>1. CASE PumpTick(p)
    <3>1. \/ Working(q)' \/ taskStatus = "stopped"
          \/ Working(q) => Working(q)'
      BY <2>1, TickStep DEF Working
    <3> QED
      BY <1>0, <1>1, <2>1, <3>1, BegunStays DEF PumpTick, taskVars, stopVars, deviceVars
  <2>2. CASE PumpCount(p)
    <3>1. Working(q) => Working(q)'
      BY <2>2, CountStep DEF Working
    <3> QED
      BY <1>0, <1>1, <2>2, <3>1, BegunStays DEF PumpCount, taskVars, stopVars, deviceVars
  <2>3. CASE PumpFetch(p)
    <3>1. /\ UNCHANGED <<taskVars, stopVars, deviceVars>>
          /\ Working(p)' /\ (Working(q) => Working(q)')
      BY <2>3, TakeStep DEF PumpFetch, Working, TurnOver
    <3>2. CASE UNCHANGED shardVars
      BY <1>0, <1>1, <3>1, <3>2, BegunStays DEF taskVars, stopVars, deviceVars
    <3>3. ASSUME FetchAndAssignCodes(Task, p, 1), NEW i \in Selected(Task, p, 1)
          PROVE  Begun(q)'
      <4>1. p \in Printers /\ Kept
        BY <1>0, <3>3, FetchOneRow, PrinterOf
      <4>2. CASE q # p
        BY <1>0, <3>1, <3>3, <4>1, <4>2, FetchMine, BegunStays
           DEF MineKept, taskVars, stopVars, deviceVars
      <4>3. CASE q = p
        <5>1. \A j \in Mine(q)' : InLane(q, j)'
          <6>1. \A j \in Mine(q)' : j \in Ids /\ InLane(q, j)
            BY <1>0, <3>3, <4>3, FetchMine, FetchOneRow DEF Begun, Mine, AssignedTo
          <6> QED
            BY <6>1, <4>1, KeptLanes
        <5> QED
          BY <1>0, <3>1, <4>3, <5>1 DEF Begun, taskVars, stopVars
      <4> QED
        BY <4>2, <4>3
    <3> QED
      BY <2>3, <3>2, <3>3, TakeStep
  <2>4. CASE PumpSend(p)
    <3>1. /\ UNCHANGED shardVars /\ labels' = labels /\ Working(p)' /\ (Working(q) => Working(q)')
          /\ q # p => field'[q] = field[q]
      BY <2>4, SendStep DEF Working
    <3> QED
      BY <1>0, <1>1, <2>4, <3>1, BegunStays DEF PumpSend, taskVars, stopVars
  <2>5. CASE PumpReport(p)
    <3>1. Working(q) => Working(q)'
      BY <2>5, ReportStep DEF Working, TurnOver
    <3>2. Kept /\ Mine(q)' = Mine(q)
      <4>1. CASE UNCHANGED shardVars
        BY <1>1, <4>1
      <4>2. CASE UpdateCodeStatusByID(pump[p].row, pump[p].index)
        <5>1. pump[p].row \in Ids /\ pump[p].index \in Nat
          BY <2>5, ReportStep, LineTypes DEF Typed, Hand
        <5> QED
          BY <1>0, <4>2, <5>1, ReportRows, ReportMine
      <4> QED
        BY <2>5, <4>1, <4>2, ReportStep
    <3> QED
      BY <1>0, <2>5, <3>1, <3>2, BegunStays DEF PumpReport, taskVars, stopVars, deviceVars
  <2>6. CASE PumpExit(p)
    <3>1. Working(q) => Working(q)'
      BY <2>6, ExitStep DEF Working
    <3> QED
      BY <1>0, <1>1, <2>6, <3>1, BegunStays DEF PumpExit, stopVars, deviceVars
  <2> QED
    BY <1>6, <2>1, <2>2, <2>3, <2>4, <2>5, <2>6 DEF Pump
<1>7. ASSUME NEW p \in Registered, Stop(p) PROVE Begun(q)'
  <2>1. stop[p] # "idle" /\ taskStatus = "stopped"
    BY <1>7 DEF Stop, StopPoll, StopReconcile, StopClear, Begun
  <2>2. /\ UNCHANGED <<taskVars, pump>> /\ labels' = labels /\ field' = field
    BY <1>7 DEF Stop, StopPoll, StopReconcile, StopClear, deviceVars
  <2>3. CASE StopPoll(p) \/ StopClear(p)
    BY <1>0, <1>1, <2>1, <2>2, <2>3, BegunStays DEF StopPoll, StopClear, taskVars
  <2>4. CASE StopReconcile(p)
    <3>1. p \in Printers /\ odometer[p] \in Int
      BY PrinterOf DEF Typed, TypeOK
    <3>2. Kept
      BY <1>0, <2>4, <3>1, ReconcileRows DEF StopReconcile
    <3>3. Mine(q)' \subseteq Mine(q)
      BY <1>0, <2>4, <3>1, ReconcileMine DEF StopReconcile, MineKept
    <3>4. \A i \in Mine(q)' : InLane(q, i)'
      BY <1>0, <3>2, <3>3, KeptLanes DEF Begun, Mine, AssignedTo
    <3> QED
      BY <2>1, <2>2, <3>4 DEF Begun, taskVars
  <2> QED
    BY <1>7, <2>3, <2>4 DEF Stop
<1>8. CASE UNCHANGED vars
  BY <1>0, <1>1, <1>8, BegunStays DEF vars, Working, taskVars, stopVars, deviceVars
<1> QED
  BY <1>2, <1>3, <1>4, <1>5, <1>6, <1>7, <1>8 DEF Next

-----------------------------------------------------------------------------
(* Counting, step by step.                                                  *)

LEMMA LabelCounted ==
    ASSUME FirstRun, Typed, Typed', NEW p \in Registered, Label(p), Counted(p)
    PROVE  Counted(p)'
<1>1. /\ waiting[p] /\ ~waiting'[p] /\ pump' = pump /\ field' = field
      /\ pump[p].pc # "none" => pump[p].last >= 0
  BY DEF Label, FirstRun, Typed, TypeOK
<1>2. /\ (Pushing(p)' <=> Pushing(p)) /\ (Working(p)' <=> Working(p))
      /\ Slack(p) = 0 /\ Slack(p)' = IF Pushing(p) THEN 0 ELSE 1
  BY <1>1 DEF Pushing, Working, Slack
<1>3. /\ Reading(p)' <= Reading(p) + 1 /\ fbbc'[p] = fbbc[p] + 1
      /\ Length(p)' = Length(p) + 1
  BY LabelReading
<1>4. /\ Reading(p) \in Nat /\ Reading(p)' \in Nat /\ fbbc[p] \in Nat /\ Length(p) \in Nat
      /\ pump[p].last \in Int
  BY LineTypes, NextTypes
<1>5. Reading(p)' <= Length(p)' /\ fbbc'[p] <= Length(p)'
  BY <1>3, <1>4 DEF Counted
<1>6. ASSUME Working(p)' PROVE Marked(p)'
  <2>1. pump[p].last >= 0 /\ Marked(p)
    BY <1>1, <1>2, <1>6 DEF Counted, Working
  <2>2. ~Pushing(p) /\ Reading(p) <= pump[p].last /\ fbbc[p] <= pump[p].last
    BY <2>1, <1>1, <1>2, <1>4 DEF Marked
  <2> QED
    BY <2>1, <2>2, <1>1, <1>2, <1>3, <1>4 DEF Marked
<1>7. ASSUME pump[p].pc = "report" PROVE Delivered(p, pump[p].row)'
  <2>1. Delivered(p, pump[p].row)
    BY <1>7 DEF Counted
  <2>2. /\ \A l \in DOMAIN labels[p] : l \in DOMAIN labels'[p] /\ labels'[p][l] = labels[p][l]
        /\ Length(p) + 1 \in DOMAIN labels'[p] /\ labels'[p][Length(p) + 1] = field[p]
    BY LabelReading
  <2>3. pump[p].row \in Labelled(p)'
    BY <2>1, <2>2 DEF Delivered, Labelled
  <2> QED
    BY <2>3, <1>1 DEF Delivered
<1> QED
  BY <1>1, <1>5, <1>6, <1>7 DEF Counted

\* A reading is worth at most one code, and none while a product is awaited.
LEMMA CountCounted ==
    ASSUME Typed, Typed', NEW p \in Registered, PumpCount(p), Counted(p)
    PROVE  Counted(p)'
<1>1. /\ pump[p].pc = "count" /\ UNCHANGED deviceVars
      /\ ~Pushing(p) /\ Working(p) /\ Marked(p)
  BY CountStep DEF PumpCount, Pushing, Working, Counted
<1>2. /\ Reading(p) \in Nat /\ Reading(p)' \in Nat /\ fbbc[p] \in Nat /\ Length(p) \in Nat
      /\ pump[p].last \in Int /\ Slack(p) \in 0..1 /\ waiting[p] \in BOOLEAN
  BY LineTypes, NextTypes
<1>3. fbbc' = fbbc /\ waiting' = waiting /\ Length(p)' = Length(p) /\ field' = field
  BY <1>1 DEF deviceVars, Length
<1>4. CASE /\ GetCurrentPrintCount(p)
           /\ pump'[p].pc = IF Delta(pump[p], lastCount'[p]) > 0 THEN "push" ELSE "tick"
           /\ pump'[p].todo = Delta(pump[p], lastCount'[p])
           /\ pump'[p].last = IF pump[p].last < 0 \/ Delta(pump[p], lastCount'[p]) > 0
                              THEN lastCount'[p] ELSE pump[p].last
  <2>1. /\ Reading(p)' = Reading(p)
        /\ lastCount'[p] \in Nat /\ lastCount'[p] <= Reading(p)
    BY <1>3, <1>4, CountReading
  <2>2. Reading(p)' <= Length(p)' /\ fbbc'[p] <= Length(p)'
    BY <2>1, <1>3 DEF Counted
  <2>3. CASE pump[p].last < 0
    <3>1. Length(p) = 0 /\ Reading(p) = 0 /\ fbbc[p] = 0 /\ lastCount'[p] = 0
      BY <2>1, <2>3, <1>1, <1>2 DEF Marked, Counted
    <3>2. Delta(pump[p], lastCount'[p]) = 0
      BY <2>3, <1>2 DEF Delta
    <3>3. pump'[p].pc = "tick" /\ pump'[p].last = 0
      BY <3>1, <3>2, <2>3, <1>4
    <3>4. Marked(p)'
      BY <3>1, <3>3, <2>1, <1>3, NextTypes DEF Marked, Pushing
    <3> QED
      BY <2>2, <3>3, <3>4 DEF Counted
  <2>4. CASE pump[p].last >= 0 /\ lastCount'[p] > pump[p].last
    <3>1. /\ Reading(p) <= pump[p].last + Slack(p) /\ fbbc[p] <= pump[p].last + Slack(p)
      BY <2>4, <1>1 DEF Marked
    <3>2. Slack(p) = 1 /\ lastCount'[p] = pump[p].last + 1
      BY <3>1, <2>1, <2>4, <1>2
    <3>3. ~waiting[p]
      BY <3>2 DEF Slack
    <3>4. Delta(pump[p], lastCount'[p]) = 1
      BY <3>2, <2>4, <1>2 DEF Delta
    <3>5. pump'[p].pc = "push" /\ pump'[p].todo = 1 /\ pump'[p].last = pump[p].last + 1
      BY <3>2, <3>4, <1>4
    <3>6. Slack(p)' = 0
      BY <3>5 DEF Slack, Pushing
    <3>7. Marked(p)'
      BY <3>1, <3>2, <3>3, <3>5, <3>6, <2>1, <2>4, <1>2, <1>3 DEF Marked
    <3> QED
      BY <2>2, <3>5, <3>7 DEF Counted
  <2>5. CASE pump[p].last >= 0 /\ ~(lastCount'[p] > pump[p].last)
    <3>1. Delta(pump[p], lastCount'[p]) = 0
      BY <2>5 DEF Delta
    <3>2. pump'[p].pc = "tick" /\ pump'[p].last = pump[p].last
      BY <3>1, <2>5, <1>2, <1>4
    <3>3. Slack(p)' = Slack(p)
      BY <3>2, <1>1, <1>3 DEF Slack, Pushing
    <3>4. Marked(p)'
      BY <3>2, <3>3, <2>1, <2>5, <1>1, <1>2, <1>3 DEF Marked, Pushing
    <3> QED
      BY <2>2, <3>2, <3>4 DEF Counted
  <2> QED
    BY <2>3, <2>4, <2>5, <1>2
<1>5. CASE /\ UNCHANGED driverVars
           /\ pump'[p].pc = "tick" /\ pump'[p].last = pump[p].last
  <2>1. Reading(p)' = Reading(p) /\ Slack(p)' = Slack(p) /\ ~Pushing(p)'
    BY <1>1, <1>3, <1>5 DEF Reading, VirtualCount, driverVars, Slack, Pushing
  <2>2. Marked(p)'
    BY <2>1, <1>1, <1>3, <1>5 DEF Marked
  <2> QED
    BY <2>1, <2>2, <1>3, <1>5 DEF Counted
<1> QED
  BY <1>4, <1>5, CountStep

\* A pump that moves on without touching its printer, or sends a code.
LEMMA MoveCounted ==
    ASSUME Typed, Typed', NEW p \in Registered, Counted(p), Working(p),
           Reading(p)' <= Reading(p), fbbc'[p] <= fbbc[p], labels'[p] = labels[p],
           pump'[p].last = pump[p].last,
           pump'[p].pc \in {"push", "send", "report"} => pump'[p].todo = 1,
           pump'[p].pc = "report" => Delivered(p, pump[p].row)',
           \/ ~Pushing(p)' /\ (Pushing(p) \/ waiting'[p] = waiting[p])
           \/ Pushing(p)' /\ Pushing(p) /\ waiting'[p] = waiting[p] /\ field'[p] = field[p]
    PROVE  Counted(p)'
<1>1. /\ Reading(p) \in Nat /\ Reading(p)' \in Nat /\ fbbc[p] \in Nat /\ fbbc'[p] \in Nat
      /\ Length(p) \in Nat /\ pump[p].last \in Int /\ Slack(p) \in 0..1 /\ Slack(p)' \in 0..1
  BY LineTypes, NextTypes
<1>2. Length(p)' = Length(p)
  BY DEF Length
<1>3. Slack(p) <= Slack(p)'
  BY DEF Slack, Pushing
<1>4. Marked(p)'
  <2>1. Marked(p)
    BY DEF Counted
  <2>2. CASE pump[p].last < 0
    BY <2>1, <2>2, <1>1, <1>2 DEF Marked
  <2>3. CASE pump[p].last >= 0
    <3>1. Reading(p) <= pump[p].last + Slack(p) /\ fbbc[p] <= pump[p].last + Slack(p)
          /\ (Pushing(p) => ~waiting[p])
      BY <2>1, <2>3 DEF Marked
    <3> QED
      BY <3>1, <2>3, <1>1, <1>3 DEF Marked
  <2> QED
    BY <2>2, <2>3, <1>1
<1>5. Reading(p)' <= Length(p)' /\ fbbc'[p] <= Length(p)'
  BY <1>1, <1>2 DEF Counted
<1> QED
  BY <1>4, <1>5 DEF Counted

\* What a pump sends out it has delivered.
LEMMA PumpCounted ==
    ASSUME Typed, Typed', NEW p \in Registered, Pump(p), Counted(p)
    PROVE  Counted(p)'
<1>0. /\ Reading(p) \in Nat /\ fbbc[p] \in Nat /\ lastCount[p] \in Nat
      /\ lastCount[p] <= Reading(p)
  BY LineTypes
<1>1. ASSUME UNCHANGED driverVars, fbbc'[p] = fbbc[p] \/ fbbc'[p] = 0
      PROVE  Reading(p)' <= Reading(p) /\ fbbc'[p] <= fbbc[p]
  <2>1. fbbc'[p] = fbbc[p] => Reading(p)' = Reading(p)
    BY <1>1 DEF Reading, VirtualCount, driverVars
  <2>2. fbbc'[p] = 0 => Reading(p)' = lastCount[p]
    <3>1. lastRawFBBC[p] \in Nat
      BY LineTypes
    <3> QED
      BY <3>1, <1>1 DEF Reading, VirtualCount, driverVars
  <2> QED
    BY <1>0, <1>1, <2>1, <2>2
<1>2. CASE PumpTick(p)
  <2>1. /\ pump[p].pc = "tick" /\ UNCHANGED <<driverVars, deviceVars>>
        /\ pump'[p].pc \in {"exit", "count"} /\ pump'[p].last = pump[p].last
    BY <1>2, TickStep
  <2> QED
    BY <1>1, <2>1, MoveCounted DEF Working, Pushing, deviceVars
<1>3. CASE PumpFetch(p)
  <2>1. /\ pump[p].pc = "push" /\ pump[p].todo = 1 /\ UNCHANGED <<driverVars, deviceVars>>
        /\ pump'[p].last = pump[p].last
        /\ \/ pump'[p].pc = "send" /\ pump'[p].todo = 1
           \/ pump'[p].pc = "tick"
    BY <1>3, TakeStep DEF Counted, TurnOver
  <2> QED
    BY <1>1, <2>1, MoveCounted DEF Working, Pushing, deviceVars
<1>4. CASE PumpSend(p)
  <2>1. pump[p].pc = "send" /\ pump[p].todo = 1
    BY <1>4, SendStep DEF Counted
  <2>2. /\ UNCHANGED <<driverVars, labels>> /\ pump'[p].last = pump[p].last
        /\ fbbc'[p] = fbbc[p] \/ fbbc'[p] = 0
        /\ \/ /\ pump'[p].pc = "report" /\ pump'[p].todo = pump[p].todo
              /\ pump'[p].row = pump[p].row /\ field'[p] = pump[p].row /\ waiting'[p]
           \/ pump'[p].pc = "tick"
    BY <1>4, SendStep
  <2>3. pump'[p].pc = "report" => Delivered(p, pump[p].row)'
    BY <2>2 DEF Delivered
  <2> QED
    BY <1>1, <2>1, <2>2, <2>3, MoveCounted DEF Working, Pushing
<1>5. CASE PumpReport(p)
  <2>1. /\ pump[p].pc = "report" /\ pump[p].todo = 1 /\ UNCHANGED <<driverVars, deviceVars>>
        /\ pump'[p].last = pump[p].last /\ pump'[p].pc = "tick"
    BY <1>5, ReportStep DEF Counted, TurnOver
  <2> QED
    BY <1>1, <2>1, MoveCounted DEF Working, Pushing, deviceVars
<1>6. CASE PumpExit(p)
  <2>1. pump'[p].pc = "none" /\ UNCHANGED <<driverVars, deviceVars>>
    BY <1>6, ExitStep
  <2>2. Reading(p)' = Reading(p) /\ Length(p)' = Length(p) /\ fbbc' = fbbc
    BY <2>1 DEF Reading, VirtualCount, Length, driverVars, deviceVars
  <2> QED
    BY <2>1, <2>2 DEF Counted, Working
<1> QED
  BY <1>2, <1>3, <1>4, <1>5, <1>6, CountCounted DEF Pump

\* The counter a stop has cleared is at most the register.
LEMMA ClearReading ==
    ASSUME Typed, NEW p \in Registered, StopClear(p)
    PROVE  Reading(p)' <= fbbc[p] /\ fbbc' = fbbc
<1>1. lastCount'[p] = 0 /\ lastRawFBBC'[p] = 0 /\ fbbc' = fbbc /\ fbbc[p] \in Nat
  BY LineTypes DEF StopClear, deviceVars, Typed, TypeOK
<1> QED
  BY <1>1 DEF Reading, VirtualCount

LEMMA CountedStep ==
    ASSUME FirstRun, Typed, Typed', [Next]_vars, NEW q \in Registered, Counted(q), Begun(q)
    PROVE  Counted(q)'
<1>0. fbbc[q] \in Nat /\ Reading(q) \in Nat /\ Length(q) \in Nat
  BY LineTypes
<1>1. ASSUME NEW items \in Batches, TaskAppend(items) PROVE Counted(q)'
  <2>1. taskStatus = "active" /\ UNCHANGED <<driverVars, deviceVars>>
    BY <1>1 DEF TaskAppend, FirstRun
  <2>2. CASE UNCHANGED pump
    BY <2>1, <2>2, SameReading, CountedStays DEF driverVars, deviceVars
  <2>3. CASE pump[q].pc = "none" /\ pump' = [p \in Registered |-> FreshPump]
    <3>1. Length(q) = 0 /\ field[q] = NoRow
      BY <2>1, <2>3 DEF Begun, Working, Untouched
    <3>2. pump'[q].pc = "push" /\ pump'[q].todo = 1 /\ pump'[q].last = -1
      BY <2>3 DEF FreshPump, NoPump
    <3>3. /\ Reading(q)' = Reading(q) /\ Length(q)' = Length(q) /\ fbbc' = fbbc
          /\ field' = field
      BY <2>1 DEF Reading, VirtualCount, Length, driverVars, deviceVars
    <3>4. Marked(q)'
      BY <3>1, <3>2, <3>3 DEF Marked
    <3> QED
      BY <3>2, <3>3, <3>4 DEF Counted
  <2> QED
    BY <1>1, <2>2, <2>3 DEF TaskAppend
<1>2. CASE StopRequest
  BY <1>2, SameReading, CountedStays DEF StopRequest, driverVars, deviceVars
<1>3. ASSUME NEW p \in Registered, Label(p) PROVE Counted(q)'
  <2>1. CASE p = q
    BY <1>3, <2>1, LabelCounted
  <2>2. CASE p # q
    <3>1. /\ UNCHANGED <<pump, driverVars, field>> /\ labels'[q] = labels[q]
          /\ waiting'[q] = waiting[q] /\ fbbc'[q] = fbbc[q]
      BY <1>3, <2>2, LabelElsewhere
    <3> QED
      BY <3>1, SameReading, CountedStays DEF driverVars
  <2> QED
    BY <2>1, <2>2
<1>4. ASSUME NEW p \in Registered, Poll(p) PROVE Counted(q)'
  <2>1. UNCHANGED <<pump, deviceVars>> /\ GetCurrentPrintCount(p)
    BY <1>4 DEF Poll
  <2>2. CASE p = q
    <3>1. Reading(q)' = Reading(q)
      BY <2>1, <2>2, CountReading DEF deviceVars
    <3> QED
      BY <1>0, <2>1, <3>1, CountedStays DEF deviceVars
  <2>3. CASE p # q
    <3>1. lastCount'[q] = lastCount[q] /\ lastRawFBBC'[q] = lastRawFBBC[q]
      BY <2>1, <2>3, CountReading DEF deviceVars
    <3> QED
      BY <2>1, <3>1, SameReading, CountedStays DEF deviceVars
  <2> QED
    BY <2>2, <2>3
<1>5. ASSUME NEW p \in Registered, Pump(p) PROVE Counted(q)'
  <2>1. CASE p = q
    BY <1>5, <2>1, PumpCounted
  <2>2. CASE p # q
    <3>1. CASE PumpTick(p) \/ PumpFetch(p) \/ PumpReport(p) \/ PumpExit(p)
      <4>1. UNCHANGED <<driverVars, deviceVars>> /\ pump'[q] = pump[q]
        BY <2>2, <3>1, TickStep, TakeStep, ReportStep, ExitStep
      <4> QED
        BY <4>1, SameReading, CountedStays DEF driverVars, deviceVars
    <3>2. CASE PumpCount(p)
      <4>1. /\ UNCHANGED deviceVars /\ pump'[q] = pump[q]
            /\ GetCurrentPrintCount(p) \/ UNCHANGED driverVars
        BY <2>2, <3>2, CountStep DEF PumpCount
      <4>2. lastCount'[q] = lastCount[q] /\ lastRawFBBC'[q] = lastRawFBBC[q]
        BY <2>2, <4>1, CountReading DEF deviceVars, driverVars
      <4> QED
        BY <4>1, <4>2, SameReading, CountedStays DEF deviceVars
    <3>3. CASE PumpSend(p)
      BY <2>2, <3>3, SendStep, SameReading, CountedStays DEF driverVars
    <3> QED
      BY <1>5, <3>1, <3>2, <3>3 DEF Pump
  <2> QED
    BY <2>1, <2>2
<1>6. ASSUME NEW p \in Registered, StopPoll(p) \/ StopReconcile(p) PROVE Counted(q)'
  BY <1>6, SameReading, CountedStays DEF StopPoll, StopReconcile, driverVars, deviceVars
<1>7. ASSUME NEW p \in Registered, StopClear(p) PROVE Counted(q)'
  <2>1. UNCHANGED <<pump, deviceVars>>
    BY <1>7 DEF StopClear
  <2>2. CASE p = q
    BY <1>0, <1>7, <2>1, <2>2, ClearReading, CountedStays DEF deviceVars
  <2>3. CASE p # q
    BY <1>7, <2>1, <2>3, SameReading, CountedStays DEF StopClear, deviceVars, Typed, TypeOK
  <2> QED
    BY <2>2, <2>3
<1>8. CASE UNCHANGED vars
  BY <1>8, SameReading, CountedStays DEF vars, driverVars, deviceVars
<1> QED
  BY <1>1, <1>2, <1>3, <1>4, <1>5, <1>6, <1>7, <1>8 DEF Next, Stop

-----------------------------------------------------------------------------
(* The second half: until a stop reconciles a printer, the indices of its   *)
(* rows are the numbers of its labels, and of the one code still to come.   *)

Unsettled(p) == taskStatus = "active" \/ stop[p] \in {"poll", "reconcile"}

\* The next label's code has been fetched.
Full(p) == \E i \in Mine(p) : rows[i].index = Length(p) + 1

Given(p) ==
    /\ \A i \in Mine(p) : /\ 1 <= rows[i].index /\ rows[i].index <= Length(p) + 1
                          /\ rows[i].index <= Length(p) => i \in Labelled(p)
    /\ \A i, j \in Mine(p) : rows[i].index = rows[j].index => i = j
    /\ Length(p) = 0 \/ \E i \in Mine(p) : rows[i].index = Length(p)
    /\ waiting[p] /\ field[p] # NoRow =>
          field[p] \in Mine(p) /\ rows[field[p]].index = Length(p) + 1
    /\ stop[p] = "reconcile" => odometer[p] <= Length(p)

Carried(p) ==
    /\ pump[p].pc = "push" => ~Full(p)
    /\ Carrying(p) => pump[p].row \in Mine(p) /\ rows[pump[p].row].index = pump[p].index
    /\ pump[p].pc = "send" => pump[p].index = Length(p) + 1
    /\ pump[p].last >= 0 /\ Full(p) => Reading(p) <= pump[p].last

Numbered(p) == Unsettled(p) => Given(p) /\ Carried(p)

LEMMA GivenStays ==
    ASSUME NEW q \in Registered, Given(q), MineKept(q), labels'[q] = labels[q],
           field'[q] = field[q], waiting'[q] = waiting[q],
           stop'[q] = "reconcile" => odometer'[q] <= Length(q)
    PROVE  Given(q)' /\ (Full(q)' <=> Full(q))
<1>1. Length(q)' = Length(q) /\ Labelled(q)' = Labelled(q)
  BY DEF Length, Labelled
<1>2. /\ Mine(q)' = Mine(q)
      /\ \A i \in Mine(q) : rows'[i].index = rows[i].index
  BY DEF MineKept
<1>3. Full(q)' <=> Full(q)
  BY <1>1, <1>2 DEF Full
<1>4. /\ \A i \in Mine(q)' : /\ 1 <= rows'[i].index /\ rows'[i].index <= Length(q)' + 1
                             /\ rows'[i].index <= Length(q)' => i \in Labelled(q)'
      /\ \A i, j \in Mine(q)' : rows'[i].index = rows'[j].index => i = j
  BY <1>1, <1>2 DEF Given
<1>5. Length(q)' = 0 \/ \E i \in Mine(q)' : rows'[i].index = Length(q)'
  BY <1>1, <1>2 DEF Given
<1>6. waiting'[q] /\ field'[q] # NoRow =>
         field'[q] \in Mine(q)' /\ rows'[field'[q]].index = Length(q)' + 1
  BY <1>1, <1>2 DEF Given
<1> QED
  BY <1>1, <1>3, <1>4, <1>5, <1>6 DEF Given

\* A step of others, or of the counter.
LEMMA NumberedStays ==
    ASSUME Typed, Typed', NEW q \in Registered, Numbered(q), Unsettled(q)' => Unsettled(q),
           MineKept(q), labels'[q] = labels[q], field'[q] = field[q],
           waiting'[q] = waiting[q], pump'[q] = pump[q], Reading(q)' <= Reading(q),
           stop'[q] = "reconcile" => odometer'[q] <= Length(q)
    PROVE  Numbered(q)'
<1> SUFFICES ASSUME Unsettled(q)'
             PROVE  Given(q)' /\ Carried(q)'
  BY DEF Numbered
<1>1. Given(q) /\ Carried(q)
  BY DEF Numbered
<1>2. Given(q)' /\ (Full(q)' <=> Full(q)) /\ Length(q)' = Length(q)
  BY <1>1, GivenStays DEF Length
<1>3. Reading(q) \in Nat /\ Reading(q)' \in Nat /\ pump[q].last \in Int
  BY LineTypes, NextTypes
<1>4. Carried(q)'
  BY <1>1, <1>2, <1>3 DEF Carried, Carrying, MineKept
<1> QED
  BY <1>2, <1>4

\* A label is that of the code fetched for it.
LEMMA LabelNumbered ==
    ASSUME FirstRun, Typed, Typed', NEW p \in Registered, Label(p), Counted(p), Numbered(p)
    PROVE  Numbered(p)'
<1> SUFFICES ASSUME Unsettled(p)
             PROVE  Given(p)' /\ Carried(p)'
  BY DEF Numbered, Unsettled, Label, taskVars, stopVars
<1>1. /\ waiting[p] /\ ~waiting'[p] /\ field[p] # NoRow
      /\ UNCHANGED <<pump, field, rows, lastId, stop, odometer>>
      /\ pump[p].pc # "none" => pump[p].last >= 0
  BY DEF Label, FirstRun, Typed, TypeOK, shardVars, stopVars
<1>2. /\ Length(p)' = Length(p) + 1 /\ Length(p) \in Nat
      /\ \A l \in DOMAIN labels[p] : l \in DOMAIN labels'[p] /\ labels'[p][l] = labels[p][l]
      /\ Length(p) + 1 \in DOMAIN labels'[p] /\ labels'[p][Length(p) + 1] = field[p]
  BY LabelReading, LineTypes
<1>3. /\ Given(p) /\ Carried(p) /\ Mine(p)' = Mine(p)
      /\ field[p] \in Mine(p) /\ rows[field[p]].index = Length(p) + 1
  BY <1>1, SameMine DEF Numbered, Given, MineKept, shardVars
<1>4. \A i \in Mine(p) : rows[i].index \in Nat
  BY DEF Mine, AssignedTo, Typed, TypeOK, ShardTypeOK, Row
<1>5. Labelled(p) \subseteq Labelled(p)' /\ field[p] \in Labelled(p)'
  BY <1>2 DEF Labelled
<1>6. \A i \in Mine(p) : rows[i].index <= Length(p) + 1 => i \in Labelled(p)'
  <2> SUFFICES ASSUME NEW i \in Mine(p), rows[i].index <= Length(p) + 1
               PROVE  i \in Labelled(p)'
    OBVIOUS
  <2>1. CASE rows[i].index <= Length(p)
    BY <2>1, <1>3, <1>5 DEF Given
  <2>2. CASE rows[i].index = Length(p) + 1
    BY <2>2, <1>3, <1>5 DEF Given
  <2> QED
    BY <2>1, <2>2, <1>2, <1>4
<1>7. /\ \A i \in Mine(p) : /\ 1 <= rows[i].index /\ rows[i].index <= Length(p)' + 1
                            /\ rows[i].index # Length(p)' + 1
      /\ \A i, j \in Mine(p) : rows[i].index = rows[j].index => i = j
  <2>1. \A i \in Mine(p) : 1 <= rows[i].index /\ rows[i].index <= Length(p) + 1
    BY <1>3 DEF Given
  <2> QED
    BY <2>1, <1>2, <1>3, <1>4 DEF Given
<1>8. stop[p] = "reconcile" => odometer[p] <= Length(p)'
  BY <1>2, <1>3, LineTypes DEF Given
<1>9. Given(p)'
  BY <1>1, <1>2, <1>3, <1>6, <1>7, <1>8 DEF Given
<1>10. ~Full(p)'
  BY <1>1, <1>3, <1>7 DEF Full
<1>11. pump[p].pc # "send"
  BY <1>1 DEF Counted, Working, Marked, Pushing
<1>12. Carried(p)'
  BY <1>1, <1>3, <1>10, <1>11 DEF Carried, Carrying
<1> QED
  BY <1>9, <1>12

\* A reading leads to a push only if the next code was not fetched yet.
LEMMA CountNumbered ==
    ASSUME Typed, Typed', NEW p \in Registered, PumpCount(p), Counted(p), Numbered(p)
    PROVE  Numbered(p)'
<1> SUFFICES ASSUME Unsettled(p)
             PROVE  Given(p)' /\ Carried(p)'
  BY DEF Numbered, Unsettled, PumpCount, taskVars, stopVars
<1>1. /\ pump[p].pc = "count" /\ UNCHANGED <<shardVars, stopVars, deviceVars>>
      /\ Given(p) /\ Carried(p) /\ Marked(p)
  BY CountStep DEF PumpCount, Numbered, Working, Counted
<1>2. Given(p)' /\ (Full(p)' <=> Full(p))
  BY <1>1, SameMine, GivenStays DEF stopVars, deviceVars, Given
<1>3. Reading(p) \in Nat /\ pump[p].last \in Int /\ Length(p) \in Nat
  BY LineTypes
<1>4. CASE /\ GetCurrentPrintCount(p)
           /\ pump'[p].pc = IF Delta(pump[p], lastCount'[p]) > 0 THEN "push" ELSE "tick"
           /\ pump'[p].todo = Delta(pump[p], lastCount'[p])
           /\ pump'[p].last = IF pump[p].last < 0 \/ Delta(pump[p], lastCount'[p]) > 0
                              THEN lastCount'[p] ELSE pump[p].last
  <2>1. /\ Reading(p)' = Reading(p)
        /\ lastCount'[p] \in Nat /\ lastCount'[p] <= Reading(p)
    BY <1>1, <1>4, CountReading DEF deviceVars
  <2>2. CASE pump[p].last < 0
    <3>1. Reading(p) = 0 /\ Delta(pump[p], lastCount'[p]) = 0 /\ lastCount'[p] = 0
      BY <2>1, <2>2, <1>1, <1>3 DEF Marked, Counted, Delta
    <3> QED
      BY <3>1, <2>1, <2>2, <1>2, <1>4 DEF Carried, Carrying
  <2>3. CASE pump[p].last >= 0 /\ Full(p)
    <3>1. lastCount'[p] <= pump[p].last
      BY <2>1, <2>3, <1>1, <1>3 DEF Carried
    <3>2. Delta(pump[p], lastCount'[p]) = 0
      BY <3>1, <2>1, <1>3 DEF Delta
    <3>3. pump'[p].pc = "tick" /\ pump'[p].last = pump[p].last
      BY <3>2, <2>3, <1>3, <1>4
    <3> QED
      BY <3>3, <2>1, <2>3, <1>1, <1>2 DEF Carried, Carrying
  <2>4. CASE ~Full(p)
    BY <2>4, <1>2, <1>4 DEF Carried, Carrying
  <2> QED
    BY <2>2, <2>3, <2>4, <1>3
<1>5. CASE /\ UNCHANGED driverVars
           /\ pump'[p].pc = "tick" /\ pump'[p].last = pump[p].last
  <2>1. Reading(p)' = Reading(p)
    BY <1>1, <1>5 DEF Reading, VirtualCount, driverVars, deviceVars
  <2> QED
    BY <2>1, <1>1, <1>2, <1>5 DEF Carried, Carrying
<1> QED
  BY <1>4, <1>5, CountStep

\* A fetch gives the code of the next label its number.
LEMMA TakeNumbered ==
    ASSUME Typed, Typed', NEW p \in Registered, PumpFetch(p), Counted(p), Numbered(p)
    PROVE  Numbered(p)'
<1> SUFFICES ASSUME Unsettled(p)
             PROVE  Given(p)' /\ Carried(p)'
  BY DEF Numbered, Unsettled, PumpFetch, taskVars, stopVars
<1>1. /\ pump[p].pc = "push" /\ UNCHANGED <<stopVars, driverVars, deviceVars>>
      /\ Given(p) /\ Carried(p) /\ Marked(p) /\ ~Full(p) /\ pump'[p].last = pump[p].last
  BY TakeStep DEF PumpFetch, Numbered, Working, Counted, Carried
<1>2. Reading(p) \in Nat /\ pump[p].last \in Int /\ Length(p) \in Nat /\ waiting[p] \in BOOLEAN
  BY LineTypes
<1>3. /\ Reading(p)' = Reading(p) /\ Length(p)' = Length(p) /\ Labelled(p)' = Labelled(p)
      /\ waiting' = waiting /\ field' = field /\ labels' = labels
      /\ stop' = stop /\ odometer' = odometer
  BY <1>1 DEF Reading, VirtualCount, Length, Labelled, driverVars, deviceVars, stopVars
<1>4. /\ pump[p].last >= 0 => Reading(p) <= pump[p].last
      /\ ~(waiting[p] /\ field[p] # NoRow)
  BY <1>1, <1>2 DEF Marked, Slack, Pushing
<1>5. CASE UNCHANGED shardVars /\ TurnOver(p) /\ pump'[p].pc = "tick"
  <2>1. Given(p)' /\ (Full(p)' <=> Full(p))
    BY <1>1, <1>3, <1>5, SameMine, GivenStays DEF Given
  <2> QED
    BY <1>1, <1>5, <2>1 DEF Carried, Carrying
<1>6. CASE /\ FetchAndAssignCodes(Task, p, 1)
           /\ pump'[p].row \in Selected(Task, p, 1) /\ pump'[p].pc = "send"
           /\ pump'[p].index = rows'[pump'[p].row].index
  <2> DEFINE i == pump'[p].row
  <2>1. p \in Printers /\ ShardTypeOK
    BY PrinterOf DEF Typed, TypeOK
  <2>2. PICK last \in LastIndex(Task, p) : rows'[i].index = last + 1
    BY <1>6, <2>1, FetchMine
  <2>3. /\ Mine(p)' = Mine(p) \cup {i} /\ i \notin Mine(p)
        /\ \A j \in Mine(p) : rows'[j].index = rows[j].index
    BY <1>6, <2>1, FetchMine
  <2>4. /\ last \in Nat /\ \A j \in Mine(p) : rows[j].index <= last
        /\ last = 0 \/ \E j \in Mine(p) : rows[j].index = last
    BY <2>1, LastIndexType DEF Mine
  <2>5. \A j \in Mine(p) : rows[j].index \in Nat
    BY DEF Mine, AssignedTo, Typed, TypeOK, ShardTypeOK, Row
  <2>6. \A j \in Mine(p) : 1 <= rows[j].index /\ rows[j].index <= Length(p)
    BY <1>1, <1>2, <2>5 DEF Given, Full
  <2>7. last = Length(p)
    BY <1>1, <1>2, <2>4, <2>5, <2>6 DEF Given
  <2> HIDE DEF i
  <2>8. /\ \A j \in Mine(p)' : /\ 1 <= rows'[j].index /\ rows'[j].index <= Length(p)' + 1
                               /\ rows'[j].index <= Length(p)' => j \in Labelled(p)'
        /\ \A j, k \in Mine(p)' : rows'[j].index = rows'[k].index => j = k
    <3>1. \A j \in Mine(p) : /\ 1 <= rows'[j].index /\ rows'[j].index <= Length(p)'
                             /\ j \in Labelled(p)' /\ rows'[j].index \in Nat
      BY <1>1, <1>3, <2>3, <2>5, <2>6 DEF Given
    <3>2. rows'[i].index = Length(p)' + 1
      BY <2>2, <2>7, <1>3
    <3>3. \A j, k \in Mine(p) : rows'[j].index = rows'[k].index => j = k
      BY <1>1, <2>3 DEF Given
    <3> QED
      BY <1>2, <1>3, <2>3, <3>1, <3>2, <3>3
  <2>9. Length(p)' = 0 \/ \E j \in Mine(p)' : rows'[j].index = Length(p)'
    BY <1>1, <1>3, <2>3 DEF Given
  <2>10. stop'[p] = "reconcile" => odometer'[p] <= Length(p)'
    BY <1>1, <1>3 DEF Given
  <2>11. Given(p)'
    BY <1>3, <1>4, <2>8, <2>9, <2>10 DEF Given
  <2>12. Carried(p)'
    BY <1>1, <1>3, <1>4, <1>6, <2>2, <2>3, <2>7 DEF Carried, Carrying, i
  <2> QED
    BY <2>11, <2>12
<1> QED
  BY <1>1, <1>5, <1>6, TakeStep DEF TurnOver, Counted

\* What is sent is the code of the next label.
LEMMA SendNumbered ==
    ASSUME Typed, Typed', NEW p \in Registered, PumpSend(p), Counted(p), Numbered(p)
    PROVE  Numbered(p)'
<1> SUFFICES ASSUME Unsettled(p)
             PROVE  Given(p)' /\ Carried(p)'
  BY DEF Numbered, Unsettled, PumpSend, taskVars, stopVars
<1>1. /\ pump[p].pc = "send" /\ UNCHANGED <<shardVars, stopVars, driverVars, labels>>
      /\ Given(p) /\ Carried(p) /\ Marked(p) /\ pump'[p].last = pump[p].last
      /\ fbbc'[p] = fbbc[p] \/ fbbc'[p] = 0
      /\ \/ /\ field'[p] = pump[p].row /\ waiting'[p]
            /\ pump'[p].pc = "report" /\ pump'[p].row = pump[p].row
            /\ pump'[p].index = pump[p].index
         \/ /\ field'[p] = field[p] \/ field'[p] = pump[p].row
            /\ waiting'[p] = waiting[p] /\ pump'[p].pc = "tick"
  BY SendStep DEF PumpSend, Numbered, Working, Counted
<1>2. /\ Reading(p) \in Nat /\ Reading(p)' \in Nat /\ pump[p].last \in Int /\ Length(p) \in Nat
      /\ lastCount[p] \in Nat /\ lastRawFBBC[p] \in Nat /\ lastCount[p] <= Reading(p)
  BY LineTypes, NextTypes
<1>3. /\ Length(p)' = Length(p) /\ Labelled(p)' = Labelled(p) /\ Mine(p)' = Mine(p)
      /\ rows' = rows /\ stop' = stop /\ odometer' = odometer
  BY <1>1, SameMine DEF Length, Labelled, MineKept, stopVars, shardVars
<1>4. pump[p].last >= 0 => Reading(p)' <= pump[p].last
  <2>1. Reading(p)' = Reading(p) \/ Reading(p)' = lastCount[p]
    BY <1>1, <1>2 DEF Reading, VirtualCount, driverVars
  <2>2. pump[p].last >= 0 => Reading(p) <= pump[p].last
    BY <1>1, <1>2 DEF Marked, Slack, Pushing
  <2> QED
    BY <2>1, <2>2, <1>2
<1>5. pump[p].row \in Mine(p) /\ rows[pump[p].row].index = Length(p) + 1
  BY <1>1 DEF Carried, Carrying
<1>6. waiting'[p] /\ field'[p] # NoRow =>
         field'[p] \in Mine(p)' /\ rows'[field'[p]].index = Length(p)' + 1
  BY <1>1, <1>3, <1>5 DEF Given
<1>7. Given(p)'
  BY <1>1, <1>3, <1>6 DEF Given
<1>8. Carried(p)'
  BY <1>1, <1>3, <1>4, <1>5 DEF Carried, Carrying
<1> QED
  BY <1>7, <1>8

LEMMA PumpNumbered ==
    ASSUME Typed, Typed', NEW p \in Registered, Pump(p), Counted(p), Numbered(p)
    PROVE  Numbered(p)'
<1> SUFFICES ASSUME Unsettled(p)', ~PumpCount(p), ~PumpFetch(p), ~PumpSend(p)
             PROVE  Given(p)' /\ Carried(p)'
  BY CountNumbered, TakeNumbered, SendNumbered DEF Numbered
<1>1. Given(p) /\ Carried(p) /\ taskStatus' = taskStatus /\ UNCHANGED <<stopVars, driverVars, deviceVars>>
  BY DEF Pump, PumpTick, PumpReport, PumpExit, Numbered, Unsettled, taskVars, stopVars
<1>2. Reading(p)' = Reading(p)
  BY <1>1 DEF Reading, VirtualCount, driverVars, deviceVars
<1>3. /\ labels' = labels /\ field' = field /\ waiting' = waiting
      /\ stop'[p] = "reconcile" => odometer'[p] <= Length(p)
  BY <1>1 DEF stopVars, deviceVars, Given
<1>4. CASE PumpReport(p)
  <2>1. /\ pump[p].pc = "report" /\ pump'[p].pc = "tick" /\ pump'[p].last = pump[p].last
        /\ UNCHANGED shardVars \/ UpdateCodeStatusByID(pump[p].row, pump[p].index)
    BY <1>4, ReportStep DEF TurnOver, Counted
  <2>2. MineKept(p)
    <3>1. /\ ShardTypeOK /\ pump[p].row \in Ids /\ pump[p].index \in Nat
          /\ rows[pump[p].row].index = pump[p].index
      BY <1>1, <2>1, LineTypes DEF Typed, TypeOK, Hand, Carried, Carrying
    <3> QED
      BY <2>1, <3>1, SameMine, ReportMine
  <2>3. Given(p)' /\ (Full(p)' <=> Full(p))
    BY <1>1, <1>3, <2>2, GivenStays
  <2> QED
    BY <1>1, <1>2, <2>1, <2>3 DEF Carried, Carrying
<1>5. CASE PumpTick(p)
  <2>1. /\ pump'[p].pc \in {"exit", "count"} /\ pump'[p].last = pump[p].last /\ UNCHANGED shardVars
    BY <1>5, TickStep
  <2>2. Given(p)' /\ (Full(p)' <=> Full(p))
    BY <1>1, <1>3, <2>1, SameMine, GivenStays
  <2> QED
    BY <1>1, <1>2, <2>1, <2>2 DEF Carried, Carrying
<1>6. CASE PumpExit(p)
  <2>1. pump'[p].pc = "none" /\ pump'[p].last = -1 /\ UNCHANGED shardVars
    BY <1>6, ExitStep DEF NoPump
  <2>2. Given(p)'
    BY <1>1, <1>3, <2>1, SameMine, GivenStays
  <2> QED
    BY <2>1, <2>2 DEF Carried, Carrying
<1> QED
  BY <1>4, <1>5, <1>6 DEF Pump

\* Other printers' pumps and stops: the rows in their hands are theirs.
LEMMA OtherMine ==
    ASSUME Typed, NEW p \in Registered, NEW q \in Registered, p # q, Begun(q),
           Pump(p) \/ Stop(p)
    PROVE  MineKept(q)
<1>1. ShardTypeOK /\ p \in Printers /\ q \in Printers
  BY PrinterOf DEF Typed, TypeOK
<1>2. CASE UNCHANGED shardVars
  BY <1>2, SameMine
<1>3. CASE PumpFetch(p)
  BY <1>1, <1>2, <1>3, TakeStep, FetchMine
<1>4. CASE PumpReport(p) /\ UpdateCodeStatusByID(pump[p].row, pump[p].index)
  <2>1. pump[p].row \in Ids /\ pump[p].index \in Nat /\ InLane(p, pump[p].row)
    BY <1>4, LineTypes DEF PumpReport, Typed, Hand
  <2>2. pump[p].row \notin Mine(q)
    BY <2>1, OneLane DEF Begun
  <2> QED
    BY <1>1, <1>4, <2>1, <2>2, ReportMine
<1>5. CASE StopReconcile(p)
  <2>1. odometer[p] \in Int
    BY DEF Typed, TypeOK
  <2> QED
    BY <1>1, <1>5, <2>1, ReconcileMine DEF StopReconcile
<1> QED
  BY <1>2, <1>3, <1>4, <1>5
     DEF Pump, PumpTick, PumpCount, PumpSend, PumpReport, PumpExit, Stop, StopPoll, StopClear

LEMMA NumberedStep ==
    ASSUME FirstRun, Typed, Typed', \A q \in Registered : Begun(q) /\ Counted(q) /\ Numbered(q),
           [Next]_vars, NEW q \in Registered
    PROVE  Numbered(q)'
<1>0. /\ ShardTypeOK /\ q \in Printers /\ Begun(q) /\ Counted(q) /\ Numbered(q)
      /\ stop \in [Registered -> {"idle", "poll", "reconcile", "clear"}]
      /\ odometer \in [Registered -> Nat]
  BY PrinterOf DEF Typed, TypeOK
<1>1. /\ Reading(q) \in Nat /\ Length(q) \in Nat /\ lastCount[q] <= Reading(q)
      /\ lastCount[q] \in Nat /\ fbbc[q] \in Nat
  BY LineTypes
<1>2. Unsettled(q) => (stop[q] = "reconcile" => odometer[q] <= Length(q))
  BY <1>0 DEF Numbered, Given
<1>3. ASSUME NEW items \in Batches, TaskAppend(items) PROVE Numbered(q)'
  <2>1. /\ taskStatus = "active" /\ UNCHANGED <<stopVars, driverVars, deviceVars>>
        /\ stop[q] = "idle"
    BY <1>3 DEF TaskAppend, FirstRun, StopIdle
  <2>2. MineKept(q)
    BY <1>0, <1>3, AppendMine DEF TaskAppend
  <2>3. CASE UNCHANGED pump
    BY <1>0, <2>1, <2>2, <2>3, SameReading, NumberedStays
       DEF Unsettled, stopVars, driverVars, deviceVars
  <2>4. CASE pump[q].pc = "none" /\ pump' = [p \in Registered |-> FreshPump]
    <3>1. Mine(q) = {} /\ Given(q)
      BY <1>0, <2>1, <2>4 DEF Begun, Working, Untouched, Numbered, Unsettled
    <3>2. pump'[q].pc = "push" /\ pump'[q].last = -1
      BY <2>4 DEF FreshPump, NoPump
    <3>3. Given(q)' /\ (Full(q)' <=> Full(q)) /\ ~Full(q)
      BY <2>1, <2>2, <3>1, GivenStays DEF stopVars, deviceVars, Full
    <3> QED
      BY <3>2, <3>3 DEF Numbered, Carried, Carrying
  <2> QED
    BY <1>3, <2>3, <2>4 DEF TaskAppend
<1>4. CASE StopRequest
  <2>1. /\ taskStatus = "active" /\ stop'[q] = "poll"
        /\ UNCHANGED <<shardVars, pump, driverVars, deviceVars>>
    BY <1>4 DEF StopRequest
  <2> QED
    BY <1>0, <2>1, SameMine, SameReading, NumberedStays DEF Unsettled, driverVars, deviceVars
<1>5. ASSUME NEW p \in Registered, Label(p) PROVE Numbered(q)'
  <2>1. CASE p = q
    BY <1>0, <1>5, <2>1, LabelNumbered
  <2>2. CASE p # q
    <3>1. /\ UNCHANGED <<shardVars, taskVars, stopVars, pump, driverVars, field>>
          /\ labels'[q] = labels[q] /\ waiting'[q] = waiting[q] /\ fbbc'[q] = fbbc[q]
      BY <1>5, <2>2, LabelElsewhere
    <3>2. Reading(q)' <= Reading(q) /\ MineKept(q)
      BY <3>1, SameReading, SameMine DEF driverVars
    <3> QED
      BY <1>0, <1>2, <3>1, <3>2, NumberedStays DEF Unsettled, Numbered, taskVars, stopVars
  <2> QED
    BY <2>1, <2>2
<1>6. ASSUME NEW p \in Registered, Poll(p) PROVE Numbered(q)'
  <2>1. UNCHANGED <<shardVars, taskVars, stopVars, pump, deviceVars>> /\ GetCurrentPrintCount(p)
    BY <1>6 DEF Poll
  <2>2. Reading(q)' <= Reading(q)
    <3>1. p = q => Reading(q)' = Reading(q)
      BY <2>1, CountReading DEF deviceVars
    <3>2. p # q => lastCount'[q] = lastCount[q] /\ lastRawFBBC'[q] = lastRawFBBC[q]
      BY <2>1, CountReading DEF deviceVars
    <3> QED
      BY <1>1, <2>1, <3>1, <3>2, SameReading DEF deviceVars
  <2> QED
    BY <1>0, <1>2, <2>1, <2>2, SameMine, NumberedStays
       DEF Unsettled, Numbered, taskVars, stopVars, deviceVars
<1>7. ASSUME NEW p \in Registered, Pump(p) PROVE Numbered(q)'
  <2>1. CASE p = q
    BY <1>0, <1>7, <2>1, PumpNumbered
  <2>2. CASE p # q
    <3>1. MineKept(q) /\ pump'[q] = pump[q]
      BY <1>0, <1>7, <2>2, OtherMine, TickStep, CountStep, TakeStep, SendStep, ReportStep, ExitStep
         DEF Pump
    <3>2. /\ taskStatus' = taskStatus /\ stop' = stop /\ odometer' = odometer /\ labels' = labels
          /\ field'[q] = field[q] /\ waiting'[q] = waiting[q] /\ fbbc'[q] = fbbc[q]
      <4>1. CASE PumpSend(p)
        BY <2>2, <4>1, SendStep DEF PumpSend, taskVars, stopVars
      <4>2. CASE ~PumpSend(p)
        BY <1>7, <4>2
           DEF Pump, PumpTick, PumpCount, PumpFetch, PumpReport, PumpExit, taskVars, stopVars,
               deviceVars
      <4> QED
        BY <4>1, <4>2
    <3>3. lastCount'[q] = lastCount[q] /\ lastRawFBBC'[q] = lastRawFBBC[q]
      <4>1. CASE PumpCount(p)
        <5>1. (GetCurrentPrintCount(p) \/ UNCHANGED driverVars) /\ UNCHANGED deviceVars
          BY <4>1 DEF PumpCount
        <5> QED
          BY <2>2, <5>1, CountReading DEF driverVars, deviceVars
      <4>2. CASE ~PumpCount(p)
        BY <1>7, <4>2
           DEF Pump, PumpTick, PumpSend, PumpFetch, PumpReport, PumpExit, driverVars
      <4> QED
        BY <4>1, <4>2
    <3> QED
      BY <1>0, <1>2, <3>1, <3>2, <3>3, SameReading, NumberedStays DEF Unsettled, Numbered
  <2> QED
    BY <2>1, <2>2
<1>8. ASSUME NEW p \in Registered, Stop(p) PROVE Numbered(q)'
  <2>1. taskStatus = "stopped"
    BY <1>8 DEF Stop, StopPoll, StopReconcile, StopClear, Begun
  <2>2. /\ UNCHANGED <<taskVars, pump, deviceVars>>
        /\ p # q => stop'[q] = stop[q] /\ odometer'[q] = odometer[q]
        /\ p # q => lastCount'[q] = lastCount[q] /\ lastRawFBBC'[q] = lastRawFBBC[q]
    BY <1>0, <1>8
       DEF Stop, StopPoll, StopReconcile, StopClear, driverVars, Typed, TypeOK
  <2>3. CASE p # q
    <3>1. MineKept(q)
      BY <1>0, <1>8, <2>3, OtherMine
    <3> QED
      BY <1>0, <1>2, <2>1, <2>2, <2>3, <3>1, SameReading, NumberedStays
         DEF Unsettled, Numbered, taskVars, deviceVars
  <2>4. CASE p = q /\ StopPoll(p)
    <3>1. /\ stop[q] = "poll" /\ odometer'[q] = lastCount[q] /\ UNCHANGED <<shardVars, driverVars>>
      BY <1>0, <2>4 DEF StopPoll
    <3>2. odometer'[q] <= Length(q)
      BY <1>0, <1>1, <3>1 DEF Counted
    <3> QED
      BY <1>0, <2>2, <3>1, <3>2, SameMine, SameReading, NumberedStays
         DEF Unsettled, taskVars, driverVars, deviceVars
  <2>5. CASE p = q /\ (StopReconcile(p) \/ StopClear(p))
    <3>1. stop'[q] \in {"clear", "idle"} /\ taskStatus' = "stopped"
      BY <1>0, <2>1, <2>2, <2>5 DEF StopReconcile, StopClear, taskVars
    <3> QED
      BY <3>1 DEF Numbered, Unsettled
  <2> QED
    BY <1>8, <2>3, <2>4, <2>5 DEF Stop
<1>9. CASE UNCHANGED vars
  <2>1. UNCHANGED <<shardVars, taskVars, stopVars, pump, driverVars, deviceVars>>
    BY <1>9 DEF vars
  <2> QED
    BY <1>0, <1>2, <2>1, SameMine, SameReading, NumberedStays
       DEF Unsettled, Numbered, taskVars, stopVars, driverVars, deviceVars
<1> QED
  BY <1>3, <1>4, <1>5, <1>6, <1>7, <1>8, <1>9 DEF Next

-----------------------------------------------------------------------------
(* Every report is of a code that is on a product or waits for one.         *)

\* What was delivered stays so: a push finds no product waiting.
LEMMA DeliveredStays ==
    ASSUME Typed, NEW p \in Registered, Counted(p), [Next]_vars, NEW i, i # NoRow,
           Delivered(p, i)
    PROVE  Delivered(p, i)'
<1>1. CASE Label(p)
  <2>1. /\ \A l \in DOMAIN labels[p] : l \in DOMAIN labels'[p] /\ labels'[p][l] = labels[p][l]
        /\ Length(p) + 1 \in DOMAIN labels'[p] /\ labels'[p][Length(p) + 1] = field[p]
    BY <1>1, LabelReading
  <2>2. i \in Labelled(p)'
    BY <2>1 DEF Delivered, Labelled
  <2> QED
    BY <2>2 DEF Delivered
<1>2. CASE PumpSend(p)
  <2>1. labels' = labels /\ pump[p].pc = "send" /\ Marked(p)
    BY <1>2, SendStep DEF Counted, Working
  <2>2. pump[p].last \in Int
    BY LineTypes
  <2>3. ~(field[p] = i /\ waiting[p])
    BY <2>1, <2>2 DEF Marked, Pushing
  <2>4. i \in Labelled(p)'
    BY <2>1, <2>3 DEF Delivered, Labelled
  <2> QED
    BY <2>4 DEF Delivered
<1>3. CASE ~Label(p) /\ ~PumpSend(p)
  <2>1. labels'[p] = labels[p] /\ field'[p] = field[p] /\ waiting'[p] = waiting[p]
    <3>1. ASSUME NEW q \in Registered, q # p, Label(q)
          PROVE  labels'[p] = labels[p] /\ field'[p] = field[p] /\ waiting'[p] = waiting[p]
      BY <3>1, LabelElsewhere
    <3>2. ASSUME NEW q \in Registered, q # p, PumpSend(q)
          PROVE  labels'[p] = labels[p] /\ field'[p] = field[p] /\ waiting'[p] = waiting[p]
      BY <3>2, SendStep
    <3>3. ASSUME UNCHANGED deviceVars
          PROVE  labels'[p] = labels[p] /\ field'[p] = field[p] /\ waiting'[p] = waiting[p]
      BY <3>3 DEF deviceVars
    <3> QED
      BY <1>3, <3>1, <3>2, <3>3
         DEF Next, vars, TaskAppend, StopRequest, Poll, Pump, PumpTick, PumpCount, PumpFetch,
             PumpReport, PumpExit, Stop, StopPoll, StopReconcile, StopClear
  <2> QED
    BY <2>1 DEF Delivered, Labelled
<1> QED
  BY <1>1, <1>2, <1>3

\* A row is marked printed by the pump that delivered it, or by a stop whose
\* odometer counts a label of it.
LEMMA MarkedDelivered ==
    ASSUME Typed, Typed', \A q \in Registered : Begun(q) /\ Counted(q) /\ Numbered(q), [Next]_vars,
           NEW i \in Ids', rows'[i].status = "printed", ~(i \in Ids /\ rows[i].status = "printed")
    PROVE  \E p \in Registered : Delivered(p, i)
<1>0. ShardTypeOK
  BY DEF Typed, TypeOK
<1>1. ASSUME NEW items \in Batches, TaskAppend(items) PROVE FALSE
  BY <1>0, <1>1, AppendRows DEF TaskAppend
<1>2. ASSUME UNCHANGED shardVars PROVE FALSE
  BY <1>2, SameRows
<1>3. ASSUME NEW p \in Registered, PumpFetch(p) PROVE FALSE
  <2>1. p \in Printers
    BY PrinterOf
  <2>2. ASSUME FetchAndAssignCodes(Task, p, 1), NEW j \in Selected(Task, p, 1)
        PROVE  FALSE
    <3>1. /\ rows'[j].status = "in_buffer" /\ lastId' = lastId
          /\ \A k \in Ids : k # j => rows'[k] = rows[k]
      <4>1. rows'[j].status = "in_buffer"
        BY <1>0, <2>1, <2>2, FetchOneRow
      <4> QED
        BY <1>0, <2>1, <2>2, <4>1, FetchOne
    <3> QED
      BY <3>1 DEF Ids
  <2> QED
    BY <1>2, <1>3, <2>2, TakeStep
<1>4. ASSUME NEW p \in Registered, PumpReport(p) PROVE Delivered(p, i)
  <2>1. /\ pump[p].pc = "report" /\ pump[p].row \in Ids /\ pump[p].index \in Nat
        /\ UpdateCodeStatusByID(pump[p].row, pump[p].index) /\ Delivered(p, pump[p].row)
    BY <1>2, <1>4, ReportStep, LineTypes DEF Typed, Hand, Counted
  <2>2. lastId' = lastId /\ \A j \in Ids : j # pump[p].row => rows'[j] = rows[j]
    BY <1>0, <2>1, ReportRows
  <2>3. i = pump[p].row
    BY <2>2 DEF Ids
  <2> QED
    BY <2>1, <2>3
<1>5. ASSUME NEW p \in Registered, StopReconcile(p) PROVE Delivered(p, i)
  <2>1. /\ stop[p] = "reconcile" /\ odometer[p] \in Int /\ p \in Printers
        /\ ReconcileAndFinalizeTaskCodes(Task, p, odometer[p])
    BY <1>5, PrinterOf DEF StopReconcile, Typed, TypeOK
  <2>2. /\ lastId' = lastId
        /\ \A j \in Ids \ InBuffer(Task, p) : rows'[j] = rows[j]
        /\ \A j \in InBuffer(Task, p) :
              rows[j].index <= odometer[p] \/ rows'[j].status = "pending"
    BY <1>0, <2>1, ReconcileRows
  <2>3. i \in InBuffer(Task, p) /\ rows[i].index <= odometer[p]
    BY <2>2 DEF Ids
  <2>4. Given(p)
    BY <2>1 DEF Numbered, Unsettled
  <2>5. i \in Mine(p) /\ rows[i].index \in Nat /\ Length(p) \in Nat
    BY <1>0, <2>3, LineTypes DEF Mine, InBuffer, AssignedTo, ShardTypeOK, Row
  <2>6. rows[i].index <= Length(p)
    BY <2>1, <2>3, <2>4, <2>5 DEF Given
  <2> QED
    BY <2>4, <2>5, <2>6 DEF Given, Delivered
<1> QED
  BY <1>1, <1>2, <1>3, <1>4, <1>5
     DEF Next, vars, StopRequest, Label, Poll, Pump, PumpTick, PumpCount, PumpSend, PumpExit,
         Stop, StopPoll, StopClear

Armed == \A p \in Registered : Begun(p) /\ Counted(p) /\ Numbered(p)

LEMMA ArmedInit == FirstRun /\ Init => Armed /\ ReportedWasArmed
<1> SUFFICES ASSUME FirstRun, Init
             PROVE  Armed /\ ReportedWasArmed
  OBVIOUS
<1>1. Ids = {} /\ MaxJump \in Nat
  BY ValentinAssumption DEF Init, ShardInit, Ids
<1>2. ASSUME NEW p \in Registered
      PROVE  Begun(p) /\ Counted(p) /\ Numbered(p)
  <2>1. /\ pump[p].pc = "none" /\ pump[p].last = -1 /\ labels[p] = <<>> /\ field[p] = NoRow
        /\ lastCount[p] = 0 /\ lastRawFBBC[p] = 0 /\ fbbc[p] = 0 /\ stop[p] = "idle"
    BY DEF Init, NoPump, FirstRun
  <2>2. Length(p) = 0 /\ Reading(p) = 0 /\ Mine(p) = {}
    BY <1>1, <2>1 DEF Length, Reading, VirtualCount, Mine, AssignedTo
  <2>3. Begun(p)
    BY <2>1, <2>2 DEF Begun, Untouched
  <2>4. Counted(p)
    BY <2>1, <2>2 DEF Counted, Working
  <2>5. Numbered(p)
    BY <2>1, <2>2 DEF Numbered, Given, Carried, Carrying
  <2> QED
    BY <2>3, <2>4, <2>5
<1> QED
  BY <1>1, <1>2 DEF Armed, ReportedWasArmed

LEMMA ArmedStep ==
    FirstRun /\ Typed /\ Typed' /\ Armed /\ ReportedWasArmed /\ [Next]_vars
        => Armed' /\ ReportedWasArmed'
<1> SUFFICES ASSUME FirstRun, Typed, Typed', Armed, ReportedWasArmed, [Next]_vars
             PROVE  Armed' /\ ReportedWasArmed'
  OBVIOUS
<1>1. \A q \in Registered : Begun(q) /\ Counted(q) /\ Numbered(q)
  BY DEF Armed
<1>2. Armed'
  BY <1>1, BegunStep, CountedStep, NumberedStep DEF Armed
<1>3. ASSUME NEW i \in Ids', rows'[i].status = "printed"
      PROVE  \E p \in Registered : Delivered(p, i)'
  <2>1. i # NoRow
    BY <1>3 DEF Ids, NoRow, Typed, TypeOK, ShardTypeOK
  <2>2. PICK p \in Registered : Delivered(p, i)
    <3>1. CASE i \in Ids /\ rows[i].status = "printed"
      BY <3>1 DEF ReportedWasArmed, Delivered
    <3>2. CASE ~(i \in Ids /\ rows[i].status = "printed")
      BY <1>1, <1>3, <3>2, MarkedDelivered
    <3> QED
      BY <3>1, <3>2
  <2> QED
    BY <1>1, <2>1, <2>2, DeliveredStays
<1>4. ReportedWasArmed'
  BY <1>3 DEF ReportedWasArmed, Delivered
<1> QED
  BY <1>2, <1>4

\* A code reported printed, by its pump or by a stop, is on a product or in
\* the armed field, whatever is lost, refused or reset on the way: no push
\* replaces a code that still waits for its product, and no stop counts a
\* label that was not taken.  SelectTemplate does not see to it that the
\* registers start at 0 (driver_nicelabel.go:155-165): FirstRun assumes it.
THEOREM NoReportInAdvance == ASSUME FirstRun PROVE Spec => []ReportedWasArmed
<1>1. FirstRun /\ Init => Armed /\ ReportedWasArmed
  BY ArmedInit
<1>2. FirstRun /\ Typed /\ Typed' /\ Armed /\ ReportedWasArmed /\ [Next]_vars
        => Armed' /\ ReportedWasArmed'
  BY ArmedStep
<1> QED
  BY <1>1, <1>2, TypedAlways, PTL DEF Spec
===============================================================================

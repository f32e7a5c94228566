--------------------------- MODULE CodeShardProofs ---------------------------
(***************************************************************************)
(* Proofs about CodeShard, for every set of tasks, printers and codes,     *)
(* every batch size and every odometer value: the order of a task's rows,  *)
(* and that the transactions implement CodeLedger.                         *)
(***************************************************************************)
EXTENDS CodeShard, FiniteSetTheorems, TLAPS

-----------------------------------------------------------------------------
(* The rank of an id in a set of ids: what ORDER BY id with LIMIT selects.  *)

\* Rank counts from 1 and grows strictly along the ids of a set.
LEMMA RankFacts ==
    ASSUME NEW n \in Nat, NEW S \in SUBSET (1..n)
    PROVE  /\ \A i \in S : Rank(S, i) \in Nat /\ Rank(S, i) >= 1
           /\ \A i, j \in S : i < j => Rank(S, i) < Rank(S, j)
<1> DEFINE Below(i) == {k \in S : k <= i}
<1>1. IsFiniteSet(S)
  <2>1. IsFiniteSet(1..n)
    BY FS_Interval
  <2> QED
    BY <2>1, FS_Subset
<1>2. ASSUME NEW i \in S
      PROVE  IsFiniteSet(Below(i)) /\ Cardinality(Below(i)) \in Nat
  BY <1>1, FS_Subset, FS_CardinalityType
<1>3. ASSUME NEW i \in S
      PROVE  Cardinality(Below(i)) >= 1
  <2>1. i \in Below(i)
    OBVIOUS
  <2>2. Cardinality(Below(i)) # 0
    BY <2>1, <1>2, FS_EmptySet
  <2> QED
    BY <2>2, <1>2
<1>4. ASSUME NEW i \in S, NEW j \in S, i < j
      PROVE  Cardinality(Below(i)) < Cardinality(Below(j))
  <2>1. Below(i) \in SUBSET Below(j)
    <3>1. \A k \in S : k \in Int
      OBVIOUS
    <3>2. \A k \in S : k <= i => k <= j
      BY <3>1, <1>4
    <3> QED
      BY <3>2
  <2>2. j \in Below(j) /\ j \notin Below(i)
    BY <1>4
  <2>3. Below(i) # Below(j)
    BY <2>2
  <2>4. Cardinality(Below(i)) <= Cardinality(Below(j))
        /\ Cardinality(Below(j)) # Cardinality(Below(i))
    BY <2>1, <2>3, <1>2, FS_Subset
  <2> QED
    BY <2>4, <1>2
<1> QED
  BY <1>2, <1>3, <1>4 DEF Rank

LEMMA DisjointCount ==
    ASSUME NEW S, IsFiniteSet(S), NEW T, IsFiniteSet(T), S \cap T = {}
    PROVE  /\ Cardinality(S) \in Nat /\ Cardinality(T) \in Nat
           /\ Cardinality(S \cup T) = Cardinality(S) + Cardinality(T)
<1>1. Cardinality(S) \in Nat /\ Cardinality(T) \in Nat
  BY FS_CardinalityType
<1>2. Cardinality(S \cup T) = Cardinality(S) + Cardinality(T) - Cardinality(S \cap T)
  BY FS_Union
<1>3. Cardinality(S \cap T) = 0
  BY FS_EmptySet
<1> QED
  BY <1>1, <1>2, <1>3

\* Ranks number a set of ids 1, 2, ...
LEMMA RankNumbers ==
    ASSUME NEW n \in Nat, NEW S \in SUBSET (1..n)
    PROVE  /\ IsFiniteSet(S) /\ Cardinality(S) \in Nat
           /\ [i \in S |-> Rank(S, i)] \in Bijection(S, 1..Cardinality(S))
<1> DEFINE f == [i \in S |-> Rank(S, i)]
           c == Cardinality(S)
<1>1. IsFiniteSet(S) /\ c \in Nat
  <2>1. IsFiniteSet(1..n)
    BY FS_Interval
  <2> QED
    BY <2>1, FS_Subset, FS_CardinalityType
<1>2. /\ \A i \in S : Rank(S, i) \in Nat /\ Rank(S, i) >= 1
      /\ \A i, j \in S : i < j => Rank(S, i) < Rank(S, j)
  BY RankFacts
<1>3. ASSUME NEW i \in S PROVE f[i] \in 1..c
  <2>1. {j \in S : j <= i} \in SUBSET S
    OBVIOUS
  <2>2. Rank(S, i) <= c
    BY <2>1, <1>1, FS_Subset DEF Rank
  <2> QED
    BY <1>1, <1>2, <2>2
<1>4. ASSUME NEW i \in S, NEW j \in S, f[i] = f[j] PROVE i = j
  <2>1. i \in Int /\ j \in Int /\ Rank(S, i) = Rank(S, j)
    BY <1>4
  <2>2. ~(i < j) /\ ~(j < i)
    BY <2>1, <1>2
  <2> QED
    BY <2>1, <2>2
<1>5. f \in Injection(S, 1..c)
  BY <1>3, <1>4 DEF Injection, IsInjective
<1>6. IsFiniteSet(1..c) /\ Cardinality(1..c) = c
  BY <1>1, FS_Interval
<1>7. f \in Surjection(S, 1..c)
  BY <1>5, <1>6, FS_Injection
<1> QED
  BY <1>1, <1>5, <1>7 DEF Bijection

-----------------------------------------------------------------------------
(* Type correctness.                                                        *)

\* Every transaction keeps the schema's types and ids 1..lastId.
LEMMA TypeStep == ShardTypeOK /\ [ShardNext]_shardVars => ShardTypeOK'
<1> SUFFICES ASSUME ShardTypeOK, [ShardNext]_shardVars
             PROVE  ShardTypeOK'
  OBVIOUS
<1> USE DEF ShardTypeOK, Ids
<1>1. ASSUME NEW t \in Tasks, NEW items \in Batches, AppendTaskCodes(t, items)
      PROVE  ShardTypeOK'
  <2>1. PICK n \in 1..MaxBatch : items \in [1..n -> Items]
    BY DEF Batches
  <2>2. Len(items) = n /\ DOMAIN items = 1..n
    BY <2>1, ParameterAssumption
  <2>3. \A k \in 1..n : NewRow(t, items[k]) \in Row
    BY <2>1, ParameterAssumption DEF Items, NewRow, Row, Statuses
  <2>4. lastId' \in 0..MaxRows
    BY <1>1, <2>2, ParameterAssumption DEF AppendTaskCodes
  <2>5. \A i \in 1..lastId' : i <= lastId \/ i - lastId \in 1..n
    BY <1>1, <2>2, ParameterAssumption DEF AppendTaskCodes
  <2> QED
    BY <1>1, <2>2, <2>3, <2>4, <2>5 DEF AppendTaskCodes
<1>2. ASSUME NEW t \in Tasks, NEW p \in Printers, NEW limit \in Limits,
             FetchAndAssignCodes(t, p, limit)
      PROVE  ShardTypeOK'
  <2>1. PICK last \in LastIndex(t, p) :
           rows' = [i \in Ids |->
                      IF i \in Selected(t, p, limit)
                      THEN [rows[i] EXCEPT !.status = "in_buffer", !.printer = p,
                                           !.index = last + Rank(Fetchable(t, p), i)]
                      ELSE rows[i]]
    BY <1>2 DEF FetchAndAssignCodes
  <2>2. last \in Nat
    BY DEF LastIndex, AssignedTo, Row
  <2>3. Fetchable(t, p) \in SUBSET (1..lastId) /\ lastId \in Nat
    BY ParameterAssumption DEF Fetchable
  <2>4. \A i \in Selected(t, p, limit) : last + Rank(Fetchable(t, p), i) \in Nat
    <3>1. \A i \in Fetchable(t, p) : Rank(Fetchable(t, p), i) \in Nat
      BY <2>3, RankFacts
    <3> QED
      BY <3>1, <2>2 DEF Selected
  <2>5. \A i \in Ids : rows'[i] \in Row
    BY <2>1, <2>4 DEF Row, Statuses
  <2>6. lastId' = lastId
    BY <1>2 DEF FetchAndAssignCodes
  <2> QED
    BY <2>1, <2>5, <2>6
<1>3. ASSUME NEW t \in Tasks, NEW p \in Printers, NEW lastIndex \in 0..MaxRows,
             MarkAsPrinted(t, p, lastIndex)
      PROVE  ShardTypeOK'
  <2>1. \A i \in Ids : /\ [rows[i] EXCEPT !.status = "printed"] \in Row
                        /\ rows'[i] \in {rows[i], [rows[i] EXCEPT !.status = "printed"]}
    BY <1>3 DEF MarkAsPrinted, Row, Statuses
  <2>2. DOMAIN rows' = Ids /\ rows' = [i \in Ids |-> rows'[i]] /\ lastId' = lastId
    BY <1>3 DEF MarkAsPrinted
  <2> QED
    BY <2>1, <2>2
<1>4. ASSUME NEW t \in Tasks, NEW p \in Printers, NEW lastIndex \in 0..MaxRows,
             ReconcileAndFinalizeTaskCodes(t, p, lastIndex)
      PROVE  ShardTypeOK'
  <2> DEFINE done(i) == [rows[i] EXCEPT !.status = "printed"]
             back(i) == [rows[i] EXCEPT !.status = "pending", !.printer = NoPrinter, !.index = 0]
  <2>1. \A i \in Ids : done(i) \in Row /\ back(i) \in Row
    BY DEF Row, Statuses
  <2>2. \A i \in Ids : rows'[i] \in {rows[i], done(i), back(i)}
    BY <1>4 DEF ReconcileAndFinalizeTaskCodes
  <2>3. rows' = [i \in Ids |-> rows'[i]] /\ lastId' = lastId
    BY <1>4 DEF ReconcileAndFinalizeTaskCodes
  <2> HIDE DEF done, back
  <2> QED
    BY <2>1, <2>2, <2>3
<1>5. CASE UNCHANGED shardVars
  BY <1>5 DEF shardVars
<1> QED
  BY <1>1, <1>2, <1>3, <1>4, <1>5 DEF ShardNext

\* Every reachable table has the schema's types and ids 1..lastId.
THEOREM TypeCorrect == ShardSpec => []ShardTypeOK
<1>1. ShardInit => ShardTypeOK
  BY ParameterAssumption DEF ShardInit, ShardTypeOK, Ids
<1> QED
  BY <1>1, TypeStep, PTL DEF ShardSpec

-----------------------------------------------------------------------------
(* What each transaction does to a row, the facts the proofs below use.     *)

\* A fetch leaves every row as it is but the selected ones, which it numbers
\* past every index of the task on the printer, in id order.
LEMMA FetchStep ==
    ASSUME ShardTypeOK, NEW t \in Tasks, NEW p \in Printers, NEW limit \in Limits,
           FetchAndAssignCodes(t, p, limit)
    PROVE  /\ lastId' = lastId
           /\ Selected(t, p, limit) \subseteq Fetchable(t, p)
           /\ \A i \in Ids \ Selected(t, p, limit) : rows'[i] = rows[i]
           /\ \A i \in Selected(t, p, limit) :
                 /\ rows'[i].task = rows[i].task
                 /\ rows'[i].code = rows[i].code
                 /\ rows'[i].ext = rows[i].ext
                 /\ rows'[i].status = "in_buffer"
                 /\ rows'[i].printer = p
                 /\ rows'[i].index \in Nat \ {0}
                 /\ \A j \in AssignedTo(t, p) : rows[j].index < rows'[i].index
                 /\ \A j \in Selected(t, p, limit) :
                       i < j => rows'[i].index < rows'[j].index
                 /\ \A j \in Fetchable(t, p) \ Selected(t, p, limit) : i < j
<1> DEFINE F == Fetchable(t, p)
           Sel == Selected(t, p, limit)
<1> USE DEF ShardTypeOK, Ids
<1>1. PICK last \in LastIndex(t, p) :
         rows' = [i \in Ids |->
                    IF i \in Sel
                    THEN [rows[i] EXCEPT !.status = "in_buffer", !.printer = p,
                                         !.index = last + Rank(F, i)]
                    ELSE rows[i]]
  BY DEF FetchAndAssignCodes
<1>2. last \in Nat /\ \A j \in AssignedTo(t, p) : rows[j].index <= last
  BY DEF LastIndex, AssignedTo, Row
<1>3. lastId \in Nat /\ F \in SUBSET (1..lastId)
  BY ParameterAssumption DEF Fetchable
<1>4. /\ \A i \in F : Rank(F, i) \in Nat /\ Rank(F, i) >= 1
      /\ \A i, j \in F : i < j => Rank(F, i) < Rank(F, j)
  BY <1>3, RankFacts
<1>5. Sel \subseteq F /\ \A i \in Sel : Rank(F, i) <= limit
  BY DEF Selected
<1>6. \A i \in Sel : i \in 1..lastId /\ rows[i] \in Row
  BY <1>3, <1>5
<1>7. \A i \in Sel :
         rows'[i] = [rows[i] EXCEPT !.status = "in_buffer", !.printer = p,
                                    !.index = last + Rank(F, i)]
  BY <1>1, <1>6
<1>8. \A i \in Sel : /\ rows'[i].task = rows[i].task
                     /\ rows'[i].code = rows[i].code
                     /\ rows'[i].ext = rows[i].ext
                     /\ rows'[i].status = "in_buffer"
                     /\ rows'[i].printer = p
                     /\ rows'[i].index = last + Rank(F, i)
  <2> SUFFICES ASSUME NEW i \in Sel
               PROVE  /\ rows'[i].task = rows[i].task
                      /\ rows'[i].code = rows[i].code
                      /\ rows'[i].ext = rows[i].ext
                      /\ rows'[i].status = "in_buffer"
                      /\ rows'[i].printer = p
                      /\ rows'[i].index = last + Rank(F, i)
    OBVIOUS
  <2>1. /\ rows[i] \in Row
        /\ rows'[i] = [rows[i] EXCEPT !.status = "in_buffer", !.printer = p,
                                      !.index = last + Rank(F, i)]
    BY <1>6, <1>7
  <2> HIDE DEF F, Sel
  <2> QED
    BY <2>1 DEF Row
<1>9. \A i \in Sel : rows'[i].index \in Nat \ {0}
  BY <1>8, <1>2, <1>4, <1>5
<1>10. \A i \in Sel : \A j \in AssignedTo(t, p) : rows[j].index < rows'[i].index
  <2>1. \A j \in AssignedTo(t, p) : rows[j].index \in Nat
    BY DEF AssignedTo, Row
  <2> QED
    BY <2>1, <1>8, <1>2, <1>4, <1>5
<1>11. \A i, j \in Sel : i < j => rows'[i].index < rows'[j].index
  BY <1>8, <1>2, <1>4, <1>5
<1>12. ASSUME NEW i \in Sel, NEW j \in F \ Sel
       PROVE  i < j
  <2>1. ~(Rank(F, j) <= limit)
    BY DEF Selected
  <2>2. limit \in Int /\ Rank(F, i) \in Nat /\ Rank(F, j) \in Nat /\ i \in Int /\ j \in Int
    BY <1>3, <1>4, <1>5, ParameterAssumption DEF Limits
  <2>3. i # j
    OBVIOUS
  <2>4. ~(j < i)
    BY <2>1, <2>2, <1>4, <1>5
  <2> QED
    BY <2>2, <2>3, <2>4
<1>13. \A i \in Ids \ Sel : rows'[i] = rows[i]
  BY <1>1
<1>14. lastId' = lastId
  BY DEF FetchAndAssignCodes
<1> QED
  BY <1>5, <1>8, <1>9, <1>10, <1>11, <1>12, <1>13, <1>14

\* An append adds pending rows past the last id.
LEMMA AppendStep ==
    ASSUME ShardTypeOK, NEW t \in Tasks, NEW items \in Batches, AppendTaskCodes(t, items)
    PROVE  /\ lastId \in Nat /\ lastId' \in Nat /\ lastId <= lastId'
           /\ \A i \in Ids : i \in Ids' /\ rows'[i] = rows[i]
           /\ \A i \in Ids' \ Ids : /\ i > lastId
                                   /\ i - lastId \in DOMAIN items
                                   /\ rows'[i] = NewRow(t, items[i - lastId])
<1> USE DEF ShardTypeOK, Ids
<1>1. PICK n \in 1..MaxBatch : items \in [1..n -> Items]
  BY DEF Batches
<1>2. Len(items) = n /\ DOMAIN items = 1..n
  BY <1>1, ParameterAssumption
<1>3. lastId \in Nat /\ lastId' = lastId + n
  BY <1>2, ParameterAssumption DEF AppendTaskCodes
<1>4. rows' = [i \in 1..(lastId + n) |->
                 IF i <= lastId THEN rows[i] ELSE NewRow(t, items[i - lastId])]
  BY <1>2 DEF AppendTaskCodes
<1>5. \A i \in Ids' : i \in 1..(lastId + n)
  BY <1>3
<1>6. \A i \in Ids' \ Ids : i > lastId /\ i - lastId \in 1..n
  BY <1>3
<1>7. \A i \in Ids : i \in Ids' /\ rows'[i] = rows[i]
  BY <1>1, <1>3, <1>4
<1> QED
  BY <1>1, <1>2, <1>3, <1>4, <1>5, <1>6, <1>7

\* A poll settles the buffered rows up to the odometer and nothing else.
LEMMA MarkStep ==
    ASSUME ShardTypeOK, NEW t \in Tasks, NEW p \in Printers, NEW lastIndex \in Int,
           MarkAsPrinted(t, p, lastIndex)
    PROVE  /\ lastId' = lastId
           /\ \A i \in Ids :
                 /\ rows'[i].task = rows[i].task
                 /\ rows'[i].code = rows[i].code
                 /\ rows'[i].ext = rows[i].ext
                 /\ rows'[i].printer = rows[i].printer
                 /\ rows'[i].index = rows[i].index
                 /\ rows'[i].status =
                       IF i \in InBuffer(t, p) /\ rows[i].index <= lastIndex
                       THEN "printed" ELSE rows[i].status
<1> USE DEF ShardTypeOK, Ids
<1>1. \A i \in Ids : rows[i] \in Row
  OBVIOUS
<1> QED
  BY <1>1 DEF MarkAsPrinted, Row

\* A stop settles the buffered rows of one task on one printer, each either
\* as printed or back as pending, and nothing else.
LEMMA ReconcileStep ==
    ASSUME ShardTypeOK, NEW t \in Tasks, NEW p \in Printers, NEW lastIndex \in Int,
           ReconcileAndFinalizeTaskCodes(t, p, lastIndex)
    PROVE  /\ lastId' = lastId
           /\ \A i \in Ids :
                 /\ rows'[i].task = rows[i].task
                 /\ rows'[i].code = rows[i].code
                 /\ rows'[i].ext = rows[i].ext
           /\ \A i \in Ids \ InBuffer(t, p) : rows'[i] = rows[i]
           /\ \A i \in InBuffer(t, p) :
                 \/ /\ rows[i].index <= lastIndex
                    /\ rows'[i].status = "printed"
                    /\ rows'[i].printer = rows[i].printer
                    /\ rows'[i].index = rows[i].index
                 \/ /\ lastIndex <= 0 \/ rows[i].index > lastIndex
                    /\ rows'[i].status = "pending"
                    /\ rows'[i].printer = NoPrinter
                    /\ rows'[i].index = 0
<1> USE DEF ShardTypeOK, Ids
<1>1. \A i \in Ids : rows[i] \in Row
  OBVIOUS
<1>2. InBuffer(t, p) \subseteq Ids
  BY DEF InBuffer, AssignedTo
<1>3. lastId' = lastId
  BY DEF ReconcileAndFinalizeTaskCodes
<1>4. \A i \in Ids \ InBuffer(t, p) : rows'[i] = rows[i]
  BY DEF ReconcileAndFinalizeTaskCodes
<1>5. \A i \in InBuffer(t, p) :
         IF lastIndex > 0 /\ rows[i].index <= lastIndex
         THEN rows'[i] = [rows[i] EXCEPT !.status = "printed"]
         ELSE rows'[i] = [rows[i] EXCEPT !.status = "pending",
                                         !.printer = NoPrinter, !.index = 0]
  BY <1>2 DEF ReconcileAndFinalizeTaskCodes
<1>6. ASSUME NEW i \in InBuffer(t, p)
      PROVE  /\ rows'[i].task = rows[i].task
             /\ rows'[i].code = rows[i].code
             /\ rows'[i].ext = rows[i].ext
             /\ \/ /\ rows[i].index <= lastIndex
                   /\ rows'[i].status = "printed"
                   /\ rows'[i].printer = rows[i].printer
                   /\ rows'[i].index = rows[i].index
                \/ /\ lastIndex <= 0 \/ rows[i].index > lastIndex
                   /\ rows'[i].status = "pending"
                   /\ rows'[i].printer = NoPrinter
                   /\ rows'[i].index = 0
  <2>1. rows[i] \in Row /\ rows[i].index \in Nat
    BY <1>1, <1>2 DEF Row
  <2>2. CASE lastIndex > 0 /\ rows[i].index <= lastIndex
    BY <2>1, <2>2, <1>5 DEF Row
  <2>3. CASE ~(lastIndex > 0 /\ rows[i].index <= lastIndex)
    <3>1. lastIndex <= 0 \/ rows[i].index > lastIndex
      BY <2>1, <2>3
    <3>2. rows'[i] = [rows[i] EXCEPT !.status = "pending",
                                     !.printer = NoPrinter, !.index = 0]
      BY <2>3, <1>5
    <3> QED
      BY <2>1, <3>1, <3>2 DEF Row
  <2> QED
    BY <2>2, <2>3
<1> QED
  BY <1>2, <1>3, <1>4, <1>6

-----------------------------------------------------------------------------
(* The order of codes.  PrintOrder is not inductive: it needs that what a   *)
(* fetch takes lies behind what the printer already has (QueueBehindBuffer),*)
(* and a stop keeps that only because what it returns lies behind what the  *)
(* printer confirmed (ConfirmedPrefix) and in no other printer's lane.      *)

Order == AssignmentWellFormed /\ PrintOrder /\ ConfirmedPrefix /\ QueueBehindBuffer
IInv == ShardTypeOK /\ Order

\* An append keeps the order: new rows are pending and have the highest ids.
LEMMA AppendKeepsOrder ==
    ASSUME IInv, ShardTypeOK', NEW t \in Tasks, NEW items \in Batches,
           AppendTaskCodes(t, items)
    PROVE  Order'
<1> USE DEF IInv
<1>1. /\ lastId \in Nat /\ lastId' \in Nat /\ lastId <= lastId'
      /\ \A i \in Ids : i \in Ids' /\ rows'[i] = rows[i]
      /\ \A i \in Ids' \ Ids : i > lastId /\ rows'[i] = NewRow(t, items[i - lastId])
  BY AppendStep
<1>2. \A i \in Ids' \ Ids : /\ i > lastId
                            /\ rows'[i].status = "pending"
                            /\ rows'[i].printer = NoPrinter
                            /\ rows'[i].index = 0
  <2>1. \A item : /\ NewRow(t, item).status = "pending"
                  /\ NewRow(t, item).printer = NoPrinter
                  /\ NewRow(t, item).index = 0
    BY DEF NewRow
  <2> QED
    BY <2>1, <1>1
<1>3. \A i \in Ids' : rows'[i].printer # NoPrinter => i \in Ids /\ rows'[i] = rows[i]
  BY <1>1, <1>2
<1>4. \A i \in Ids, p \in Printers : InLane(p, i)' <=> InLane(p, i)
  BY <1>1 DEF InLane, Parity
<1>5. AssignmentWellFormed'
  <2> SUFFICES ASSUME NEW i \in Ids'
               PROVE  /\ (rows'[i].status = "pending") <=> (rows'[i].printer = NoPrinter)
                      /\ (rows'[i].status = "pending") <=> (rows'[i].index = 0)
                      /\ \A q \in Printers : rows'[i].printer = q => InLane(q, i)'
    BY DEF AssignmentWellFormed, ShardTypeOK, Row
  <2>1. CASE i \in Ids
    <3>1. rows'[i] = rows[i] /\ rows[i].printer \in Printers \cup {NoPrinter}
      BY <2>1, <1>1 DEF ShardTypeOK, Row
    <3> QED
      BY <3>1, <2>1, <1>4, ParameterAssumption DEF Order, AssignmentWellFormed
  <2>2. CASE i \notin Ids
    BY <2>2, <1>2, ParameterAssumption
  <2> QED
    BY <2>1, <2>2
<1>6. PrintOrder'
  BY <1>3 DEF Order, PrintOrder
<1>7. ASSUME NEW u \in Tasks, NEW p \in Printers
      PROVE  /\ AssignedTo(u, p)' \subseteq AssignedTo(u, p)
             /\ \A i \in AssignedTo(u, p)' : rows'[i] = rows[i]
  BY <1>3, ParameterAssumption DEF AssignedTo
<1>8. ConfirmedPrefix'
  BY <1>7 DEF Order, ConfirmedPrefix
<1>9. QueueBehindBuffer'
  <2> SUFFICES ASSUME NEW u \in Tasks, NEW p \in Printers,
                      NEW i \in AssignedTo(u, p)', NEW j \in Fetchable(u, p)'
               PROVE  i < j
    BY DEF QueueBehindBuffer
  <2>1. i \in AssignedTo(u, p) /\ i \in Ids
    BY <1>7 DEF AssignedTo
  <2>2. CASE j \in Ids
    <3>1. j \in Fetchable(u, p)
      BY <2>2, <1>1, <1>4 DEF Fetchable
    <3> QED
      BY <3>1, <2>1 DEF Order, QueueBehindBuffer
  <2>3. CASE j \notin Ids
    <3>1. j > lastId /\ j \in Int /\ i \in 1..lastId
      BY <2>1, <2>3, <1>1, <1>2 DEF Ids, Fetchable
    <3> QED
      BY <3>1, <1>1
  <2> QED
    BY <2>2, <2>3
<1> QED
  BY <1>5, <1>6, <1>8, <1>9 DEF Order

\* A fetch keeps the order: it takes the next ids and gives the next indices.
LEMMA FetchKeepsOrder ==
    ASSUME IInv, ShardTypeOK', NEW t \in Tasks, NEW p \in Printers, NEW limit \in Limits,
           FetchAndAssignCodes(t, p, limit)
    PROVE  Order'
<1> DEFINE Sel == Selected(t, p, limit)
<1> USE DEF IInv
<1>1. /\ lastId' = lastId
      /\ Sel \subseteq Fetchable(t, p)
      /\ \A i \in Ids \ Sel : rows'[i] = rows[i]
  BY FetchStep
<1>2. \A i \in Sel :
         /\ rows'[i].task = rows[i].task
         /\ rows'[i].ext = rows[i].ext
         /\ rows'[i].status = "in_buffer"
         /\ rows'[i].printer = p
         /\ rows'[i].index \in Nat \ {0}
         /\ \A j \in AssignedTo(t, p) : rows[j].index < rows'[i].index
         /\ \A j \in Sel : i < j => rows'[i].index < rows'[j].index
         /\ \A j \in Fetchable(t, p) \ Sel : i < j
  BY FetchStep
<1>3. Ids' = Ids /\ Sel \subseteq Ids
  BY <1>1 DEF Ids, Fetchable
<1>4. \A i \in Sel : /\ rows[i].task = t
                     /\ rows[i].status = "pending"
                     /\ rows[i].printer = NoPrinter
                     /\ InLane(p, i)
  BY <1>1 DEF Fetchable
<1>5. \A i \in Ids : /\ rows'[i].task = rows[i].task
                     /\ rows'[i].ext = rows[i].ext
                     /\ rows[i].printer # NoPrinter => rows'[i] = rows[i]
  BY <1>1, <1>2, <1>3, <1>4
<1>6. \A i \in Ids, q \in Printers : InLane(q, i)' <=> InLane(q, i)
  BY <1>5 DEF InLane, Parity
<1>7. AssignmentWellFormed'
  <2> SUFFICES ASSUME NEW i \in Ids
               PROVE  /\ (rows'[i].status = "pending") <=> (rows'[i].printer = NoPrinter)
                      /\ (rows'[i].status = "pending") <=> (rows'[i].index = 0)
                      /\ \A q \in Printers : rows'[i].printer = q => InLane(q, i)'
    BY <1>3 DEF AssignmentWellFormed, ShardTypeOK, Row
  <2>1. CASE i \in Sel
    BY <2>1, <1>2, <1>4, <1>6, ParameterAssumption
  <2>2. CASE i \notin Sel
    <3>1. rows'[i] = rows[i] /\ rows[i].printer \in Printers \cup {NoPrinter}
      BY <2>2, <1>1 DEF ShardTypeOK, Row
    <3> QED
      BY <3>1, <1>6, ParameterAssumption DEF Order, AssignmentWellFormed
  <2> QED
    BY <2>1, <2>2
<1>8. PrintOrder'
  <2> SUFFICES ASSUME NEW i \in Ids, NEW j \in Ids, i < j,
                      rows'[i].task = rows'[j].task,
                      rows'[i].printer = rows'[j].printer,
                      rows'[i].printer # NoPrinter
               PROVE  rows'[i].index < rows'[j].index
    BY <1>3 DEF PrintOrder
  <2>1. CASE i \in Sel /\ j \in Sel
    BY <2>1, <1>2
  <2>2. CASE i \notin Sel /\ j \notin Sel
    BY <2>2, <1>1 DEF Order, PrintOrder
  <2>3. CASE i \notin Sel /\ j \in Sel
    <3>1. i \in AssignedTo(t, p) /\ rows'[i] = rows[i]
      BY <2>3, <1>1, <1>2, <1>4 DEF AssignedTo
    <3> QED
      BY <3>1, <2>3, <1>2
  <2>4. CASE i \in Sel /\ j \notin Sel
    <3>1. j \in AssignedTo(t, p)
      BY <2>4, <1>1, <1>2, <1>4 DEF AssignedTo
    <3>2. i \in Fetchable(t, p)
      BY <2>4, <1>1
    <3>3. j < i
      BY <3>1, <3>2 DEF Order, QueueBehindBuffer
    <3> QED
      BY <3>3, <1>3 DEF ShardTypeOK, Ids
  <2> QED
    BY <2>1, <2>2, <2>3, <2>4
<1>9. ConfirmedPrefix'
  <2> SUFFICES ASSUME NEW u \in Tasks, NEW q \in Printers,
                      NEW i \in AssignedTo(u, q)', NEW j \in AssignedTo(u, q)',
                      rows'[i].status = "printed", rows'[j].status = "in_buffer"
               PROVE  rows'[i].index < rows'[j].index
    BY DEF ConfirmedPrefix
  <2>1. i \in Ids /\ j \in Ids /\ i \notin Sel
    BY <1>2, <1>3 DEF AssignedTo
  <2>2. i \in AssignedTo(u, q) /\ rows'[i] = rows[i]
    BY <2>1, <1>1 DEF AssignedTo
  <2>3. CASE j \in Sel
    <3>1. u = t /\ q = p
      BY <2>3, <1>2, <1>4 DEF AssignedTo
    <3> QED
      BY <3>1, <2>2, <2>3, <1>2
  <2>4. CASE j \notin Sel
    <3>1. j \in AssignedTo(u, q) /\ rows'[j] = rows[j]
      BY <2>4, <2>1, <1>1 DEF AssignedTo
    <3> QED
      BY <3>1, <2>2 DEF Order, ConfirmedPrefix
  <2> QED
    BY <2>3, <2>4
<1>10. QueueBehindBuffer'
  <2> SUFFICES ASSUME NEW u \in Tasks, NEW q \in Printers,
                      NEW i \in AssignedTo(u, q)', NEW j \in Fetchable(u, q)'
               PROVE  i < j
    BY DEF QueueBehindBuffer
  <2>1. i \in Ids /\ j \in Ids /\ j \notin Sel
    BY <1>2, <1>3 DEF AssignedTo, Fetchable
  <2>2. j \in Fetchable(u, q)
    BY <2>1, <1>1, <1>6 DEF Fetchable
  <2>3. CASE i \in Sel
    <3>1. u = t /\ q = p
      BY <2>3, <1>2, <1>4 DEF AssignedTo
    <3> QED
      BY <3>1, <2>1, <2>2, <2>3, <1>2
  <2>4. CASE i \notin Sel
    <3>1. i \in AssignedTo(u, q)
      BY <2>4, <2>1, <1>1 DEF AssignedTo
    <3> QED
      BY <3>1, <2>2 DEF Order, QueueBehindBuffer
  <2> QED
    BY <2>3, <2>4
<1> QED
  BY <1>7, <1>8, <1>9, <1>10 DEF Order

\* A poll keeps the order: it settles a prefix of what the printer buffers.
LEMMA MarkKeepsOrder ==
    ASSUME IInv, ShardTypeOK', NEW t \in Tasks, NEW p \in Printers, NEW lastIndex \in Int,
           MarkAsPrinted(t, p, lastIndex)
    PROVE  Order'
<1> USE DEF IInv
<1>1. /\ Ids' = Ids
      /\ \A i \in Ids :
            /\ rows'[i].task = rows[i].task
            /\ rows'[i].ext = rows[i].ext
            /\ rows'[i].printer = rows[i].printer
            /\ rows'[i].index = rows[i].index
            /\ rows'[i].status =
                  IF i \in InBuffer(t, p) /\ rows[i].index <= lastIndex
                  THEN "printed" ELSE rows[i].status
  BY MarkStep DEF Ids
<1>2. \A i \in Ids, q \in Printers : InLane(q, i)' <=> InLane(q, i)
  BY <1>1 DEF InLane, Parity
<1>3. \A i \in Ids : rows'[i].status = "pending" <=> rows[i].status = "pending"
  BY <1>1 DEF InBuffer
<1>4. \A u \in Tasks, q \in Printers :
         /\ AssignedTo(u, q)' = AssignedTo(u, q)
         /\ Fetchable(u, q)' = Fetchable(u, q)
  BY <1>1, <1>2, <1>3 DEF AssignedTo, Fetchable
<1>5. AssignmentWellFormed'
  <2> SUFFICES ASSUME NEW i \in Ids
               PROVE  /\ (rows'[i].status = "pending") <=> (rows'[i].printer = NoPrinter)
                      /\ (rows'[i].status = "pending") <=> (rows'[i].index = 0)
                      /\ \A q \in Printers : rows'[i].printer = q => InLane(q, i)'
    BY <1>1 DEF AssignmentWellFormed, ShardTypeOK, Row
  <2> QED
    BY <1>1, <1>2, <1>3, ParameterAssumption DEF Order, AssignmentWellFormed
<1>6. PrintOrder'
  BY <1>1 DEF Order, PrintOrder
<1>7. ConfirmedPrefix'
  <2> SUFFICES ASSUME NEW u \in Tasks, NEW q \in Printers,
                      NEW i \in AssignedTo(u, q), NEW j \in AssignedTo(u, q),
                      rows'[i].status = "printed", rows'[j].status = "in_buffer"
               PROVE  rows[i].index < rows[j].index
    BY <1>1, <1>4 DEF ConfirmedPrefix, AssignedTo
  <2>1. /\ i \in Ids /\ rows[i].task = u /\ rows[i].printer = q /\ rows[i].index \in Nat
        /\ j \in Ids /\ rows[j].task = u /\ rows[j].printer = q /\ rows[j].index \in Nat
    BY DEF AssignedTo, ShardTypeOK, Row
  <2>2. rows[j].status = "in_buffer" /\ (j \in InBuffer(t, p) => rows[j].index > lastIndex)
    BY <2>1, <1>1
  <2>3. CASE rows[i].status = "printed"
    BY <2>2, <2>3 DEF Order, ConfirmedPrefix
  <2>4. CASE rows[i].status # "printed"
    <3>1. i \in InBuffer(t, p) /\ rows[i].index <= lastIndex
      BY <2>1, <2>4, <1>1
    <3>2. j \in InBuffer(t, p)
      BY <2>1, <2>2, <3>1 DEF InBuffer, AssignedTo
    <3> QED
      BY <2>1, <2>2, <3>1, <3>2
  <2> QED
    BY <2>3, <2>4
<1>8. QueueBehindBuffer'
  BY <1>4 DEF Order, QueueBehindBuffer
<1> QED
  BY <1>5, <1>6, <1>7, <1>8 DEF Order

\* A stop keeps the order: what it returns to the queue lies behind what the
\* printer confirmed, and only this printer can fetch it again.
LEMMA ReconcileKeepsOrder ==
    ASSUME IInv, ShardTypeOK', NEW t \in Tasks, NEW p \in Printers, NEW lastIndex \in Int,
           ReconcileAndFinalizeTaskCodes(t, p, lastIndex)
    PROVE  Order'
<1> DEFINE Returned == {i \in InBuffer(t, p) : rows'[i].status = "pending"}
<1> USE DEF IInv
<1>1. /\ Ids' = Ids
      /\ \A i \in Ids : rows'[i].task = rows[i].task /\ rows'[i].ext = rows[i].ext
      /\ \A i \in Ids \ InBuffer(t, p) : rows'[i] = rows[i]
  BY ReconcileStep DEF Ids
<1>2. \A i \in InBuffer(t, p) :
         \/ /\ rows[i].index <= lastIndex
            /\ rows'[i].status = "printed"
            /\ rows'[i].printer = rows[i].printer
            /\ rows'[i].index = rows[i].index
         \/ /\ lastIndex <= 0 \/ rows[i].index > lastIndex
            /\ rows'[i].status = "pending"
            /\ rows'[i].printer = NoPrinter
            /\ rows'[i].index = 0
  BY ReconcileStep
<1>3. \A i \in InBuffer(t, p) : /\ i \in Ids
                                /\ rows[i].task = t
                                /\ rows[i].printer = p
                                /\ rows[i].status = "in_buffer"
                                /\ rows[i].index \in Nat \ {0}
                                /\ InLane(p, i)
  BY ParameterAssumption
     DEF InBuffer, AssignedTo, Order, AssignmentWellFormed, ShardTypeOK, Row
<1>4. \A i \in Ids, q \in Printers : InLane(q, i)' <=> InLane(q, i)
  BY <1>1 DEF InLane, Parity
<1>5. \A i \in Ids : rows'[i].printer # NoPrinter =>
         /\ rows'[i].printer = rows[i].printer
         /\ rows'[i].index = rows[i].index
         /\ i \notin Returned
  BY <1>1, <1>2
<1>6. \A u \in Tasks, q \in Printers : AssignedTo(u, q)' \subseteq AssignedTo(u, q)
  BY <1>1, <1>5, ParameterAssumption DEF AssignedTo
<1>7. AssignmentWellFormed'
  <2> SUFFICES ASSUME NEW i \in Ids
               PROVE  /\ (rows'[i].status = "pending") <=> (rows'[i].printer = NoPrinter)
                      /\ (rows'[i].status = "pending") <=> (rows'[i].index = 0)
                      /\ \A q \in Printers : rows'[i].printer = q => InLane(q, i)'
    BY <1>1 DEF AssignmentWellFormed, ShardTypeOK, Row
  <2>1. CASE i \in InBuffer(t, p)
    BY <2>1, <1>2, <1>3, <1>4, ParameterAssumption
  <2>2. CASE i \notin InBuffer(t, p)
    BY <2>2, <1>1, <1>4, ParameterAssumption DEF Order, AssignmentWellFormed
  <2> QED
    BY <2>1, <2>2
<1>8. PrintOrder'
  BY <1>1, <1>5 DEF Order, PrintOrder
<1>9. ConfirmedPrefix'
  <2> SUFFICES ASSUME NEW u \in Tasks, NEW q \in Printers,
                      NEW i \in AssignedTo(u, q)', NEW j \in AssignedTo(u, q)',
                      rows'[i].status = "printed", rows'[j].status = "in_buffer"
               PROVE  rows'[i].index < rows'[j].index
    BY DEF ConfirmedPrefix
  <2>1. /\ i \in AssignedTo(u, q) /\ j \in AssignedTo(u, q) /\ i \in Ids /\ j \in Ids
        /\ rows'[i].index = rows[i].index /\ rows'[j].index = rows[j].index
    BY <1>1, <1>5, <1>6, ParameterAssumption DEF AssignedTo
  <2>2. j \notin InBuffer(t, p) /\ rows[j].status = "in_buffer"
    BY <2>1, <1>1, <1>2
  <2>3. ~(u = t /\ q = p)
    BY <2>1, <2>2 DEF InBuffer
  <2>4. i \notin InBuffer(t, p)
    BY <2>1, <2>3, <1>3 DEF AssignedTo
  <2>5. rows[i].status = "printed"
    BY <2>1, <2>4, <1>1
  <2> QED
    BY <2>1, <2>2, <2>5 DEF Order, ConfirmedPrefix
<1>10. QueueBehindBuffer'
  <2> SUFFICES ASSUME NEW u \in Tasks, NEW q \in Printers,
                      NEW i \in AssignedTo(u, q)', NEW j \in Fetchable(u, q)'
               PROVE  i < j
    BY DEF QueueBehindBuffer
  <2>1. /\ i \in AssignedTo(u, q) /\ i \in Ids /\ j \in Ids
        /\ rows'[i].printer = q /\ rows'[i].index = rows[i].index
    BY <1>1, <1>5, <1>6, ParameterAssumption DEF AssignedTo, Fetchable
  <2>2. CASE j \notin InBuffer(t, p)
    <3>1. j \in Fetchable(u, q)
      BY <2>1, <2>2, <1>1, <1>4 DEF Fetchable
    <3> QED
      BY <2>1, <3>1 DEF Order, QueueBehindBuffer
  <2>3. CASE j \in InBuffer(t, p)
    <3>1. j \in Fetchable(u, q)' /\ InLane(q, j) /\ InLane(p, j)
      BY <2>1, <2>3, <1>3, <1>4 DEF Fetchable
    <3>2. u = t
      BY <3>1, <2>1, <2>3, <1>1, <1>3 DEF Fetchable
    <3>3. q = p
      BY <3>1, LaneAssumption DEF InLane
    <3>4. rows'[j].status = "pending" /\ (lastIndex <= 0 \/ rows[j].index > lastIndex)
      BY <3>1, <2>3, <1>2 DEF Fetchable
    <3>5. rows[i].index \in Nat /\ rows[j].index \in Nat \ {0} /\ lastIndex \in Int
      BY <2>1, <2>3, <1>3 DEF ShardTypeOK, Row
    <3>6. rows[i].index < rows[j].index
      <4>1. CASE i \in InBuffer(t, p)
        <5>1. rows[i].index <= lastIndex
          BY <4>1, <2>1, <1>2, ParameterAssumption
        <5>2. rows[i].index # 0
          BY <4>1, <1>3
        <5> QED
          BY <5>1, <5>2, <3>4, <3>5
      <4>2. CASE i \notin InBuffer(t, p)
        <5>1. i \in AssignedTo(t, p) /\ rows[i].status = "printed"
          BY <4>2, <2>1, <3>2, <3>3, ParameterAssumption
             DEF InBuffer, AssignedTo, Order, AssignmentWellFormed, ShardTypeOK, Row, Statuses
        <5>2. j \in AssignedTo(t, p) /\ rows[j].status = "in_buffer"
          BY <2>3 DEF InBuffer
        <5> QED
          BY <5>1, <5>2 DEF Order, ConfirmedPrefix
      <4> QED
        BY <4>1, <4>2
    <3>7. ~(j < i)
      <4>1. rows[j].task = rows[i].task /\ rows[j].printer = rows[i].printer
            /\ rows[j].printer # NoPrinter
        BY <2>1, <2>3, <1>3, <3>2, <3>3, ParameterAssumption DEF AssignedTo
      <4>2. j < i => rows[j].index < rows[i].index
        BY <4>1, <2>1 DEF Order, PrintOrder
      <4> QED
        BY <4>2, <3>5, <3>6
    <3>8. i # j
      BY <3>5, <3>6
    <3> QED
      BY <3>7, <3>8, <2>1 DEF ShardTypeOK, Ids
  <2> QED
    BY <2>2, <2>3
<1> QED
  BY <1>7, <1>8, <1>9, <1>10 DEF Order

\* The invariant is inductive.
LEMMA IInvStep == IInv /\ [ShardNext]_shardVars => IInv'
<1> SUFFICES ASSUME IInv, [ShardNext]_shardVars
             PROVE  IInv'
  OBVIOUS
<1>1. ShardTypeOK'
  BY TypeStep DEF IInv
<1>2. 0..MaxRows \subseteq Int
  BY ParameterAssumption
<1>3. ASSUME NEW t \in Tasks, NEW items \in Batches, AppendTaskCodes(t, items)
      PROVE  Order'
  BY <1>1, <1>3, AppendKeepsOrder
<1>4. ASSUME NEW t \in Tasks, NEW p \in Printers, NEW limit \in Limits,
             FetchAndAssignCodes(t, p, limit)
      PROVE  Order'
  BY <1>1, <1>4, FetchKeepsOrder
<1>5. ASSUME NEW t \in Tasks, NEW p \in Printers, NEW lastIndex \in 0..MaxRows,
             MarkAsPrinted(t, p, lastIndex)
      PROVE  Order'
  BY <1>1, <1>2, <1>5, MarkKeepsOrder
<1>6. ASSUME NEW t \in Tasks, NEW p \in Printers, NEW lastIndex \in 0..MaxRows,
             ReconcileAndFinalizeTaskCodes(t, p, lastIndex)
      PROVE  Order'
  BY <1>1, <1>2, <1>6, ReconcileKeepsOrder
<1>7. CASE UNCHANGED shardVars
  <2>1. rows' = rows /\ lastId' = lastId /\ Ids' = Ids
    BY <1>7 DEF shardVars, Ids
  <2>2. AssignmentWellFormed' /\ PrintOrder'
    BY <2>1 DEF IInv, Order, AssignmentWellFormed, PrintOrder, InLane, Parity
  <2>3. \A t, p : AssignedTo(t, p)' = AssignedTo(t, p) /\ Fetchable(t, p)' = Fetchable(t, p)
    BY <2>1 DEF AssignedTo, Fetchable, InLane, Parity
  <2>4. ConfirmedPrefix' /\ QueueBehindBuffer'
    BY <2>1, <2>3 DEF IInv, Order, ConfirmedPrefix, QueueBehindBuffer
  <2> QED
    BY <2>2, <2>4, <1>1 DEF IInv, Order
<1>8. CASE ShardNext
  <2>1. Order'
    BY <1>8, <1>3, <1>4, <1>5, <1>6 DEF ShardNext
  <2> QED
    BY <2>1, <1>1 DEF IInv
<1> QED
  BY <1>7, <1>8

\* Rows are well formed and ordered in every reachable state.
LEMMA OrderInvariant == ShardSpec => []IInv
<1>1. ShardInit => IInv
  BY ParameterAssumption
     DEF ShardInit, IInv, Order, ShardTypeOK, AssignmentWellFormed, PrintOrder,
         ConfirmedPrefix, QueueBehindBuffer, AssignedTo, Fetchable, Ids
<1> QED
  BY <1>1, IInvStep, PTL DEF ShardSpec

\* No code is claimed by two printers and none is lost between the lanes.
THEOREM Assignment == ShardSpec => []AssignmentWellFormed
<1>1. IInv => AssignmentWellFormed
  BY DEF IInv, Order
<1> QED
  BY <1>1, OrderInvariant, PTL

\* Codes leave every printer in the order they were delivered.
THEOREM DeliveryOrder == ShardSpec => []PrintOrder
<1>1. IInv => PrintOrder
  BY DEF IInv, Order
<1> QED
  BY <1>1, OrderInvariant, PTL

\* What is confirmed on a printer precedes what the printer still buffers.
THEOREM Confirmation == ShardSpec => []ConfirmedPrefix
<1>1. IInv => ConfirmedPrefix
  BY DEF IInv, Order
<1> QED
  BY <1>1, OrderInvariant, PTL

\* A code returned by a stop is the next one its printer takes.
THEOREM QueueOrder == ShardSpec => []QueueBehindBuffer
<1>1. IInv => QueueBehindBuffer
  BY DEF IInv, Order
<1> QED
  BY <1>1, OrderInvariant, PTL

-----------------------------------------------------------------------------
(* Uniqueness and finality.                                                 *)

LEMMA UniqueKept ==
    ASSUME UniqueCode, Ids' = Ids,
           \A i \in Ids : rows'[i].task = rows[i].task /\ rows'[i].code = rows[i].code
    PROVE  UniqueCode'
  BY DEF UniqueCode

\* An insert refuses a code the task has, and one it brings twice.
LEMMA UniqueAppend ==
    ASSUME UniqueCode, ShardTypeOK, NEW t \in Tasks, NEW items \in Batches,
           AppendTaskCodes(t, items)
    PROVE  UniqueCode'
<1>1. /\ \A i \in Ids : i \in Ids' /\ rows'[i] = rows[i]
      /\ \A i \in Ids' \ Ids : /\ i - lastId \in DOMAIN items
                               /\ rows'[i] = NewRow(t, items[i - lastId])
  BY AppendStep
<1>2. \A item : NewRow(t, item).task = t /\ NewRow(t, item).code = item.code
  BY DEF NewRow
<1>3. \A i \in Ids' \ Ids : /\ rows'[i].task = t
                            /\ rows'[i].code = items[i - lastId].code
  BY <1>1, <1>2
<1>4. Insertable(t, items)
  BY DEF AppendTaskCodes
<1> SUFFICES ASSUME NEW i \in Ids', NEW j \in Ids',
                    rows'[i].task = rows'[j].task, rows'[i].code = rows'[j].code
             PROVE  i = j
  BY DEF UniqueCode
<1>5. CASE i \in Ids /\ j \in Ids
  BY <1>5, <1>1 DEF UniqueCode
<1>6. CASE i \in Ids /\ j \notin Ids
  BY <1>6, <1>1, <1>3, <1>4 DEF Insertable
<1>7. CASE i \notin Ids /\ j \in Ids
  BY <1>7, <1>1, <1>3, <1>4 DEF Insertable
<1>8. CASE i \notin Ids /\ j \notin Ids
  <2>1. i - lastId = j - lastId
    BY <1>8, <1>1, <1>3, <1>4 DEF Insertable
  <2> QED
    BY <2>1, AppendStep DEF Ids
<1> QED
  BY <1>5, <1>6, <1>7, <1>8

\* unq_task_code holds: appending keeps (task, code) unique and no other
\* transaction changes a code or a task.
THEOREM CodesUnique == ShardSpec => []UniqueCode
<1>1. ShardInit => UniqueCode
  BY DEF ShardInit, UniqueCode, Ids
<1>2. UniqueCode /\ ShardTypeOK /\ [ShardNext]_shardVars => UniqueCode'
  <2> SUFFICES ASSUME UniqueCode, ShardTypeOK, [ShardNext]_shardVars
               PROVE  UniqueCode'
    OBVIOUS
  <2>1. ASSUME NEW t \in Tasks, NEW items \in Batches, AppendTaskCodes(t, items)
        PROVE  UniqueCode'
    BY <2>1, UniqueAppend
  <2>2. ASSUME NEW t \in Tasks, NEW p \in Printers, NEW limit \in Limits,
               FetchAndAssignCodes(t, p, limit)
        PROVE  UniqueCode'
    <3>1. Ids' = Ids
      BY <2>2, FetchStep DEF Ids
    <3>2. \A i \in Ids : rows'[i].task = rows[i].task /\ rows'[i].code = rows[i].code
      BY <2>2, FetchStep
    <3> QED
      BY <3>1, <3>2, UniqueKept
  <2>3. ASSUME NEW t \in Tasks, NEW p \in Printers, NEW lastIndex \in 0..MaxRows,
               \/ MarkAsPrinted(t, p, lastIndex)
               \/ ReconcileAndFinalizeTaskCodes(t, p, lastIndex)
        PROVE  UniqueCode'
    <3>1. lastIndex \in Int
      BY ParameterAssumption
    <3>2. Ids' = Ids /\ \A i \in Ids : /\ rows'[i].task = rows[i].task
                                       /\ rows'[i].code = rows[i].code
      BY <2>3, <3>1, MarkStep, ReconcileStep DEF Ids
    <3> QED
      BY <3>2, UniqueKept
  <2>4. CASE UNCHANGED shardVars
    BY <2>4, UniqueKept DEF shardVars, Ids
  <2> QED
    BY <2>1, <2>2, <2>3, <2>4 DEF ShardNext
<1> QED
  BY <1>1, <1>2, TypeCorrect, PTL DEF ShardSpec

\* A confirmed label is never taken back, renumbered or reassigned.
THEOREM ConfirmationIsFinal == ShardSpec => PrintedFinal
<1> DEFINE Final == \A i \in Ids : rows[i].status = "printed" => rows'[i] = rows[i]
<1>1. ShardTypeOK /\ [ShardNext]_shardVars => [Final]_shardVars
  <2> SUFFICES ASSUME ShardTypeOK, ShardNext, NEW i \in Ids, rows[i].status = "printed"
               PROVE  rows'[i] = rows[i]
    BY DEF shardVars
  <2>1. ASSUME NEW t \in Tasks, NEW items \in Batches, AppendTaskCodes(t, items)
        PROVE  rows'[i] = rows[i]
    BY <2>1, AppendStep
  <2>2. ASSUME NEW t \in Tasks, NEW p \in Printers, NEW limit \in Limits,
               FetchAndAssignCodes(t, p, limit)
        PROVE  rows'[i] = rows[i]
    BY <2>2, FetchStep DEF Fetchable
  <2>3. ASSUME NEW t \in Tasks, NEW p \in Printers, NEW lastIndex \in 0..MaxRows,
               MarkAsPrinted(t, p, lastIndex)
        PROVE  rows'[i] = rows[i]
    BY <2>3 DEF MarkAsPrinted, InBuffer
  <2>4. ASSUME NEW t \in Tasks, NEW p \in Printers, NEW lastIndex \in 0..MaxRows,
               ReconcileAndFinalizeTaskCodes(t, p, lastIndex)
        PROVE  rows'[i] = rows[i]
    BY <2>4 DEF ReconcileAndFinalizeTaskCodes, InBuffer
  <2> QED
    BY <2>1, <2>2, <2>3, <2>4 DEF ShardNext
<1> QED
  BY <1>1, TypeCorrect, PTL DEF ShardSpec, PrintedFinal

-----------------------------------------------------------------------------
(* Indices stay small: a row's index never exceeds its id, so that what an  *)
(* odometer reports of a task is bounded by the rows of the shard.          *)

IndexBound == \A i \in Ids : rows[i].index <= i

\* Ids that all lie beyond j have ranks at most their distance from j.
LEMMA RankBound ==
    ASSUME NEW n \in Nat, NEW S \in SUBSET (1..n), NEW j \in Nat,
           \A k \in S : j < k, NEW i \in S
    PROVE  Rank(S, i) <= i - j
<1> DEFINE Below == {k \in S : k <= i}
<1>1. Below \in SUBSET ((j + 1)..i)
  <2>1. \A k \in S : k \in Int /\ j < k
    OBVIOUS
  <2>2. \A k \in Int : j < k /\ k <= i => k \in (j + 1)..i
    OBVIOUS
  <2> QED
    BY <2>1, <2>2
<1>2. i \in Nat /\ j < i
  OBVIOUS
<1>3. IsFiniteSet((j + 1)..i) /\ Cardinality((j + 1)..i) = i - j
  <2>1. j + 1 \in Int /\ i \in Int /\ ~(j + 1 > i) /\ i - (j + 1) + 1 = i - j
    BY <1>2
  <2> QED
    BY <2>1, FS_Interval
<1>4. Cardinality(Below) <= Cardinality((j + 1)..i)
  BY <1>1, <1>3, FS_Subset
<1> QED
  BY <1>3, <1>4 DEF Rank

\* The bound is inductive.
LEMMA IndexBoundStep == IInv /\ IndexBound /\ [ShardNext]_shardVars => IndexBound'
<1> SUFFICES ASSUME IInv, IndexBound, [ShardNext]_shardVars
             PROVE  IndexBound'
  OBVIOUS
<1> USE DEF IInv
<1>1. \A i \in Ids : i \in Int /\ i > 0 /\ rows[i].index \in Nat
  BY DEF ShardTypeOK, Ids, Row
<1>2. ASSUME NEW t \in Tasks, NEW items \in Batches, AppendTaskCodes(t, items)
      PROVE  IndexBound'
  <2>1. /\ \A i \in Ids : i \in Ids' /\ rows'[i] = rows[i]
        /\ \A i \in Ids' \ Ids : i > lastId /\ rows'[i] = NewRow(t, items[i - lastId])
        /\ lastId \in Nat
    BY <1>2, AppendStep
  <2>2. \A item : NewRow(t, item).index = 0
    BY DEF NewRow
  <2>3. \A i \in Ids' \ Ids : rows'[i].index = 0 /\ i \in Int /\ i > 0
    BY <2>1, <2>2 DEF Ids
  <2> QED
    BY <2>1, <2>3 DEF IndexBound
<1>3. ASSUME NEW t \in Tasks, NEW p \in Printers, NEW limit \in Limits,
             FetchAndAssignCodes(t, p, limit)
      PROVE  IndexBound'
  <2> DEFINE F == Fetchable(t, p)
  <2>1. PICK last \in LastIndex(t, p) :
           rows' = [i \in Ids |->
                      IF i \in Selected(t, p, limit)
                      THEN [rows[i] EXCEPT !.status = "in_buffer", !.printer = p,
                                           !.index = last + Rank(F, i)]
                      ELSE rows[i]]
    BY <1>3 DEF FetchAndAssignCodes
  <2>2. \E j \in Nat : last <= j /\ last \in Nat /\ \A k \in F : j < k
    <3>1. CASE last = 0
      BY <3>1, <1>1 DEF Fetchable
    <3>2. CASE last # 0
      <4>1. PICK j \in AssignedTo(t, p) : rows[j].index = last
        BY <3>2 DEF LastIndex
      <4>2. j \in Ids
        BY DEF AssignedTo
      <4> QED
        BY <4>1, <4>2, <1>1 DEF IndexBound, Order, QueueBehindBuffer
    <3> QED
      BY <3>1, <3>2
  <2>3. PICK j \in Nat : last <= j /\ last \in Nat /\ \A k \in F : j < k
    BY <2>2
  <2>4. lastId \in Nat /\ F \in SUBSET (1..lastId)
    BY ParameterAssumption DEF Fetchable, ShardTypeOK, Ids
  <2>5. \A i \in F : Rank(F, i) \in Nat /\ Rank(F, i) <= i - j
    BY <2>3, <2>4, RankBound, RankFacts
  <2>6. Ids' = Ids
    BY <1>3 DEF FetchAndAssignCodes, Ids
  <2> SUFFICES ASSUME NEW i \in Ids
               PROVE  rows'[i].index <= i
    BY <2>6 DEF IndexBound
  <2>7. CASE i \in Selected(t, p, limit)
    <3>1. i \in F /\ rows[i] \in Row
      BY <2>7 DEF Selected, ShardTypeOK
    <3>2. rows'[i].index = last + Rank(F, i)
      BY <2>1, <2>7, <3>1 DEF Row
    <3> QED
      BY <3>1, <3>2, <2>3, <2>5, <1>1
  <2>8. CASE i \notin Selected(t, p, limit)
    BY <2>1, <2>8 DEF IndexBound
  <2> QED
    BY <2>7, <2>8
<1>4. ASSUME NEW t \in Tasks, NEW p \in Printers, NEW lastIndex \in 0..MaxRows,
             MarkAsPrinted(t, p, lastIndex)
      PROVE  IndexBound'
  <2>1. lastIndex \in Int
    BY ParameterAssumption
  <2>2. Ids' = Ids /\ \A i \in Ids : rows'[i].index = rows[i].index
    BY <1>4, <2>1, MarkStep DEF Ids
  <2> QED
    BY <2>2 DEF IndexBound
<1>5. ASSUME NEW t \in Tasks, NEW p \in Printers, NEW lastIndex \in 0..MaxRows,
             ReconcileAndFinalizeTaskCodes(t, p, lastIndex)
      PROVE  IndexBound'
  <2>1. lastIndex \in Int
    BY ParameterAssumption
  <2>2. Ids' = Ids /\ \A i \in Ids : rows'[i].index \in {rows[i].index, 0}
    BY <1>5, <2>1, ReconcileStep DEF Ids
  <2> QED
    BY <2>2, <1>1 DEF IndexBound
<1>6. CASE UNCHANGED shardVars
  BY <1>6 DEF shardVars, IndexBound, Ids
<1>7. CASE ShardNext
  BY <1>7, <1>2, <1>3, <1>4, <1>5 DEF ShardNext
<1> QED
  BY <1>6, <1>7

-----------------------------------------------------------------------------
(* CodeShard implements CodeLedger.                                         *)

PhaseMap == [t \in Tasks |-> [c \in Codes |-> PhaseOf(t, c)]]
HolderMap == [t \in Tasks |-> [c \in Codes |-> HolderOf(t, c)]]

\* The ledger's entry of a pair is that of its only row.
LEMMA EntryOfRow ==
    ASSUME UniqueCode, NEW i \in Ids
    PROVE  /\ PhaseOf(rows[i].task, rows[i].code) = PhaseOfStatus(rows[i].status)
           /\ HolderOf(rows[i].task, rows[i].code) = rows[i].printer
<1>1. RowsOf(rows[i].task, rows[i].code) = {i}
  BY DEF UniqueCode, RowsOf
<1> QED
  BY <1>1 DEF PhaseOf, HolderOf

\* A pair without a row is absent and held by nobody.
LEMMA EntryOfNoRow ==
    ASSUME NEW t, NEW c, RowsOf(t, c) = {}
    PROVE  PhaseOf(t, c) = "absent" /\ HolderOf(t, c) = NoPrinter
BY DEF PhaseOf, HolderOf

\* A transaction that keeps every row's task and code changes the entry of a
\* pair exactly as it changes the pair's row.
LEMMA EntryStep ==
    ASSUME UniqueCode, Ids' = Ids, NEW t \in Tasks, NEW c \in Codes,
           \A i \in Ids : rows'[i].task = rows[i].task /\ rows'[i].code = rows[i].code
    PROVE  \/ /\ \A i \in Ids : ~(rows[i].task = t /\ rows[i].code = c)
              /\ PhaseOf(t, c)' = "absent" /\ PhaseOf(t, c) = "absent"
              /\ HolderOf(t, c)' = NoPrinter /\ HolderOf(t, c) = NoPrinter
           \/ \E i \in Ids :
              /\ rows[i].task = t /\ rows[i].code = c
              /\ \A j \in Ids : rows[j].task = t /\ rows[j].code = c => j = i
              /\ PhaseOf(t, c) = PhaseOfStatus(rows[i].status)
              /\ HolderOf(t, c) = rows[i].printer
              /\ PhaseOf(t, c)' = PhaseOfStatus(rows'[i].status)
              /\ HolderOf(t, c)' = rows'[i].printer
<1>1. RowsOf(t, c)' = RowsOf(t, c)
  BY DEF RowsOf
<1>2. CASE RowsOf(t, c) = {}
  <2>1. \A i \in Ids : ~(rows[i].task = t /\ rows[i].code = c)
    BY <1>2 DEF RowsOf
  <2> QED
    BY <2>1, <1>1, <1>2 DEF PhaseOf, HolderOf
<1>3. ASSUME NEW i \in RowsOf(t, c)
      PROVE  /\ i \in Ids /\ rows[i].task = t /\ rows[i].code = c
             /\ \A j \in Ids : rows[j].task = t /\ rows[j].code = c => j = i
             /\ PhaseOf(t, c) = PhaseOfStatus(rows[i].status)
             /\ HolderOf(t, c) = rows[i].printer
             /\ PhaseOf(t, c)' = PhaseOfStatus(rows'[i].status)
             /\ HolderOf(t, c)' = rows'[i].printer
  <2>1. /\ i \in Ids /\ rows[i].task = t /\ rows[i].code = c
        /\ \A j \in Ids : rows[j].task = t /\ rows[j].code = c => j = i
    BY DEF RowsOf, UniqueCode
  <2>2. RowsOf(t, c) = {i}
    BY <2>1 DEF RowsOf
  <2>3. (CHOOSE j \in RowsOf(t, c) : TRUE) = i
    BY <2>2
  <2>4. (CHOOSE j \in RowsOf(t, c)' : TRUE) = i
    BY <1>1, <2>2
  <2>5. PhaseOf(t, c) = PhaseOfStatus(rows[i].status) /\ HolderOf(t, c) = rows[i].printer
    BY <2>2, <2>3 DEF PhaseOf, HolderOf
  <2>6. /\ PhaseOf(t, c)' = PhaseOfStatus(rows'[i].status)
        /\ HolderOf(t, c)' = rows'[i].printer
    BY <1>1, <2>2, <2>4 DEF PhaseOf, HolderOf, PhaseOfStatus
  <2> QED
    BY <2>1, <2>5, <2>6
<1>4. CASE RowsOf(t, c) # {}
  <2>1. PICK i \in RowsOf(t, c) : TRUE
    BY <1>4
  <2> QED
    BY <2>1, <1>3
<1> QED
  BY <1>2, <1>4

-----------------------------------------------------------------------------
(* Every transaction is a step of the ledger.                               *)

\* An append enqueues the codes of its batch.
LEMMA AppendEnqueues ==
    ASSUME IInv, UniqueCode, UniqueCode', NEW t \in Tasks, NEW items \in Batches,
           AppendTaskCodes(t, items)
    PROVE  Ledger!Next
<1> DEFINE cs == {items[k].code : k \in DOMAIN items}
<1>1. /\ \A i \in Ids : i \in Ids' /\ rows'[i] = rows[i]
      /\ \A i \in Ids' \ Ids : /\ i > lastId
                               /\ i - lastId \in DOMAIN items
                               /\ rows'[i] = NewRow(t, items[i - lastId])
  BY AppendStep DEF IInv
<1>2. \A item : /\ NewRow(t, item).task = t /\ NewRow(t, item).code = item.code
                /\ NewRow(t, item).status = "pending"
                /\ NewRow(t, item).printer = NoPrinter
  BY DEF NewRow
<1>3. \A i \in Ids' \ Ids : /\ rows'[i].task = t /\ rows'[i].code \in cs
                            /\ rows'[i].status = "pending"
                            /\ rows'[i].printer = NoPrinter
  BY <1>1, <1>2
<1>4. cs \in SUBSET Codes
  BY DEF Batches, Items
<1>5. \A i \in Ids : rows[i].task = t => rows[i].code \notin cs
  BY DEF AppendTaskCodes, Insertable
<1>6. ASSUME NEW c \in cs
      PROVE  PhaseOf(t, c) = "absent" /\ HolderOf(t, c) = NoPrinter
  <2>1. RowsOf(t, c) = {}
    BY <1>5 DEF RowsOf
  <2> QED
    BY <2>1, EntryOfNoRow
<1>7. ASSUME NEW c \in cs
      PROVE  PhaseOf(t, c)' = "queued" /\ HolderOf(t, c)' = NoPrinter
  <2>1. PICK k \in DOMAIN items : items[k].code = c
    OBVIOUS
  <2>2. lastId + k \in Ids' /\ lastId + k \notin Ids /\ (lastId + k) - lastId = k
    <3>1. PICK n \in 1..MaxBatch : items \in [1..n -> Items]
      BY DEF Batches
    <3>2. k \in 1..n /\ Len(items) = n
      BY <3>1, ParameterAssumption
    <3> QED
      BY <3>2, ParameterAssumption DEF AppendTaskCodes, IInv, ShardTypeOK, Ids
  <2>3. rows'[lastId + k].task = t /\ rows'[lastId + k].code = c
    BY <2>1, <2>2, <1>1, <1>2
  <2>4. RowsOf(t, c)' = {lastId + k}
    BY <2>2, <2>3 DEF RowsOf, UniqueCode
  <2>5. /\ PhaseOf(t, c)' = PhaseOfStatus(rows'[lastId + k].status)
        /\ HolderOf(t, c)' = rows'[lastId + k].printer
    BY <2>4 DEF PhaseOf, HolderOf, PhaseOfStatus
  <2> QED
    BY <2>2, <2>5, <1>3 DEF PhaseOfStatus
<1>8. ASSUME NEW u \in Tasks, NEW c \in Codes, ~(u = t /\ c \in cs)
      PROVE  PhaseOf(u, c)' = PhaseOf(u, c) /\ HolderOf(u, c)' = HolderOf(u, c)
  <2>1. RowsOf(u, c)' = RowsOf(u, c)
    BY <1>1, <1>3, <1>8 DEF RowsOf
  <2>2. \A i \in RowsOf(u, c) : rows'[i] = rows[i]
    BY <1>1 DEF RowsOf
  <2>3. CASE RowsOf(u, c) = {}
    BY <2>1, <2>3 DEF PhaseOf, HolderOf
  <2>4. CASE RowsOf(u, c) # {}
    <3>1. (CHOOSE i \in RowsOf(u, c) : TRUE) \in RowsOf(u, c)
      BY <2>4
    <3> QED
      BY <3>1, <2>1, <2>2, <2>4 DEF PhaseOf, HolderOf, PhaseOfStatus
  <2> QED
    BY <2>3, <2>4
<1>9. Ledger!Enqueue(t, cs)
  <2>1. \A c \in cs : PhaseMap[t][c] = "absent"
    BY <1>4, <1>6 DEF PhaseMap
  <2>2. PhaseMap' = [PhaseMap EXCEPT ![t] =
                       [c \in Codes |-> IF c \in cs THEN "queued" ELSE @[c]]]
    BY <1>7, <1>8 DEF PhaseMap
  <2>3. HolderMap' = HolderMap
    BY <1>4, <1>6, <1>7, <1>8 DEF HolderMap
  <2> QED
    BY <2>1, <2>2, <2>3 DEF Ledger!Enqueue, PhaseMap, HolderMap
<1> QED
  BY <1>4, <1>9 DEF Ledger!Next

\* A fetch makes its printer hold the codes it selects.
LEMMA FetchHolds ==
    ASSUME IInv, UniqueCode, NEW t \in Tasks, NEW p \in Printers, NEW limit \in Limits,
           FetchAndAssignCodes(t, p, limit)
    PROVE  Ledger!Next
<1> DEFINE Sel == Selected(t, p, limit)
           cs == {rows[i].code : i \in Sel}
<1>1. /\ Ids' = Ids /\ Sel \subseteq Ids
      /\ \A i \in Ids \ Sel : rows'[i] = rows[i]
      /\ \A i \in Sel : /\ rows'[i].task = rows[i].task /\ rows'[i].code = rows[i].code
                        /\ rows'[i].status = "in_buffer" /\ rows'[i].printer = p
                        /\ rows[i].task = t /\ rows[i].status = "pending"
  BY FetchStep DEF IInv, Ids, Fetchable
<1>2. cs \in SUBSET Codes
  BY <1>1 DEF IInv, ShardTypeOK, Row
<1>3. ASSUME NEW u \in Tasks, NEW c \in Codes
      PROVE  /\ u = t /\ c \in cs => /\ PhaseOf(u, c) = "queued"
                                     /\ PhaseOf(u, c)' = "held"
                                     /\ HolderOf(u, c)' = p
             /\ ~(u = t /\ c \in cs) => /\ PhaseOf(u, c)' = PhaseOf(u, c)
                                        /\ HolderOf(u, c)' = HolderOf(u, c)
  <2>1. CASE \A i \in Ids : ~(rows[i].task = u /\ rows[i].code = c)
    <3>1. ~(u = t /\ c \in cs)
      BY <2>1, <1>1
    <3> QED
      BY <3>1, <2>1, <1>1, EntryStep
  <2>2. CASE \E i \in Ids : rows[i].task = u /\ rows[i].code = c
    <3>1. PICK i \in Ids :
             /\ rows[i].task = u /\ rows[i].code = c
             /\ \A j \in Ids : rows[j].task = u /\ rows[j].code = c => j = i
             /\ PhaseOf(u, c) = PhaseOfStatus(rows[i].status)
             /\ HolderOf(u, c) = rows[i].printer
             /\ PhaseOf(u, c)' = PhaseOfStatus(rows'[i].status)
             /\ HolderOf(u, c)' = rows'[i].printer
      BY <2>2, <1>1, EntryStep
    <3>2. (u = t /\ c \in cs) <=> i \in Sel
      BY <3>1, <1>1
    <3> QED
      BY <3>1, <3>2, <1>1 DEF PhaseOfStatus
  <2> QED
    BY <2>1, <2>2
<1>4. Ledger!Hold(t, p, cs)
  <2>1. \A c \in cs : PhaseMap[t][c] = "queued"
    BY <1>2, <1>3 DEF PhaseMap
  <2>2. PhaseMap' = [PhaseMap EXCEPT ![t] =
                       [c \in Codes |-> IF c \in cs THEN "held" ELSE @[c]]]
    BY <1>3 DEF PhaseMap
  <2>3. HolderMap' = [HolderMap EXCEPT ![t] =
                       [c \in Codes |-> IF c \in cs THEN p ELSE @[c]]]
    BY <1>3 DEF HolderMap
  <2> QED
    BY <2>1, <2>2, <2>3 DEF Ledger!Hold, PhaseMap, HolderMap
<1> QED
  BY <1>2, <1>4 DEF Ledger!Next

\* A poll and a stop settle codes their printer holds: rows that become
\* printed are confirmed, rows that become pending are returned.
LEMMA ReportSettles ==
    ASSUME IInv, UniqueCode, NEW t \in Tasks, NEW p \in Printers, Ids' = Ids,
           \A i \in Ids : rows'[i].task = rows[i].task /\ rows'[i].code = rows[i].code,
           \A i \in Ids \ InBuffer(t, p) : /\ rows'[i].status = rows[i].status
                                           /\ rows'[i].printer = rows[i].printer,
           \A i \in InBuffer(t, p) :
              \/ rows'[i].status = "printed" /\ rows'[i].printer = rows[i].printer
              \/ rows'[i].status = "in_buffer" /\ rows'[i].printer = rows[i].printer
              \/ rows'[i].status = "pending" /\ rows'[i].printer = NoPrinter
    PROVE  Ledger!Next
<1> DEFINE Into(s) == {rows[i].code : i \in {j \in InBuffer(t, p) : rows'[j].status = s}}
           done == Into("printed")
           back == Into("pending")
<1>1. \A i \in InBuffer(t, p) : /\ i \in Ids /\ rows[i].task = t /\ rows[i].printer = p
                                /\ rows[i].status = "in_buffer"
                                /\ rows[i].code \in Codes
  BY DEF InBuffer, AssignedTo, IInv, ShardTypeOK, Row
<1>2. done \in SUBSET Codes /\ back \in SUBSET Codes
  BY <1>1
<1>3. ASSUME NEW u \in Tasks, NEW c \in Codes
      PROVE  /\ u = t /\ c \in done => /\ PhaseOf(u, c) = "held" /\ HolderOf(u, c) = p
                                       /\ PhaseOf(u, c)' = "confirmed"
                                       /\ HolderOf(u, c)' = HolderOf(u, c)
                                       /\ c \notin back
             /\ u = t /\ c \in back => /\ PhaseOf(u, c) = "held" /\ HolderOf(u, c) = p
                                       /\ PhaseOf(u, c)' = "queued"
                                       /\ HolderOf(u, c)' = NoPrinter
             /\ ~(u = t /\ c \in done \cup back) => /\ PhaseOf(u, c)' = PhaseOf(u, c)
                                                    /\ HolderOf(u, c)' = HolderOf(u, c)
  <2>1. CASE \A i \in Ids : ~(rows[i].task = u /\ rows[i].code = c)
    <3>1. ~(u = t /\ c \in done \cup back)
      BY <2>1, <1>1
    <3> QED
      BY <3>1, <2>1, EntryStep
  <2>2. CASE \E i \in Ids : rows[i].task = u /\ rows[i].code = c
    <3>1. PICK i \in Ids :
             /\ rows[i].task = u /\ rows[i].code = c
             /\ \A j \in Ids : rows[j].task = u /\ rows[j].code = c => j = i
             /\ PhaseOf(u, c) = PhaseOfStatus(rows[i].status)
             /\ HolderOf(u, c) = rows[i].printer
             /\ PhaseOf(u, c)' = PhaseOfStatus(rows'[i].status)
             /\ HolderOf(u, c)' = rows'[i].printer
      BY <2>2, EntryStep
    <3>2. /\ (u = t /\ c \in done) <=> i \in InBuffer(t, p) /\ rows'[i].status = "printed"
          /\ (u = t /\ c \in back) <=> i \in InBuffer(t, p) /\ rows'[i].status = "pending"
      BY <3>1, <1>1
    <3>3. CASE i \in InBuffer(t, p)
      BY <3>1, <3>2, <3>3, <1>1 DEF PhaseOfStatus
    <3>4. CASE i \notin InBuffer(t, p)
      BY <3>1, <3>2, <3>4 DEF PhaseOfStatus
    <3> QED
      BY <3>3, <3>4
  <2> QED
    BY <2>1, <2>2
<1>4. Ledger!Settle(t, p, done, back)
  <2>1. /\ \A c \in done : PhaseMap[t][c] = "held" /\ HolderMap[t][c] = p /\ c \notin back
        /\ \A c \in back : PhaseMap[t][c] = "held" /\ HolderMap[t][c] = p
    BY <1>2, <1>3 DEF PhaseMap, HolderMap
  <2>2. PhaseMap' = [PhaseMap EXCEPT ![t] =
                       [c \in Codes |-> IF c \in done THEN "confirmed"
                                        ELSE IF c \in back THEN "queued" ELSE @[c]]]
    <3>1. \A u \in Tasks, c \in Codes :
             PhaseOf(u, c)' = IF u # t THEN PhaseOf(u, c)
                              ELSE IF c \in done THEN "confirmed"
                              ELSE IF c \in back THEN "queued" ELSE PhaseOf(u, c)
      BY <1>3
    <3> HIDE DEF done, back
    <3> QED
      BY <3>1 DEF PhaseMap
  <2>3. HolderMap' = [HolderMap EXCEPT ![t] =
                       [c \in Codes |-> IF c \in back THEN NoPrinter ELSE @[c]]]
    <3>1. \A u \in Tasks, c \in Codes :
             HolderOf(u, c)' = IF u = t /\ c \in back THEN NoPrinter ELSE HolderOf(u, c)
      BY <1>3
    <3> HIDE DEF back
    <3> QED
      BY <3>1 DEF HolderMap
  <2>4. done \subseteq Ledger!HeldBy(t, p) /\ back \subseteq Ledger!HeldBy(t, p) \ done
    BY <2>1, <1>2 DEF Ledger!HeldBy, PhaseMap, HolderMap
  <2> QED
    BY <2>2, <2>3, <2>4 DEF Ledger!Settle, PhaseMap, HolderMap
<1> QED
  BY <1>2, <1>4 DEF Ledger!Next

-----------------------------------------------------------------------------
\* The table starts as the empty ledger and every transaction is a step of
\* the ledger: the shard keeps the ledger's promise.
THEOREM Implementation == ShardSpec => ImplementsLedger
<1>1. ShardInit => Ledger!Init
  <2> SUFFICES ASSUME ShardInit
               PROVE  Ledger!Init
    OBVIOUS
  <2>1. \A t, c : RowsOf(t, c) = {}
    BY DEF ShardInit, RowsOf, Ids
  <2>2. \A t, c : PhaseOf(t, c) = "absent" /\ HolderOf(t, c) = NoPrinter
    BY <2>1, EntryOfNoRow
  <2> QED
    BY <2>2 DEF Ledger!Init
<1>2. IInv /\ UniqueCode /\ UniqueCode' /\ [ShardNext]_shardVars => [Ledger!Next]_(Ledger!ledgerVars)
  <2> SUFFICES ASSUME IInv, UniqueCode, UniqueCode', [ShardNext]_shardVars
               PROVE  Ledger!Next \/ UNCHANGED Ledger!ledgerVars
    OBVIOUS
  <2>1. ASSUME NEW t \in Tasks, NEW items \in Batches, AppendTaskCodes(t, items)
        PROVE  Ledger!Next
    BY <2>1, AppendEnqueues
  <2>2. ASSUME NEW t \in Tasks, NEW p \in Printers, NEW limit \in Limits,
               FetchAndAssignCodes(t, p, limit)
        PROVE  Ledger!Next
    BY <2>2, FetchHolds
  <2>3. ASSUME NEW t \in Tasks, NEW p \in Printers, NEW lastIndex \in 0..MaxRows,
               MarkAsPrinted(t, p, lastIndex)
        PROVE  Ledger!Next
    <3>1. /\ Ids' = Ids
          /\ \A i \in Ids :
                /\ rows'[i].task = rows[i].task
                /\ rows'[i].code = rows[i].code
                /\ rows'[i].printer = rows[i].printer
                /\ rows'[i].status =
                      IF i \in InBuffer(t, p) /\ rows[i].index <= lastIndex
                      THEN "printed" ELSE rows[i].status
      BY <2>3, MarkStep, ParameterAssumption DEF IInv, Ids
    <3>2. \A i \in InBuffer(t, p) : i \in Ids /\ rows[i].status = "in_buffer"
      BY DEF InBuffer, AssignedTo
    <3> QED
      BY <3>1, <3>2, ReportSettles
  <2>4. ASSUME NEW t \in Tasks, NEW p \in Printers, NEW lastIndex \in 0..MaxRows,
               ReconcileAndFinalizeTaskCodes(t, p, lastIndex)
        PROVE  Ledger!Next
    <3>1. lastIndex \in Int
      BY ParameterAssumption
    <3>2. /\ Ids' = Ids
          /\ \A i \in Ids : rows'[i].task = rows[i].task /\ rows'[i].code = rows[i].code
          /\ \A i \in Ids \ InBuffer(t, p) : rows'[i] = rows[i]
          /\ \A i \in InBuffer(t, p) :
                \/ rows'[i].status = "printed" /\ rows'[i].printer = rows[i].printer
                \/ rows'[i].status = "pending" /\ rows'[i].printer = NoPrinter
      BY <2>4, <3>1, ReconcileStep DEF IInv, Ids
    <3> QED
      BY <3>2, ReportSettles
  <2>5. CASE UNCHANGED shardVars
    BY <2>5 DEF shardVars, Ledger!ledgerVars, PhaseOf, HolderOf, RowsOf, Ids
  <2>6. CASE ShardNext
    BY <2>6, <2>1, <2>2, <2>3, <2>4 DEF ShardNext
  <2> QED
    BY <2>5, <2>6
<1> QED
  BY <1>1, <1>2, OrderInvariant, CodesUnique, PTL DEF ShardSpec, ImplementsLedger, Ledger!Spec

-----------------------------------------------------------------------------
(* Indices have no holes: a fetch numbers on from the last index, and a     *)
(* stop takes indices back from the end only, as what it returns lies       *)
(* behind what was confirmed.                                               *)

NoGap ==
    \A t \in Tasks, p \in Printers : \A i \in AssignedTo(t, p) :
        \A k \in 1..rows[i].index : \E j \in AssignedTo(t, p) : rows[j].index = k

\* The ranks of a set are 1, 2, ... without a hole.
LEMMA RankOnto ==
    ASSUME NEW n \in Nat, NEW S \in SUBSET (1..n), NEW i \in S,
           NEW k \in 1..Rank(S, i)
    PROVE  \E j \in S : Rank(S, j) = k
<1> DEFINE f == [j \in S |-> Rank(S, j)]
           c == Cardinality(S)
<1>1. c \in Nat /\ f \in Bijection(S, 1..c)
  BY RankNumbers
<1>2. Rank(S, i) \in 1..c
  BY <1>1 DEF Bijection, Injection
<1>3. k \in 1..c
  BY <1>1, <1>2
<1> HIDE DEF c
<1>4. \E j \in S : f[j] = k
  BY <1>1, <1>3 DEF Bijection, Surjection
<1> QED
  BY <1>4

\* What a fetch numbers is numbered on from the last index.
LEMMA FetchNumbers ==
    ASSUME ShardTypeOK, NEW t \in Tasks, NEW p \in Printers, NEW limit \in Limits,
           FetchAndAssignCodes(t, p, limit)
    PROVE  \E last \in LastIndex(t, p) : \A i \in Selected(t, p, limit) :
              rows'[i].index = last + Rank(Fetchable(t, p), i)
<1>1. PICK last \in LastIndex(t, p) :
         rows' = [i \in Ids |->
                    IF i \in Selected(t, p, limit)
                    THEN [rows[i] EXCEPT !.status = "in_buffer", !.printer = p,
                                         !.index = last + Rank(Fetchable(t, p), i)]
                    ELSE rows[i]]
  BY DEF FetchAndAssignCodes
<1>2. \A i \in Selected(t, p, limit) : i \in Ids /\ rows[i] \in Row
  BY DEF Selected, Fetchable, ShardTypeOK
<1> QED
  BY <1>1, <1>2 DEF Row

\* A fetch adds what it selects to the rows of its printer, and to no others.
LEMMA FetchAssigns ==
    ASSUME ShardTypeOK, NEW t \in Tasks, NEW p \in Printers, NEW limit \in Limits,
           FetchAndAssignCodes(t, p, limit)
    PROVE  /\ AssignedTo(t, p)' = AssignedTo(t, p) \cup Selected(t, p, limit)
           /\ \A u \in Tasks, q \in Printers :
                 u # t \/ q # p => AssignedTo(u, q)' = AssignedTo(u, q)
           /\ \A i \in Ids : i \notin Selected(t, p, limit) => rows'[i] = rows[i]
<1> DEFINE Sel == Selected(t, p, limit)
<1>1. /\ lastId' = lastId
      /\ \A i \in Ids \ Sel : rows'[i] = rows[i]
      /\ \A i \in Sel : rows'[i].task = rows[i].task /\ rows'[i].printer = p
  BY FetchStep
<1>2. \A i \in Sel : i \in Ids /\ rows[i].task = t /\ rows[i].printer = NoPrinter
  BY DEF Selected, Fetchable
<1> QED
  BY <1>1, <1>2, ParameterAssumption DEF AssignedTo, Ids

LEMMA FetchKeepsNoGap ==
    ASSUME IInv, NoGap, NEW t \in Tasks, NEW p \in Printers, NEW limit \in Limits,
           FetchAndAssignCodes(t, p, limit)
    PROVE  NoGap'
<1> DEFINE Sel == Selected(t, p, limit)
           F == Fetchable(t, p)
<1>0. ShardTypeOK
  BY DEF IInv
<1>1. PICK last \in LastIndex(t, p) : \A i \in Sel : rows'[i].index = last + Rank(F, i)
  BY <1>0, FetchNumbers
<1>2. /\ AssignedTo(t, p)' = AssignedTo(t, p) \cup Sel
      /\ \A u \in Tasks, q \in Printers :
            u # t \/ q # p => AssignedTo(u, q)' = AssignedTo(u, q)
      /\ \A i \in Ids : i \notin Sel => rows'[i] = rows[i]
  BY <1>0, FetchAssigns
<1>3. \A u, q : \A i \in AssignedTo(u, q) : i \in Ids /\ rows[i].printer = q
  BY DEF AssignedTo
<1>4. \A q \in Printers : \A u : \A i \in AssignedTo(u, q) :
         i \in Ids /\ i \notin Sel /\ rows'[i] = rows[i]
  BY <1>2, <1>3, ParameterAssumption DEF Selected, Fetchable
<1>5. last \in Nat /\ (last # 0 => \E j \in AssignedTo(t, p) : rows[j].index = last)
  BY <1>0 DEF LastIndex, AssignedTo, ShardTypeOK, Row
<1>6. \A k \in 1..last : \E j \in AssignedTo(t, p) : rows[j].index = k
  BY <1>5 DEF NoGap
<1>7. lastId \in Nat /\ F \in SUBSET (1..lastId) /\ Sel \subseteq F
  BY <1>0, ParameterAssumption DEF Fetchable, Selected, ShardTypeOK, Ids
<1>8. \A j \in F : Rank(F, j) \in Nat /\ Rank(F, j) >= 1
  BY <1>7, RankFacts
<1>9. ASSUME NEW i \in Sel, NEW m \in 1..Rank(F, i)
      PROVE  \E j \in Sel : Rank(F, j) = m
  <2>1. PICK j \in F : Rank(F, j) = m
    BY <1>7, RankOnto
  <2>2. Rank(F, i) <= limit /\ limit \in Int
    BY ParameterAssumption DEF Selected, Limits
  <2>3. Rank(F, j) <= limit
    BY <2>1, <2>2, <1>7, <1>8
  <2> QED
    BY <2>1, <2>3 DEF Selected
<1>10. ASSUME NEW i \in AssignedTo(t, p)', NEW k \in 1..rows'[i].index
       PROVE  \E j \in AssignedTo(t, p)' : rows'[j].index = k
  <2>1. CASE i \in AssignedTo(t, p)
    <3>1. PICK j \in AssignedTo(t, p) : rows[j].index = k
      BY <2>1, <1>4, <1>10 DEF NoGap
    <3> QED
      BY <3>1, <1>2, <1>4
  <2>2. CASE i \in Sel /\ k <= last
    <3>1. k \in 1..last
      BY <2>2, <1>5
    <3>2. PICK j \in AssignedTo(t, p) : rows[j].index = k
      BY <3>1, <1>6
    <3> QED
      BY <3>2, <1>2, <1>4
  <2>3. CASE i \in Sel /\ ~(k <= last)
    <3>1. Rank(F, i) \in Nat /\ rows'[i].index = last + Rank(F, i)
      BY <2>3, <1>1, <1>7, <1>8
    <3>2. k - last \in 1..Rank(F, i)
      BY <2>3, <3>1, <1>5, <1>10
    <3>3. PICK j \in Sel : Rank(F, j) = k - last
      BY <2>3, <3>2, <1>9
    <3>4. rows'[j].index = k
      BY <3>3, <1>1, <1>5
    <3> QED
      BY <3>4, <1>2
  <2> QED
    BY <2>1, <2>2, <2>3, <1>2
<1>11. ASSUME NEW u \in Tasks, NEW q \in Printers, u # t \/ q # p,
              NEW i \in AssignedTo(u, q)', NEW k \in 1..rows'[i].index
       PROVE  \E j \in AssignedTo(u, q)' : rows'[j].index = k
  <2>1. i \in AssignedTo(u, q) /\ AssignedTo(u, q)' = AssignedTo(u, q)
    BY <1>2, <1>11
  <2>2. PICK j \in AssignedTo(u, q) : rows[j].index = k
    BY <2>1, <1>4, <1>11 DEF NoGap
  <2> QED
    BY <2>1, <2>2, <1>4
<1> QED
  BY <1>10, <1>11 DEF NoGap

\* A stop returns the end of the numbers.
LEMMA ReconcileKeepsNoGap ==
    ASSUME IInv, NoGap, NEW t \in Tasks, NEW p \in Printers, NEW lastIndex \in Int,
           ReconcileAndFinalizeTaskCodes(t, p, lastIndex)
    PROVE  NoGap'
<1>0. ShardTypeOK /\ ConfirmedPrefix /\ AssignmentWellFormed
  BY DEF IInv, Order
<1>1. /\ lastId' = lastId
      /\ \A i \in Ids : rows'[i].task = rows[i].task
      /\ \A i \in Ids \ InBuffer(t, p) : rows'[i] = rows[i]
      /\ \A i \in InBuffer(t, p) :
            \/ /\ rows[i].index <= lastIndex
               /\ rows'[i].printer = rows[i].printer
               /\ rows'[i].index = rows[i].index
            \/ /\ lastIndex <= 0 \/ rows[i].index > lastIndex
               /\ rows'[i].printer = NoPrinter
  BY <1>0, ReconcileStep
<1>2. \A i \in Ids : rows[i] \in Row /\ rows[i].index \in Nat
  BY <1>0 DEF ShardTypeOK, Row
<1>3. \A i \in InBuffer(t, p) : i \in Ids /\ rows[i].printer = p /\ rows[i].task = t
  BY DEF InBuffer, AssignedTo
<1>4. ASSUME NEW u \in Tasks, NEW q \in Printers, NEW i \in AssignedTo(u, q)'
      PROVE  i \in AssignedTo(u, q) /\ rows'[i].index = rows[i].index
  <2>1. i \in Ids /\ rows'[i].task = u /\ rows'[i].printer = q /\ q # NoPrinter
    BY <1>1, ParameterAssumption DEF AssignedTo, Ids
  <2> QED
    BY <2>1, <1>1, <1>3 DEF AssignedTo
<1>5. ASSUME NEW u \in Tasks, NEW q \in Printers, NEW i \in AssignedTo(u, q)',
             NEW j \in AssignedTo(u, q), rows[j].index < rows[i].index
      PROVE  j \in AssignedTo(u, q)' /\ rows'[j].index = rows[j].index
  <2>0. /\ j \in Ids /\ i \in Ids /\ rows[j].task = u /\ rows[j].printer = q
        /\ rows[i].task = u /\ rows[i].printer = q
    BY <1>4 DEF AssignedTo
  <2>1. CASE j \notin InBuffer(t, p)
    BY <2>0, <2>1, <1>1 DEF AssignedTo, Ids
  <2>2. CASE j \in InBuffer(t, p)
    <3>1. u = t /\ q = p /\ rows[j].status = "in_buffer"
      BY <2>0, <2>2, <1>3 DEF InBuffer
    <3>2. i \in InBuffer(t, p)
      <4>1. rows[i].status # "pending"
        BY <2>0, <1>0, ParameterAssumption DEF AssignmentWellFormed
      <4>2. rows[i].status # "printed"
        BY <2>0, <3>1, <1>0, <1>4, <1>5, <1>2 DEF ConfirmedPrefix
      <4> QED
        BY <4>1, <4>2, <3>1, <1>4, <2>0, <1>2 DEF InBuffer, Row, Statuses
    <3>3. rows'[i].printer # NoPrinter
      BY ParameterAssumption DEF AssignedTo
    <3>4. rows[i].index <= lastIndex
      BY <3>2, <3>3, <1>1
    <3>5. ~(lastIndex <= 0 \/ rows[j].index > lastIndex)
      BY <3>4, <1>2, <1>5, <2>0
    <3>6. rows'[j].printer = rows[j].printer /\ rows'[j].index = rows[j].index
      BY <3>5, <2>2, <1>1
    <3> QED
      BY <3>6, <2>0, <1>1 DEF AssignedTo, Ids
  <2> QED
    BY <2>1, <2>2
<1>6. ASSUME NEW u \in Tasks, NEW q \in Printers, NEW i \in AssignedTo(u, q)',
             NEW k \in 1..rows'[i].index
      PROVE  \E j \in AssignedTo(u, q)' : rows'[j].index = k
  <2>1. i \in AssignedTo(u, q) /\ rows'[i].index = rows[i].index
    BY <1>4
  <2>2. PICK j \in AssignedTo(u, q) : rows[j].index = k
    BY <2>1, <1>6 DEF NoGap
  <2>3. CASE k = rows[i].index
    BY <2>1, <2>3
  <2>4. CASE k # rows[i].index
    <3>1. rows[j].index < rows[i].index
      BY <2>1, <2>2, <2>4, <1>2 DEF AssignedTo
    <3> QED
      BY <3>1, <2>2, <1>5
  <2> QED
    BY <2>3, <2>4
<1> QED
  BY <1>6 DEF NoGap

LEMMA NoGapStep == IInv /\ NoGap /\ [ShardNext]_shardVars => NoGap'
<1> SUFFICES ASSUME IInv, NoGap, [ShardNext]_shardVars
             PROVE  NoGap'
  OBVIOUS
<1>0. ShardTypeOK
  BY DEF IInv
<1>1. ASSUME NEW t \in Tasks, NEW items \in Batches, AppendTaskCodes(t, items)
      PROVE  NoGap'
  <2>1. /\ \A i \in Ids : i \in Ids' /\ rows'[i] = rows[i]
        /\ \A i \in Ids' \ Ids : rows'[i].printer = NoPrinter
    <3>1. /\ \A i \in Ids : i \in Ids' /\ rows'[i] = rows[i]
          /\ \A i \in Ids' \ Ids : rows'[i] = NewRow(t, items[i - lastId])
      BY <1>0, <1>1, AppendStep
    <3>2. \A item : NewRow(t, item).printer = NoPrinter
      BY DEF NewRow
    <3> QED
      BY <3>1, <3>2
  <2>2. \A u \in Tasks, q \in Printers :
           /\ AssignedTo(u, q)' = AssignedTo(u, q)
           /\ \A i \in AssignedTo(u, q) : rows'[i] = rows[i]
    BY <2>1, ParameterAssumption DEF AssignedTo
  <2> QED
    BY <2>2 DEF NoGap
<1>2. ASSUME NEW t \in Tasks, NEW p \in Printers, NEW lastIndex \in 0..MaxRows,
             MarkAsPrinted(t, p, lastIndex)
      PROVE  NoGap'
  <2>1. /\ lastId' = lastId
        /\ \A i \in Ids : /\ rows'[i].task = rows[i].task
                          /\ rows'[i].printer = rows[i].printer
                          /\ rows'[i].index = rows[i].index
    BY <1>0, <1>2, MarkStep, ParameterAssumption
  <2>2. \A u, q : /\ AssignedTo(u, q)' = AssignedTo(u, q)
                  /\ \A i \in AssignedTo(u, q) : rows'[i].index = rows[i].index
    BY <2>1 DEF AssignedTo, Ids
  <2> QED
    BY <2>2 DEF NoGap
<1>3. ASSUME UNCHANGED shardVars
      PROVE  NoGap'
  <2>1. rows' = rows /\ \A u, q : AssignedTo(u, q)' = AssignedTo(u, q)
    BY <1>3 DEF shardVars, AssignedTo, Ids
  <2> QED
    BY <2>1 DEF NoGap
<1>4. 0..MaxRows \subseteq Int
  BY ParameterAssumption
<1> QED
  BY <1>1, <1>2, <1>3, <1>4, FetchKeepsNoGap, ReconcileKeepsNoGap DEF ShardNext

\* Indices have no holes, in every reachable state.
LEMMA NoGapInvariant == ShardSpec => []NoGap
<1>1. ShardInit => NoGap
  BY DEF ShardInit, NoGap, AssignedTo, Ids
<1> QED
  BY <1>1, OrderInvariant, NoGapStep, PTL DEF ShardSpec

\* A set of positive numbers with every number below one of its own is an
\* interval: it holds 1..m for each of its numbers m, none of which can
\* therefore exceed its cardinality.
LEMMA DownwardClosed ==
    ASSUME NEW S \in SUBSET (Nat \ {0}), IsFiniteSet(S),
           \A m \in S : \A k \in 1..m : k \in S
    PROVE  S = 1..Cardinality(S)
<1>1. Cardinality(S) \in Nat
  BY FS_CardinalityType
<1>2. ASSUME NEW m \in S
      PROVE  m <= Cardinality(S)
  <2>1. m \in Nat /\ 1..m \in SUBSET S /\ Cardinality(1..m) = m
    BY FS_Interval
  <2> QED
    BY <2>1, FS_Subset
<1>3. S \in SUBSET (1..Cardinality(S))
  BY <1>1, <1>2
<1>4. IsFiniteSet(1..Cardinality(S)) /\ Cardinality(1..Cardinality(S)) = Cardinality(S)
  BY <1>1, FS_Interval
<1> QED
  BY <1>3, <1>4, FS_Subset

\* Rows of a printer whose indices have no holes are numbered 1, 2, ... by them.
LEMMA IndexNumbers ==
    ASSUME IInv, NEW t \in Tasks, NEW p \in Printers, NEW A \in SUBSET AssignedTo(t, p),
           \A i \in A : \A k \in 1..rows[i].index : \E j \in A : rows[j].index = k
    PROVE  /\ IsFiniteSet(A) /\ Cardinality(A) \in Nat
           /\ {rows[i].index : i \in A} = 1..Cardinality(A)
           /\ [i \in A |-> rows[i].index] \in Bijection(A, 1..Cardinality(A))
<1> DEFINE S == {rows[i].index : i \in A}
           f == [i \in A |-> rows[i].index]
<1>1. /\ lastId \in Nat /\ A \in SUBSET (1..lastId)
      /\ \A i \in A : /\ rows[i].index \in Nat \ {0}
                      /\ rows[i].task = t /\ rows[i].printer = p
  BY ParameterAssumption
     DEF IInv, Order, AssignmentWellFormed, AssignedTo, ShardTypeOK, Ids, Row
<1>2. IsFiniteSet(A) /\ Cardinality(A) \in Nat
  BY <1>1, RankNumbers
<1>3. ASSUME NEW i \in A, NEW j \in A, f[i] = f[j]
      PROVE  i = j
  <2>1. \A k, l \in A : k < l => rows[k].index < rows[l].index
    BY <1>1, ParameterAssumption DEF IInv, Order, PrintOrder, Ids
  <2>2. rows[i].index = rows[j].index
    BY <1>3
  <2>3. ~(i < j) /\ ~(j < i)
    BY <2>1, <2>2, <1>1
  <2> QED
    BY <2>3, <1>1
<1>4. f \in Bijection(A, S)
  BY <1>3 DEF Bijection, Injection, Surjection, IsInjective
<1>5. IsFiniteSet(S) /\ Cardinality(S) = Cardinality(A)
  BY <1>2, <1>4, FS_Bijection DEF ExistsBijection
<1>6. S \in SUBSET (Nat \ {0}) /\ \A m \in S : \A k \in 1..m : k \in S
  BY <1>1
<1> QED
  BY <1>2, <1>4, <1>5, <1>6, DownwardClosed

\* The indices of a task on a printer are 1, 2, ...: what an odometer counts
\* is the index of the last label.
THEOREM NoHoles == ShardSpec => []IndexesContiguous
<1>1. IInv /\ NoGap => IndexesContiguous
  BY IndexNumbers DEF NoGap, IndexesContiguous
<1> QED
  BY <1>1, OrderInvariant, NoGapInvariant, PTL

-----------------------------------------------------------------------------
(* The place of a row.  The printers of a line share a task's codes by      *)
(* lanes, and each takes its lane from the front.                           *)

\* A printer's index is the place of the row in its lane: it can be told from
\* the delivery alone, is the same after every return to the queue, and no
\* other printer, fetch or stop changes it.
PlaceInLane ==
    \A t \in Tasks, p \in Printers : \A i \in AssignedTo(t, p) :
        i \in LaneOf(t, p) /\ rows[i].index = Rank(LaneOf(t, p), i)

\* A row of the lane that waits for no printer has been taken by this one.
LEMMA TakenByLane ==
    ASSUME IInv, NEW t \in Tasks, NEW p \in Printers,
           NEW j \in LaneOf(t, p), j \notin Fetchable(t, p)
    PROVE  j \in AssignedTo(t, p) /\ rows[j].status # "pending"
<1>1. /\ j \in Ids /\ rows[j].task = t /\ InLane(p, j)
      /\ rows[j].printer \in Printers \cup {NoPrinter}
  BY DEF LaneOf, IInv, ShardTypeOK, Row
<1>2. rows[j].printer # NoPrinter /\ rows[j].status # "pending"
  BY <1>1 DEF Fetchable, IInv, Order, AssignmentWellFormed
<1>3. rows[j].printer = p
  <2>1. InLane(rows[j].printer, j)
    BY <1>1, <1>2 DEF IInv, Order, AssignmentWellFormed
  <2> QED
    BY <1>1, <1>2, <2>1, LaneAssumption DEF InLane
<1> QED
  BY <1>1, <1>2, <1>3 DEF AssignedTo

\* What a printer has taken is a front part of its lane.
LEMMA TakenFromFront ==
    ASSUME IInv, NEW t \in Tasks, NEW p \in Printers, NEW i \in AssignedTo(t, p),
           NEW j \in LaneOf(t, p), j <= i
    PROVE  j \in AssignedTo(t, p)
<1>1. i \in Int /\ j \in Int /\ ~(i < j)
  BY ParameterAssumption DEF AssignedTo, LaneOf, IInv, ShardTypeOK, Ids
<1>2. j \notin Fetchable(t, p)
  BY <1>1 DEF IInv, Order, QueueBehindBuffer
<1> QED
  BY <1>2, TakenByLane

\* The order of the indices makes each of them a place.
LEMMA PlaceOfIndex == IInv /\ NoGap => PlaceInLane
<1> SUFFICES ASSUME IInv, NoGap, NEW t \in Tasks, NEW p \in Printers,
                    NEW i \in AssignedTo(t, p)
             PROVE  i \in LaneOf(t, p) /\ rows[i].index = Rank(LaneOf(t, p), i)
  BY DEF PlaceInLane
<1> DEFINE A == AssignedTo(t, p)
           n == rows[i].index
           B == {j \in A : j <= i}
           f == [j \in B |-> rows[j].index]
<1>1. /\ lastId \in Nat /\ A \in SUBSET (1..lastId)
      /\ \A j \in A : /\ j \in LaneOf(t, p) /\ rows[j].index \in Nat \ {0}
                      /\ rows[j].task = t /\ rows[j].printer = p
  BY ParameterAssumption
     DEF IInv, Order, AssignmentWellFormed, AssignedTo, LaneOf, ShardTypeOK, Ids, Row
<1>2. \A k, l \in A : k < l => rows[k].index < rows[l].index
  BY <1>1, ParameterAssumption DEF IInv, Order, PrintOrder, Ids
<1>3. \A j \in LaneOf(t, p) : j <= i => j \in A
  BY TakenFromFront
<1>4. {j \in LaneOf(t, p) : j <= i} = B
  BY <1>1, <1>3
<1>5. \A j \in A : j \in Int /\ i \in Int /\ (j < i \/ j = i \/ i < j)
  BY <1>1
<1>6. \A j \in B : rows[j].index \in 1..n
  <2>1. ASSUME NEW j \in B
        PROVE  rows[j].index <= n
    BY <1>1, <1>2, <1>5
  <2> QED
    BY <1>1, <2>1
<1>7. ASSUME NEW k \in B, NEW l \in B, f[k] = f[l]
      PROVE  k = l
  <2>1. rows[k].index = rows[l].index
    BY <1>7
  <2>2. ~(k < l) /\ ~(l < k)
    BY <1>1, <1>2, <2>1
  <2> QED
    BY <1>1, <2>2
<1>8. ASSUME NEW k \in 1..n
      PROVE  \E j \in B : f[j] = k
  <2>1. PICK j \in A : rows[j].index = k
    BY DEF NoGap
  <2>2. ~(i < j)
    BY <1>1, <1>2, <2>1
  <2> QED
    BY <1>5, <2>1, <2>2
<1>9. f \in Bijection(B, 1..n)
  BY <1>6, <1>7, <1>8 DEF Bijection, Injection, Surjection, IsInjective
<1>10. IsFiniteSet(1..n) /\ Cardinality(1..n) = n
  <2>1. n \in Nat \ {0}
    BY <1>1
  <2> HIDE DEF n
  <2> QED
    BY <2>1, FS_Interval
<1>11. IsFiniteSet(B)
  <2>1. IsFiniteSet(1..lastId) /\ B \in SUBSET (1..lastId)
    BY <1>1, FS_Interval
  <2> QED
    BY <2>1, FS_Subset
<1>12. Cardinality(B) = n
  BY <1>9, <1>10, <1>11, FS_Bijection DEF ExistsBijection
<1> QED
  BY <1>1, <1>4, <1>12 DEF Rank

\* The index a printer reports is the place, in its lane, of the last code it
\* applied: numbers on both sides of the link mean the same code.
THEOREM IndexIsPlace == ShardSpec => []PlaceInLane
BY OrderInvariant, NoGapInvariant, PlaceOfIndex, PTL

\* No transaction changes the task or the external id of a row.
LEMMA RowsKeepLane ==
    ASSUME ShardTypeOK, [ShardNext]_shardVars, NEW i \in Ids
    PROVE  i \in Ids' /\ rows'[i].task = rows[i].task /\ rows'[i].ext = rows[i].ext
<1>1. 0..MaxRows \subseteq Int
  BY ParameterAssumption
<1>2. ASSUME NEW t \in Tasks, NEW items \in Batches, AppendTaskCodes(t, items)
      PROVE  i \in Ids' /\ rows'[i] = rows[i]
  BY <1>2, AppendStep
<1>3. ASSUME NEW t \in Tasks, NEW p \in Printers, NEW limit \in Limits,
             FetchAndAssignCodes(t, p, limit)
      PROVE  i \in Ids' /\ rows'[i].task = rows[i].task /\ rows'[i].ext = rows[i].ext
  BY <1>3, FetchStep DEF Ids
<1>4. ASSUME NEW t \in Tasks, NEW p \in Printers, NEW lastIndex \in 0..MaxRows,
             MarkAsPrinted(t, p, lastIndex)
      PROVE  i \in Ids' /\ rows'[i].task = rows[i].task /\ rows'[i].ext = rows[i].ext
  BY <1>1, <1>4, MarkStep DEF Ids
<1>5. ASSUME NEW t \in Tasks, NEW p \in Printers, NEW lastIndex \in 0..MaxRows,
             ReconcileAndFinalizeTaskCodes(t, p, lastIndex)
      PROVE  i \in Ids' /\ rows'[i].task = rows[i].task /\ rows'[i].ext = rows[i].ext
  BY <1>1, <1>5, ReconcileStep DEF Ids
<1>6. CASE UNCHANGED shardVars
  BY <1>6 DEF shardVars, Ids
<1>7. CASE ShardNext
  BY <1>7, <1>2, <1>3, <1>4, <1>5 DEF ShardNext
<1> QED
  BY <1>6, <1>7

\* A lane grows at its end, so that places last.
LEMMA PlacesLast ==
    ASSUME ShardTypeOK, ShardTypeOK', [ShardNext]_shardVars, NEW t, NEW p,
           NEW i \in LaneOf(t, p)
    PROVE  /\ i \in LaneOf(t, p)'
           /\ {j \in LaneOf(t, p)' : j < i} = {j \in LaneOf(t, p) : j < i}
           /\ Rank(LaneOf(t, p), i)' = Rank(LaneOf(t, p), i)
<1>1. \A j \in Ids : j \in Ids' /\ rows'[j].task = rows[j].task /\ rows'[j].ext = rows[j].ext
  BY RowsKeepLane
<1>2. \A j \in Ids : j \in LaneOf(t, p)' <=> j \in LaneOf(t, p)
  BY <1>1 DEF LaneOf, InLane, Parity
<1>3. /\ lastId \in Nat /\ Ids = 1..lastId /\ Ids' \subseteq Nat \ {0}
      /\ LaneOf(t, p)' \subseteq Ids' /\ LaneOf(t, p) \subseteq Ids
  BY ParameterAssumption DEF ShardTypeOK, Ids, LaneOf
<1>4. \A j \in LaneOf(t, p)' : j <= i \/ j < i => j \in Ids
  <2>1. i \in Ids
    BY <1>3
  <2>2. \A j \in Nat \ {0} : j <= i \/ j < i => j \in 1..lastId
    BY <1>3, <2>1
  <2> QED
    BY <1>3, <2>2
<1>5. {j \in LaneOf(t, p)' : j <= i} = {j \in LaneOf(t, p) : j <= i}
  BY <1>2, <1>3, <1>4
<1>6. {j \in LaneOf(t, p)' : j < i} = {j \in LaneOf(t, p) : j < i}
  BY <1>2, <1>3, <1>4
<1> QED
  BY <1>2, <1>3, <1>5, <1>6 DEF Rank

-----------------------------------------------------------------------------
(* A lane as three numbers.                                                 *)

\* Of the elements a bijection numbers 1, 2, ..., as many have a number up to
\* m as there are such numbers.
LEMMA CountUpTo ==
    ASSUME NEW S, IsFiniteSet(S), NEW n \in Nat, NEW f \in Bijection(S, 1..n),
           NEW m \in 0..n
    PROVE  Cardinality({i \in S : f[i] <= m}) = m
<1> DEFINE T == {i \in S : f[i] <= m}
           g == [i \in T |-> f[i]]
<1>1. /\ \A i \in S : f[i] \in 1..n
      /\ \A i, j \in S : f[i] = f[j] => i = j
      /\ \A k \in 1..n : \E i \in S : f[i] = k
  BY DEF Bijection, Injection, Surjection, IsInjective
<1>2. \A i \in T : g[i] \in 1..m
  BY <1>1
<1>3. \A k \in 1..m : \E i \in T : g[i] = k
  BY <1>1
<1>4. g \in Bijection(T, 1..m)
  BY <1>1, <1>2, <1>3 DEF Bijection, Injection, Surjection, IsInjective
<1>5. IsFiniteSet(T)
  BY FS_Subset
<1>6. Cardinality(1..m) = m
  BY FS_Interval
<1> QED
  BY <1>4, <1>5, <1>6, FS_Bijection DEF ExistsBijection

\* A fetch selects as many rows as it asks for, or all there are.
LEMMA SelectedCount ==
    ASSUME ShardTypeOK, NEW t \in Tasks, NEW p \in Printers, NEW limit \in Limits
    PROVE  LET n == Cardinality(Fetchable(t, p))
           IN  Cardinality(Selected(t, p, limit)) = IF limit < n THEN limit ELSE n
<1> DEFINE F == Fetchable(t, p)
           n == Cardinality(F)
           f == [i \in F |-> Rank(F, i)]
<1>1. lastId \in Nat /\ F \in SUBSET (1..lastId) /\ limit \in Nat
  BY ParameterAssumption DEF Fetchable, ShardTypeOK, Ids, Limits
<1>2. IsFiniteSet(F) /\ n \in Nat /\ f \in Bijection(F, 1..n)
  BY <1>1, RankNumbers
<1>3. Selected(t, p, limit) = {i \in F : f[i] <= limit}
  BY DEF Selected
<1>4. CASE limit < n
  <2>1. limit \in 0..n
    BY <1>1, <1>2, <1>4
  <2> HIDE DEF f, n, F
  <2>2. Cardinality({i \in F : f[i] <= limit}) = limit
    BY <1>2, <2>1, CountUpTo
  <2> QED
    BY <1>3, <1>4, <2>2 DEF n, F
<1>5. CASE ~(limit < n)
  <2>1. \A i \in F : f[i] \in 1..n
    BY <1>2 DEF Bijection, Injection
  <2>2. \A i \in F : f[i] <= limit
    BY <1>1, <1>2, <1>5, <2>1
  <2>3. Selected(t, p, limit) = F
    BY <1>3, <2>2
  <2> QED
    BY <1>5, <2>3
<1> QED
  BY <1>4, <1>5

\* In the lane of a printer come first the rows it confirmed, then the rest of
\* what it took, then what waits for it; indices count the first two.
LEMMA LaneFacts ==
    ASSUME IInv, NoGap, NEW t \in Tasks, NEW p \in Printers
    PROVE  LET A == AssignedTo(t, p)
               C == Confirmed(t, p)
           IN  /\ IsFiniteSet(A) /\ Cardinality(A) \in Nat
               /\ Cardinality(C) \in 0..Cardinality(A)
               /\ \A i \in A : rows[i].index \in 1..Cardinality(A)
               /\ \A i \in A : i \in C <=> rows[i].index <= Cardinality(C)
               /\ \A m \in 0..Cardinality(A) :
                     Cardinality({i \in A : rows[i].index <= m}) = m
               /\ IsFiniteSet(Fetchable(t, p))
               /\ LaneOf(t, p) = A \cup Fetchable(t, p)
               /\ A \cap Fetchable(t, p) = {}
<1> DEFINE A == AssignedTo(t, p)
           C == Confirmed(t, p)
           F == Fetchable(t, p)
           n == Cardinality(A)
           f == [i \in A |-> rows[i].index]
<1>1. IsFiniteSet(A) /\ n \in Nat /\ f \in Bijection(A, 1..n)
  BY IndexNumbers DEF NoGap
<1>2. \A i \in A : rows[i].index \in 1..n
  BY <1>1 DEF Bijection, Injection
<1>3. \A i, j \in A : rows[i].index = rows[j].index => i = j
  BY <1>1 DEF Bijection, Injection, IsInjective
<1>4. ASSUME NEW i \in C, NEW k \in 1..rows[i].index
      PROVE  \E j \in C : rows[j].index = k
  <2>1. PICK j \in A : rows[j].index = k
    BY DEF NoGap, Confirmed
  <2>2. i \in A /\ rows[i].status = "printed"
    BY DEF Confirmed
  <2>3. rows[j].status # "in_buffer"
    BY <1>2, <1>4, <2>1, <2>2 DEF IInv, Order, ConfirmedPrefix
  <2>4. rows[j].status # "pending" /\ rows[j].status \in Statuses
    BY <2>1, ParameterAssumption
       DEF IInv, Order, AssignmentWellFormed, AssignedTo, ShardTypeOK, Row
  <2> QED
    BY <2>1, <2>3, <2>4 DEF Confirmed, Statuses
<1>5. /\ C \in SUBSET A /\ IsFiniteSet(C) /\ Cardinality(C) \in Nat
      /\ {rows[i].index : i \in C} = 1..Cardinality(C)
  <2>1. C \in SUBSET A
    BY DEF Confirmed
  <2> QED
    BY <1>4, <2>1, IndexNumbers
<1>6. Cardinality(C) \in 0..n
  BY <1>1, <1>5, FS_Subset
<1>7. ASSUME NEW i \in A PROVE i \in C <=> rows[i].index <= Cardinality(C)
  <2>1. CASE i \in C
    BY <1>5, <2>1
  <2>2. CASE rows[i].index <= Cardinality(C)
    <3>1. rows[i].index \in 1..Cardinality(C)
      BY <1>1, <1>2, <1>5, <2>2
    <3>2. PICK j \in C : rows[j].index = rows[i].index
      BY <1>5, <3>1
    <3> QED
      BY <1>3, <1>5, <3>2
  <2> QED
    BY <2>1, <2>2
<1>8. ASSUME NEW m \in 0..n PROVE Cardinality({i \in A : rows[i].index <= m}) = m
  <2>1. {i \in A : f[i] <= m} = {i \in A : rows[i].index <= m}
    OBVIOUS
  <2> HIDE DEF f, n, A
  <2> QED
    BY <1>1, <2>1, CountUpTo
<1>9. IsFiniteSet(F)
  <2>1. lastId \in Nat /\ F \in SUBSET (1..lastId)
    BY ParameterAssumption DEF Fetchable, IInv, ShardTypeOK, Ids
  <2> HIDE DEF F
  <2> QED
    BY <2>1, RankNumbers
<1>10. LaneOf(t, p) = A \cup F
  <2>1. LaneOf(t, p) \subseteq A \cup F
    BY TakenByLane
  <2>2. A \subseteq LaneOf(t, p)
    BY ParameterAssumption DEF AssignedTo, LaneOf, IInv, Order, AssignmentWellFormed
  <2> QED
    BY <2>1, <2>2 DEF Fetchable, LaneOf
<1>11. A \cap F = {}
  BY ParameterAssumption DEF AssignedTo, Fetchable
<1> QED
  BY <1>1, <1>2, <1>6, <1>7, <1>8, <1>9, <1>10, <1>11

\* A transaction on one lane leaves the rows of the others as they were.
LEMMA LaneRests ==
    ASSUME NEW t \in Tasks, NEW p \in Printers,
           LaneOf(t, p)' = LaneOf(t, p), AssignedTo(t, p)' = AssignedTo(t, p),
           \A i \in AssignedTo(t, p) :
              rows'[i].status = "printed" <=> rows[i].status = "printed"
    PROVE  UNCHANGED Lane(t, p)!laneVars
<1>1. Confirmed(t, p)' = Confirmed(t, p)
  BY DEF Confirmed
<1> QED
  BY <1>1 DEF Lane!laneVars

LEMMA AppendDelivers ==
    ASSUME IInv, NoGap, IInv', NoGap', NEW t \in Tasks, NEW items \in Batches,
           AppendTaskCodes(t, items), NEW u \in Tasks, NEW p \in Printers
    PROVE  /\ Lane(u, p)!Deliver
           /\ u # t => UNCHANGED Lane(u, p)!laneVars
<1>1. /\ \A i \in Ids : i \in Ids' /\ rows'[i] = rows[i]
      /\ \A i \in Ids' \ Ids : rows'[i].printer = NoPrinter /\ rows'[i].task = t
  <2>1. /\ \A i \in Ids : i \in Ids' /\ rows'[i] = rows[i]
        /\ \A i \in Ids' \ Ids : rows'[i] = NewRow(t, items[i - lastId])
    BY AppendStep DEF IInv
  <2>2. \A item : NewRow(t, item).printer = NoPrinter /\ NewRow(t, item).task = t
    BY DEF NewRow
  <2> QED
    BY <2>1, <2>2
<1>2. AssignedTo(u, p)' = AssignedTo(u, p)
  BY <1>1, ParameterAssumption DEF AssignedTo
<1>3. \A i \in AssignedTo(u, p) : rows'[i] = rows[i]
  BY <1>1 DEF AssignedTo
<1>4. Confirmed(u, p)' = Confirmed(u, p)
  BY <1>2, <1>3 DEF Confirmed
<1>5. /\ LaneOf(u, p) \subseteq LaneOf(u, p)'
      /\ u # t => LaneOf(u, p)' = LaneOf(u, p)
  BY <1>1 DEF LaneOf, InLane, Parity
<1>6. /\ IsFiniteSet(LaneOf(u, p)) /\ IsFiniteSet(LaneOf(u, p)')
      /\ Cardinality(LaneOf(u, p)) \in Nat /\ Cardinality(LaneOf(u, p)') \in Nat
  <2>1. /\ lastId \in Nat /\ LaneOf(u, p) \in SUBSET (1..lastId)
        /\ lastId' \in Nat /\ LaneOf(u, p)' \in SUBSET (1..lastId')
    BY ParameterAssumption DEF IInv, ShardTypeOK, LaneOf, Ids
  <2> QED
    BY <2>1, RankNumbers
<1>7. Cardinality(LaneOf(u, p)) <= Cardinality(LaneOf(u, p)')
  BY <1>5, <1>6, FS_Subset
<1> QED
  BY <1>2, <1>4, <1>5, <1>6, <1>7 DEF Lane!Deliver, Lane!laneVars

LEMMA FetchTakes ==
    ASSUME IInv, NoGap, NEW t \in Tasks, NEW p \in Printers, NEW limit \in Limits,
           FetchAndAssignCodes(t, p, limit)
    PROVE  Lane(t, p)!Fetch(limit) /\ OthersRest(t, p)
<1> DEFINE A == AssignedTo(t, p)
           F == Fetchable(t, p)
           Sel == Selected(t, p, limit)
<1>0. ShardTypeOK
  BY DEF IInv
<1>1. /\ A' = A \cup Sel
      /\ \A u \in Tasks, q \in Printers :
            u # t \/ q # p => AssignedTo(u, q)' = AssignedTo(u, q)
      /\ \A i \in Ids : i \notin Sel => rows'[i] = rows[i]
  BY <1>0, FetchAssigns
<1>2. /\ lastId' = lastId /\ Sel \subseteq F
      /\ \A i \in Sel : /\ rows'[i].task = rows[i].task /\ rows'[i].ext = rows[i].ext
                        /\ rows'[i].status = "in_buffer"
  BY <1>0, FetchStep
<1>3. \A u \in Tasks, q \in Printers : LaneOf(u, q)' = LaneOf(u, q)
  BY <1>1, <1>2 DEF LaneOf, InLane, Parity, Ids
<1>4. \A u, q : \A i \in AssignedTo(u, q) : i \in Ids /\ rows[i].printer = q
  BY DEF AssignedTo
<1>5. \A q \in Printers : \A u : \A i \in AssignedTo(u, q) : rows'[i] = rows[i]
  BY <1>1, <1>2, <1>4, ParameterAssumption DEF Fetchable
<1>6. OthersRest(t, p)
  BY <1>1, <1>3, <1>5, LaneRests DEF OthersRest
<1>7. Confirmed(t, p)' = Confirmed(t, p)
  BY <1>1, <1>2, <1>5 DEF Confirmed
<1>8. /\ IsFiniteSet(A) /\ Cardinality(A) \in Nat /\ IsFiniteSet(F)
      /\ LaneOf(t, p) = A \cup F /\ A \cap F = {}
  BY LaneFacts
<1>9. Cardinality(LaneOf(t, p)) = Cardinality(A) + Cardinality(F)
      /\ Cardinality(F) \in Nat
  BY <1>8, DisjointCount
<1>10. Cardinality(A') = Cardinality(A) + Cardinality(Sel)
  <2>1. IsFiniteSet(Sel) /\ A \cap Sel = {}
    BY <1>2, <1>8, FS_Subset
  <2> HIDE DEF A, Sel
  <2>2. Cardinality(A \cup Sel) = Cardinality(A) + Cardinality(Sel)
    BY <1>8, <2>1, DisjointCount
  <2> QED
    BY <1>1, <2>2
<1>11. Cardinality(Sel) = IF limit < Cardinality(F) THEN limit ELSE Cardinality(F)
  BY <1>0, SelectedCount
<1>12. limit \in Nat
  BY ParameterAssumption DEF Limits
<1> QED
  BY <1>3, <1>6, <1>7, <1>8, <1>9, <1>10, <1>11, <1>12 DEF Lane!Fetch

LEMMA MarkMarks ==
    ASSUME IInv, NoGap, NEW t \in Tasks, NEW p \in Printers, NEW lastIndex \in Nat,
           MarkAsPrinted(t, p, lastIndex)
    PROVE  Lane(t, p)!Mark(lastIndex) /\ OthersRest(t, p)
<1> DEFINE A == AssignedTo(t, p)
           c == Cardinality(Confirmed(t, p))
           n == Cardinality(A)
           upTo == IF lastIndex <= c THEN c ELSE IF lastIndex < n THEN lastIndex ELSE n
<1>1. /\ lastId' = lastId
      /\ \A i \in Ids :
            /\ rows'[i].task = rows[i].task /\ rows'[i].ext = rows[i].ext
            /\ rows'[i].printer = rows[i].printer /\ rows'[i].index = rows[i].index
            /\ rows'[i].status =
                  IF i \in InBuffer(t, p) /\ rows[i].index <= lastIndex
                  THEN "printed" ELSE rows[i].status
  BY MarkStep DEF IInv
<1>2. \A u \in Tasks, q \in Printers :
         LaneOf(u, q)' = LaneOf(u, q) /\ AssignedTo(u, q)' = AssignedTo(u, q)
  BY <1>1 DEF LaneOf, AssignedTo, InLane, Parity, Ids
<1>3. \A u \in Tasks, q \in Printers : u # t \/ q # p =>
         \A i \in AssignedTo(u, q) : rows'[i].status = rows[i].status
  BY <1>1 DEF InBuffer, AssignedTo
<1>4. OthersRest(t, p)
  BY <1>2, <1>3, LaneRests DEF OthersRest
<1>5. /\ n \in Nat /\ c \in 0..n
      /\ \A i \in A : rows[i].index \in 1..n
      /\ \A i \in A : i \in Confirmed(t, p) <=> rows[i].index <= c
      /\ \A m \in 0..n : Cardinality({i \in A : rows[i].index <= m}) = m
  BY LaneFacts
<1>6. \A i \in A : i \in InBuffer(t, p) <=> i \notin Confirmed(t, p)
  BY ParameterAssumption
     DEF InBuffer, Confirmed, AssignedTo, IInv, Order, AssignmentWellFormed,
         ShardTypeOK, Row, Statuses
<1>7. \A i \in A : i \in Confirmed(t, p)' <=> rows[i].index <= upTo
  <2>1. \A i \in A : i \in Confirmed(t, p)' <=>
                        (i \in Confirmed(t, p) \/ rows[i].index <= lastIndex)
    BY <1>1, <1>2, <1>6 DEF Confirmed, AssignedTo, InBuffer
  <2> QED
    BY <1>5, <2>1
<1>8. Confirmed(t, p)' = {i \in A : rows[i].index <= upTo}
  BY <1>2, <1>7 DEF Confirmed
<1>9. upTo \in 0..n
  BY <1>5
<1>10. Cardinality(Confirmed(t, p)') = upTo
  <2> HIDE DEF upTo, n, A
  <2> QED
    BY <1>5, <1>8, <1>9
<1> QED
  BY <1>2, <1>4, <1>10 DEF Lane!Mark, Lane!UpTo

LEMMA ReconcileReturns ==
    ASSUME IInv, NoGap, NEW t \in Tasks, NEW p \in Printers, NEW lastIndex \in Nat,
           ReconcileAndFinalizeTaskCodes(t, p, lastIndex)
    PROVE  Lane(t, p)!Reconcile(lastIndex) /\ OthersRest(t, p)
<1> DEFINE A == AssignedTo(t, p)
           c == Cardinality(Confirmed(t, p))
           n == Cardinality(A)
           upTo == IF lastIndex <= c THEN c ELSE IF lastIndex < n THEN lastIndex ELSE n
<1>1. /\ lastId' = lastId
      /\ \A i \in Ids : rows'[i].task = rows[i].task /\ rows'[i].ext = rows[i].ext
      /\ \A i \in Ids \ InBuffer(t, p) : rows'[i] = rows[i]
      /\ \A i \in InBuffer(t, p) :
            \/ /\ rows[i].index <= lastIndex
               /\ rows'[i].status = "printed" /\ rows'[i].printer = rows[i].printer
            \/ /\ lastIndex <= 0 \/ rows[i].index > lastIndex
               /\ rows'[i].status = "pending" /\ rows'[i].printer = NoPrinter
  BY ReconcileStep DEF IInv
<1>2. \A u \in Tasks, q \in Printers : LaneOf(u, q)' = LaneOf(u, q)
  BY <1>1 DEF LaneOf, InLane, Parity, Ids
<1>3. \A u \in Tasks, q \in Printers : \A i \in Ids : u # t \/ q # p =>
         (i \in AssignedTo(u, q)' <=> i \in AssignedTo(u, q))
  BY <1>1, ParameterAssumption DEF InBuffer, AssignedTo, Ids
<1>4. \A u \in Tasks, q \in Printers : u # t \/ q # p =>
         AssignedTo(u, q)' = AssignedTo(u, q)
  BY <1>1, <1>3 DEF AssignedTo, Ids
<1>5. \A u \in Tasks, q \in Printers : u # t \/ q # p =>
         \A i \in AssignedTo(u, q) : rows'[i].status = rows[i].status
  BY <1>1 DEF InBuffer, AssignedTo
<1>6. OthersRest(t, p)
  BY <1>2, <1>4, <1>5, LaneRests DEF OthersRest
<1>7. /\ n \in Nat /\ c \in 0..n
      /\ \A i \in A : rows[i].index \in 1..n
      /\ \A i \in A : i \in Confirmed(t, p) <=> rows[i].index <= c
      /\ \A m \in 0..n : Cardinality({i \in A : rows[i].index <= m}) = m
  BY LaneFacts
<1>8. \A i \in A : i \in InBuffer(t, p) <=> i \notin Confirmed(t, p)
  BY ParameterAssumption
     DEF InBuffer, Confirmed, AssignedTo, IInv, Order, AssignmentWellFormed,
         ShardTypeOK, Row, Statuses
<1>9. \A i \in A : (i \in Confirmed(t, p) \/ rows[i].index <= lastIndex) <=> rows[i].index <= upTo
  BY <1>7
<1>10. \A i \in A : /\ i \in A' <=> rows[i].index <= upTo
                    /\ i \in Confirmed(t, p)' <=> rows[i].index <= upTo
  <2>1. ASSUME NEW i \in A, i \in InBuffer(t, p)
        PROVE  /\ i \in A' <=> rows[i].index <= lastIndex
               /\ i \in Confirmed(t, p)' <=> rows[i].index <= lastIndex
    <3>1. i \in Ids /\ rows[i].task = t /\ rows[i].printer = p /\ rows[i].index \in 1..n
      BY <1>7 DEF AssignedTo
    <3>2. rows[i].index <= lastIndex => ~(lastIndex <= 0 \/ rows[i].index > lastIndex)
      BY <1>7, <3>1
    <3> QED
      BY <1>1, <2>1, <3>1, <3>2, ParameterAssumption DEF AssignedTo, Confirmed, Ids
  <2>2. ASSUME NEW i \in A, i \notin InBuffer(t, p)
        PROVE  i \in A' /\ i \in Confirmed(t, p)' /\ i \in Confirmed(t, p)
    BY <1>1, <1>8, <2>2 DEF AssignedTo, Confirmed, Ids
  <2> QED
    BY <1>8, <1>9, <2>1, <2>2
<1>11. A' \subseteq A
  BY <1>1, ParameterAssumption DEF InBuffer, AssignedTo, Ids
<1>12. A' = {i \in A : rows[i].index <= upTo}
       /\ Confirmed(t, p)' = {i \in A : rows[i].index <= upTo}
  BY <1>10, <1>11 DEF Confirmed
<1>13. upTo \in 0..n
  BY <1>7
<1>14. Cardinality(A') = upTo /\ Cardinality(Confirmed(t, p)') = upTo
  <2> HIDE DEF upTo, n, A
  <2> QED
    BY <1>7, <1>12, <1>13 DEF A
<1> QED
  BY <1>2, <1>6, <1>14 DEF Lane!Reconcile, Lane!UpTo

\* Every transaction is one of its lane's, with the same index or limit, and
\* leaves the other lanes alone.  So modules that have a lane as three numbers
\* do with them what the table does with its rows.
THEOREM TransactionsAreLaneSteps == ShardSpec => LaneSteps
<1>1. ASSUME IInv, NoGap, IInv', NoGap', NEW t \in Tasks
      PROVE  /\ \A items \in Batches : AppendTaskCodes(t, items) =>
                   \A u \in Tasks, p \in Printers :
                       IF u = t THEN Lane(u, p)!Deliver ELSE UNCHANGED Lane(u, p)!laneVars
             /\ \A p \in Printers :
                   /\ \A limit \in Limits : FetchAndAssignCodes(t, p, limit) =>
                         Lane(t, p)!Fetch(limit) /\ OthersRest(t, p)
                   /\ \A lastIndex \in 0..MaxRows :
                         /\ MarkAsPrinted(t, p, lastIndex) =>
                               Lane(t, p)!Mark(lastIndex) /\ OthersRest(t, p)
                         /\ ReconcileAndFinalizeTaskCodes(t, p, lastIndex) =>
                               Lane(t, p)!Reconcile(lastIndex) /\ OthersRest(t, p)
  <2>1. 0..MaxRows \subseteq Nat
    BY ParameterAssumption
  <2> QED
    BY <1>1, <2>1, AppendDelivers, FetchTakes, MarkMarks, ReconcileReturns
<1>2. IInv /\ NoGap /\ IInv' /\ NoGap' =>
         [\A t \in Tasks :
          /\ \A items \in Batches : AppendTaskCodes(t, items) =>
                \A u \in Tasks, p \in Printers :
                    IF u = t THEN Lane(u, p)!Deliver ELSE UNCHANGED Lane(u, p)!laneVars
          /\ \A p \in Printers :
                /\ \A limit \in Limits : FetchAndAssignCodes(t, p, limit) =>
                      Lane(t, p)!Fetch(limit) /\ OthersRest(t, p)
                /\ \A lastIndex \in 0..MaxRows :
                      /\ MarkAsPrinted(t, p, lastIndex) =>
                            Lane(t, p)!Mark(lastIndex) /\ OthersRest(t, p)
                      /\ ReconcileAndFinalizeTaskCodes(t, p, lastIndex) =>
                            Lane(t, p)!Reconcile(lastIndex) /\ OthersRest(t, p)
         ]_shardVars
  BY <1>1
<1> QED
  BY <1>2, OrderInvariant, NoGapInvariant, PTL DEF LaneSteps

\* So each lane goes through the steps of LaneCounts and no others.
THEOREM LanesImplemented == ShardSpec => ImplementsLanes
<1> SUFFICES ASSUME NEW t \in Tasks, NEW p \in Printers
             PROVE  ShardSpec => Lane(t, p)!Spec
  BY DEF ImplementsLanes
<1>1. ShardInit => Lane(t, p)!Init
  BY FS_EmptySet DEF ShardInit, Lane!Init, Confirmed, AssignedTo, LaneOf, Ids
<1>2. ASSUME IInv, NoGap, IInv', NoGap', [ShardNext]_shardVars
      PROVE  [Lane(t, p)!Next]_(Lane(t, p)!laneVars)
  <2>1. ASSUME NEW u \in Tasks, NEW items \in Batches, AppendTaskCodes(u, items)
        PROVE  Lane(t, p)!Deliver
    BY <1>2, <2>1, AppendDelivers
  <2>2. ASSUME NEW u \in Tasks, NEW q \in Printers, NEW limit \in Limits,
               FetchAndAssignCodes(u, q, limit)
        PROVE  Lane(t, p)!Fetch(limit) \/ UNCHANGED Lane(t, p)!laneVars
    BY <1>2, <2>2, FetchTakes DEF OthersRest
  <2>3. ASSUME NEW u \in Tasks, NEW q \in Printers, NEW n \in 0..MaxRows,
               MarkAsPrinted(u, q, n)
        PROVE  Lane(t, p)!Mark(n) \/ UNCHANGED Lane(t, p)!laneVars
    BY <1>2, <2>3, ParameterAssumption, MarkMarks DEF OthersRest
  <2>4. ASSUME NEW u \in Tasks, NEW q \in Printers, NEW n \in 0..MaxRows,
               ReconcileAndFinalizeTaskCodes(u, q, n)
        PROVE  Lane(t, p)!Reconcile(n) \/ UNCHANGED Lane(t, p)!laneVars
    BY <1>2, <2>4, ParameterAssumption, ReconcileReturns DEF OthersRest
  <2>5. CASE UNCHANGED shardVars
    <3>1. rows' = rows /\ lastId' = lastId
      BY <2>5 DEF shardVars
    <3>2. /\ LaneOf(t, p)' = LaneOf(t, p) /\ AssignedTo(t, p)' = AssignedTo(t, p)
          /\ Confirmed(t, p)' = Confirmed(t, p)
      BY <3>1 DEF LaneOf, AssignedTo, Confirmed, InLane, Parity, Ids
    <3> QED
      BY <3>2 DEF Lane!laneVars
  <2>6. Limits \subseteq Nat /\ 0..MaxRows \subseteq Nat
    BY ParameterAssumption DEF Limits
  <2> QED
    BY <1>2, <2>1, <2>2, <2>3, <2>4, <2>5, <2>6 DEF ShardNext, Lane!Next
<1> QED
  BY <1>1, <1>2, OrderInvariant, NoGapInvariant, PTL DEF ShardSpec, Lane!Spec
=============================================================================

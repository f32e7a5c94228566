--------------------------- MODULE MarkemLineProofs ---------------------------
(***************************************************************************)
(* Proofs about MarkemLine, for every number of codes, limit and initial   *)
(* count.  Until a task is resumed, and if no batch is sent twice, codes   *)
(* are applied in order; the queue is bounded, if moreover no answer shows *)
(* another counter (driver.go:328-333) and no reset of the batch counter   *)
(* is noticed in the middle of a reading; and if every batch gets through, *)
(* the driver's counts are as good as an index.                            *)
(***************************************************************************)
EXTENDS MarkemLine, SequenceTheorems, TLAPS

-----------------------------------------------------------------------------
(* Types, under every event.                                                *)

Numbers ==
    /\ delivered \in 0..MaxCodes /\ taken \in 0..delivered /\ confirmed \in 0..taken
    /\ totalSent \in Nat /\ baseCount \in Nat /\ lastPrintedCalculated \in Nat
    /\ count \in Nat /\ stops \in 0..MaxStops

PumpPlaces == {"none", "tick", "count", "answer", "space", "fetch", "send", "tally"}
PumpType == [pc : PumpPlaces, hw : Nat, room : 0..MaxBatch, batch : Seq(1..MaxCodes)]
PollerType ==
    [pc : {"visit", "visitAnswer", "space", "count", "answer", "index", "mark"}, hw : Nat]
StopType == [pc : {"idle", "count", "answer", "index", "reconcile", "clear", "recount",
                   "reanswer", "rebase"},
             hw : Nat]

\* A count that is read is a number.
LEMMA CountType ==
    ASSUME TypeOK, NEW c \in Counts
    PROVE  c.hw \in Nat /\ c.asked \in BOOLEAN
<1>1. /\ count \in Nat /\ baseCount + lastPrintedCalculated \in Nat
      /\ \A hw \in AllocCounts : hw \in Nat
  BY MarkemAssumption DEF TypeOK
<1>2. \/ c.asked = TRUE /\ c.hw \in {count, 0} \cup AllocCounts
      \/ c.asked = FALSE /\ c.hw = baseCount + lastPrintedCalculated
  <2>1. CASE \E hw \in {count, 0} \cup AllocCounts : c = [asked |-> TRUE, hw |-> hw]
    BY <2>1
  <2>2. CASE c = [asked |-> FALSE, hw |-> baseCount + lastPrintedCalculated]
    BY <2>2
  <2> QED
    BY <2>1, <2>2 DEF Counts
<1>3. c.hw \in Nat
  BY <1>1, <1>2
<1>4. c.asked \in BOOLEAN
  BY <1>2
<1> QED
  BY <1>3, <1>4

\* So is the base it may lower.
LEMMA BaseType ==
    ASSUME TypeOK, NEW hw \in Nat, NEW held, GetCurrentPrintCount(hw, held)
    PROVE  baseCount' \in Nat
  BY DEF TypeOK, GetCurrentPrintCount

\* What PollCount and StopCount do with a count.
PollAsks(c) ==
    poller' = [pc |-> CASE poller.pc = "visit" /\ c.asked -> "visitAnswer"
                        [] poller.pc = "visit" /\ ~c.asked -> "space"
                        [] poller.pc = "count" /\ c.asked -> "answer"
                        [] poller.pc = "count" /\ ~c.asked -> "index",
               hw |-> c.hw]

StopAsks(c) ==
    stop' = [pc |-> CASE stop.pc = "count" /\ c.asked -> "answer"
                      [] stop.pc = "count" /\ ~c.asked -> "index"
                      [] stop.pc = "recount" /\ c.asked -> "reanswer"
                      [] stop.pc = "recount" /\ ~c.asked -> "rebase",
             hw |-> c.hw]

LEMMA CountedType ==
    ASSUME TypeOK, NEW hw \in Nat
    PROVE  Remembered(hw) \in Nat /\ LastPrintedIndex(hw) \in Nat
  BY DEF TypeOK, Remembered, LastPrintedIndex

LEMMA ConfirmType ==
    ASSUME TypeOK, NEW index \in Nat
    PROVE  Lane!UpTo(index) \in confirmed..taken
  BY DEF TypeOK, Lane!UpTo

LEMMA FreshPumpType == NoPump \in PumpType /\ FreshPump \in PumpType
<1>1. <<>> \in Seq(1..MaxCodes)
  BY EmptySeq
<1>2. NoPump \in PumpType
  BY <1>1, MarkemAssumption DEF NoPump, PumpType, PumpPlaces
<1>3. \A p \in PumpType : [p EXCEPT !.pc = "tick"] \in PumpType
  BY DEF PumpType, PumpPlaces
<1> QED
  BY <1>2, <1>3 DEF FreshPump

LEMMA NumbersType == TypeOK => Numbers
  BY DEF TypeOK, Numbers

LEMMA RoomType == TypeOK => pump.room \in Nat /\ pump.room <= MaxBatch
  BY MarkemAssumption DEF TypeOK

LEMMA FetchedType ==
    ASSUME TypeOK, pump.pc = "fetch",
           NEW last, last = IF taken + pump.room < delivered THEN taken + pump.room ELSE delivered
    PROVE  /\ last \in taken..delivered /\ last - taken <= pump.room
           /\ [k \in 1..(last - taken) |-> taken + k] \in Seq(1..MaxCodes)
<1> DEFINE batch == [k \in 1..(last - taken) |-> taken + k]
<1>1. /\ MaxCodes \in Nat /\ taken \in Nat /\ delivered \in Nat /\ pump.room \in Nat
      /\ taken <= delivered /\ delivered <= MaxCodes
  BY NumbersType, RoomType, MarkemAssumption DEF Numbers
<1>2. last \in taken..delivered /\ last - taken <= pump.room /\ last - taken \in Nat
  BY <1>1
<1>5. \A k \in 1..(last - taken) : taken + k \in 1..MaxCodes
  BY <1>1, <1>2
<1>3. batch \in [1..(last - taken) -> 1..MaxCodes]
  BY <1>5
<1>4. batch \in Seq(1..MaxCodes)
  <2> DEFINE n == last - taken
  <2>1. n \in Nat /\ batch \in [1..n -> 1..MaxCodes]
    BY <1>2, <1>3
  <2> HIDE DEF n, batch
  <2> QED
    BY <2>1, SeqDef
<1> QED
  BY <1>2, <1>4

\* A step of one goroutine.
LEMMA TypeParts ==
    ASSUME Numbers', taskStatus' \in {"active", "stopped"}, pump' \in PumpType,
           poller' \in PollerType, stop' \in StopType,
           queue' \in Seq(1..MaxCodes), labels' \in Seq(1..MaxCodes)
    PROVE  TypeOK'
  BY DEF Numbers, PumpType, PumpPlaces, PollerType, StopType, TypeOK

LEMMA TypeInit == Init => TypeOK
  BY MarkemAssumption DEF Init, Lane!Init, TypeOK, NoPump

LEMMA TypeStep == TypeOK /\ [Next]_vars => TypeOK'
<1> SUFFICES ASSUME TypeOK, [Next]_vars
             PROVE  TypeOK'
  OBVIOUS
<1> USE MarkemAssumption
<1> USE DEF tableVars, driverVars, printerVars
<1>1. CASE Label
  BY <1>1 DEF Label, TypeOK
<1>2. CASE CounterReset
  BY <1>2 DEF CounterReset, TypeOK
<1>3. CASE extractAndSaveHwCount
  BY <1>3 DEF extractAndSaveHwCount, TypeOK
<1>4. CASE PumpStatus
  BY <1>4, FreshPumpType DEF PumpStatus, TypeOK, PumpType, PumpPlaces
<1>5. CASE PumpCount
  <2>1. PICK c \in Counts :
           pump' = [pump EXCEPT !.pc = IF c.asked THEN "answer" ELSE "space", !.hw = c.hw]
    BY <1>5 DEF PumpCount
  <2>2. c.hw \in Nat /\ c.asked \in BOOLEAN
    BY CountType
  <2> QED
    BY <1>5, <2>1, <2>2 DEF PumpCount, TypeOK
<1>6. CASE PumpSpace
  <2>1. Remembered(pump.hw) \in Nat
    BY CountedType DEF TypeOK
  <2>2. FreeSpace(pump.hw) \in Int
    BY <2>1 DEF FreeSpace, Buffered, TypeOK
  <2>3. pump' \in PumpType
    <3> DEFINE free == FreeSpace(pump.hw)
               room == IF free > MaxBatch THEN MaxBatch ELSE free
    <3>1. pump' = FreshPump \/ (free > 0 /\ pump' = [pump EXCEPT !.pc = "fetch", !.room = room])
      BY <1>6, <2>2 DEF PumpSpace
    <3>2. free > 0 => room \in 0..MaxBatch
      BY <2>2
    <3> HIDE DEF free, room
    <3> QED
      BY <3>1, <3>2, FreshPumpType DEF TypeOK, PumpType, PumpPlaces
  <2> QED
    BY <1>6, <2>1, <2>3 DEF PumpSpace, TypeOK, PumpType, PumpPlaces
<1>7. CASE PumpFetch
  <2> DEFINE last == IF taken + pump.room < delivered THEN taken + pump.room ELSE delivered
             batch == [k \in 1..(last - taken) |-> taken + k]
  <2>1. last \in taken..delivered /\ batch \in Seq(1..MaxCodes)
    BY <1>7, FetchedType DEF PumpFetch, Lane!Fetch
  <2>2. /\ taken' = last
        /\ pump' = IF last = taken THEN FreshPump
                   ELSE [pump EXCEPT !.pc = "send", !.batch = batch]
        /\ UNCHANGED <<confirmed, delivered, taskStatus, poller, stop, driverVars,
                       printerVars, stops>>
    BY <1>7 DEF PumpFetch, Lane!Fetch
  <2> HIDE DEF last, batch
  <2>3. pump' \in PumpType
    BY <2>1, <2>2, FreshPumpType DEF TypeOK, PumpType, PumpPlaces
  <2>4. Numbers'
    BY <2>1, <2>2, NumbersType DEF Numbers
  <2> QED
    BY <2>2, <2>3, <2>4, TypeParts DEF TypeOK, PollerType, StopType
<1>8. CASE PumpSend
  <2>1. /\ queue' \in {queue, queue \o pump.batch, queue \o pump.batch \o pump.batch}
        /\ pump' \in {[pump EXCEPT !.pc = "tally"], FreshPump}
    BY <1>8 DEF PumpSend
  <2>2. queue' \in Seq(1..MaxCodes)
    <3>1. queue \in Seq(1..MaxCodes) /\ pump.batch \in Seq(1..MaxCodes)
      BY DEF TypeOK
    <3>2. queue \o pump.batch \in Seq(1..MaxCodes)
      BY <3>1, ConcatProperties
    <3>3. queue \o pump.batch \o pump.batch \in Seq(1..MaxCodes)
      BY <3>1, <3>2, ConcatProperties
    <3> QED
      BY <2>1, <3>1, <3>2, <3>3
  <2>3. pump' \in PumpType
    BY <2>1, FreshPumpType DEF TypeOK, PumpType, PumpPlaces
  <2> QED
    BY <1>8, <2>2, <2>3 DEF PumpSend, TypeOK, PumpType, PumpPlaces
<1>9. CASE PumpTally
  <2>1. totalSent' \in Nat /\ pump' \in PumpType
    BY <1>9, FreshPumpType DEF PumpTally, Tally, TypeOK
  <2> QED
    BY <1>9, <2>1 DEF PumpTally, TypeOK, PumpType, PumpPlaces
<1>10. CASE PollCount
  <2>1. PICK c \in Counts : PollAsks(c)
    BY <1>10 DEF PollCount, PollAsks
  <2>2. c.hw \in Nat /\ c.asked \in BOOLEAN
    BY CountType
  <2>3. poller' \in PollerType
    BY <1>10, <2>1, <2>2 DEF PollCount, PollAsks, PollerType
  <2> QED
    BY <1>10, <2>3 DEF PollCount, TypeOK, PollerType
<1>11. CASE PollSpace
  <2>1. Remembered(poller.hw) \in Nat
    BY CountedType DEF TypeOK
  <2> QED
    BY <1>11, <2>1 DEF PollSpace, TypeOK
<1>12. CASE PollIndex
  <2>1. LastPrintedIndex(poller.hw) \in Nat
    BY CountedType DEF TypeOK
  <2> QED
    BY <1>12, <2>1 DEF PollIndex, TypeOK
<1>13. CASE PollMark
  <2>1. Lane!UpTo(poller.hw) \in confirmed..taken
    BY ConfirmType DEF TypeOK
  <2>2. poller' \in PollerType
    BY <1>13 DEF PollMark, TypeOK, PollerType
  <2>3. Numbers'
    BY <1>13, <2>1, NumbersType DEF PollMark, Lane!Mark, Numbers
  <2> QED
    BY <1>13, <2>2, <2>3, TypeParts DEF PollMark, Lane!Mark, TypeOK, StopType, PumpType, PumpPlaces
<1>14. CASE TaskAppend
  <2>1. pump' \in PumpType
    BY <1>14, FreshPumpType DEF TaskAppend, TypeOK, PumpType, PumpPlaces
  <2>2. Numbers'
    BY <1>14, NumbersType DEF TaskAppend, Numbers
  <2> QED
    BY <1>14, <2>1, <2>2, TypeParts DEF TaskAppend, TypeOK, PollerType, StopType
<1>15. CASE StopRequest
  BY <1>15 DEF StopRequest, TypeOK
<1>16. CASE StopCount
  <2>1. PICK c \in Counts : StopAsks(c)
    BY <1>16 DEF StopCount, StopAsks
  <2>2. c.hw \in Nat /\ c.asked \in BOOLEAN
    BY CountType
  <2>3. stop' \in StopType
    BY <1>16, <2>1, <2>2 DEF StopCount, StopAsks, StopType
  <2> QED
    BY <1>16, <2>3 DEF StopCount, TypeOK, StopType
<1>17. CASE StopIndex
  <2>1. LastPrintedIndex(stop.hw) \in Nat
    BY CountedType DEF TypeOK
  <2> QED
    BY <1>17, <2>1 DEF StopIndex, TypeOK
<1>18. CASE StopReconcile
  <2>1. Lane!UpTo(stop.hw) \in confirmed..taken
    BY ConfirmType DEF TypeOK
  <2>2. stop' \in StopType
    BY <1>18 DEF StopReconcile, TypeOK, StopType
  <2>3. Numbers'
    BY <1>18, <2>1, NumbersType DEF StopReconcile, Lane!Reconcile, Numbers
  <2> QED
    BY <1>18, <2>2, <2>3, TypeParts DEF StopReconcile, Lane!Reconcile, TypeOK, PollerType, PumpType, PumpPlaces
<1>19. CASE StopClear
  <2>1. stop' \in StopType /\ queue' \in Seq(1..MaxCodes)
    BY <1>19, EmptySeq DEF StopClear, TypeOK, StopType
  <2> QED
    BY <1>19, <2>1 DEF StopClear, TypeOK, StopType
<1>20. CASE StopRebase
  BY <1>20 DEF StopRebase, TypeOK
<1>21. CASE UNCHANGED vars
  BY <1>21 DEF vars, TypeOK
<1>22. CASE PumpAnswer
  <2>1. baseCount' \in Nat
    BY <1>22, BaseType DEF PumpAnswer, TypeOK
  <2> QED
    BY <1>22, <2>1 DEF PumpAnswer, TypeOK
<1>23. CASE PollAnswer
  <2>1. baseCount' \in Nat
    BY <1>23, BaseType DEF PollAnswer, TypeOK
  <2> QED
    BY <1>23, <2>1 DEF PollAnswer, TypeOK
<1>24. CASE StopAnswer
  <2>1. baseCount' \in Nat
    BY <1>24, BaseType DEF StopAnswer, TypeOK
  <2> QED
    BY <1>24, <2>1 DEF StopAnswer, TypeOK
<1> QED
  BY <1>1, <1>2, <1>3, <1>4, <1>5, <1>6, <1>7, <1>8, <1>9, <1>10, <1>11, <1>12, <1>13,
     <1>14, <1>15, <1>16, <1>17, <1>18, <1>19, <1>20, <1>21, <1>22, <1>23, <1>24
     DEF Next, Pump, Poll, Stop

\* The rows, the counters, the queue and the goroutines keep their types,
\* whatever is lost, resumed, reset or counted wrongly.
THEOREM TypeCorrect == Spec => []TypeOK
  BY TypeInit, TypeStep, PTL DEF Spec

-----------------------------------------------------------------------------
(* What all that follows rests on.                                          *)

Applied == Len(labels)
Queued == Len(queue)

\* The task is active, or its stop has still to settle its rows.
Live == taskStatus = "active" \/ stop.pc \in {"count", "answer", "index", "reconcile"}

\* A stop finds the pump at rest and nothing starts it again.
Halted ==
    /\ stop.pc # "idle" => taskStatus = "stopped"
    /\ taskStatus = "stopped" => pump.pc \in {"none", "tick"}

LEMMA Lengths ==
    ASSUME TypeOK
    PROVE  /\ Applied \in Nat /\ Queued \in Nat /\ Len(pump.batch) \in Nat
           /\ DOMAIN labels = 1..Applied /\ DOMAIN queue = 1..Queued
<1>1. labels \in Seq(1..MaxCodes) /\ queue \in Seq(1..MaxCodes) /\ pump.batch \in Seq(1..MaxCodes)
  BY DEF TypeOK
<1> QED
  BY <1>1, LenProperties DEF Applied, Queued

LEMMA HaltedInit == Init => Halted
  BY DEF Init, Halted, NoPump

LEMMA HaltedStep ==
    ASSUME TypeOK, "resume" \notin Events, Halted, [Next]_vars
    PROVE  Halted'
<1>1. /\ taskStatus \in {"active", "stopped"} /\ pump \in PumpType
      /\ stop \in StopType
  BY DEF TypeOK, PumpType, PumpPlaces, StopType
<1>2. CASE Pump
  <2>1. UNCHANGED <<taskStatus, stop>> /\ pump.pc # "none"
    BY <1>2 DEF Pump, PumpStatus, PumpCount, PumpAnswer, PumpSpace, PumpFetch, PumpSend, PumpTally
  <2>2. taskStatus = "stopped" => PumpStatus
    BY <1>2 DEF Halted, Pump, PumpCount, PumpAnswer, PumpSpace, PumpFetch, PumpSend, PumpTally
  <2>3. taskStatus = "stopped" => pump' = NoPump
    BY <2>2 DEF PumpStatus
  <2> QED
    BY <2>1, <2>3 DEF Halted, NoPump
<1>3. CASE TaskAppend
  BY <1>1, <1>3 DEF TaskAppend, Halted
<1>4. CASE StopRequest
  BY <1>4 DEF StopRequest, Halted
<1>5. CASE Stop
  <2>1. UNCHANGED <<taskStatus, pump>> /\ stop.pc # "idle"
    BY <1>5 DEF Stop, StopCount, StopAnswer, StopIndex, StopReconcile, StopClear, StopRebase
  <2> QED
    BY <2>1 DEF Halted
<1>6. CASE UNCHANGED <<taskStatus, pump, stop>>
  BY <1>6 DEF Halted
<1> QED
  BY <1>2, <1>3, <1>4, <1>5, <1>6
     DEF Next, Label, CounterReset, extractAndSaveHwCount, Poll, PollCount, PollAnswer, PollSpace,
         PollIndex, PollMark, vars

\* A step that leaves the printer's codes alone.
LEMMA CodesStay ==
    ASSUME UNCHANGED <<queue, labels>>
    PROVE  Applied' = Applied /\ Queued' = Queued
  BY DEF Applied, Queued

\* A product passes: the first code of the queue is the last of the labels.
LEMMA LabelMoves ==
    ASSUME TypeOK, Label
    PROVE  /\ Applied' = Applied + 1 /\ Queued' = Queued - 1 /\ Queued > 0
           /\ \A k \in 1..Applied : labels'[k] = labels[k]
           /\ labels'[Applied + 1] = queue[1]
           /\ \A k \in 1..(Queued - 1) : queue'[k] = queue[k + 1]
           /\ UNCHANGED <<confirmed, taken, delivered, taskStatus, pump, poller, stop,
                          totalSent, baseCount, lastPrintedCalculated>>
<1>1. /\ queue \in Seq(1..MaxCodes) /\ labels \in Seq(1..MaxCodes) /\ queue # <<>>
      /\ labels' = Append(labels, Head(queue)) /\ queue' = Tail(queue)
      /\ UNCHANGED <<confirmed, taken, delivered, taskStatus, pump, poller, stop, totalSent,
                     baseCount, lastPrintedCalculated>>
  BY DEF Label, TypeOK, tableVars, driverVars
<1>2. Len(queue) \in Nat \ {0} /\ Head(queue) \in 1..MaxCodes
  BY <1>1, EmptySeq, HeadTailProperties
<1>3. Head(queue) = queue[1]
  OBVIOUS
<1> QED
  BY <1>1, <1>2, <1>3, HeadTailProperties, AppendProperties DEF Applied, Queued

\* A batch arrives once, or not at all.
LEMMA SendMoves ==
    ASSUME TypeOK, "ackLost" \notin Events, PumpSend
    PROVE  /\ pump.pc = "send" /\ Applied' = Applied /\ labels' = labels
           /\ \/ /\ pump'.pc = "tally" /\ pump'.batch = pump.batch
                 /\ Queued' = Queued + Len(pump.batch)
                 /\ \A k \in 1..(Queued + Len(pump.batch)) :
                       queue'[k] = IF k <= Queued THEN queue[k] ELSE pump.batch[k - Queued]
              \/ /\ "sendFails" \in Events
                 /\ pump'.pc = "tick" /\ queue' = queue /\ Queued' = Queued
           /\ UNCHANGED <<confirmed, taken, taskStatus, poller, stop, totalSent, baseCount,
                          lastPrintedCalculated, count>>
<1>1. /\ pump.pc = "send"
      /\ \/ queue' = queue \o pump.batch /\ pump' = [pump EXCEPT !.pc = "tally"]
         \/ "sendFails" \in Events /\ queue' = queue /\ pump' = FreshPump
      /\ UNCHANGED <<confirmed, taken, taskStatus, poller, stop, totalSent, baseCount,
                     lastPrintedCalculated, count, labels>>
  BY DEF PumpSend, sendSOAPWaitACK, tableVars, driverVars
<1>2. queue \in Seq(1..MaxCodes) /\ pump.batch \in Seq(1..MaxCodes) /\ pump \in PumpType
  BY DEF TypeOK, PumpType, PumpPlaces
<1>3. Applied' = Applied
  BY <1>1 DEF Applied
<1>4. CASE queue' = queue \o pump.batch /\ pump' = [pump EXCEPT !.pc = "tally"]
  <2>1. pump'.pc = "tally" /\ pump'.batch = pump.batch
    BY <1>2, <1>4 DEF PumpType
  <2>2. /\ Queued' = Queued + Len(pump.batch)
        /\ \A k \in 1..(Queued + Len(pump.batch)) :
              queue'[k] = IF k <= Queued THEN queue[k] ELSE pump.batch[k - Queued]
    BY <1>2, <1>4, ConcatProperties DEF Queued
  <2> QED
    BY <1>1, <1>3, <2>1, <2>2
<1>5. CASE "sendFails" \in Events /\ queue' = queue /\ pump' = FreshPump
  <2>1. pump'.pc = "tick" /\ Queued' = Queued
    BY <1>5 DEF FreshPump, NoPump, Queued
  <2> QED
    BY <1>1, <1>3, <1>5, <2>1
<1> QED
  BY <1>1, <1>4, <1>5

\* A fetch takes the next codes, at most as many as there is room for.
LEMMA FetchMoves ==
    ASSUME TypeOK, PumpFetch
    PROVE  /\ pump.pc = "fetch"
           /\ \/ pump'.pc = "tick" /\ taken' = taken
              \/ /\ pump'.pc = "send" /\ taken' = taken + Len(pump'.batch)
                 /\ Len(pump'.batch) \in Nat /\ Len(pump'.batch) <= pump.room
                 /\ \A k \in 1..Len(pump'.batch) : pump'.batch[k] = taken + k
           /\ UNCHANGED <<confirmed, taskStatus, poller, stop, totalSent, baseCount,
                          lastPrintedCalculated, queue, count, labels>>
<1> DEFINE last == IF taken + pump.room < delivered THEN taken + pump.room ELSE delivered
           batch == [k \in 1..(last - taken) |-> taken + k]
<1>1. /\ pump.pc = "fetch" /\ taken' = last
      /\ pump' = IF last = taken THEN FreshPump ELSE [pump EXCEPT !.pc = "send", !.batch = batch]
      /\ UNCHANGED <<confirmed, taskStatus, poller, stop, totalSent, baseCount,
                     lastPrintedCalculated, queue, count, labels>>
  BY DEF PumpFetch, Lane!Fetch, driverVars, printerVars
<1>2. /\ last \in taken..delivered /\ last - taken <= pump.room
      /\ batch \in Seq(1..MaxCodes) /\ pump.room \in Nat /\ taken \in Nat /\ delivered \in Nat
  <2>1. pump.room \in Nat /\ taken \in Nat /\ delivered \in Nat
    BY MarkemAssumption DEF TypeOK
  <2> QED
    BY <1>1, <2>1, FetchedType
<1>3. Len(batch) = last - taken /\ \A k \in 1..(last - taken) : batch[k] = taken + k
  BY <1>2, LenProperties
<1>4. pump \in PumpType
  BY DEF TypeOK, PumpType, PumpPlaces
<1> HIDE DEF last, batch
<1>5. CASE last = taken
  <2>1. pump'.pc = "tick"
    BY <1>1, <1>5 DEF FreshPump, NoPump
  <2> QED
    BY <1>1, <1>5, <2>1
<1>6. CASE last # taken
  <2>1. pump'.pc = "send" /\ pump'.batch = batch
    BY <1>1, <1>4, <1>6 DEF PumpType
  <2> QED
    BY <1>1, <1>2, <1>3, <2>1
<1> QED
  BY <1>5, <1>6

\* The pump's other steps neither begin nor end with a batch to be sent.
LEMMA OtherPumpSteps ==
    ASSUME TypeOK, PumpStatus \/ PumpCount \/ PumpAnswer \/ PumpSpace \/ PumpTally
    PROVE  pump.pc # "send" /\ pump'.pc # "send"
<1>1. pump.pc \in {"tick", "count", "answer", "space", "tally"} /\ pump \in PumpType
  BY DEF PumpStatus, PumpCount, PumpAnswer, PumpSpace, PumpTally, TypeOK, PumpType, PumpPlaces
<1>2. CASE PumpStatus
  BY <1>1, <1>2 DEF PumpStatus, NoPump, PumpType
<1>3. CASE PumpCount
  BY <1>1, <1>3 DEF PumpCount, PumpType
<1>6. CASE PumpAnswer
  BY <1>1, <1>6 DEF PumpAnswer, PumpType
<1>4. CASE PumpSpace
  <2>1. PICK room : pump' \in {FreshPump, [pump EXCEPT !.pc = "fetch", !.room = room]}
    BY <1>4 DEF PumpSpace
  <2> QED
    BY <1>1, <2>1 DEF FreshPump, NoPump, PumpType
<1>5. CASE PumpTally
  BY <1>1, <1>5 DEF PumpTally, FreshPump, NoPump
<1> QED
  BY <1>1, <1>2, <1>3, <1>4, <1>5, <1>6

-----------------------------------------------------------------------------
(* Labels in order.  Where a batch arrives at most once, the codes on       *)
(* labels, in the queue and in the pump's hands rise, and the next fetch    *)
(* goes past all of them; which counts are right has no part in it.         *)

OnceOnly == Events \cap {"resume", "ackLost"} = {}

\* The codes taken, without those in the pump's hands.
Given == IF pump.pc = "send" THEN taken - Len(pump.batch) ELSE taken

Rising ==
    /\ \A k, l \in 1..Applied : k < l => labels[k] < labels[l]
    /\ \A k, l \in 1..Queued : k < l => queue[k] < queue[l]
    /\ \A k \in 1..Applied, l \in 1..Queued : labels[k] < queue[l]

Behind ==
    Live => /\ \A k \in 1..Applied : labels[k] <= Given
            /\ \A k \in 1..Queued : queue[k] <= Given
            /\ pump.pc = "send" =>
                  \A k \in 1..Len(pump.batch) : pump.batch[k] = Given + k

OrderInv == Rising /\ Behind

LEMMA OrderInit == Init => OrderInv
<1> SUFFICES ASSUME Init
             PROVE  OrderInv
  OBVIOUS
<1>1. Applied = 0 /\ Queued = 0 /\ pump.pc = "none"
  BY EmptySeq DEF Init, Applied, Queued, NoPump
<1> QED
  BY <1>1 DEF OrderInv, Rising, Behind

\* The codes are numbers.
LEMMA CodesAreNumbers ==
    ASSUME TypeOK
    PROVE  /\ \A k \in 1..Applied : labels[k] \in Nat
           /\ \A k \in 1..Queued : queue[k] \in Nat
           /\ taken \in Nat /\ Given \in Int
<1>1. labels \in Seq(1..MaxCodes) /\ queue \in Seq(1..MaxCodes) /\ MaxCodes \in Nat
  BY MarkemAssumption DEF TypeOK
<1>2. \A k \in 1..Applied : labels[k] \in 1..MaxCodes
  BY <1>1, ElementOfSeq DEF Applied
<1>3. \A k \in 1..Queued : queue[k] \in 1..MaxCodes
  BY <1>1, ElementOfSeq DEF Queued
<1>4. taken \in Nat
  BY NumbersType, MarkemAssumption DEF Numbers
<1> QED
  BY <1>1, <1>2, <1>3, <1>4, Lengths DEF Given

\* A step that moves no code and takes none.
LEMMA OrderStays ==
    ASSUME OrderInv, UNCHANGED <<queue, labels>>, Live' => Live /\ taken' = taken,
           pump' = pump \/ (pump.pc # "send" /\ pump'.pc # "send")
    PROVE  OrderInv'
<1>1. Applied' = Applied /\ Queued' = Queued
  BY CodesStay
<1>2. Rising'
  BY <1>1 DEF OrderInv, Rising
<1>3. ASSUME Live' PROVE Behind'
  <2>1. Live /\ Given' = Given
    BY <1>3 DEF Given
  <2> QED
    BY <1>1, <2>1 DEF OrderInv, Behind
<1>4. ASSUME ~Live' PROVE Behind'
  BY <1>4 DEF Behind
<1> QED
  BY <1>2, <1>3, <1>4 DEF OrderInv

LEMMA OrderLabel ==
    ASSUME TypeOK, OrderInv, Label
    PROVE  OrderInv'
<1>1. Applied \in Nat /\ Queued \in Nat
  BY Lengths
<1>2. /\ \A k \in 1..Applied : labels[k] \in Nat
      /\ \A k \in 1..Queued : queue[k] \in Nat
  BY CodesAreNumbers
<1>3. /\ Applied' = Applied + 1 /\ Queued' = Queued - 1 /\ Queued > 0
      /\ \A k \in 1..Applied : labels'[k] = labels[k]
      /\ labels'[Applied + 1] = queue[1]
      /\ \A k \in 1..(Queued - 1) : queue'[k] = queue[k + 1]
      /\ UNCHANGED <<taken, taskStatus, pump, stop>>
  BY LabelMoves
<1>4. \A k \in 1..Applied' : \/ k \in 1..Applied /\ labels'[k] = labels[k]
                             \/ k = Applied + 1 /\ labels'[k] = queue[1]
  BY <1>1, <1>3
<1>5. \A k \in 1..Queued' : k + 1 \in 1..Queued /\ queue'[k] = queue[k + 1]
  BY <1>1, <1>3
<1>6. Rising
  BY DEF OrderInv
<1>7. \A k, l \in 1..Applied' : k < l => labels'[k] < labels'[l]
  BY <1>1, <1>3, <1>4, <1>6 DEF Rising
<1>8. \A k, l \in 1..Queued' : k < l => queue'[k] < queue'[l]
  BY <1>1, <1>5, <1>6 DEF Rising
<1>9. \A k \in 1..Applied', l \in 1..Queued' : labels'[k] < queue'[l]
  BY <1>1, <1>3, <1>4, <1>5, <1>6 DEF Rising
<1>10. Behind'
  <2>1. (Live' <=> Live) /\ Given' = Given
    BY <1>3 DEF Live, Given
  <2>2. 1 \in 1..Queued
    BY <1>1, <1>3
  <2> QED
    BY <1>3, <1>4, <1>5, <2>1, <2>2 DEF OrderInv, Behind
<1> QED
  BY <1>7, <1>8, <1>9, <1>10 DEF OrderInv, Rising

LEMMA OrderFetch ==
    ASSUME TypeOK, OrderInv, PumpFetch
    PROVE  OrderInv'
<1>1. /\ pump.pc = "fetch" /\ UNCHANGED <<queue, labels, taskStatus, stop>>
      /\ \/ pump'.pc = "tick" /\ taken' = taken
         \/ /\ pump'.pc = "send" /\ taken' = taken + Len(pump'.batch)
            /\ Len(pump'.batch) \in Nat
            /\ \A k \in 1..Len(pump'.batch) : pump'.batch[k] = taken + k
  BY FetchMoves
<1>2. taken \in Nat
  BY CodesAreNumbers
<1>3. (Live' <=> Live) /\ Applied' = Applied /\ Queued' = Queued
  BY <1>1, CodesStay DEF Live
<1>4. Given = taken /\ Given' = taken
  BY <1>1, <1>2 DEF Given
<1>5. Rising'
  BY <1>1, <1>3 DEF OrderInv, Rising
<1>6. Behind'
  BY <1>1, <1>3, <1>4 DEF OrderInv, Behind
<1> QED
  BY <1>5, <1>6 DEF OrderInv

LEMMA OrderSend ==
    ASSUME TypeOK, OnceOnly, Halted, OrderInv, PumpSend
    PROVE  OrderInv'
<1> DEFINE n == Len(pump.batch)
<1>1. Applied \in Nat /\ Queued \in Nat /\ n \in Nat /\ taken \in Nat /\ Given \in Int
  BY Lengths, CodesAreNumbers
<1>2. /\ \A k \in 1..Applied : labels[k] \in Nat
      /\ \A k \in 1..Queued : queue[k] \in Nat
  BY CodesAreNumbers
<1>3. /\ pump.pc = "send" /\ Applied' = Applied /\ labels' = labels
      /\ \/ /\ pump'.pc = "tally" /\ Queued' = Queued + n
            /\ \A k \in 1..(Queued + n) :
                  queue'[k] = IF k <= Queued THEN queue[k] ELSE pump.batch[k - Queued]
         \/ pump'.pc = "tick" /\ queue' = queue /\ Queued' = Queued
      /\ UNCHANGED <<taken, taskStatus, stop>>
  BY SendMoves DEF OnceOnly
<1>4. Live /\ Live'
  BY <1>3 DEF Halted, Live, TypeOK
<1>5. Given = taken - n /\ Given' = taken
  BY <1>1, <1>3 DEF Given
<1> HIDE DEF n
<1>6. /\ \A k \in 1..Applied : labels[k] <= Given
      /\ \A k \in 1..Queued : queue[k] <= Given
      /\ \A k \in 1..n : pump.batch[k] = Given + k
  BY <1>3, <1>4 DEF OrderInv, Behind, n
<1>7. CASE Queued' = Queued /\ queue' = queue
  <2>1. Rising'
    BY <1>3, <1>7 DEF OrderInv, Rising
  <2>2. Behind'
    BY <1>1, <1>2, <1>3, <1>5, <1>6, <1>7 DEF Behind
  <2> QED
    BY <2>1, <2>2 DEF OrderInv
<1>8. CASE /\ Queued' = Queued + n
           /\ \A k \in 1..(Queued + n) :
                 queue'[k] = IF k <= Queued THEN queue[k] ELSE pump.batch[k - Queued]
  <2>1. \A k \in 1..Queued' : \/ k \in 1..Queued /\ queue'[k] = queue[k]
                              \/ /\ k > Queued /\ queue'[k] = Given + (k - Queued)
                                 /\ k - Queued \in 1..n
    <3> SUFFICES ASSUME NEW k \in 1..Queued'
                 PROVE  \/ k \in 1..Queued /\ queue'[k] = queue[k]
                        \/ /\ k > Queued /\ queue'[k] = Given + (k - Queued)
                           /\ k - Queued \in 1..n
      OBVIOUS
    <3>1. k \in 1..(Queued + n)
      BY <1>8
    <3>2. CASE k <= Queued
      BY <1>1, <1>8, <3>1, <3>2
    <3>3. CASE k > Queued
      <4>1. k - Queued \in 1..n
        BY <1>1, <3>1, <3>3
      <4>2. queue'[k] = pump.batch[k - Queued]
        BY <1>1, <1>8, <3>1, <3>3
      <4> QED
        BY <1>6, <3>3, <4>1, <4>2
    <3> QED
      BY <1>1, <3>1, <3>2, <3>3
  <2>2. \A k, l \in 1..Queued' : k < l => queue'[k] < queue'[l]
    <3> SUFFICES ASSUME NEW k \in 1..Queued', NEW l \in 1..Queued', k < l
                 PROVE  queue'[k] < queue'[l]
      OBVIOUS
    <3>1. CASE l \in 1..Queued
      BY <1>1, <2>1, <3>1 DEF OrderInv, Rising
    <3>2. CASE l > Queued
      BY <1>1, <1>2, <1>6, <2>1, <3>2
    <3> QED
      BY <2>1, <3>1, <3>2
  <2>3. \A k \in 1..Applied', l \in 1..Queued' : labels'[k] < queue'[l]
    BY <1>1, <1>2, <1>3, <1>6, <2>1 DEF OrderInv, Rising
  <2>4. \A k, l \in 1..Applied' : k < l => labels'[k] < labels'[l]
    BY <1>3 DEF OrderInv, Rising
  <2>5. Behind'
    <3>1. \A k \in 1..Queued' : queue'[k] <= taken
      BY <1>1, <1>2, <1>5, <1>6, <2>1
    <3>2. \A k \in 1..Applied' : labels'[k] <= taken
      BY <1>1, <1>2, <1>3, <1>5, <1>6
    <3> QED
      BY <1>3, <1>5, <3>1, <3>2 DEF Behind
  <2> QED
    BY <2>2, <2>3, <2>4, <2>5 DEF OrderInv, Rising
<1> QED
  BY <1>3, <1>7, <1>8

\* A stop reconciles the rows and clears the queue: nothing is sent any more.
LEMMA OrderSettle ==
    ASSUME TypeOK, Halted, OrderInv, StopReconcile \/ StopClear
    PROVE  OrderInv'
<1>1. /\ stop.pc \in {"reconcile", "clear"} /\ stop'.pc \in {"clear", "recount"}
      /\ labels' = labels /\ queue' \in {queue, <<>>} /\ taskStatus' = taskStatus
  BY DEF StopReconcile, Lane!Reconcile, StopClear, printerVars, StopType, TypeOK
<1>2. ~Live'
  BY <1>1 DEF Halted, Live
<1>3. Applied' = Applied
  BY <1>1 DEF Applied
<1>4. (queue' = queue /\ Queued' = Queued) \/ Queued' = 0
  BY <1>1, EmptySeq DEF Queued
<1>5. Rising'
  BY <1>1, <1>3, <1>4 DEF OrderInv, Rising
<1> QED
  BY <1>2, <1>5 DEF OrderInv, Behind

LEMMA OrderStep ==
    ASSUME TypeOK, OnceOnly, Halted, OrderInv, [Next]_vars
    PROVE  OrderInv'
<1> USE DEF tableVars, driverVars, printerVars
<1>1. CASE PumpStatus \/ PumpCount \/ PumpAnswer \/ PumpSpace \/ PumpTally
  <2>1. pump.pc # "send" /\ pump'.pc # "send"
    BY <1>1, OtherPumpSteps
  <2>2. UNCHANGED <<queue, labels, taken, taskStatus, stop>>
    BY <1>1 DEF PumpStatus, PumpCount, PumpAnswer, PumpSpace, PumpTally
  <2> QED
    BY <2>1, <2>2, OrderStays DEF Live
<1>2. CASE TaskAppend \/ StopRequest
  <2>1. Live /\ UNCHANGED <<queue, labels, taken>>
    BY <1>2 DEF TaskAppend, StopRequest, OnceOnly, Live
  <2>2. pump' = pump \/ (pump.pc = "none" /\ pump'.pc = "tick")
    BY <1>2 DEF TaskAppend, StopRequest, FreshPump, NoPump
  <2> QED
    BY <2>1, <2>2, OrderStays
<1>3. CASE StopCount \/ StopAnswer \/ StopIndex \/ StopRebase
  <2>1. UNCHANGED <<queue, labels, taken, pump>> /\ (Live' => Live)
    BY <1>3 DEF StopCount, StopAnswer, StopIndex, StopRebase, Live, TypeOK
  <2> QED
    BY <2>1, OrderStays
<1>4. CASE UNCHANGED <<queue, labels, taken, taskStatus, stop, pump>>
  BY <1>4, OrderStays DEF Live
<1> QED
  BY <1>1, <1>2, <1>3, <1>4, OrderLabel, OrderFetch, OrderSend, OrderSettle
     DEF Next, Pump, Poll, Stop, CounterReset, extractAndSaveHwCount, PollCount, PollAnswer, PollSpace,
         PollIndex, PollMark, Lane!Mark, vars

\* Codes are applied in the order of delivery and never twice, whatever the
\* counters show, whichever batches are lost and although clears fail.
THEOREM CodesInOrder == ASSUME OnceOnly PROVE Spec => []LabelsInOrder
<1>1. TypeOK /\ Halted /\ OrderInv /\ [Next]_vars => (TypeOK /\ Halted /\ OrderInv)'
  BY TypeStep, HaltedStep, OrderStep DEF OnceOnly
<1>2. Init => TypeOK /\ Halted /\ OrderInv
  BY TypeInit, HaltedInit, OrderInit
<1>3. TypeOK /\ OrderInv => LabelsInOrder
  BY Lengths DEF OrderInv, Rising, LabelsInOrder
<1> QED
  BY <1>1, <1>2, <1>3, PTL DEF Spec

-----------------------------------------------------------------------------
(* The queue is bounded.  Where a batch arrives at most once, every answer   *)
(* shows the batch counter or nothing, and a reset of the counter is not     *)
(* noticed in the middle of a reading, no count exceeds the labels, and sent *)
(* minus labels is what the queue holds.                                     *)

CountedOnce ==
    Events \cap {"resume", "ackLost", "resetInReading", "allocCount"} = {}

\* A count goes from the base to the labels, or it was begun anew since.
Sound(hw, base) == hw <= base + Applied /\ (hw < base => hw <= Applied)

\* The counter has not run ahead of an answer by more than the labels.
Recent(hw) == hw # 0 => count <= hw + Applied

\* No count exceeds the labels, neither the printer's, nor one remembered, nor
\* one that a goroutine has read and not used yet.
CountsTrue ==
    Live =>
        /\ Sound(count, baseCount) /\ lastPrintedCalculated <= Applied
        /\ pump.pc \in {"answer", "space"} => Sound(pump.hw, baseCount)
        /\ poller.pc \in {"visitAnswer", "space", "answer", "index"} =>
              Sound(poller.hw, baseCount)
        /\ stop.pc \in {"answer", "index"} => Sound(stop.hw, baseCount)
        /\ pump.pc = "answer" => Recent(pump.hw)
        /\ poller.pc \in {"visitAnswer", "answer"} => Recent(poller.hw)
        /\ stop.pc = "answer" => Recent(stop.hw)
        /\ poller.pc = "mark" => poller.hw <= Applied
        /\ stop.pc = "reconcile" => stop.hw <= Applied

\* The driver has counted all that was sent but the batch it has just sent.
SentTrue ==
    Live =>
        /\ pump.pc # "tally" => totalSent = Applied + Queued
        /\ pump.pc = "tally" => totalSent + Len(pump.batch) = Applied + Queued

\* The room the pump found fits what is applied by then, and so does its batch.
RoomTrue ==
    Live =>
        /\ pump.pc = "fetch" => totalSent + pump.room <= Applied + SafeQueueLimit
        /\ pump.pc = "send" => Queued + Len(pump.batch) <= SafeQueueLimit

CountInv == CountsTrue /\ SentTrue /\ RoomTrue /\ NeverOverfilled

LEMMA CountInit == Init => CountInv
<1> SUFFICES ASSUME Init
             PROVE  CountInv
  OBVIOUS
<1>1. Applied = 0 /\ Queued = 0
  BY EmptySeq DEF Init, Applied, Queued
<1> QED
  BY <1>1, MarkemAssumption
     DEF Init, CountInv, CountsTrue, Sound, Recent, SentTrue, RoomTrue, NeverOverfilled,
         NoPump, Queued

\* A product passes.
LEMMA CountLabel ==
    ASSUME TypeOK, CountInv, Label
    PROVE  CountInv'
<1>1. /\ Applied' = Applied + 1 /\ Queued' = Queued - 1 /\ Queued > 0
      /\ UNCHANGED <<taskStatus, pump, poller, stop, totalSent, baseCount,
                     lastPrintedCalculated>>
  BY LabelMoves
<1>2. count' = count + 1
  BY DEF Label
<1>3. /\ Applied \in Nat /\ Queued \in Nat /\ Len(pump.batch) \in Nat
      /\ SafeQueueLimit \in Nat /\ totalSent \in Nat /\ pump.room \in Nat
      /\ baseCount \in Nat /\ count \in Nat /\ lastPrintedCalculated \in Nat
      /\ pump.hw \in Nat /\ poller.hw \in Nat /\ stop.hw \in Nat
  BY Lengths, MarkemAssumption DEF TypeOK
<1>4. Live' <=> Live
  BY <1>1 DEF Live
<1>5. CountsTrue'
  <2>3. Sound(count, baseCount) => Sound(count, baseCount)'
    BY <1>1, <1>2, <1>3 DEF Sound
  <2>4. CASE Live
    <3>1. Live'
      BY <1>4, <2>4
    <3>2. /\ CountsTrue
          /\ UNCHANGED <<pump, poller, stop, baseCount, lastPrintedCalculated>>
      BY <1>1 DEF CountInv
    <3>3. lastPrintedCalculated <= Applied'
      BY <1>1, <1>3, <2>4, <3>2 DEF CountsTrue
    <3>4. /\ poller.pc = "mark" => poller.hw <= Applied'
          /\ stop.pc = "reconcile" => stop.hw <= Applied'
      BY <1>1, <1>3, <2>4, <3>2 DEF CountsTrue
    <3>5. \A hw \in Nat : (Sound(hw, baseCount) => hw <= baseCount + Applied' /\
                                                   (hw < baseCount => hw <= Applied'))
      BY <1>1, <1>3 DEF Sound
    <3>6. \A hw \in Nat : Recent(hw) => (hw # 0 => count' <= hw + Applied')
      BY <1>1, <1>2, <1>3 DEF Recent
    <3>7. /\ pump.pc \in {"answer", "space"} => Sound(pump.hw, baseCount)'
          /\ pump.pc = "answer" => Recent(pump.hw)'
      BY <1>3, <2>4, <3>2, <3>5, <3>6 DEF CountsTrue, Sound, Recent
    <3>8. /\ poller.pc \in {"visitAnswer", "space", "answer", "index"} =>
                Sound(poller.hw, baseCount)'
          /\ poller.pc \in {"visitAnswer", "answer"} => Recent(poller.hw)'
      BY <1>3, <2>4, <3>2, <3>5, <3>6 DEF CountsTrue, Sound, Recent
    <3>9. /\ stop.pc \in {"answer", "index"} => Sound(stop.hw, baseCount)'
          /\ stop.pc = "answer" => Recent(stop.hw)'
      BY <1>3, <2>4, <3>2, <3>5, <3>6 DEF CountsTrue, Sound, Recent
    <3> QED
      BY <2>3, <2>4, <3>2, <3>3, <3>4, <3>7, <3>8, <3>9 DEF CountsTrue
  <2> QED
    BY <1>4, <2>4 DEF CountsTrue
<1>6. SentTrue'
  <2>1. Applied' + Queued' = Applied + Queued
    BY <1>1, <1>3
  <2> QED
    BY <1>1, <1>4, <2>1 DEF CountInv, SentTrue
<1>7. RoomTrue'
  BY <1>1, <1>3, <1>4 DEF CountInv, RoomTrue
<1>8. NeverOverfilled'
  BY <1>1, <1>3 DEF CountInv, NeverOverfilled, Queued
<1> QED
  BY <1>5, <1>6, <1>7, <1>8 DEF CountInv

\* A goroutine gets a count: it is no larger than the labels allow.
LEMMA CountRead ==
    ASSUME TypeOK, CountedOnce, CountsTrue, Live, NEW c \in Counts
    PROVE  Sound(c.hw, baseCount) /\ (c.asked => Recent(c.hw))
<1>1. Applied \in Nat
  BY Lengths
<1>2. count \in Nat /\ baseCount \in Nat /\ lastPrintedCalculated \in Nat
  BY DEF TypeOK
<1>3. Sound(count, baseCount) /\ lastPrintedCalculated <= Applied
  BY DEF CountsTrue
<1>4. \/ c.asked = TRUE /\ c.hw \in {count, 0}
      \/ c.asked = FALSE /\ c.hw = baseCount + lastPrintedCalculated
  BY DEF Counts, CountedOnce
<1> QED
  BY <1>1, <1>2, <1>3, <1>4 DEF Sound, Recent

\* A count that lowers the base leaves the printer's and the others' sound.
LEMMA BaseLowered ==
    ASSUME TypeOK, CountedOnce, CountsTrue, Live, UNCHANGED <<labels, count>>,
           NEW hw \in Nat, Sound(hw, baseCount), Recent(hw),
           NEW held, GetCurrentPrintCount(hw, held)
    PROVE  /\ Sound(hw, baseCount') /\ Sound(count, baseCount')
           /\ \A other \in held :
                 other \in Nat /\ Sound(other, baseCount) => Sound(other, baseCount')
<1>1. Applied \in Nat /\ count \in Nat /\ baseCount \in Nat
  BY Lengths DEF TypeOK
<1>2. Sound(count, baseCount)
  BY DEF CountsTrue
<1>3. CASE baseCount' = baseCount
  BY <1>2, <1>3
<1>4. CASE baseCount' # baseCount
  <2>1. hw < baseCount /\ hw # 0 /\ baseCount' = hw /\ \A other \in held : other < baseCount
    BY <1>4 DEF GetCurrentPrintCount, CountedOnce
  <2> QED
    BY <1>1, <1>2, <2>1 DEF Sound, Recent
<1> QED
  BY <1>3, <1>4

\* What is remembered, and the index, are differences to the base.
LEMMA CountUsed ==
    ASSUME TypeOK, CountsTrue, Live, NEW hw \in Nat, Sound(hw, baseCount)
    PROVE  Remembered(hw) <= Applied /\ LastPrintedIndex(hw) <= Applied
<1>1. Applied \in Nat /\ baseCount \in Nat /\ lastPrintedCalculated \in Nat
  BY Lengths, NumbersType DEF Numbers
<1>2. lastPrintedCalculated <= Applied
  BY DEF CountsTrue
<1> QED
  BY <1>1, <1>2 DEF Remembered, LastPrintedIndex, Sound

\* Steps of the counting alone: codes and the pump's batch stay.
LEMMA CountStays ==
    ASSUME TypeOK, CountInv,
           UNCHANGED <<queue, labels, totalSent>>,
           Live' => Live, CountsTrue',
           \/ UNCHANGED pump
           \/ /\ {pump.pc, pump'.pc} \cap {"send", "tally"} = {}
              /\ pump'.pc = "fetch" /\ Live' => totalSent + pump'.room <= Applied + SafeQueueLimit
    PROVE  CountInv'
<1>1. Applied' = Applied /\ Queued' = Queued
  BY CodesStay
<1>2. SentTrue'
  BY <1>1 DEF CountInv, SentTrue
<1>3. RoomTrue'
  BY <1>1 DEF CountInv, RoomTrue
<1> QED
  BY <1>1, <1>2, <1>3 DEF CountInv, NeverOverfilled, Queued

\* The driver's and the goroutines' counts.
LEMMA CountCounting ==
    ASSUME TypeOK, CountedOnce, Halted, CountInv,
           \/ CounterReset \/ extractAndSaveHwCount
           \/ PumpStatus \/ PumpCount \/ PumpAnswer \/ PumpSpace
           \/ PollCount \/ PollAnswer \/ PollSpace \/ PollIndex
           \/ StopCount \/ StopAnswer \/ StopIndex
    PROVE  CountInv'
<1> USE DEF tableVars, driverVars, printerVars
<1>1. /\ Applied \in Nat /\ count \in Nat /\ baseCount \in Nat
      /\ lastPrintedCalculated \in Nat /\ totalSent \in Nat
      /\ pump.hw \in Nat /\ poller.hw \in Nat /\ stop.hw \in Nat
      /\ MaxBatch \in Nat /\ SafeQueueLimit \in Nat
  BY Lengths, MarkemAssumption DEF TypeOK
<1>2. CountInv /\ CountsTrue /\ Halted
  BY DEF CountInv
<1>3. UNCHANGED <<queue, labels, totalSent, taskStatus>>
  BY DEF CounterReset, extractAndSaveHwCount, PumpStatus, PumpCount, PumpAnswer, PumpSpace, PollCount, PollAnswer,
         PollSpace, PollIndex, StopCount, StopAnswer, StopIndex
<1>4. Applied' = Applied
  BY <1>3 DEF Applied
<1>5. CASE CounterReset
  <2>1. count' = 0 /\ UNCHANGED <<pump, poller, stop, baseCount, lastPrintedCalculated>>
    BY <1>5 DEF CounterReset
  <2>2. Live' <=> Live
    BY <1>2, <1>3, <2>1 DEF Live, Halted
  <2>3. CountsTrue'
    BY <1>1, <1>2, <1>4, <2>1, <2>2 DEF CountsTrue, Sound, Recent
  <2> QED
    BY <1>3, <2>1, <2>2, <2>3, CountStays
<1>6. CASE extractAndSaveHwCount
  <2>1. /\ count >= baseCount /\ lastPrintedCalculated' = count - baseCount
        /\ UNCHANGED <<pump, poller, stop, baseCount, count>>
    BY <1>6 DEF extractAndSaveHwCount
  <2>2. Live' <=> Live
    BY <1>2, <1>3, <2>1 DEF Live, Halted
  <2>3. CountsTrue'
    BY <1>1, <1>2, <1>4, <2>1, <2>2 DEF CountsTrue, Sound, Recent
  <2> QED
    BY <1>3, <2>1, <2>2, <2>3, CountStays
<1>7. CASE PumpStatus
  <2>1. /\ pump.pc = "tick" /\ UNCHANGED <<poller, stop, baseCount, count, lastPrintedCalculated>>
        /\ pump'.pc = IF taskStatus = "active" THEN "count" ELSE "none"
    BY <1>7 DEF PumpStatus, NoPump, TypeOK
  <2>2. Live' <=> Live
    BY <1>2, <1>3, <2>1 DEF Live, Halted
  <2>3. CountsTrue'
    BY <1>1, <1>2, <1>4, <2>1, <2>2 DEF CountsTrue, Sound, Recent
  <2>4. {pump.pc, pump'.pc} \cap {"send", "tally"} = {} /\ pump'.pc # "fetch"
    BY <2>1
  <2> QED
    BY <1>3, <2>2, <2>3, <2>4, CountStays
<1>8. CASE PumpCount
  <2>1. PICK c \in Counts :
          pump' = [pump EXCEPT !.pc = IF c.asked THEN "answer" ELSE "space", !.hw = c.hw]
    BY <1>8 DEF PumpCount
  <2>2. /\ pump.pc = "count" /\ pump'.pc = (IF c.asked THEN "answer" ELSE "space")
        /\ pump'.hw = c.hw
        /\ UNCHANGED <<poller, stop, baseCount, count, lastPrintedCalculated>>
    BY <1>8, <2>1 DEF PumpCount, TypeOK
  <2>3. taskStatus = "active" /\ Live /\ Live'
    BY <1>2, <1>3, <2>2 DEF Live, Halted, TypeOK
  <2>4. Sound(c.hw, baseCount) /\ (c.asked => Recent(c.hw))
    BY <1>2, <2>3, CountRead
  <2>5. CountsTrue'
    BY <1>2, <1>4, <2>2, <2>3, <2>4 DEF CountsTrue, Sound, Recent
  <2>6. {pump.pc, pump'.pc} \cap {"send", "tally"} = {} /\ pump'.pc # "fetch"
    BY <2>2
  <2> QED
    BY <1>3, <2>3, <2>5, <2>6, CountStays
<1>15. CASE PumpAnswer
  <2>1. /\ pump.pc = "answer" /\ pump'.pc = "space" /\ pump'.hw = pump.hw
        /\ GetCurrentPrintCount(pump.hw, PollerHolds \cup StopHolds)
        /\ UNCHANGED <<poller, stop, count, lastPrintedCalculated>>
    BY <1>15 DEF PumpAnswer, TypeOK
  <2>2. taskStatus = "active" /\ Live /\ Live'
    BY <1>2, <1>3, <2>1 DEF Live, Halted, TypeOK
  <2>3. Sound(pump.hw, baseCount) /\ Recent(pump.hw)
    BY <1>2, <2>1, <2>2 DEF CountsTrue
  <2>4. /\ Sound(pump.hw, baseCount') /\ Sound(count, baseCount')
        /\ \A other \in PollerHolds \cup StopHolds :
              other \in Nat /\ Sound(other, baseCount) => Sound(other, baseCount')
    BY <1>1, <1>2, <1>3, <2>1, <2>2, <2>3, BaseLowered
  <2>5. /\ poller.pc \in {"visitAnswer", "space", "answer", "index"} =>
              Sound(poller.hw, baseCount')
        /\ stop.pc \in {"answer", "index"} => Sound(stop.hw, baseCount')
    BY <1>1, <1>2, <2>2, <2>4 DEF CountsTrue, PollerHolds, StopHolds
  <2>6. CountsTrue'
    BY <1>2, <1>4, <2>1, <2>2, <2>3, <2>4, <2>5 DEF CountsTrue, Sound, Recent
  <2>7. {pump.pc, pump'.pc} \cap {"send", "tally"} = {} /\ pump'.pc # "fetch"
    BY <2>1
  <2> QED
    BY <1>3, <2>2, <2>6, <2>7, CountStays
<1>9. CASE PumpSpace
  <2> DEFINE free == FreeSpace(pump.hw)
             room == IF free > MaxBatch THEN MaxBatch ELSE free
  <2>1. /\ pump.pc = "space" /\ lastPrintedCalculated' = Remembered(pump.hw)
        /\ UNCHANGED <<poller, stop, baseCount, count>>
        /\ pump' = IF free <= 0 THEN FreshPump ELSE [pump EXCEPT !.pc = "fetch", !.room = room]
    BY <1>9 DEF PumpSpace
  <2>2. taskStatus = "active" /\ Live /\ Live'
    BY <1>2, <1>3, <2>1 DEF Live, Halted, TypeOK
  <2>3. Remembered(pump.hw) <= Applied /\ Remembered(pump.hw) \in Nat
    BY <1>1, <1>2, <2>1, <2>2, CountUsed, CountedType DEF CountsTrue
  <2>4. pump'.pc = "tick" \/ (free > 0 /\ pump'.pc = "fetch" /\ pump'.room = room)
    <3>1. pump \in PumpType
      BY DEF TypeOK, PumpType, PumpPlaces
    <3>2. free \in Int
      BY <1>1, <2>3 DEF FreeSpace, Buffered
    <3>3. FreshPump.pc = "tick"
      BY DEF FreshPump, NoPump
    <3> HIDE DEF free, room
    <3>4. CASE free <= 0
      BY <2>1, <3>3, <3>4
    <3>5. CASE free > 0
      BY <2>1, <3>1, <3>2, <3>5 DEF PumpType
    <3> QED
      BY <3>2, <3>4, <3>5
  <2>5. CountsTrue'
    BY <1>1, <1>2, <1>4, <2>1, <2>2, <2>3, <2>4 DEF CountsTrue, Sound, Recent
  <2>6. totalSent + room <= Applied + SafeQueueLimit
    BY <1>1, <2>3 DEF FreeSpace, Buffered
  <2>7. /\ {pump.pc, pump'.pc} \cap {"send", "tally"} = {}
        /\ pump'.pc = "fetch" => totalSent + pump'.room <= Applied + SafeQueueLimit
    BY <2>1, <2>4, <2>6
  <2> QED
    BY <1>3, <2>2, <2>5, <2>7, CountStays
<1>10. CASE PollCount
  <2>1. PICK c \in Counts : PollAsks(c)
    BY <1>10 DEF PollCount, PollAsks
  <2>2. /\ poller'.pc \in IF c.asked THEN {"visitAnswer", "answer"} ELSE {"space", "index"}
        /\ poller'.hw = c.hw
        /\ UNCHANGED <<pump, stop, baseCount, count, lastPrintedCalculated>>
    BY <1>10, <2>1, CountType DEF PollCount, PollAsks
  <2>3. Live' <=> Live
    BY <1>2, <1>3, <2>2 DEF Live, Halted
  <2>4. Live => Sound(c.hw, baseCount) /\ (c.asked => Recent(c.hw))
    BY <1>2, CountRead
  <2>5. CountsTrue'
    BY <1>2, <1>4, <2>2, <2>3, <2>4 DEF CountsTrue, Sound, Recent
  <2> QED
    BY <1>3, <2>2, <2>3, <2>5, CountStays
<1>16. CASE PollAnswer
  <2>1. /\ poller.pc \in {"visitAnswer", "answer"} /\ poller'.pc \in {"space", "index"}
        /\ poller'.hw = poller.hw
        /\ GetCurrentPrintCount(poller.hw, PumpHolds \cup StopHolds)
        /\ UNCHANGED <<pump, stop, count, lastPrintedCalculated>>
    BY <1>16 DEF PollAnswer, TypeOK
  <2>2. Live' <=> Live
    BY <1>2, <1>3, <2>1 DEF Live, Halted
  <2>3. ASSUME Live PROVE CountsTrue'
    <3>1. Sound(poller.hw, baseCount) /\ Recent(poller.hw)
      BY <1>2, <2>1, <2>3 DEF CountsTrue
    <3>2. /\ Sound(poller.hw, baseCount') /\ Sound(count, baseCount')
          /\ \A other \in PumpHolds \cup StopHolds :
                other \in Nat /\ Sound(other, baseCount) => Sound(other, baseCount')
      BY <1>1, <1>2, <1>3, <2>1, <2>3, <3>1, BaseLowered
    <3>3. /\ pump.pc \in {"answer", "space"} => Sound(pump.hw, baseCount')
          /\ stop.pc \in {"answer", "index"} => Sound(stop.hw, baseCount')
      BY <1>1, <1>2, <2>3, <3>2 DEF CountsTrue, PumpHolds, StopHolds
    <3> QED
      BY <1>2, <1>4, <2>1, <2>2, <2>3, <3>1, <3>2, <3>3 DEF CountsTrue, Sound, Recent
  <2>4. CountsTrue'
    BY <2>2, <2>3 DEF CountsTrue
  <2> QED
    BY <1>3, <2>1, <2>2, <2>4, CountStays
<1>11. CASE PollSpace
  <2>1. /\ poller.pc = "space" /\ poller'.pc \in {"count", "visit"}
        /\ lastPrintedCalculated' = Remembered(poller.hw)
        /\ UNCHANGED <<pump, stop, baseCount, count>>
    BY <1>11 DEF PollSpace, TypeOK
  <2>2. Live' <=> Live
    BY <1>2, <1>3, <2>1 DEF Live, Halted
  <2>3. Live => Remembered(poller.hw) <= Applied
    BY <1>1, <1>2, <2>1, CountUsed DEF CountsTrue
  <2>4. CountsTrue'
    BY <1>1, <1>2, <1>4, <2>1, <2>2, <2>3 DEF CountsTrue, Sound, Recent
  <2> QED
    BY <1>3, <2>1, <2>2, <2>4, CountStays
<1>12. CASE PollIndex
  <2>1. /\ poller.pc = "index" /\ poller'.pc = "mark"
        /\ poller'.hw = LastPrintedIndex(poller.hw)
        /\ UNCHANGED <<pump, stop, baseCount, count, lastPrintedCalculated>>
    BY <1>12 DEF PollIndex
  <2>2. Live' <=> Live
    BY <1>2, <1>3, <2>1 DEF Live, Halted
  <2>3. Live => LastPrintedIndex(poller.hw) <= Applied
    BY <1>1, <1>2, <2>1, CountUsed DEF CountsTrue
  <2>4. CountsTrue'
    BY <1>1, <1>2, <1>4, <2>1, <2>2, <2>3 DEF CountsTrue, Sound, Recent
  <2> QED
    BY <1>3, <2>1, <2>2, <2>4, CountStays
<1>13. CASE StopCount
  <2>1. PICK c \in Counts : StopAsks(c)
    BY <1>13 DEF StopCount, StopAsks
  <2>2. /\ \/ stop.pc = "count" /\ stop'.pc = (IF c.asked THEN "answer" ELSE "index")
           \/ stop.pc = "recount" /\ stop'.pc \in {"reanswer", "rebase"}
        /\ stop'.hw = c.hw
        /\ UNCHANGED <<pump, poller, baseCount, count, lastPrintedCalculated>>
    BY <1>13, <2>1, CountType DEF StopCount, StopAsks
  <2>3. Live' <=> Live
    BY <1>2, <1>3, <2>2 DEF Live, Halted
  <2>4. Live => Sound(c.hw, baseCount) /\ (c.asked => Recent(c.hw))
    BY <1>2, CountRead
  <2>5. CountsTrue'
    BY <1>2, <1>4, <2>2, <2>3, <2>4 DEF CountsTrue, Sound, Recent
  <2> QED
    BY <1>3, <2>2, <2>3, <2>5, CountStays
<1>17. CASE StopAnswer
  <2>1. /\ \/ stop.pc = "answer" /\ stop'.pc = "index"
           \/ stop.pc = "reanswer" /\ stop'.pc = "rebase"
        /\ stop'.hw = stop.hw
        /\ GetCurrentPrintCount(stop.hw, PumpHolds \cup PollerHolds)
        /\ UNCHANGED <<pump, poller, count, lastPrintedCalculated>>
    BY <1>17 DEF StopAnswer, TypeOK
  <2>2. Live' <=> Live
    BY <1>2, <1>3, <2>1 DEF Live, Halted
  <2>3. ASSUME Live PROVE CountsTrue'
    <3>1. stop.pc = "answer" /\ Sound(stop.hw, baseCount) /\ Recent(stop.hw)
      BY <1>2, <2>1, <2>3 DEF CountsTrue, Live, Halted
    <3>2. /\ Sound(stop.hw, baseCount') /\ Sound(count, baseCount')
          /\ \A other \in PumpHolds \cup PollerHolds :
                other \in Nat /\ Sound(other, baseCount) => Sound(other, baseCount')
      BY <1>1, <1>2, <1>3, <2>1, <2>3, <3>1, BaseLowered
    <3>3. /\ pump.pc \in {"answer", "space"} => Sound(pump.hw, baseCount')
          /\ poller.pc \in {"visitAnswer", "space", "answer", "index"} =>
                Sound(poller.hw, baseCount')
      BY <1>1, <1>2, <2>3, <3>2 DEF CountsTrue, PumpHolds, PollerHolds
    <3> QED
      BY <1>2, <1>4, <2>1, <2>2, <2>3, <3>1, <3>2, <3>3 DEF CountsTrue, Sound, Recent
  <2>4. CountsTrue'
    BY <2>2, <2>3 DEF CountsTrue
  <2> QED
    BY <1>3, <2>1, <2>2, <2>4, CountStays
<1>14. CASE StopIndex
  <2>1. /\ stop.pc = "index" /\ stop'.pc = "reconcile"
        /\ stop'.hw = LastPrintedIndex(stop.hw)
        /\ UNCHANGED <<pump, poller, baseCount, count, lastPrintedCalculated>>
    BY <1>14 DEF StopIndex
  <2>2. Live' <=> Live
    BY <1>2, <1>3, <2>1 DEF Live, Halted
  <2>3. Live => LastPrintedIndex(stop.hw) <= Applied
    BY <1>1, <1>2, <2>1, CountUsed DEF CountsTrue
  <2>4. CountsTrue'
    BY <1>1, <1>2, <1>4, <2>1, <2>2, <2>3 DEF CountsTrue, Sound, Recent
  <2> QED
    BY <1>3, <2>1, <2>2, <2>4, CountStays
<1> QED
  BY <1>5, <1>6, <1>7, <1>8, <1>9, <1>10, <1>11, <1>12, <1>13, <1>14, <1>15,
     <1>16, <1>17

\* FetchAndAssignCodes: no more codes than there is room for.
LEMMA CountFetch ==
    ASSUME TypeOK, Halted, CountInv, PumpFetch
    PROVE  CountInv'
<1>1. /\ pump.pc = "fetch" /\ UNCHANGED <<taskStatus, poller, stop, totalSent, baseCount,
                                           lastPrintedCalculated, queue, count, labels>>
      /\ \/ pump'.pc = "tick"
         \/ /\ pump'.pc = "send"
            /\ Len(pump'.batch) \in Nat /\ Len(pump'.batch) <= pump.room
  BY FetchMoves
<1>2. Live /\ (Live' <=> Live)
  BY <1>1 DEF Halted, Live, TypeOK
<1>3. Applied' = Applied /\ Queued' = Queued
  BY <1>1, CodesStay
<1>4. /\ Applied \in Nat /\ Queued \in Nat /\ SafeQueueLimit \in Nat /\ pump.room \in Nat
      /\ totalSent = Applied + Queued /\ totalSent + pump.room <= Applied + SafeQueueLimit
  BY <1>1, <1>2, Lengths, MarkemAssumption DEF CountInv, SentTrue, RoomTrue, TypeOK
<1>5. CountsTrue' /\ SentTrue'
  BY <1>1, <1>2, <1>3 DEF CountInv, CountsTrue, Sound, Recent, SentTrue
<1>6. RoomTrue'
  BY <1>1, <1>3, <1>4 DEF RoomTrue
<1> QED
  BY <1>1, <1>5, <1>6 DEF CountInv, NeverOverfilled

\* A batch goes into the queue once and is counted, or neither.
LEMMA CountSend ==
    ASSUME TypeOK, CountedOnce, Halted, CountInv, PumpSend
    PROVE  CountInv'
<1>1. /\ pump.pc = "send" /\ Applied' = Applied
      /\ \/ /\ pump'.pc = "tally" /\ pump'.batch = pump.batch
            /\ Queued' = Queued + Len(pump.batch)
         \/ pump'.pc = "tick" /\ Queued' = Queued
      /\ UNCHANGED <<taskStatus, poller, stop, totalSent, baseCount,
                     lastPrintedCalculated, count>>
  BY SendMoves DEF CountedOnce
<1>2. Live /\ (Live' <=> Live)
  BY <1>1 DEF Halted, Live, TypeOK
<1>3. /\ Applied \in Nat /\ Queued \in Nat /\ SafeQueueLimit \in Nat /\ Len(pump.batch) \in Nat
      /\ totalSent = Applied + Queued /\ Queued + Len(pump.batch) <= SafeQueueLimit
  BY <1>1, <1>2, Lengths, MarkemAssumption DEF CountInv, SentTrue, RoomTrue
<1>4. CountsTrue'
  BY <1>1, <1>2 DEF CountInv, CountsTrue, Sound, Recent
<1>5. totalSent' = totalSent
  BY <1>1
<1>6. CASE /\ pump'.pc = "tally" /\ pump'.batch = pump.batch
           /\ Queued' = Queued + Len(pump.batch)
  <2>1. totalSent' + Len(pump'.batch) = Applied' + Queued'
    <3> DEFINE n == Len(pump.batch)
               m == Len(pump'.batch)
    <3>1. /\ n \in Nat /\ m = n /\ Applied' = Applied /\ Queued' = Queued + n
          /\ Applied \in Nat /\ Queued \in Nat /\ totalSent' = Applied + Queued
      BY <1>1, <1>3, <1>5, <1>6
    <3> HIDE DEF n, m
    <3>2. totalSent' + m = Applied' + Queued'
      BY <3>1
    <3> QED
      BY <3>2 DEF m
  <2>2. SentTrue' /\ RoomTrue'
    BY <1>6, <2>1 DEF SentTrue, RoomTrue
  <2>3. NeverOverfilled'
    BY <1>3, <1>6 DEF NeverOverfilled, Queued
  <2> QED
    BY <1>4, <2>2, <2>3 DEF CountInv
<1>7. CASE pump'.pc = "tick" /\ Queued' = Queued
  <2>1. SentTrue' /\ RoomTrue'
    BY <1>1, <1>3, <1>5, <1>7 DEF SentTrue, RoomTrue
  <2>2. NeverOverfilled'
    BY <1>7 DEF CountInv, NeverOverfilled, Queued
  <2> QED
    BY <1>4, <2>1, <2>2 DEF CountInv
<1> QED
  BY <1>1, <1>6, <1>7

LEMMA CountTally ==
    ASSUME TypeOK, CountInv, PumpTally
    PROVE  CountInv'
<1>1. /\ pump.pc = "tally" /\ pump'.pc = "tick" /\ totalSent' = totalSent + Len(pump.batch)
      /\ UNCHANGED <<taskStatus, poller, stop, baseCount, lastPrintedCalculated,
                     queue, count, labels>>
  BY DEF PumpTally, Tally, FreshPump, NoPump, printerVars
<1>2. (Live' <=> Live) /\ Applied' = Applied /\ Queued' = Queued
  BY <1>1, CodesStay DEF Live
<1> QED
  BY <1>1, <1>2 DEF CountInv, CountsTrue, Sound, Recent, SentTrue, RoomTrue, NeverOverfilled

\* An append finds the task active, and a stop the pump at rest.
LEMMA CountHandlers ==
    ASSUME TypeOK, CountedOnce, CountInv, TaskAppend \/ StopRequest
    PROVE  CountInv'
<1>1. /\ taskStatus = "active" /\ stop.pc = "idle"
      /\ UNCHANGED <<poller, totalSent, baseCount, lastPrintedCalculated, queue, count, labels>>
      /\ stop' = stop \/ stop'.pc = "count"
      /\ pump' = pump \/ (pump.pc = "none" /\ pump'.pc = "tick")
  BY DEF TaskAppend, StopRequest, CountedOnce, FreshPump, NoPump, driverVars, printerVars
<1>2. Live /\ Applied' = Applied
  BY <1>1 DEF Live, Applied
<1>3. CountsTrue'
  BY <1>1, <1>2 DEF CountInv, CountsTrue, Sound, Recent
<1> QED
  BY <1>1, <1>2, <1>3, CountStays

\* After the rows are settled nothing counts; a clear only empties the queue.
LEMMA CountSettle ==
    ASSUME TypeOK, Halted, CountInv, StopReconcile \/ StopClear \/ StopRebase
    PROVE  CountInv'
<1>1. /\ stop.pc \in {"reconcile", "clear", "rebase"}
      /\ stop'.pc \in {"clear", "recount", "idle"}
      /\ queue' \in {queue, <<>>} /\ taskStatus' = taskStatus
  BY DEF StopReconcile, Lane!Reconcile, StopClear, StopRebase, printerVars, TypeOK
<1>2. ~Live'
  BY <1>1 DEF Halted, Live
<1>3. NeverOverfilled'
  BY <1>1, EmptySeq, MarkemAssumption DEF CountInv, NeverOverfilled
<1> QED
  BY <1>2, <1>3 DEF CountInv, CountsTrue, Sound, Recent, SentTrue, RoomTrue

LEMMA CountStep ==
    ASSUME TypeOK, CountedOnce, Halted, CountInv, [Next]_vars
    PROVE  CountInv'
<1>1. CASE PollMark \/ UNCHANGED vars
  <2>1. /\ UNCHANGED <<queue, labels, totalSent, taskStatus, pump, stop, baseCount,
                       lastPrintedCalculated, count>>
        /\ poller' = poller \/ poller'.pc = "visit"
    BY <1>1 DEF PollMark, vars, tableVars, driverVars, printerVars, TypeOK
  <2>2. Applied' = Applied /\ (Live' <=> Live)
    BY <2>1 DEF Applied, Live
  <2>3. CountsTrue'
    BY <2>1, <2>2 DEF CountInv, CountsTrue, Sound, Recent
  <2> QED
    BY <2>1, <2>2, <2>3, CountStays
<1>2. CASE \/ CounterReset \/ extractAndSaveHwCount
           \/ PumpStatus \/ PumpCount \/ PumpAnswer \/ PumpSpace
           \/ PollCount \/ PollAnswer \/ PollSpace \/ PollIndex
           \/ StopCount \/ StopAnswer \/ StopIndex
  BY <1>2, CountCounting
<1> QED
  BY <1>1, <1>2, CountLabel, CountFetch, CountSend, CountTally, CountHandlers, CountSettle
     DEF Next, Pump, Poll, Stop

\* The room the driver computes never lets more than its limit into the queue
\* (driver.go:345-364), also when batches are lost or counts missing; not when
\* countAllocCurrent stands in for the count of labels.
THEOREM QueueBounded == ASSUME CountedOnce PROVE Spec => []NeverOverfilled
<1>1. TypeOK /\ Halted /\ CountInv /\ [Next]_vars => (TypeOK /\ Halted /\ CountInv)'
  BY TypeStep, HaltedStep, CountStep DEF CountedOnce
<1>2. Init => TypeOK /\ Halted /\ CountInv
  BY TypeInit, HaltedInit, CountInit
<1>3. CountInv => NeverOverfilled
  BY DEF CountInv
<1> QED
  BY <1>1, <1>2, <1>3, PTL DEF Spec

-----------------------------------------------------------------------------
(* The first session of a task, when moreover no batch is lost: the codes   *)
(* on labels and in the queue are 1, 2, ... in this order, so that a count  *)
(* of labels is as good as an index.                                        *)

FirstSession ==
    Events \cap {"resume", "sendFails", "ackLost", "resetInReading", "allocCount"} = {}

InPlace ==
    /\ \A k \in 1..Applied : labels[k] = k
    /\ \A k \in 1..Queued : queue[k] = Applied + k

\* What the task took is applied, queued or in the pump's hands.
TakenTrue == Live => Given = Applied + Queued

SessionInv ==
    /\ InPlace /\ TakenTrue /\ confirmed <= Applied
    /\ ~Live => taken = confirmed

LEMMA SessionInit == Init => SessionInv
<1> SUFFICES ASSUME Init
             PROVE  SessionInv
  OBVIOUS
<1>1. Applied = 0 /\ Queued = 0 /\ pump.pc = "none"
  BY EmptySeq DEF Init, Applied, Queued, NoPump
<1> QED
  BY <1>1 DEF Init, Lane!Init, SessionInv, InPlace, TakenTrue, Given, Live

\* A step that leaves rows and codes alone.
LEMMA SessionStays ==
    ASSUME SessionInv, UNCHANGED <<queue, labels, confirmed, taken>>, Live' <=> Live,
           pump' = pump \/ (pump.pc # "send" /\ pump'.pc # "send")
    PROVE  SessionInv'
<1>1. Applied' = Applied /\ Queued' = Queued
  BY CodesStay
<1>2. Given' = Given
  BY DEF Given
<1> QED
  BY <1>1, <1>2 DEF SessionInv, InPlace, TakenTrue

\* A product passes.
LEMMA SessionLabel ==
    ASSUME TypeOK, SessionInv, Label
    PROVE  SessionInv'
<1>1. Applied \in Nat /\ Queued \in Nat /\ confirmed \in Nat
  BY Lengths, NumbersType, MarkemAssumption DEF Numbers
<1>2. /\ Applied' = Applied + 1 /\ Queued' = Queued - 1 /\ Queued > 0
      /\ \A k \in 1..Applied : labels'[k] = labels[k]
      /\ labels'[Applied + 1] = queue[1]
      /\ \A k \in 1..(Queued - 1) : queue'[k] = queue[k + 1]
      /\ UNCHANGED <<confirmed, taken, taskStatus, pump, stop>>
  BY LabelMoves
<1>3. queue[1] = Applied + 1
  BY <1>1, <1>2 DEF SessionInv, InPlace
<1>4. \A k \in 1..(Applied + 1) : labels'[k] = k
  BY <1>1, <1>2, <1>3 DEF SessionInv, InPlace
<1>5. \A k \in 1..(Queued - 1) : queue'[k] = (Applied + 1) + k
  <2> SUFFICES ASSUME NEW k \in 1..(Queued - 1)
               PROVE  queue'[k] = (Applied + 1) + k
    OBVIOUS
  <2>1. queue'[k] = queue[k + 1] /\ k + 1 \in 1..Queued
    BY <1>1, <1>2
  <2> QED
    BY <1>1, <2>1 DEF SessionInv, InPlace
<1>6. (Live' <=> Live) /\ Given' = Given
  BY <1>2 DEF Live, Given
<1>7. Applied' + Queued' = Applied + Queued
  BY <1>1, <1>2
<1> QED
  BY <1>1, <1>2, <1>4, <1>5, <1>6, <1>7 DEF SessionInv, InPlace, TakenTrue

LEMMA SessionFetch ==
    ASSUME TypeOK, Halted, SessionInv, PumpFetch
    PROVE  SessionInv'
<1>1. /\ pump.pc = "fetch" /\ UNCHANGED <<queue, labels, confirmed, taskStatus, stop>>
      /\ \/ pump'.pc = "tick" /\ taken' = taken
         \/ /\ pump'.pc = "send" /\ taken' = taken + Len(pump'.batch)
            /\ Len(pump'.batch) \in Nat
  BY FetchMoves
<1>2. taken \in Nat
  BY CodesAreNumbers
<1>3. Live /\ Live' /\ Applied' = Applied /\ Queued' = Queued
  BY <1>1, CodesStay DEF Halted, Live, TypeOK
<1>4. Given = taken /\ Given' = taken
  BY <1>1, <1>2 DEF Given
<1> QED
  BY <1>1, <1>3, <1>4 DEF SessionInv, InPlace, TakenTrue

LEMMA SessionSend ==
    ASSUME TypeOK, FirstSession, Halted, OrderInv, SessionInv, PumpSend
    PROVE  SessionInv'
<1> DEFINE n == Len(pump.batch)
<1>1. Applied \in Nat /\ Queued \in Nat /\ n \in Nat /\ taken \in Nat
  BY Lengths, CodesAreNumbers
<1>2. /\ pump.pc = "send" /\ Applied' = Applied /\ labels' = labels
      /\ pump'.pc = "tally" /\ Queued' = Queued + n
      /\ \A k \in 1..(Queued + n) :
            queue'[k] = IF k <= Queued THEN queue[k] ELSE pump.batch[k - Queued]
      /\ UNCHANGED <<confirmed, taken, taskStatus, stop>>
  BY SendMoves DEF FirstSession
<1>3. Live /\ Live'
  BY <1>2 DEF Halted, Live, TypeOK
<1>4. Given = taken - n /\ Given' = taken
  BY <1>1, <1>2 DEF Given
<1>5. /\ Given = Applied + Queued
      /\ \A k \in 1..n : pump.batch[k] = Given + k
  BY <1>2, <1>3 DEF SessionInv, TakenTrue, OrderInv, Behind
<1> HIDE DEF n
<1>6. \A k \in 1..(Queued + n) : queue'[k] = Applied + k
  <2> SUFFICES ASSUME NEW k \in 1..(Queued + n)
               PROVE  queue'[k] = Applied + k
    OBVIOUS
  <2>1. CASE k <= Queued
    BY <1>1, <1>2, <2>1 DEF SessionInv, InPlace
  <2>2. CASE k > Queued
    <3>1. k - Queued \in 1..n
      BY <1>1, <2>2
    <3>2. queue'[k] = Given + (k - Queued)
      BY <1>1, <1>2, <1>5, <2>2, <3>1
    <3> QED
      BY <1>1, <1>5, <3>2
  <2> QED
    BY <1>1, <2>1, <2>2
<1>7. Given' = Applied' + Queued'
  BY <1>1, <1>2, <1>4, <1>5
<1> QED
  BY <1>2, <1>3, <1>6, <1>7 DEF SessionInv, InPlace, TakenTrue

\* The poller confirms, up to a number of labels at most.
LEMMA SessionMark ==
    ASSUME TypeOK, CountInv, SessionInv, PollMark
    PROVE  SessionInv'
<1>1. /\ poller.pc = "mark" /\ confirmed' = Lane!UpTo(poller.hw)
      /\ UNCHANGED <<taken, taskStatus, pump, stop, queue, labels>>
  BY DEF PollMark, Lane!Mark, printerVars
<1>2. /\ confirmed \in Nat /\ taken \in Nat /\ poller.hw \in Nat /\ confirmed <= taken
      /\ Applied \in Nat
  BY Lengths, MarkemAssumption DEF TypeOK
<1>3. (Live' <=> Live) /\ Given' = Given /\ Applied' = Applied /\ Queued' = Queued
  BY <1>1, CodesStay DEF Live, Given
<1>4. confirmed' <= Applied /\ (~Live => taken = confirmed')
  BY <1>1, <1>2 DEF SessionInv, CountInv, CountsTrue, Lane!UpTo
<1> QED
  BY <1>1, <1>3, <1>4 DEF SessionInv, InPlace, TakenTrue

\* The stop confirms labels, and returns the rest.
LEMMA SessionSettle ==
    ASSUME TypeOK, Halted, CountInv, SessionInv, StopReconcile \/ StopClear
    PROVE  SessionInv'
<1>1. Applied \in Nat /\ Queued \in Nat /\ confirmed \in Nat /\ taken \in Nat /\ stop.hw \in Nat
      /\ confirmed <= taken
  BY Lengths, MarkemAssumption DEF TypeOK
<1>2. /\ stop.pc \in {"reconcile", "clear"} /\ stop'.pc \in {"clear", "recount"}
      /\ labels' = labels /\ queue' \in {queue, <<>>} /\ taskStatus' = taskStatus
      /\ \/ stop.pc = "reconcile" /\ confirmed' = Lane!UpTo(stop.hw) /\ taken' = confirmed'
         \/ stop.pc = "clear" /\ UNCHANGED <<confirmed, taken>>
  BY DEF StopReconcile, Lane!Reconcile, StopClear, tableVars, printerVars, TypeOK
<1>3. taskStatus = "stopped" /\ ~Live'
  BY <1>2 DEF Halted, Live
<1>4. Applied' = Applied /\ InPlace'
  BY <1>1, <1>2, EmptySeq DEF Applied, Queued, SessionInv, InPlace
<1>5. taken' = confirmed' /\ confirmed' <= Applied
  <2>1. CASE stop.pc = "reconcile"
    <3>1. stop.hw <= Applied
      BY <2>1 DEF CountInv, CountsTrue, Live
    <3> QED
      BY <1>1, <1>2, <2>1, <3>1 DEF Lane!UpTo, SessionInv
  <2>2. CASE stop.pc = "clear"
    BY <1>2, <1>3, <2>2 DEF SessionInv, Live
  <2> QED
    BY <1>2, <2>1, <2>2
<1> QED
  BY <1>3, <1>4, <1>5 DEF SessionInv, TakenTrue

LEMMA SessionStep ==
    ASSUME TypeOK, FirstSession, Halted, OrderInv, CountInv, SessionInv, [Next]_vars
    PROVE  SessionInv'
<1> USE DEF tableVars, driverVars, printerVars
<1>1. CASE PumpStatus \/ PumpCount \/ PumpAnswer \/ PumpSpace \/ PumpTally
  <2>1. pump.pc # "send" /\ pump'.pc # "send"
    BY <1>1, OtherPumpSteps
  <2>2. UNCHANGED <<queue, labels, confirmed, taken, taskStatus, stop>>
    BY <1>1 DEF PumpStatus, PumpCount, PumpAnswer, PumpSpace, PumpTally
  <2> QED
    BY <2>1, <2>2, SessionStays DEF Live
<1>2. CASE TaskAppend \/ StopRequest
  <2>1. Live /\ Live' /\ UNCHANGED <<queue, labels, confirmed, taken>>
    BY <1>2 DEF TaskAppend, StopRequest, FirstSession, Live
  <2>2. pump' = pump \/ (pump.pc = "none" /\ pump'.pc = "tick")
    BY <1>2 DEF TaskAppend, StopRequest, FreshPump, NoPump
  <2> QED
    BY <2>1, <2>2, SessionStays
<1>3. CASE StopCount \/ StopAnswer \/ StopIndex \/ StopRebase
  <2>1. UNCHANGED <<queue, labels, confirmed, taken, pump>> /\ (Live' <=> Live)
    BY <1>3 DEF StopCount, StopAnswer, StopIndex, StopRebase, Live, TypeOK
  <2> QED
    BY <2>1, SessionStays
<1>4. CASE UNCHANGED <<queue, labels, confirmed, taken, taskStatus, stop, pump>>
  BY <1>4, SessionStays DEF Live
<1> QED
  BY <1>1, <1>2, <1>3, <1>4, SessionLabel, SessionFetch, SessionSend, SessionMark, SessionSettle
     DEF Next, Pump, Poll, Stop, CounterReset, extractAndSaveHwCount, PollCount, PollAnswer, PollSpace,
         PollIndex, vars

\* What a count of labels confirms is on products (driver.go:456), though counts
\* may be remembered, missing or begun anew, and labels are applied between the
\* stop's count and its clear; not when countAllocCurrent stands in for the count
\* of labels (driver.go:328-333).
THEOREM CountsConfirm == ASSUME FirstSession PROVE Spec => []PrintedWasApplied
<1> DEFINE Inv == TypeOK /\ Halted /\ OrderInv /\ CountInv /\ SessionInv
<1>1. Inv /\ [Next]_vars => Inv'
  <2> SUFFICES ASSUME Inv, [Next]_vars
               PROVE  Inv'
    OBVIOUS
  <2>1. OnceOnly /\ CountedOnce /\ "resume" \notin Events
    BY DEF FirstSession, OnceOnly, CountedOnce
  <2> QED
    BY <2>1, TypeStep, HaltedStep, OrderStep, CountStep, SessionStep
<1>2. Init => Inv
  BY TypeInit, HaltedInit, OrderInit, CountInit, SessionInit
<1>3. Inv => PrintedWasApplied
  <2> SUFFICES ASSUME Inv, NEW k \in 1..confirmed
               PROVE  k \in Labelled
    BY DEF PrintedWasApplied
  <2>1. k \in 1..Applied /\ k \in DOMAIN labels
    <3>1. confirmed \in Nat /\ confirmed <= Applied
      BY NumbersType DEF Numbers, SessionInv
    <3> QED
      BY <3>1, Lengths
  <2>2. labels[k] = k
    BY <2>1 DEF SessionInv, InPlace
  <2> QED
    BY <2>1, <2>2 DEF Labelled
<1> QED
  BY <1>1, <1>2, <1>3, PTL DEF Spec

-----------------------------------------------------------------------------
(* A stop is exact where, besides, every count is asked for and answered,   *)
(* nobody resets the counter, and no product passes while the stop settles  *)
(* the rows.  Each of the events excluded here breaks this by itself.       *)

ExactStop ==
    /\ FirstSession
    /\ Events \cap {"cachedCount", "countMissing", "labelDuringStop", "counterResets"} = {}

\* The counter shows the labels, and so does what the stop makes of it; no answer
\* is below the base.
Fresh ==
    Live =>
        /\ count = baseCount + Applied
        /\ stop.pc \in {"answer", "index"} => stop.hw = count
        /\ stop.pc = "reconcile" => stop.hw = Applied
        /\ pump.pc = "answer" => pump.hw >= baseCount
        /\ poller.pc \in {"visitAnswer", "answer"} => poller.hw >= baseCount

LEMMA FreshInit == Init => Fresh
<1> SUFFICES ASSUME Init
             PROVE  Fresh
  OBVIOUS
<1>1. Applied = 0
  BY EmptySeq DEF Init, Applied
<1> QED
  BY <1>1, MarkemAssumption DEF Init, Fresh, NoPump

\* A count is the printer's, which never is below the base.
LEMMA FreshCount ==
    ASSUME ExactStop, NEW c \in Counts
    PROVE  c = [asked |-> TRUE, hw |-> count]
  BY DEF Counts, ExactStop, FirstSession

LEMMA FreshStep ==
    ASSUME TypeOK, ExactStop, Halted, Fresh, [Next]_vars
    PROVE  Fresh'
<1> USE DEF tableVars, driverVars, printerVars
<1>1. "resume" \notin Events /\ "labelDuringStop" \notin Events /\ "counterResets" \notin Events
  BY DEF ExactStop, FirstSession
<1>2. /\ count \in Nat /\ baseCount \in Nat /\ Applied \in Nat
      /\ taskStatus \in {"active", "stopped"}
      /\ pump.hw \in Nat /\ poller.hw \in Nat /\ stop.hw \in Nat
  BY Lengths DEF TypeOK
<1>3. CASE Label
  <2>1. Applied' = Applied + 1 /\ UNCHANGED <<taskStatus, pump, poller, stop, baseCount>>
    BY <1>3, LabelMoves
  <2>2. count' = count + 1 /\ stop.pc \notin {"answer", "index", "reconcile"}
    BY <1>1, <1>3 DEF Label
  <2> QED
    BY <1>2, <2>1, <2>2 DEF Fresh, Live
<1>4. CASE PumpCount
  <2>1. /\ UNCHANGED <<labels, count, baseCount, taskStatus, poller, stop>>
        /\ pump' = [pump EXCEPT !.pc = "answer", !.hw = count]
    <3>1. PICK c \in Counts :
             pump' = [pump EXCEPT !.pc = IF c.asked THEN "answer" ELSE "space", !.hw = c.hw]
      BY <1>4 DEF PumpCount
    <3>2. c.asked = TRUE /\ c.hw = count
      BY FreshCount
    <3> QED
      BY <1>4, <3>1, <3>2 DEF PumpCount
  <2>2. pump'.hw = count
    BY <2>1 DEF TypeOK
  <2> QED
    BY <1>2, <2>1, <2>2 DEF Fresh, Live, Applied
<1>5. CASE PollCount
  <2>1. PICK c \in Counts : PollAsks(c)
    BY <1>5 DEF PollCount, PollAsks
  <2>2. c.asked = TRUE /\ c.hw = count
    BY FreshCount
  <2>3. /\ UNCHANGED <<labels, count, baseCount, taskStatus, pump, stop>>
        /\ poller'.hw = count
    BY <1>5, <2>1, <2>2 DEF PollCount, PollAsks
  <2> QED
    BY <1>2, <2>3 DEF Fresh, Live, Applied
<1>6. CASE StopCount
  <2>1. PICK c \in Counts : StopAsks(c)
    BY <1>6 DEF StopCount, StopAsks
  <2>2. c.asked = TRUE /\ c.hw = count
    BY FreshCount
  <2>3. /\ UNCHANGED <<labels, count, baseCount, taskStatus, pump, poller>>
        /\ stop'.hw = count
        /\ \/ stop.pc = "count" /\ stop'.pc = "answer"
           \/ stop.pc = "recount" /\ stop'.pc = "reanswer"
    BY <1>6, <2>1, <2>2 DEF StopCount, StopAsks
  <2>4. Live' => Live
    BY <2>3 DEF Live
  <2> QED
    BY <2>3, <2>4 DEF Fresh, Applied
<1>7. CASE PumpAnswer \/ PollAnswer \/ StopAnswer
  <2>1. /\ UNCHANGED <<labels, count, taskStatus>>
        /\ \/ /\ pump.pc = "answer" /\ pump'.pc = "space" /\ UNCHANGED <<poller, stop>>
              /\ baseCount' = IF pump.hw < baseCount /\ pump.hw # 0 THEN pump.hw ELSE baseCount
           \/ /\ poller.pc \in {"visitAnswer", "answer"} /\ poller'.pc \in {"space", "index"}
              /\ UNCHANGED <<pump, stop>>
              /\ baseCount' =
                    IF poller.hw < baseCount /\ poller.hw # 0 THEN poller.hw ELSE baseCount
           \/ /\ \/ stop.pc = "answer" /\ stop'.pc = "index"
                 \/ stop.pc = "reanswer" /\ stop'.pc = "rebase"
              /\ stop'.hw = stop.hw /\ UNCHANGED <<pump, poller>>
              /\ baseCount' = IF stop.hw < baseCount /\ stop.hw # 0 THEN stop.hw ELSE baseCount
    BY <1>7 DEF PumpAnswer, PollAnswer, StopAnswer, GetCurrentPrintCount, TypeOK
  <2>2. Live' => Live
    BY <2>1 DEF Live
  <2>3. ASSUME Live, Live' PROVE baseCount' = baseCount
    <3>1. stop.pc # "reanswer"
      BY <2>1, <2>3 DEF Halted, Live
    <3>2. /\ count = baseCount + Applied
          /\ pump.pc = "answer" => pump.hw >= baseCount
          /\ poller.pc \in {"visitAnswer", "answer"} => poller.hw >= baseCount
          /\ stop.pc = "answer" => stop.hw = count
      BY <2>3 DEF Fresh
    <3> QED
      BY <1>2, <2>1, <3>1, <3>2
  <2> QED
    BY <2>1, <2>2, <2>3 DEF Fresh, Live, Applied
<1>8. CASE StopIndex
  <2>1. /\ stop.pc = "index" /\ stop' = [pc |-> "reconcile", hw |-> LastPrintedIndex(stop.hw)]
        /\ UNCHANGED <<labels, count, taskStatus, baseCount, pump, poller>>
    BY <1>8 DEF StopIndex
  <2>2. count = baseCount + Applied /\ stop.hw = count
    BY <2>1 DEF Fresh, Live
  <2>3. LastPrintedIndex(stop.hw) = Applied
    BY <1>2, <2>2 DEF LastPrintedIndex
  <2> QED
    BY <2>1, <2>2, <2>3 DEF Fresh, Live, Applied
<1>9. CASE StopReconcile \/ StopClear \/ StopRebase
  <2>1. /\ stop.pc # "idle" /\ taskStatus' = taskStatus
        /\ stop'.pc \notin {"count", "answer", "index", "reconcile"}
    BY <1>9 DEF StopReconcile, StopClear, StopRebase, TypeOK
  <2> QED
    BY <2>1 DEF Fresh, Live, Halted
<1>10. CASE TaskAppend \/ StopRequest
  <2>1. /\ taskStatus = "active" /\ UNCHANGED <<labels, count, baseCount, poller>>
        /\ stop' = stop \/ stop'.pc = "count"
        /\ stop.pc = "idle"
        /\ pump' = pump \/ pump' = FreshPump
    BY <1>1, <1>10 DEF TaskAppend, StopRequest
  <2>2. FreshPump.pc = "tick"
    BY DEF FreshPump, NoPump
  <2> QED
    BY <2>1, <2>2 DEF Fresh, Live, Applied
<1>11. CASE UNCHANGED <<labels, count, baseCount, taskStatus, stop>>
               /\ (pump' = pump \/ pump'.pc # "answer")
               /\ (poller' = poller \/ poller'.pc \notin {"visitAnswer", "answer"})
  BY <1>11 DEF Fresh, Live, Applied
<1>12. CASE PumpStatus \/ PumpSpace \/ PumpFetch \/ PumpSend \/ PumpTally
  <2>1. pump \in PumpType /\ FreshPump.pc = "tick" /\ NoPump.pc = "none"
    BY DEF TypeOK, PumpType, PumpPlaces, FreshPump, NoPump
  <2>2. UNCHANGED <<labels, count, baseCount, taskStatus, stop, poller>>
    BY <1>12 DEF PumpStatus, PumpSpace, PumpFetch, PumpSend, PumpTally, Lane!Fetch
  <2>3. pump'.pc # "answer"
    <3>1. CASE PumpStatus
      BY <2>1, <3>1 DEF PumpStatus, PumpType
    <3>2. CASE PumpSpace
      <4>1. PICK room : pump' \in {FreshPump, [pump EXCEPT !.pc = "fetch", !.room = room]}
        BY <3>2 DEF PumpSpace
      <4> QED
        BY <2>1, <4>1 DEF PumpType
    <3>3. CASE PumpFetch
      BY <3>3, FetchMoves
    <3>4. CASE PumpSend
      <4>1. pump' \in {[pump EXCEPT !.pc = "tally"], FreshPump}
        BY <3>4 DEF PumpSend
      <4> QED
        BY <2>1, <4>1 DEF PumpType
    <3>5. CASE PumpTally
      BY <2>1, <3>5 DEF PumpTally
    <3> QED
      BY <1>12, <3>1, <3>2, <3>3, <3>4, <3>5
  <2> QED
    BY <2>2, <2>3, <1>11
<1>13. CASE PollSpace \/ PollIndex \/ PollMark
  <2>1. /\ UNCHANGED <<labels, count, baseCount, taskStatus, stop, pump>>
        /\ poller'.pc \in {"count", "visit", "mark"}
    BY <1>13 DEF PollSpace, PollIndex, PollMark, TypeOK
  <2> QED
    BY <2>1, <1>11
<1>14. CASE extractAndSaveHwCount \/ UNCHANGED vars
  BY <1>11, <1>14 DEF extractAndSaveHwCount, vars
<1>15. ~CounterReset
  BY <1>1 DEF CounterReset
<1> QED
  BY <1>3, <1>4, <1>5, <1>6, <1>7, <1>8, <1>9, <1>10, <1>12, <1>13, <1>14, <1>15
     DEF Next, Pump, Poll, Stop

\* Only a stop takes codes back.
LEMMA ReturnedByStop ==
    ASSUME TypeOK, [Next]_vars, taken' < taken
    PROVE  StopReconcile
<1>1. taken \in Nat
  BY CodesAreNumbers
<1>2. ~PumpFetch
  BY <1>1, FetchMoves
<1>3. taken' # taken
  BY <1>1
<1> QED
  BY <1>2, <1>3
     DEF Next, Label, CounterReset, extractAndSaveHwCount, Pump, PumpStatus, PumpCount, PumpAnswer,
         PumpSpace, PumpSend, PumpTally, Poll, PollCount, PollAnswer, PollSpace, PollIndex, PollMark,
         Lane!Mark, TaskAppend, StopRequest, Stop, StopCount, StopAnswer, StopIndex, StopClear,
         StopRebase, vars, tableVars

\* What a stop returns to the queue is on no product (storage.go:523): in the
\* first session of a task, with a count that was asked for and answered while
\* nothing passed.  markem_resume shows that a second session is another matter.
THEOREM StopReturnsUnprinted == ASSUME ExactStop PROVE Spec => ReturnedWasNotApplied
<1> DEFINE Inv == TypeOK /\ Halted /\ OrderInv /\ CountInv /\ SessionInv /\ Fresh
<1>1. Inv /\ [Next]_vars => Inv'
  <2> SUFFICES ASSUME Inv, [Next]_vars
               PROVE  Inv'
    OBVIOUS
  <2>1. FirstSession /\ OnceOnly /\ CountedOnce /\ "resume" \notin Events
    BY DEF ExactStop, FirstSession, OnceOnly, CountedOnce
  <2> QED
    BY <2>1, TypeStep, HaltedStep, OrderStep, CountStep, SessionStep, FreshStep
<1>2. Init => Inv
  BY TypeInit, HaltedInit, OrderInit, CountInit, SessionInit, FreshInit
<1>3. Inv /\ [Next]_vars =>
        [taken' < taken => \A i \in (taken' + 1)..taken : i \notin Labelled]_vars
  <2> SUFFICES ASSUME Inv, [Next]_vars, taken' < taken, NEW i \in (taken' + 1)..taken,
                      i \in Labelled
               PROVE  FALSE
    OBVIOUS
  <2>1. StopReconcile
    BY ReturnedByStop
  <2>2. stop.pc = "reconcile" /\ taken' = Lane!UpTo(stop.hw)
    BY <2>1 DEF StopReconcile, Lane!Reconcile
  <2>3. Live /\ pump.pc # "send"
    BY <2>2 DEF Halted, Live
  <2>4. stop.hw = Applied /\ taken = Applied + Queued
    BY <2>2, <2>3 DEF Fresh, SessionInv, TakenTrue, Given
  <2>5. Applied \in Nat /\ Queued \in Nat /\ confirmed \in Nat /\ confirmed <= Applied
    BY Lengths, NumbersType DEF Numbers, SessionInv
  <2>6. taken' = Applied
    BY <2>2, <2>4, <2>5 DEF Lane!UpTo
  <2>7. PICK k \in 1..Applied : i = labels[k]
    BY Lengths DEF Labelled
  <2>8. i = k
    BY <2>7 DEF SessionInv, InPlace
  <2> QED
    BY <2>5, <2>6, <2>7, <2>8
<1> QED
  BY <1>1, <1>2, <1>3, PTL DEF Spec, ReturnedWasNotApplied

-----------------------------------------------------------------------------
(* The rows move as the store moves them, under every event.                *)

LEMMA AppendDelivers == ASSUME TypeOK, TaskAppend PROVE Lane!Deliver
<1>1. delivered \in Nat /\ MaxCodes \in Nat
  BY NumbersType, MarkemAssumption DEF Numbers
<1>2. delivered' \in (delivered + 1)..MaxCodes /\ UNCHANGED <<confirmed, taken>>
  BY DEF TaskAppend
<1>3. PICK new \in (delivered + 1)..MaxCodes : delivered' = new
  BY <1>2
<1>4. new - delivered \in Nat
  BY <1>1
<1> QED
  BY <1>2, <1>3, <1>4 DEF Lane!Deliver

\* What the driver and the handlers do to the task's rows is what the store does
\* to a lane: codes are delivered, fetched, marked up to an index or reconciled
\* with one, whatever the index is worth.
THEOREM RowsAreALane == Spec => Lane!Spec
<1>1. Init => Lane!Init
  BY DEF Init
<1>2. TypeOK /\ [Next]_vars => [Lane!Next]_(Lane!laneVars)
  <2> SUFFICES ASSUME TypeOK, [Next]_vars, ~UNCHANGED Lane!laneVars
               PROVE  Lane!Next
    OBVIOUS
  <2> USE DEF tableVars, Lane!laneVars
  <2>1. CASE PumpFetch
    <3>1. pump.room \in Nat /\ Lane!Fetch(pump.room)
      BY <2>1, RoomType DEF PumpFetch
    <3> QED
      BY <3>1 DEF Lane!Next
  <2>2. CASE PollMark
    <3>1. poller.hw \in Nat /\ Lane!Mark(poller.hw)
      BY <2>2 DEF PollMark, TypeOK
    <3> QED
      BY <3>1 DEF Lane!Next
  <2>3. CASE StopReconcile
    <3>1. stop.hw \in Nat /\ Lane!Reconcile(stop.hw)
      BY <2>3 DEF StopReconcile, TypeOK
    <3> QED
      BY <3>1 DEF Lane!Next
  <2>4. CASE TaskAppend
    <3>1. Lane!Deliver
      BY <2>4, AppendDelivers
    <3> QED
      BY <3>1 DEF Lane!Next
  <2> QED
    BY <2>1, <2>2, <2>3, <2>4
       DEF Next, Label, CounterReset, extractAndSaveHwCount, Pump, PumpStatus, PumpCount,
           PumpAnswer, PumpSpace, PumpSend, PumpTally, Poll, PollCount, PollAnswer,
           PollSpace, PollIndex,
           StopRequest, Stop, StopCount, StopAnswer, StopIndex, StopClear, StopRebase, vars
<1> QED
  BY <1>1, <1>2, TypeCorrect, PTL DEF Spec, Lane!Spec

===============================================================================

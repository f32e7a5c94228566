-------------------------- MODULE VideojetLinkProofs --------------------------
(***************************************************************************)
(* Theorems about the connection of a Videojet driver, for any number of   *)
(* goroutines that use it, records, time-outs and faults: it implements    *)
(* RecordChannel, records enter the printer in their order, and the index  *)
(* a caller reads is the printer's.                                        *)
(***************************************************************************)
EXTENDS VideojetLink, TLAPS

-----------------------------------------------------------------------------
(* The inductive invariant.                                                 *)

\* The index of a command that has one.
IsRecord(command) == command.cmd = "SID"
Todo == call[Pump].todo
Taken == {records[k] : k \in DOMAIN records}

\* Who waits for a reply has a command it waits for; records are the pump's;
\* the odometer is asked for by a method of one command, after its since.
Waiting == lock # NoCaller => call[lock].todo # <<>>
OnlyPumpLoads == \A c \in Others : \A k \in DOMAIN call[c].todo : ~IsRecord(call[c].todo[k])
OdometerAlone ==
    \A c \in Callers : \A k \in DOMAIN call[c].todo :
        call[c].todo[k].cmd = "SLR" =>
            Len(call[c].todo) = 1 /\ (lates = 0 => call[c].since <= slr)
RoomCounts == \A k \in DOMAIN toDriver : toDriver[k].cmd = "SRC" => toDriver[k].value >= 0

CallShape == Waiting /\ OnlyPumpLoads /\ OdometerAlone /\ RoomCounts

\* Index i was assigned, and lies below what the pump has still to send.
Behind(i) ==
    /\ i < nextIndex
    /\ \A k \in DOMAIN Todo :
          IsRecord(Todo[k]) /\ (lock # Pump \/ k # 1) => i < Todo[k].index

\* The records still to be sent come in order, behind all that were sent.
Numbered ==
    /\ \A k \in DOMAIN Todo : IsRecord(Todo[k]) => Todo[k].index < nextIndex
    /\ \A k, l \in DOMAIN Todo :
          k < l /\ IsRecord(Todo[k]) /\ IsRecord(Todo[l]) => Todo[k].index < Todo[l].index
    /\ \A k \in DOMAIN toPrinter : IsRecord(toPrinter[k]) => Behind(toPrinter[k].index)
    /\ \A command \in late : IsRecord(command) => Behind(command.index)
    /\ \A i \in Taken : Behind(i)

\* A record is under way, late or taken, and only once.
Once ==
    /\ \A k, l \in DOMAIN toPrinter :
          k < l /\ IsRecord(toPrinter[k]) /\ IsRecord(toPrinter[l])
              => toPrinter[k].index < toPrinter[l].index
    /\ \A k \in DOMAIN toPrinter : IsRecord(toPrinter[k]) =>
          toPrinter[k].index \notin Taken /\ toPrinter[k] \notin late
    /\ \A command \in late : IsRecord(command) => command.index \notin Taken

\* No command outlived its connection: the printer has its records in order,
\* those to be printed above the last one applied, and those under way above
\* all it ever took.
RecordsSorted == \A k, l \in DOMAIN records : k < l => records[k] < records[l]
QueueSorted ==
    /\ \A k, l \in DOMAIN queue : k < l => queue[k] < queue[l]
    /\ \A k \in DOMAIN queue : slr < queue[k] /\ queue[k] \in Taken
    /\ slr \in Taken \cup {0}
NewestUnderWay ==
    \A k \in DOMAIN toPrinter : IsRecord(toPrinter[k]) => \A i \in Taken : i < toPrinter[k].index
Sorted == lates = 0 => late = {} /\ RecordsSorted /\ QueueSorted /\ NewestUnderWay

\* The reply is one to the command.
Answers(reply, command, since) ==
    /\ reply.cmd \in {command.cmd, "ERR"}
    /\ IsRecord(command) /\ reply.cmd # "ERR" => command.index \in Taken
    /\ command.cmd = "SLR" /\ lates = 0 => reply.value \in {Nothing} \cup since..slr

\* While the printer has only answered, the connection carries what the holder
\* of the mutex waits for, or the reply to it.
Steady ==
    strays = 0 =>
        \/ lock = NoCaller /\ toPrinter = <<>> /\ toDriver = <<>>
        \/ /\ lock # NoCaller
           /\ \/ toPrinter = <<call[lock].todo[1]>> /\ toDriver = <<>>
              \/ /\ toPrinter = <<>> /\ Len(toDriver) = 1
                 /\ Answers(toDriver[1], call[lock].todo[1], call[lock].since)

Acknowledged ==
    /\ \A i \in acked : i < nextIndex
    /\ strays = 0 => acked \subseteq Taken

IInv == TypeOK /\ CallShape /\ Numbered /\ Once /\ Sorted /\ Steady /\ Acknowledged

-----------------------------------------------------------------------------
(* Sequences, and what the steps do to a call.                              *)

LEMMA HeadAndTail ==
    ASSUME NEW S, NEW s \in Seq(S), s # <<>>
    PROVE  /\ Head(s) = s[1] /\ Head(s) \in S /\ 1 \in DOMAIN s
           /\ Tail(s) \in Seq(S) /\ Len(Tail(s)) = Len(s) - 1
           /\ \A k \in DOMAIN Tail(s) :
                 k \in Nat /\ k # 0 /\ k + 1 \in DOMAIN s /\ Tail(s)[k] = s[k + 1]
           /\ \A k \in DOMAIN s : k # 1 => k - 1 \in DOMAIN Tail(s)
  OBVIOUS

LEMMA Appended ==
    ASSUME NEW S, NEW s \in Seq(S), NEW e \in S
    PROVE  /\ Append(s, e) \in Seq(S)
           /\ Len(Append(s, e)) = Len(s) + 1
           /\ \A k \in DOMAIN Append(s, e) :
                 \/ k \in DOMAIN s /\ Append(s, e)[k] = s[k]
                 \/ k = Len(s) + 1 /\ Append(s, e)[k] = e
           /\ \A k \in DOMAIN s : k \in DOMAIN Append(s, e) /\ Append(s, e)[k] = s[k]
           /\ Len(s) + 1 \in DOMAIN Append(s, e) /\ Append(s, e)[Len(s) + 1] = e
           /\ \A k \in DOMAIN s : k \in Nat /\ k <= Len(s)
  OBVIOUS

CallType == [todo : Seq(Commands), reset : BOOLEAN, room : 0..Capacity, since : 0..MaxIndex]

OthersKeep(c) == \A d \in Callers \ {c} : call'[d] = call[d]

LEMMA NoCallType == NoCall \in CallType
  BY LinkAssumption DEF NoCall, CallType

LEMMA MethodsAreCommands ==
    ASSUME NEW m \in DOMAIN Methods
    PROVE  /\ Methods[m] \in Seq(Commands) /\ Methods[m] # <<>>
           /\ \A k \in DOMAIN Methods[m] :
                 /\ ~IsRecord(Methods[m][k])
                 /\ Methods[m][k].cmd = "SLR" => k = 1 /\ Len(Methods[m]) = 1
<1>1. ASSUME NEW cmd \in Names \ {"SID"}
      PROVE  /\ Command(cmd) \in Commands /\ Command(cmd).cmd = cmd
             /\ ~IsRecord(Command(cmd))
  BY DEF Commands, Command, IsRecord
<1>2. CASE m = "InitSession"
  <2>1. Methods[m] = <<Command("SCB"), Command("SMR"), Command("SHO")>>
    BY <1>2 DEF Methods
  <2> QED
    BY <1>1, <2>1 DEF Names
<1>3. CASE m # "InitSession"
  <2>1. \E cmd \in Names \ {"SID"} : Methods[m] = <<Command(cmd)>>
    BY <1>3 DEF Methods, Names
  <2> QED
    BY <1>1, <2>1
<1> QED
  BY <1>2, <1>3

LEMMA BatchIsRecords ==
    ASSUME TypeOK, NEW n \in 1..MaxBatch, nextIndex + n <= MaxIndex + 1
    PROVE  /\ Batch(n) \in Seq(Commands) /\ Batch(n) # <<>>
           /\ DOMAIN Batch(n) = 1..n
           /\ \A k \in 1..n : IsRecord(Batch(n)[k]) /\ Batch(n)[k].index = nextIndex + k - 1
<1>1. ASSUME NEW k \in 1..n PROVE nextIndex + k - 1 \in 1..MaxIndex
  BY LinkAssumption DEF TypeOK
<1>2. ASSUME NEW k \in 1..n PROVE SID(nextIndex + k - 1) \in Commands
  BY <1>1 DEF Commands
<1>3. Batch(n) \in [1..n -> Commands] /\ n \in Nat
  BY <1>2, LinkAssumption DEF Batch
<1>4. Batch(n) \in Seq(Commands) /\ Len(Batch(n)) = n
  BY <1>3
<1> QED
  BY <1>3, <1>4 DEF Batch, SID, IsRecord

LEMMA BeginFields ==
    ASSUME TypeOK, NEW c \in Callers, NEW commands \in Seq(Commands), Begin(c, commands)
    PROVE  /\ OthersKeep(c) /\ call[c].todo = <<>>
           /\ call' \in [Callers -> CallType]
           /\ call'[c].todo = commands
           /\ Head(commands).cmd = "SLR" => call'[c].since = slr
           /\ UNCHANGED <<linkVars, driverVars, printerVars, late, bounds>>
<1> DEFINE since == IF Head(commands).cmd = "SLR" THEN slr ELSE 0
           begun == [NoCall EXCEPT !.todo = commands, !.since = since]
<1>1. since \in 0..MaxIndex
  BY LinkAssumption DEF TypeOK
<1> HIDE DEF since
<1>2. begun \in CallType /\ begun.todo = commands /\ begun.since = since
  BY <1>1, NoCallType, LinkAssumption DEF NoCall, CallType
<1>3. call' = [call EXCEPT ![c] = begun]
  BY DEF Begin, since
<1> HIDE DEF begun
<1>4. call \in [Callers -> CallType]
  BY DEF TypeOK, CallType
<1>5. /\ call' \in [Callers -> CallType] /\ call'[c] = begun /\ OthersKeep(c)
  BY <1>2, <1>3, <1>4 DEF OthersKeep
<1>6. call[c].todo = <<>>
  BY DEF Begin, Busy
<1> QED
  BY <1>2, <1>5, <1>6 DEF Begin, since

LEMMA FailedFields ==
    ASSUME TypeOK, NEW c \in Callers, Failed(c)
    PROVE  /\ OthersKeep(c) /\ call' \in [Callers -> CallType]
           /\ call'[c].todo = <<>>
<1>1. call[c] \in CallType /\ call \in [Callers -> CallType]
  BY DEF TypeOK, CallType
<1>2. call' = [call EXCEPT ![c] = [[call[c] EXCEPT !.todo = <<>>] EXCEPT !.since = 0]]
  BY <1>1 DEF Failed
<1>3. [[call[c] EXCEPT !.todo = <<>>] EXCEPT !.since = 0] \in CallType
  <2>1. <<>> \in Seq(Commands) /\ 0 \in 0..MaxIndex
    BY LinkAssumption
  <2>2. [call[c] EXCEPT !.todo = <<>>] \in CallType
    BY <1>1, <2>1 DEF CallType
  <2> QED
    BY <2>1, <2>2 DEF CallType
<1> QED
  BY <1>1, <1>2, <1>3 DEF OthersKeep, CallType

LEMMA ResetFields ==
    ASSUME TypeOK, NEW c \in Callers, ResetSocket(c)
    PROVE  /\ OthersKeep(c) /\ call' \in [Callers -> CallType]
           /\ call'[c].todo = call[c].todo /\ call'[c].since = call[c].since
<1>1. call[c] \in CallType /\ call \in [Callers -> CallType]
  BY DEF TypeOK, CallType
<1>2. call' = [call EXCEPT ![c] = [call[c] EXCEPT !.reset = FALSE]]
  BY <1>1 DEF ResetSocket
<1> QED
  BY <1>1, <1>2 DEF OthersKeep, CallType

LEMMA ReplyFields ==
    ASSUME TypeOK, CallShape, NEW c \in Callers, ReadReply(c)
    PROVE  /\ OthersKeep(c) /\ call' \in [Callers -> CallType]
           /\ call[c].todo # <<>>
           /\ call'[c].todo \in {Tail(call[c].todo), <<>>}
           /\ \/ acked' = acked
              \/ /\ IsRecord(Head(call[c].todo))
                 /\ ~Refused(Head(call[c].todo), Head(toDriver))
                 /\ acked' = acked \cup {Head(call[c].todo).index}
           /\ up' \in BOOLEAN
<1> DEFINE k == call[c]
           reply == Head(toDriver)
           command == Head(k.todo)
           done == [k EXCEPT !.todo = Tail(k.todo)]
           given == [k EXCEPT !.todo = <<>>]
<1>1. k \in CallType /\ call \in [Callers -> CallType] /\ k.todo # <<>> /\ k.todo \in Seq(Commands)
  BY LinkAssumption DEF TypeOK, CallType, CallShape, Waiting, ReadReply
<1>2. /\ command \in Commands /\ Tail(k.todo) \in Seq(Commands)
  BY <1>1, HeadAndTail
<1>3. /\ done \in CallType /\ done.todo = Tail(k.todo)
      /\ given \in CallType /\ given.todo = <<>>
  <2>1. <<>> \in Seq(Commands)
    OBVIOUS
  <2> QED
    BY <1>1, <1>2, <2>1 DEF CallType
<1>4. reply \in Replies /\ (reply.cmd = "SRC" => reply.value >= 0)
  BY HeadAndTail DEF ReadReply, TypeOK, CallShape, RoomCounts
<1> DEFINE next == CASE command.cmd = "SRC" ->
                           IF Echoes("SRC", reply)
                           THEN [done EXCEPT !.room = IF c = Pump THEN Room(reply.value) ELSE 0]
                           ELSE [done EXCEPT !.reset = TRUE]
                      [] command.cmd = "SLR" -> [done EXCEPT !.since = 0]
                      [] Refused(command, reply) -> given
                      [] OTHER -> done
<1>5. /\ call' = [call EXCEPT ![c] = next]
      /\ acked' = IF command.cmd = "SID" /\ ~Refused(command, reply)
                  THEN acked \cup {command.index} ELSE acked
      /\ up' = (command.cmd = "GCL" => reply.cmd # "ERR")
  BY DEF ReadReply, TakeReply
<1> HIDE DEF done, given, command, reply, k
<1>6. next \in CallType /\ next.todo \in {Tail(k.todo), <<>>}
  <2>1. CASE command.cmd = "SRC" /\ Echoes("SRC", reply)
    <3>1. reply.value \in Nat
      BY <1>4, <2>1 DEF Echoes, Replies
    <3>2. (IF c = Pump THEN Room(reply.value) ELSE 0) \in 0..Capacity
      BY <3>1, LinkAssumption DEF Room
    <3> QED
      BY <1>3, <2>1, <3>2 DEF CallType
  <2>2. CASE command.cmd = "SRC" /\ ~Echoes("SRC", reply)
    BY <1>3, <2>2 DEF CallType
  <2>3. CASE command.cmd = "SLR"
    <3>1. next = [done EXCEPT !.since = 0] /\ 0 \in 0..MaxIndex
      BY <2>3, LinkAssumption DEF Refused, Checked
    <3> QED
      BY <1>3, <3>1 DEF CallType
  <2>4. CASE command.cmd \notin {"SRC", "SLR"} /\ Refused(command, reply)
    BY <1>3, <2>4
  <2>5. CASE command.cmd \notin {"SRC", "SLR"} /\ ~Refused(command, reply)
    BY <1>3, <2>5
  <2> QED
    BY <2>1, <2>2, <2>3, <2>4, <2>5
<1> HIDE DEF next
<1> QED
  BY <1>1, <1>5, <1>6 DEF OthersKeep, IsRecord, command, reply, k

-----------------------------------------------------------------------------
(* The steps, by what they do: a call begins, writes a command, or drops    *)
(* the connection.                                                          *)

Begins(c) ==
    /\ OthersKeep(c) /\ call[c].todo = <<>> /\ call' \in [Callers -> CallType]
    /\ UNCHANGED <<linkVars, driverVars, printerVars, late, bounds>>
    /\ \/ /\ nextIndex' = nextIndex
          /\ \A k \in DOMAIN call'[c].todo :
                /\ ~IsRecord(call'[c].todo[k])
                /\ call'[c].todo[k].cmd = "SLR" =>
                      Len(call'[c].todo) = 1 /\ call'[c].since = slr
       \/ /\ c = Pump
          /\ \E n \in 1..MaxBatch :
                /\ nextIndex' = nextIndex + n /\ nextIndex' <= MaxIndex + 1
                /\ DOMAIN call'[c].todo = 1..n
                /\ \A k \in 1..n :
                      /\ IsRecord(call'[c].todo[k])
                      /\ call'[c].todo[k].index = nextIndex + k - 1

Sends(c) ==
    /\ call[c].todo # <<>> /\ lock = NoCaller /\ lock' = c /\ open' = TRUE
    /\ toPrinter' = Append(toPrinter, Head(call[c].todo))
    /\ UNCHANGED <<toDriver, call, late, driverVars, nextIndex, printerVars, bounds>>

Drops(c) ==
    /\ OthersKeep(c) /\ call' \in [Callers -> CallType]
    /\ \/ call'[c].todo = <<>>
       \/ call'[c].todo = call[c].todo /\ call'[c].since = call[c].since /\ lock = NoCaller
    /\ lock \in {c, NoCaller} /\ lock' = NoCaller /\ open' = FALSE
    /\ toPrinter' = <<>> /\ toDriver' = <<>>
    /\ \/ UNCHANGED <<late, lates>>
       \/ /\ strays + lates < MaxFaults /\ lates' = lates + 1
          /\ \E k \in DOMAIN toPrinter : late' = late \cup {toPrinter[k]}
    /\ UNCHANGED <<driverVars, nextIndex, printerVars, strays>>

LEMMA BeginsStep ==
    ASSUME TypeOK, AskForRoom \/ SendBatch \/ \E d \in Others : OtherCalls(d)
    PROVE  \E c \in Callers : Begins(c)
<1>1. ASSUME NEW c \in Callers, NEW m \in DOMAIN Methods, Begin(c, Methods[m]),
             nextIndex' = nextIndex
      PROVE  Begins(c)
  <2>1. /\ Methods[m] \in Seq(Commands) /\ Methods[m] # <<>>
        /\ \A k \in DOMAIN Methods[m] :
              /\ ~IsRecord(Methods[m][k])
              /\ Methods[m][k].cmd = "SLR" => k = 1 /\ Len(Methods[m]) = 1
        /\ Head(Methods[m]) = Methods[m][1]
    BY MethodsAreCommands, HeadAndTail
  <2> QED
    BY <1>1, <2>1, BeginFields DEF Begins
<1>2. CASE AskForRoom
  <2>1. "GetBufferFreeSpace" \in DOMAIN Methods /\ Pump \in Callers
    BY DEF Methods, Callers
  <2>2. Methods.GetBufferFreeSpace = Methods["GetBufferFreeSpace"]
    BY DEF Methods
  <2> QED
    BY <1>1, <1>2, <2>1, <2>2 DEF AskForRoom
<1>3. CASE SendBatch
  <2>1. PICK n \in 1..MaxBatch :
            /\ nextIndex + n <= MaxIndex + 1 /\ Begin(Pump, Batch(n)) /\ nextIndex' = nextIndex + n
    BY <1>3 DEF SendBatch
  <2>2. Pump \in Callers
    BY DEF Callers
  <2>3. /\ Batch(n) \in Seq(Commands) /\ DOMAIN Batch(n) = 1..n
        /\ \A k \in 1..n : IsRecord(Batch(n)[k]) /\ Batch(n)[k].index = nextIndex + k - 1
    BY <2>1, BatchIsRecords
  <2>4. /\ OthersKeep(Pump) /\ call[Pump].todo = <<>> /\ call' \in [Callers -> CallType]
        /\ call'[Pump].todo = Batch(n)
        /\ UNCHANGED <<linkVars, driverVars, printerVars, late, bounds>>
    BY <2>1, <2>2, <2>3, BeginFields
  <2>5. nextIndex' <= MaxIndex + 1
    BY <2>1
  <2>6. Begins(Pump)
    BY <2>1, <2>3, <2>4, <2>5 DEF Begins
  <2> QED
    BY <2>2, <2>6
<1>4. ASSUME NEW d \in Others, OtherCalls(d) PROVE \E c \in Callers : Begins(c)
  BY <1>1, <1>4 DEF OtherCalls, Callers
<1> QED
  BY <1>2, <1>3, <1>4

LEMMA ExchangeStep ==
    ASSUME TypeOK, NEW c \in Callers, Exchange(c)
    PROVE  Sends(c) \/ Drops(c) \/ ReadReply(c)
<1>1. ASSUME Close
      PROVE  /\ open' = FALSE /\ toPrinter' = <<>> /\ toDriver' = <<>>
             /\ \/ UNCHANGED <<late, lates>>
                \/ /\ strays + lates < MaxFaults /\ lates' = lates + 1
                   /\ \E k \in DOMAIN toPrinter : late' = late \cup {toPrinter[k]}
  BY <1>1 DEF Close
<1>2. CASE SendCommand(c)
  <2>1. CASE Close /\ Failed(c)
    BY <1>1, <1>2, <2>1, FailedFields DEF SendCommand, MayLock, Drops
  <2>2. CASE ~(Close /\ Failed(c))
    BY <1>2, <2>2 DEF SendCommand, MayLock, Sends, bounds
  <2> QED
    BY <2>1, <2>2
<1>3. CASE Timeout(c)
  BY <1>1, <1>3, FailedFields DEF Timeout, Drops
<1>4. CASE ResetSocket(c)
  <2>1. Close /\ lock = NoCaller /\ lock' = lock
        /\ UNCHANGED <<driverVars, nextIndex, printerVars, strays>>
    BY <1>4 DEF ResetSocket
  <2> QED
    BY <1>1, <1>4, <2>1, ResetFields DEF Drops
<1> QED
  BY <1>2, <1>3, <1>4 DEF Exchange

LEMMA StepCases ==
    ASSUME TypeOK, [Next]_vars
    PROVE  \/ \E c \in Callers : Begins(c) \/ Sends(c) \/ Drops(c) \/ ReadReply(c)
           \/ PrinterExecutes \/ PrinterExecutesLate \/ StrayLine \/ Label
           \/ UNCHANGED vars
  BY BeginsStep, ExchangeStep DEF Next

\* What a command does to the records.
LEMMA CarryOutFields ==
    ASSUME NEW command, NEW accepted \in BOOLEAN, CarryOut(command, accepted)
    PROVE  /\ slr' = slr
           /\ \/ /\ IsRecord(command) /\ accepted
                 /\ queue' = Append(queue, command.index)
                 /\ records' = Append(records, command.index)
              \/ /\ ~(IsRecord(command) /\ accepted)
                 /\ records' = records /\ queue' \in {queue, <<>>}
  BY DEF CarryOut, IsRecord

LEMMA RecordIndex ==
    ASSUME NEW command \in Commands, IsRecord(command)
    PROVE  command.index \in 1..MaxIndex /\ command = SID(command.index)
  BY DEF Commands, Command, SID, IsRecord

\* The printer answers a command, or refuses it.
LEMMA AnswerFields ==
    ASSUME TypeOK, NEW command \in Commands, NEW accepted \in BOOLEAN
    PROVE  LET reply == Answer(command, accepted)
           IN  /\ reply \in Replies
               /\ reply.cmd = (IF accepted THEN command.cmd ELSE "ERR")
               /\ reply.cmd = "SRC" => reply.value >= 0
               /\ command.cmd = "SLR" => reply.value \in {Nothing, slr}
<1>1. command.cmd \in Names \cup {"ERR"} /\ Len(queue) \in Nat /\ slr \in Int
  BY DEF TypeOK, Commands, Command, SID, Names
<1>2. command.cmd = "SID" => command.index \in Int
  BY RecordIndex DEF IsRecord
<1> DEFINE value == CASE ~accepted -> Nothing
                      [] accepted /\ command.cmd = "SRC" -> Len(queue)
                      [] accepted /\ command.cmd = "SLR" -> slr
                      [] accepted /\ command.cmd = "SID" -> command.index
                      [] accepted /\ command.cmd = "GST" -> Printing
                      [] OTHER -> Nothing
<1>3. /\ value \in Int
      /\ command.cmd = "SRC" /\ accepted => value = Len(queue)
      /\ command.cmd = "SLR" => value \in {Nothing, slr}
  <2>0. CASE ~accepted
    BY <1>1, <2>0 DEF Nothing
  <2>1. CASE accepted /\ command.cmd = "SRC"
    BY <1>1, <2>1
  <2>2. CASE accepted /\ command.cmd = "SLR"
    BY <1>1, <2>2
  <2>3. CASE accepted /\ command.cmd = "SID"
    BY <1>1, <1>2, <2>3 DEF Nothing
  <2>4. CASE accepted /\ command.cmd = "GST"
    BY <1>1, <2>4 DEF Printing
  <2>5. CASE accepted /\ command.cmd \notin {"SRC", "SLR", "SID", "GST"}
    BY <1>1, <2>5 DEF Nothing
  <2> QED
    BY <2>0, <2>1, <2>2, <2>3, <2>4, <2>5
<1>4. Answer(command, accepted)
          = [cmd |-> IF accepted THEN command.cmd ELSE "ERR", value |-> value]
  BY DEF Answer
<1> HIDE DEF value
<1> QED
  BY <1>1, <1>3, <1>4 DEF Replies

LEMMA TakenGrows ==
    ASSUME TypeOK, NEW i \in 1..MaxIndex, records' = Append(records, i)
    PROVE  Taken' = Taken \cup {i}
<1>1. records \in Seq(1..MaxIndex)
  BY DEF TypeOK
<1> QED
  BY <1>1, Appended DEF Taken

-----------------------------------------------------------------------------
(* One lemma per conjunct of the invariant.                                 *)

\* What becomes of the pump's commands in a step: they stay, are given up,
\* lose the first, or are new.
TodoStays == Todo' = Todo /\ nextIndex' = nextIndex /\ (lock = Pump => lock' = Pump)
TodoGivenUp == Todo' = <<>> /\ nextIndex' = nextIndex
TodoAnswered == lock = Pump /\ Todo # <<>> /\ Todo' = Tail(Todo) /\ nextIndex' = nextIndex
TodoNew ==
    /\ nextIndex <= nextIndex' /\ nextIndex' \in 1..(MaxIndex + 1)
    /\ \A k \in DOMAIN Todo' : IsRecord(Todo'[k]) =>
          Todo'[k].index \in nextIndex..(nextIndex' - 1)
    /\ \A k, l \in DOMAIN Todo' :
          k < l /\ IsRecord(Todo'[k]) /\ IsRecord(Todo'[l]) => Todo'[k].index < Todo'[l].index

LEMMA TodoStep ==
    ASSUME TypeOK, CallShape, [Next]_vars
    PROVE  TodoStays \/ TodoGivenUp \/ TodoAnswered \/ TodoNew
<1> USE DEF Todo
<1>0. nextIndex \in 1..(MaxIndex + 1) /\ MaxIndex \in Nat /\ Pump \in Callers /\ Pump # NoCaller
  BY LinkAssumption DEF TypeOK, Callers
<1>1. ASSUME NEW c \in Callers, c # Pump, Begins(c) \/ Drops(c) \/ ReadReply(c)
      PROVE  TodoStays \/ TodoNew
  <2>1. CASE Begins(c)
    BY <1>0, <1>1, <2>1 DEF Begins, OthersKeep, linkVars, TodoStays
  <2>2. CASE Drops(c)
    BY <1>0, <1>1, <2>2 DEF Drops, OthersKeep, TodoStays
  <2>3. CASE ReadReply(c)
    <3>1. OthersKeep(c)
      BY <2>3, ReplyFields
    <3> QED
      BY <1>0, <1>1, <2>3, <3>1 DEF ReadReply, OthersKeep, TodoStays
  <2> QED
    BY <1>1, <2>1, <2>2, <2>3
<1>2. ASSUME Begins(Pump) PROVE TodoNew
  <2>1. CASE /\ nextIndex' = nextIndex
             /\ \A k \in DOMAIN call'[Pump].todo : ~IsRecord(call'[Pump].todo[k])
    BY <1>0, <2>1 DEF TodoNew
  <2>2. CASE \E n \in 1..MaxBatch :
                /\ nextIndex' = nextIndex + n /\ nextIndex' <= MaxIndex + 1
                /\ DOMAIN call'[Pump].todo = 1..n
                /\ \A k \in 1..n :
                      /\ IsRecord(call'[Pump].todo[k])
                      /\ call'[Pump].todo[k].index = nextIndex + k - 1
    <3>1. PICK n \in 1..MaxBatch :
                /\ nextIndex' = nextIndex + n /\ nextIndex' <= MaxIndex + 1
                /\ DOMAIN call'[Pump].todo = 1..n
                /\ \A k \in 1..n : call'[Pump].todo[k].index = nextIndex + k - 1
      BY <2>2
    <3>2. n \in Nat /\ n > 0
      BY <3>1, LinkAssumption
    <3>3. nextIndex <= nextIndex' /\ nextIndex' \in 1..(MaxIndex + 1)
      BY <1>0, <3>1, <3>2
    <3>4. ASSUME NEW k \in DOMAIN Todo'
          PROVE  k \in 1..n /\ Todo'[k].index = nextIndex + k - 1
                 /\ Todo'[k].index \in nextIndex..(nextIndex' - 1)
      <4>1. k \in 1..n /\ Todo'[k].index = nextIndex + k - 1
        BY <3>1, <3>4
      <4> QED
        BY <1>0, <3>1, <3>2, <4>1
    <3>5. ASSUME NEW k \in DOMAIN Todo', NEW l \in DOMAIN Todo', k < l
          PROVE  Todo'[k].index < Todo'[l].index
      BY <1>0, <3>2, <3>4, <3>5
    <3> QED
      BY <3>3, <3>4, <3>5 DEF TodoNew
  <2> QED
    BY <1>2, <2>1, <2>2 DEF Begins
<1>3. ASSUME Drops(Pump) PROVE TodoStays \/ TodoGivenUp
  BY <1>0, <1>3 DEF Drops, TodoStays, TodoGivenUp
<1>4. ASSUME ReadReply(Pump) PROVE TodoAnswered \/ TodoGivenUp
  <2>1. call[Pump].todo # <<>> /\ call'[Pump].todo \in {Tail(call[Pump].todo), <<>>}
    BY <1>0, <1>4, ReplyFields
  <2>2. lock = Pump /\ nextIndex' = nextIndex
    BY <1>4 DEF ReadReply
  <2> QED
    BY <2>1, <2>2 DEF TodoAnswered, TodoGivenUp
<1>5. ASSUME NEW c \in Callers, Sends(c) PROVE TodoStays
  BY <1>0, <1>5 DEF Sends, TodoStays
<1>6. ASSUME PrinterExecutes \/ PrinterExecutesLate \/ StrayLine \/ Label \/ UNCHANGED vars
      PROVE  TodoStays
  BY <1>0, <1>6 DEF PrinterExecutes, PrinterExecutesLate, StrayLine, Label, vars, linkVars, TodoStays
<1> QED
  BY <1>1, <1>2, <1>3, <1>4, <1>5, <1>6, StepCases

\* An index that lies behind the pump's commands stays behind them.
LEMMA BehindKept ==
    ASSUME TypeOK, CallShape, [Next]_vars
    PROVE  \A i \in Int : Behind(i) => Behind(i)'
<1>1. Todo \in Seq(Commands) /\ nextIndex \in Nat
  BY DEF TypeOK, Todo, Callers
<1> SUFFICES ASSUME NEW i \in Int, Behind(i) PROVE Behind(i)'
  OBVIOUS
<1>2. CASE TodoStays
  BY <1>2 DEF Behind, TodoStays
<1>3. CASE TodoGivenUp
  BY <1>3 DEF Behind, TodoGivenUp
<1>4. CASE TodoAnswered
  BY <1>1, <1>4, HeadAndTail DEF Behind, TodoAnswered
<1>5. CASE TodoNew
  <2>1. nextIndex' \in Nat /\ i < nextIndex'
    BY <1>1, <1>5 DEF Behind, TodoNew
  <2>2. ASSUME NEW k \in DOMAIN Todo', IsRecord(Todo'[k]) PROVE i < Todo'[k].index
    BY <1>1, <1>5, <2>2, LinkAssumption DEF Behind, TodoNew
  <2> QED
    BY <2>1, <2>2 DEF Behind
<1> QED
  BY <1>2, <1>3, <1>4, <1>5, TodoStep

LEMMA ConstantTypes ==
    /\ MaxIndex \in Nat /\ MaxFaults \in Nat /\ Capacity \in Nat /\ MaxBatch \in Nat
    /\ Pump \in Callers /\ NoCaller \notin Callers /\ Pump \notin Others
    /\ \A c \in Callers : c # Pump => c \in Others
  BY LinkAssumption DEF Callers

\* What the printer does with the first command of the connection.
LEMMA ExecutesFields ==
    ASSUME TypeOK, PrinterExecutes
    PROVE  \E accepted \in BOOLEAN :
              LET command == toPrinter[1]
              IN  /\ toPrinter # <<>> /\ command \in Commands
                  /\ CarryOut(command, accepted)
                  /\ toDriver' = Append(toDriver, Answer(command, accepted))
                  /\ toPrinter' = Tail(toPrinter)
                  /\ UNCHANGED <<lock, open, driverVars, call, nextIndex, late, bounds>>
<1>1. toPrinter # <<>> /\ Head(toPrinter) = toPrinter[1] /\ toPrinter[1] \in Commands
  BY HeadAndTail DEF PrinterExecutes, TypeOK
<1>2. PICK accepted \in BOOLEAN :
          /\ CarryOut(toPrinter[1], accepted)
          /\ toDriver' = Append(toDriver, Answer(toPrinter[1], accepted))
  BY <1>1 DEF PrinterExecutes
<1> QED
  BY <1>1, <1>2 DEF PrinterExecutes

\* Carrying out a command keeps the types of what the printer holds.
LEMMA CarryOutTypes ==
    ASSUME TypeOK, NEW command \in Commands, NEW accepted \in BOOLEAN,
           CarryOut(command, accepted)
    PROVE  queue' \in Seq(1..MaxIndex) /\ slr' = slr /\ records' \in Seq(1..MaxIndex)
<1>1. queue \in Seq(1..MaxIndex) /\ records \in Seq(1..MaxIndex) /\ <<>> \in Seq(1..MaxIndex)
  BY DEF TypeOK
<1>2. CASE /\ IsRecord(command)
           /\ queue' = Append(queue, command.index) /\ records' = Append(records, command.index)
  <2>1. command.index \in 1..MaxIndex
    BY <1>2, RecordIndex
  <2>2. queue' \in Seq(1..MaxIndex) /\ records' \in Seq(1..MaxIndex)
    BY <1>1, <1>2, <2>1, Appended
  <2> QED
    BY <2>2, CarryOutFields
<1>3. CASE records' = records /\ queue' \in {queue, <<>>}
  BY <1>1, <1>3, CarryOutFields
<1> QED
  BY <1>2, <1>3, CarryOutFields

LEMMA TypeStep ==
    ASSUME TypeOK, CallShape, Numbered, [Next]_vars
    PROVE  TypeOK'
<1> USE ConstantTypes
<1>1. ASSUME NEW c \in Callers, Begins(c) PROVE TypeOK'
  <2>1. nextIndex' \in 1..(MaxIndex + 1)
    <3>1. CASE nextIndex' = nextIndex
      BY <3>1 DEF TypeOK
    <3>2. CASE \E n \in 1..MaxBatch : nextIndex' = nextIndex + n /\ nextIndex' <= MaxIndex + 1
      <4>1. PICK n \in 1..MaxBatch : nextIndex' = nextIndex + n /\ nextIndex' <= MaxIndex + 1
        BY <3>2
      <4>2. nextIndex \in Nat /\ nextIndex >= 1 /\ n \in Nat
        BY DEF TypeOK
      <4> QED
        BY <4>1, <4>2
    <3> QED
      BY <1>1, <3>1, <3>2 DEF Begins
  <2> QED
    BY <1>1, <2>1 DEF Begins, TypeOK, CallType, linkVars, driverVars, printerVars, bounds
<1>2. ASSUME NEW c \in Callers, Sends(c) PROVE TypeOK'
  <2>1. call[c].todo \in Seq(Commands) /\ Head(call[c].todo) \in Commands
    BY <1>2, HeadAndTail DEF Sends, TypeOK
  <2>2. toPrinter' \in Seq(Commands)
    BY <1>2, <2>1, Appended DEF Sends, TypeOK
  <2> QED
    BY <1>2, <2>2 DEF Sends, TypeOK, driverVars, printerVars, bounds
<1>3. ASSUME NEW c \in Callers, Drops(c) PROVE TypeOK'
  <2>1. late' \subseteq Commands /\ lates' \in 0..MaxFaults
    <3>1. \A k \in DOMAIN toPrinter : toPrinter[k] \in Commands
      BY DEF TypeOK
    <3>2. CASE UNCHANGED <<late, lates>>
      BY <3>2 DEF TypeOK
    <3>3. CASE /\ strays + lates < MaxFaults /\ lates' = lates + 1
               /\ \E k \in DOMAIN toPrinter : late' = late \cup {toPrinter[k]}
      <4>1. late' \subseteq Commands
        BY <3>1, <3>3 DEF TypeOK
      <4>2. strays \in Nat /\ lates \in Nat
        BY DEF TypeOK
      <4> QED
        BY <3>3, <4>1, <4>2
    <3> QED
      BY <1>3, <3>2, <3>3 DEF Drops
  <2>2. toPrinter' \in Seq(Commands) /\ toDriver' \in Seq(Replies)
    BY <1>3 DEF Drops
  <2> QED
    BY <1>3, <2>1, <2>2 DEF Drops, TypeOK, CallType, driverVars, printerVars
<1>4. ASSUME NEW c \in Callers, ReadReply(c) PROVE TypeOK'
  <2>1. toDriver' \in Seq(Replies)
    BY <1>4, HeadAndTail DEF ReadReply, TypeOK
  <2>2. call' \in [Callers -> CallType] /\ up' \in BOOLEAN
    BY <1>4, ReplyFields
  <2>3. acked' \subseteq 1..MaxIndex
    <3>1. Head(call[c].todo) \in Commands
      BY <1>4, ReplyFields, HeadAndTail DEF TypeOK
    <3> QED
      BY <1>4, <3>1, ReplyFields, RecordIndex DEF TypeOK
  <2> QED
    BY <1>4, <2>1, <2>2, <2>3 DEF ReadReply, TypeOK, CallType, printerVars, bounds
<1>5. CASE PrinterExecutes
  <2>1. PICK accepted \in BOOLEAN :
            /\ toPrinter # <<>> /\ toPrinter[1] \in Commands
            /\ CarryOut(toPrinter[1], accepted)
            /\ toDriver' = Append(toDriver, Answer(toPrinter[1], accepted))
            /\ toPrinter' = Tail(toPrinter)
            /\ UNCHANGED <<lock, open, driverVars, call, nextIndex, late, bounds>>
    BY <1>5, ExecutesFields
  <2>2. Answer(toPrinter[1], accepted) \in Replies
    BY <2>1, AnswerFields
  <2>3. toDriver' \in Seq(Replies) /\ toPrinter' \in Seq(Commands)
    BY <2>1, <2>2, HeadAndTail, Appended DEF TypeOK
  <2>4. queue' \in Seq(1..MaxIndex) /\ slr' = slr /\ records' \in Seq(1..MaxIndex)
    BY <2>1, CarryOutTypes
  <2> QED
    BY <2>1, <2>3, <2>4 DEF TypeOK, driverVars, bounds
<1>6. CASE PrinterExecutesLate
  <2>1. PICK command \in late : CarryOut(command, TRUE) /\ late' = late \ {command}
    BY <1>6 DEF PrinterExecutesLate
  <2>2. queue' \in Seq(1..MaxIndex) /\ slr' = slr /\ records' \in Seq(1..MaxIndex)
    BY <2>1, CarryOutTypes DEF TypeOK
  <2> QED
    BY <1>6, <2>1, <2>2 DEF PrinterExecutesLate, TypeOK, linkVars, driverVars, bounds
<1>7. CASE StrayLine
  <2>1. [cmd |-> "ERR", value |-> Nothing] \in Replies
    BY DEF Replies, Nothing
  <2>2. toDriver' \in Seq(Replies)
    BY <1>7, <2>1, Appended DEF StrayLine, TypeOK
  <2>3. strays' \in 0..MaxFaults
    <3>1. strays \in Nat /\ lates \in Nat
      BY DEF TypeOK
    <3>2. strays + lates < MaxFaults /\ strays' = strays + 1
      BY <1>7 DEF StrayLine
    <3> QED
      BY <3>1, <3>2
  <2> QED
    BY <1>7, <2>2, <2>3 DEF StrayLine, TypeOK, driverVars, printerVars
<1>8. CASE Label
  <2>1. queue' \in Seq(1..MaxIndex) /\ slr' \in 0..MaxIndex
    <3>1. queue \in Seq(1..MaxIndex) /\ queue # <<>>
          /\ slr' = Head(queue) /\ queue' = Tail(queue)
      BY <1>8 DEF Label, TypeOK
    <3> QED
      BY <3>1, HeadAndTail
  <2> QED
    BY <1>8, <2>1 DEF Label, TypeOK, linkVars, driverVars, bounds
<1>9. CASE UNCHANGED vars
  BY <1>9 DEF vars, TypeOK, linkVars, driverVars, printerVars, bounds
<1> QED
  BY <1>1, <1>2, <1>3, <1>4, <1>5, <1>6, <1>7, <1>8, <1>9, StepCases

\* The faults are counted, and the odometer only moves forward while the
\* records are in order.
LEMMA FaultsGrow ==
    ASSUME TypeOK, [Next]_vars
    PROVE  (lates' = 0 => lates = 0) /\ (strays' = 0 => strays = 0)
<1>1. strays \in Nat /\ lates \in Nat
  BY DEF TypeOK
<1>2. lates' \in {lates, lates + 1} /\ strays' \in {strays, strays + 1}
  BY StepCases, ExecutesFields
     DEF Begins, Sends, Drops, ReadReply, PrinterExecutesLate, StrayLine, Label, vars, bounds
<1> QED
  BY <1>1, <1>2

LEMMA OdometerForward ==
    ASSUME TypeOK, Sorted, [Next]_vars, lates = 0
    PROVE  slr <= slr'
<1>0. slr \in Nat /\ queue \in Seq(1..MaxIndex)
  BY DEF TypeOK
<1>1. CASE Label
  <2>1. slr' = queue[1] /\ 1 \in DOMAIN queue /\ queue[1] \in 1..MaxIndex
    BY <1>0, <1>1, HeadAndTail DEF Label
  <2> QED
    BY <1>0, <2>1 DEF Sorted, QueueSorted
<1>2. CASE PrinterExecutes
  BY <1>0, <1>2, ExecutesFields, CarryOutFields
<1>3. CASE PrinterExecutesLate
  <2>1. PICK command \in late : CarryOut(command, TRUE)
    BY <1>3 DEF PrinterExecutesLate
  <2> QED
    BY <1>0, <2>1 DEF CarryOut
<1>4. CASE StrayLine \/ UNCHANGED vars
  BY <1>0, <1>4 DEF StrayLine, vars, printerVars
<1>5. ASSUME NEW c \in Callers, Begins(c) \/ Sends(c) \/ Drops(c) \/ ReadReply(c)
      PROVE  slr' = slr
  BY <1>5 DEF Begins, Sends, Drops, ReadReply, printerVars
<1> QED
  BY <1>0, <1>1, <1>2, <1>3, <1>4, <1>5, StepCases

\* What becomes of the commands of a caller: they stay, are given up, lose
\* the first, or are those of a method other than a batch.
LEMMA CallStep ==
    ASSUME TypeOK, CallShape, [Next]_vars, NEW d \in Callers
    PROVE  \/ call'[d].todo = call[d].todo /\ call'[d].since = call[d].since
           \/ call'[d].todo = <<>>
           \/ call[d].todo # <<>> /\ call'[d].todo = Tail(call[d].todo)
           \/ Begins(d)
<1>1. ASSUME NEW c \in Callers, OthersKeep(c), d # c PROVE call'[d] = call[d]
  BY <1>1 DEF OthersKeep
<1>2. CASE Drops(d)
  BY <1>2 DEF Drops
<1>3. CASE ReadReply(d)
  BY <1>3, ReplyFields
<1>4. ASSUME NEW c \in Callers, Begins(c) \/ Drops(c) \/ ReadReply(c) PROVE OthersKeep(c)
  BY <1>4, ReplyFields DEF Begins, Drops
<1>5. ASSUME \/ \E c \in Callers : Sends(c)
             \/ PrinterExecutes \/ PrinterExecutesLate \/ StrayLine \/ Label \/ UNCHANGED vars
      PROVE  call' = call
  BY <1>5 DEF Sends, PrinterExecutes, PrinterExecutesLate, StrayLine, Label, vars
<1> QED
  BY <1>1, <1>2, <1>3, <1>4, <1>5, StepCases

LEMMA CallShapeStep ==
    ASSUME TypeOK, TypeOK', CallShape, Sorted, [Next]_vars
    PROVE  CallShape'
<1> USE ConstantTypes
<1>0. /\ call \in [Callers -> CallType]
      /\ \A c \in Callers : call[c].todo \in Seq(Commands) /\ call[c].since \in Nat
      /\ slr \in Nat /\ slr' \in Nat
  <2>1. call \in [Callers -> CallType] /\ slr \in Nat /\ slr' \in Nat
    BY DEF TypeOK, CallType
  <2> QED
    BY <2>1 DEF CallType
<1>1. Waiting'
  <2>1. ASSUME NEW c \in Callers, Begins(c) PROVE Waiting'
    BY <2>1 DEF CallShape, Waiting, Begins, OthersKeep, linkVars, TypeOK
  <2>2. ASSUME NEW c \in Callers, Sends(c) PROVE Waiting'
    BY <2>2 DEF Waiting, Sends
  <2>3. ASSUME NEW c \in Callers, Drops(c) \/ ReadReply(c) PROVE Waiting'
    BY <2>3 DEF Waiting, Drops, ReadReply
  <2>4. CASE PrinterExecutes \/ PrinterExecutesLate \/ StrayLine \/ Label \/ UNCHANGED vars
    BY <2>4 DEF CallShape, Waiting, PrinterExecutes, PrinterExecutesLate, StrayLine, Label,
                vars, linkVars
  <2> QED
    BY <2>1, <2>2, <2>3, <2>4, StepCases
<1>2. OnlyPumpLoads'
  <2> SUFFICES ASSUME NEW d \in Others, NEW k \in DOMAIN call'[d].todo
               PROVE  ~IsRecord(call'[d].todo[k])
    BY DEF OnlyPumpLoads, IsRecord
  <2>1. d \in Callers /\ d # Pump
    BY DEF Callers
  <2>2. CASE Begins(d)
    BY <2>1, <2>2 DEF Begins
  <2>3. CASE call[d].todo # <<>> /\ call'[d].todo = Tail(call[d].todo)
    BY <1>0, <2>1, <2>3, HeadAndTail DEF CallShape, OnlyPumpLoads
  <2> QED
    BY <2>1, <2>2, <2>3, CallStep DEF CallShape, OnlyPumpLoads
<1>3. OdometerAlone'
  <2> SUFFICES ASSUME NEW d \in Callers, NEW k \in DOMAIN call'[d].todo,
                      call'[d].todo[k].cmd = "SLR"
               PROVE  Len(call'[d].todo) = 1 /\ (lates' = 0 => call'[d].since <= slr')
    BY DEF OdometerAlone
  <2>1. CASE Begins(d)
    BY <1>0, <2>1 DEF Begins, IsRecord, printerVars
  <2>2. CASE call'[d].todo = call[d].todo /\ call'[d].since = call[d].since
    BY <1>0, <2>2, FaultsGrow, OdometerForward DEF CallShape, OdometerAlone
  <2>3. CASE call[d].todo # <<>> /\ call'[d].todo = Tail(call[d].todo)
    BY <1>0, <2>3, HeadAndTail DEF CallShape, OdometerAlone
  <2> QED
    BY <2>1, <2>2, <2>3, CallStep
<1>4. RoomCounts'
  <2>1. ASSUME NEW c \in Callers, ReadReply(c) PROVE RoomCounts'
    <3>1. toDriver \in Seq(Replies) /\ toDriver # <<>> /\ toDriver' = Tail(toDriver)
      BY <2>1 DEF ReadReply, TypeOK
    <3>2. \A k \in DOMAIN toDriver' : k + 1 \in DOMAIN toDriver /\ toDriver'[k] = toDriver[k + 1]
      BY <3>1, HeadAndTail
    <3> QED
      BY <3>2 DEF CallShape, RoomCounts
  <2>2. CASE PrinterExecutes
    <3>1. PICK accepted \in BOOLEAN :
              /\ toPrinter[1] \in Commands
                /\ toDriver' = Append(toDriver, Answer(toPrinter[1], accepted))
      BY <2>2, ExecutesFields
    <3> DEFINE reply == Answer(toPrinter[1], accepted)
    <3>2. reply \in Replies /\ (reply.cmd = "SRC" => reply.value >= 0)
      BY <3>1, AnswerFields
    <3>3. toDriver \in Seq(Replies) /\ toDriver' = Append(toDriver, reply)
      BY <3>1 DEF TypeOK
    <3> HIDE DEF reply
    <3>4. \A k \in DOMAIN toDriver' :
              (k \in DOMAIN toDriver /\ toDriver'[k] = toDriver[k]) \/ toDriver'[k] = reply
      BY <3>2, <3>3, Appended
    <3> QED
      BY <3>2, <3>4 DEF CallShape, RoomCounts
  <2>3. CASE StrayLine
    <3>1. [cmd |-> "ERR", value |-> Nothing] \in Replies
      BY DEF Replies, Nothing
    <3>2. \A k \in DOMAIN toDriver' :
              \/ k \in DOMAIN toDriver /\ toDriver'[k] = toDriver[k]
              \/ toDriver'[k] = [cmd |-> "ERR", value |-> Nothing]
      <4>1. toDriver \in Seq(Replies)
        BY DEF TypeOK
      <4>2. toDriver' = Append(toDriver, [cmd |-> "ERR", value |-> Nothing])
        BY <2>3 DEF StrayLine
      <4> DEFINE stray == [cmd |-> "ERR", value |-> Nothing]
      <4>3. stray \in Replies /\ toDriver' = Append(toDriver, stray)
        BY <3>1, <4>2
      <4> HIDE DEF stray
      <4>4. \A k \in DOMAIN toDriver' :
                (k \in DOMAIN toDriver /\ toDriver'[k] = toDriver[k]) \/ toDriver'[k] = stray
        BY <4>1, <4>3, Appended
      <4> QED
        BY <4>4 DEF stray
    <3> QED
      BY <3>2 DEF CallShape, RoomCounts
  <2>4. ASSUME NEW c \in Callers, Drops(c) PROVE RoomCounts'
    BY <2>4 DEF Drops, RoomCounts
  <2>5. CASE \/ \E c \in Callers : Begins(c) \/ Sends(c)
             \/ PrinterExecutesLate \/ Label \/ UNCHANGED vars
    BY <2>5 DEF Begins, Sends, PrinterExecutesLate, Label, vars, linkVars, CallShape, RoomCounts
  <2> QED
    BY <2>1, <2>2, <2>3, <2>4, <2>5, StepCases
<1> QED
  BY <1>1, <1>2, <1>3, <1>4 DEF CallShape

\* What becomes of the records of the printer, and where a new one is from.
FromPrinter(command) ==
    /\ toPrinter # <<>> /\ command = toPrinter[1] /\ toPrinter' = Tail(toPrinter)
    /\ late' = late
FromLate(command) == command \in late /\ late' = late \ {command} /\ toPrinter' = toPrinter

LEMMA RecordsStep ==
    ASSUME TypeOK, [Next]_vars
    PROVE  \/ records' = records /\ Taken' = Taken
           \/ \E command \in Commands :
                 /\ IsRecord(command) /\ slr' = slr
                 /\ queue' = Append(queue, command.index)
                 /\ records' = Append(records, command.index)
                 /\ Taken' = Taken \cup {command.index}
                 /\ UNCHANGED <<lock, call, nextIndex, acked, bounds>>
                 /\ FromPrinter(command) \/ FromLate(command)
<1>0. ASSUME records' = records PROVE Taken' = Taken
  BY <1>0 DEF Taken
<1>1. ASSUME NEW command \in Commands, NEW accepted \in BOOLEAN, CarryOut(command, accepted)
      PROVE  \/ records' = records
             \/ /\ IsRecord(command) /\ slr' = slr
                /\ queue' = Append(queue, command.index)
                /\ records' = Append(records, command.index)
                /\ Taken' = Taken \cup {command.index}
  BY <1>1, CarryOutFields, RecordIndex, TakenGrows
<1>2. CASE PrinterExecutes
  <2>1. PICK accepted \in BOOLEAN :
            /\ toPrinter # <<>> /\ toPrinter[1] \in Commands
            /\ CarryOut(toPrinter[1], accepted)
            /\ toPrinter' = Tail(toPrinter)
            /\ UNCHANGED <<lock, call, nextIndex, acked, late, bounds>>
    BY <1>2, ExecutesFields DEF driverVars
  <2> QED
    BY <1>0, <1>1, <2>1 DEF FromPrinter
<1>3. CASE PrinterExecutesLate
  <2>1. PICK command \in late : CarryOut(command, TRUE) /\ late' = late \ {command}
    BY <1>3 DEF PrinterExecutesLate
  <2>2. command \in Commands
    BY <2>1 DEF TypeOK
  <2> QED
    BY <1>0, <1>1, <1>3, <2>1, <2>2
       DEF FromLate, PrinterExecutesLate, linkVars, driverVars
<1>4. CASE \/ \E c \in Callers : Begins(c) \/ Sends(c) \/ Drops(c) \/ ReadReply(c)
           \/ StrayLine \/ Label \/ UNCHANGED vars
  <2>1. records' = records
    BY <1>4 DEF Begins, Sends, Drops, ReadReply, StrayLine, Label, vars, printerVars
  <2> QED
    BY <1>0, <2>1
<1> QED
  BY <1>2, <1>3, <1>4, StepCases

\* What becomes of the commands on the connection and of those that outlive it.
LEMMA UnderWayStep ==
    ASSUME TypeOK, [Next]_vars
    PROVE  \/ toPrinter' = toPrinter /\ late' \subseteq late
           \/ toPrinter # <<>> /\ toPrinter' = Tail(toPrinter) /\ late' = late
           \/ /\ toPrinter' = <<>>
              /\ \/ late' = late
                 \/ lates' # 0 /\ \E k \in DOMAIN toPrinter : late' = late \cup {toPrinter[k]}
           \/ \E c \in Callers :
                 /\ Sends(c) /\ late' = late
                 /\ toPrinter' = Append(toPrinter, call[c].todo[1])
<1>1. ASSUME NEW c \in Callers, Sends(c)
      PROVE  late' = late /\ toPrinter' = Append(toPrinter, call[c].todo[1])
  BY <1>1, HeadAndTail DEF Sends, TypeOK
<1>2. ASSUME NEW c \in Callers, Drops(c)
      PROVE  /\ toPrinter' = <<>>
             /\ \/ late' = late
                \/ lates' # 0 /\ \E k \in DOMAIN toPrinter : late' = late \cup {toPrinter[k]}
  <2>1. lates \in Nat
    BY DEF TypeOK
  <2> QED
    BY <1>2, <2>1 DEF Drops
<1>3. CASE PrinterExecutes
  BY <1>3 DEF PrinterExecutes
<1>4. CASE PrinterExecutesLate
  BY <1>4 DEF PrinterExecutesLate, linkVars
<1>5. CASE \/ \E c \in Callers : Begins(c) \/ ReadReply(c)
           \/ StrayLine \/ Label \/ UNCHANGED vars
  BY <1>5 DEF Begins, ReadReply, StrayLine, Label, vars, linkVars
<1> QED
  BY <1>1, <1>2, <1>3, <1>4, <1>5, StepCases

\* Behind(i) after the step, of an index before it.
BehindNext(i) ==
    /\ i < nextIndex'
    /\ \A k \in DOMAIN Todo' :
          IsRecord(Todo'[k]) /\ (lock' # Pump \/ k # 1) => i < Todo'[k].index

\* A record is written when it is the pump's first: all that came before
\* it is behind it, and it is behind what is left to send.
LEMMA SendsRecord ==
    ASSUME TypeOK, CallShape, Numbered, NEW c \in Callers, Sends(c), IsRecord(call[c].todo[1])
    PROVE  /\ c = Pump
           /\ \A i \in Int : Behind(i) => i < Todo[1].index
           /\ BehindNext(Todo[1].index)
<1> USE ConstantTypes
<1>1. Todo \in Seq(Commands) /\ call[c].todo \in Seq(Commands) /\ call[c].todo # <<>>
  BY DEF TypeOK, Todo, Sends
<1>2. 1 \in DOMAIN call[c].todo
  BY <1>1, HeadAndTail
<1>3. c = Pump
  BY <1>2 DEF CallShape, OnlyPumpLoads
<1>4. lock = NoCaller /\ lock' = Pump /\ Todo' = Todo /\ nextIndex' = nextIndex
  BY <1>3 DEF Sends, Todo
<1>5. lock # Pump /\ 1 \in DOMAIN Todo /\ IsRecord(Todo[1])
  BY <1>2, <1>3, <1>4 DEF Todo
<1>6. \A k \in DOMAIN Todo : k \in Nat /\ k >= 1
  BY <1>1
<1> QED
  BY <1>3, <1>4, <1>5, <1>6 DEF Behind, BehindNext, Numbered

LEMMA NumberedStep ==
    ASSUME TypeOK, CallShape, Numbered, [Next]_vars
    PROVE  Numbered'
<1> USE ConstantTypes
<1>0. /\ Todo \in Seq(Commands) /\ nextIndex \in Nat
      /\ \A k \in DOMAIN toPrinter : toPrinter[k] \in Commands
      /\ toPrinter \in Seq(Commands)
      /\ late \subseteq Commands /\ Taken \subseteq Int
  BY DEF TypeOK, Todo, Taken
<1>1. \A i \in Int : Behind(i) => BehindNext(i)
  BY BehindKept DEF Behind, BehindNext
<1>2. /\ \A k \in DOMAIN toPrinter : IsRecord(toPrinter[k]) => BehindNext(toPrinter[k].index)
      /\ \A command \in late : IsRecord(command) => BehindNext(command.index)
      /\ \A i \in Taken : BehindNext(i)
  <2>1. \A command \in Commands : IsRecord(command) => command.index \in Int
    BY RecordIndex
  <2> QED
    BY <1>0, <1>1, <2>1 DEF Numbered
<1>3. /\ \A k \in DOMAIN Todo' : IsRecord(Todo'[k]) => Todo'[k].index < nextIndex'
      /\ \A k, l \in DOMAIN Todo' :
            k < l /\ IsRecord(Todo'[k]) /\ IsRecord(Todo'[l]) => Todo'[k].index < Todo'[l].index
  <2>1. CASE TodoStays
    BY <2>1 DEF TodoStays, Numbered
  <2>2. CASE TodoGivenUp
    BY <2>2 DEF TodoGivenUp
  <2>3. CASE TodoAnswered
    BY <1>0, <2>3, HeadAndTail DEF TodoAnswered, Numbered
  <2>4. CASE TodoNew
    BY <1>0, <2>4 DEF TodoNew
  <2> QED
    BY <2>1, <2>2, <2>3, <2>4, TodoStep
<1>4. ASSUME NEW k \in DOMAIN toPrinter', IsRecord(toPrinter'[k])
      PROVE  BehindNext(toPrinter'[k].index)
  <2>1. CASE toPrinter' = toPrinter
    BY <1>2, <1>4, <2>1
  <2>2. CASE toPrinter # <<>> /\ toPrinter' = Tail(toPrinter)
    BY <1>0, <1>2, <1>4, <2>2, HeadAndTail
  <2>3. CASE toPrinter' = <<>>
    BY <1>4, <2>3
  <2>4. ASSUME NEW c \in Callers, Sends(c), toPrinter' = Append(toPrinter, call[c].todo[1])
        PROVE  BehindNext(toPrinter'[k].index)
    <3>1. call[c].todo[1] \in Commands
      BY <2>4, HeadAndTail DEF Sends, TypeOK
    <3>2. \/ k \in DOMAIN toPrinter /\ toPrinter'[k] = toPrinter[k]
          \/ toPrinter'[k] = call[c].todo[1]
      BY <1>0, <2>4, <3>1, Appended
    <3>3. CASE toPrinter'[k] = call[c].todo[1]
      BY <1>4, <2>4, <3>3, SendsRecord DEF Sends, Todo
    <3> QED
      BY <1>2, <1>4, <3>2, <3>3
  <2> QED
    BY <2>1, <2>2, <2>3, <2>4, UnderWayStep
<1>5. ASSUME NEW command \in late', IsRecord(command) PROVE BehindNext(command.index)
  BY <1>2, <1>5, UnderWayStep
<1>6. ASSUME NEW i \in Taken' PROVE BehindNext(i)
  BY <1>2, <1>6, RecordsStep, HeadAndTail DEF FromPrinter, FromLate
<1> QED
  BY <1>3, <1>4, <1>5, <1>6 DEF Numbered, Behind, BehindNext

LEMMA OnceStep ==
    ASSUME TypeOK, CallShape, Numbered, Once, [Next]_vars
    PROVE  Once'
<1> USE ConstantTypes
<1>0. /\ toPrinter \in Seq(Commands) /\ late \subseteq Commands
      /\ \A k \in DOMAIN toPrinter : toPrinter[k] \in Commands /\ k \in Nat /\ k >= 1
      /\ \A command \in Commands : IsRecord(command) =>
            command.index \in Int /\ command = SID(command.index)
  BY RecordIndex DEF TypeOK
<1>1. ASSUME NEW k \in DOMAIN toPrinter', NEW l \in DOMAIN toPrinter', k < l,
             IsRecord(toPrinter'[k]), IsRecord(toPrinter'[l])
      PROVE  toPrinter'[k].index < toPrinter'[l].index
  <2>1. CASE toPrinter' = toPrinter
    BY <1>1, <2>1 DEF Once
  <2>2. CASE toPrinter # <<>> /\ toPrinter' = Tail(toPrinter)
    <3>1. /\ k + 1 \in DOMAIN toPrinter /\ toPrinter'[k] = toPrinter[k + 1]
          /\ l + 1 \in DOMAIN toPrinter /\ toPrinter'[l] = toPrinter[l + 1]
          /\ k \in Nat /\ l \in Nat
      BY <1>0, <2>2, HeadAndTail
    <3> QED
      BY <1>1, <3>1 DEF Once
  <2>3. CASE toPrinter' = <<>>
    BY <1>1, <2>3
  <2>4. ASSUME NEW c \in Callers, Sends(c), toPrinter' = Append(toPrinter, call[c].todo[1])
        PROVE  toPrinter'[k].index < toPrinter'[l].index
    <3>1. call[c].todo[1] \in Commands
      BY <2>4, HeadAndTail DEF Sends, TypeOK
    <3>2. /\ k \in DOMAIN toPrinter /\ toPrinter'[k] = toPrinter[k]
          /\ \/ l \in DOMAIN toPrinter /\ toPrinter'[l] = toPrinter[l]
             \/ toPrinter'[l] = call[c].todo[1]
      BY <1>0, <1>1, <2>4, <3>1, Appended
    <3>3. CASE toPrinter'[l] = call[c].todo[1]
      <4>1. Behind(toPrinter[k].index) /\ toPrinter[k].index \in Int
        BY <1>0, <1>1, <3>2 DEF Numbered
      <4> QED
        BY <1>1, <2>4, <3>2, <3>3, <4>1, SendsRecord DEF Todo
    <3> QED
      BY <1>1, <3>2, <3>3 DEF Once
  <2> QED
    BY <2>1, <2>2, <2>3, <2>4, UnderWayStep
<1>2. ASSUME NEW i \in Taken', i \notin Taken
      PROVE  /\ \A k \in DOMAIN toPrinter' : IsRecord(toPrinter'[k]) => toPrinter'[k].index # i
             /\ \A command \in late' : IsRecord(command) => command.index # i
  <2>1. PICK command \in Commands :
            /\ IsRecord(command) /\ i = command.index
            /\ FromPrinter(command) \/ FromLate(command)
    BY <1>2, RecordsStep
  <2>2. CASE FromPrinter(command)
    <3>1. /\ toPrinter # <<>> /\ command = toPrinter[1] /\ 1 \in DOMAIN toPrinter
          /\ \A k \in DOMAIN toPrinter' :
                k + 1 \in DOMAIN toPrinter /\ toPrinter'[k] = toPrinter[k + 1] /\ 1 < k + 1
      BY <1>0, <2>2, HeadAndTail DEF FromPrinter
    <3>2. ASSUME NEW k \in DOMAIN toPrinter', IsRecord(toPrinter'[k])
          PROVE  toPrinter'[k].index # i
      <4>1. toPrinter[1].index < toPrinter[k + 1].index
        BY <2>1, <3>1, <3>2 DEF Once
      <4>2. toPrinter[1].index \in Int
        BY <1>0, <2>1, <3>1
      <4> QED
        BY <2>1, <3>1, <4>1, <4>2
    <3>3. command \notin late /\ late' = late
      BY <2>1, <2>2, <3>1 DEF Once, FromPrinter
    <3> QED
      BY <1>0, <2>1, <3>2, <3>3
  <2>3. CASE FromLate(command)
    BY <1>0, <2>1, <2>3 DEF FromLate, Once
  <2> QED
    BY <2>1, <2>2, <2>3
<1>3. ASSUME NEW k \in DOMAIN toPrinter', IsRecord(toPrinter'[k])
      PROVE  toPrinter'[k].index \notin Taken /\ toPrinter'[k] \notin late'
  <2>1. CASE toPrinter' = toPrinter /\ late' \subseteq late
    BY <1>3, <2>1 DEF Once
  <2>2. CASE toPrinter # <<>> /\ toPrinter' = Tail(toPrinter) /\ late' = late
    BY <1>0, <1>3, <2>2, HeadAndTail DEF Once
  <2>3. CASE toPrinter' = <<>>
    BY <1>3, <2>3
  <2>4. ASSUME NEW c \in Callers, Sends(c), late' = late,
               toPrinter' = Append(toPrinter, call[c].todo[1])
        PROVE  toPrinter'[k].index \notin Taken /\ toPrinter'[k] \notin late'
    <3>1. call[c].todo[1] \in Commands
      BY <2>4, HeadAndTail DEF Sends, TypeOK
    <3>2. \/ k \in DOMAIN toPrinter /\ toPrinter'[k] = toPrinter[k]
          \/ toPrinter'[k] = call[c].todo[1]
      BY <1>0, <2>4, <3>1, Appended
    <3>3. CASE toPrinter'[k] = call[c].todo[1]
      <4>1. \A i \in Int : Behind(i) => i < toPrinter'[k].index
        BY <1>3, <2>4, <3>3, SendsRecord DEF Todo
      <4>2. toPrinter'[k].index \in Int
        BY <1>0, <1>3, <3>1, <3>3
      <4>3. ASSUME Behind(toPrinter'[k].index) PROVE FALSE
        BY <4>1, <4>2, <4>3
      <4> QED
        BY <1>3, <2>4, <4>3 DEF Numbered
    <3> QED
      BY <1>3, <2>4, <3>2, <3>3 DEF Once
  <2> QED
    BY <2>1, <2>2, <2>3, <2>4, UnderWayStep
<1>4. ASSUME NEW command \in late', IsRecord(command) PROVE command.index \notin Taken
  BY <1>4, UnderWayStep DEF Once
<1> QED
  BY <1>1, <1>2, <1>3, <1>4 DEF Once

LEMMA SortedStep ==
    ASSUME TypeOK, TypeOK', CallShape, Numbered, Once, Sorted, [Next]_vars
    PROVE  Sorted'
<1> USE ConstantTypes
<1> SUFFICES ASSUME lates' = 0
             PROVE  late' = {} /\ RecordsSorted' /\ QueueSorted' /\ NewestUnderWay'
  BY DEF Sorted
<1>0. /\ lates = 0 /\ late = {} /\ RecordsSorted /\ QueueSorted /\ NewestUnderWay
      /\ toPrinter \in Seq(Commands) /\ queue \in Seq(1..MaxIndex) /\ records \in Seq(1..MaxIndex)
      /\ slr \in Nat
  <2>1. lates = 0
    BY FaultsGrow
  <2>2. /\ toPrinter \in Seq(Commands) /\ queue \in Seq(1..MaxIndex)
        /\ records \in Seq(1..MaxIndex) /\ slr \in Nat
    BY DEF TypeOK
  <2> QED
    BY <2>1, <2>2 DEF Sorted
<1>1. /\ \A k \in DOMAIN toPrinter : toPrinter[k] \in Commands /\ k \in Nat /\ k >= 1
      /\ \A k \in DOMAIN records : records[k] \in Taken
      /\ \A i \in Taken : i \in Nat /\ i > 0
  BY <1>0 DEF Taken
<1>2. late' = {}
  BY <1>0, UnderWayStep
<1>3. ASSUME NEW command \in Commands,
             IsRecord(command), slr' = slr,
             queue' = Append(queue, command.index), records' = Append(records, command.index),
             Taken' = Taken \cup {command.index}, FromPrinter(command)
      PROVE  RecordsSorted' /\ QueueSorted' /\ NewestUnderWay'
  <2> DEFINE j == command.index
  <2>1. /\ toPrinter # <<>> /\ command = toPrinter[1] /\ 1 \in DOMAIN toPrinter
        /\ \A k \in DOMAIN toPrinter' :
              k + 1 \in DOMAIN toPrinter /\ toPrinter'[k] = toPrinter[k + 1] /\ 1 < k + 1
    BY <1>0, <1>3, HeadAndTail DEF FromPrinter
  <2>2. j \in 1..MaxIndex /\ \A i \in Taken : i < j
    BY <1>0, <1>3, <2>1, RecordIndex DEF NewestUnderWay
  <2>3. RecordsSorted'
    <3>1. /\ \A k \in DOMAIN records' :
                \/ k \in DOMAIN records /\ records'[k] = records[k]
                \/ k = Len(records) + 1 /\ records'[k] = j
          /\ \A k \in DOMAIN records : k \in Nat /\ k <= Len(records)
          /\ Len(records) \in Nat
      BY <1>0, <1>3, <2>2, Appended
    <3>2. ASSUME NEW k \in DOMAIN records', NEW l \in DOMAIN records', k < l
          PROVE  records'[k] < records'[l]
      <4>1. k \in DOMAIN records /\ records'[k] = records[k]
        BY <3>1, <3>2
      <4> QED
        BY <1>0, <1>1, <2>2, <3>1, <3>2, <4>1 DEF RecordsSorted
    <3> QED
      BY <3>2 DEF RecordsSorted
  <2>4. QueueSorted'
    <3>1. /\ \A k \in DOMAIN queue' :
                \/ k \in DOMAIN queue /\ queue'[k] = queue[k]
                \/ k = Len(queue) + 1 /\ queue'[k] = j
          /\ \A k \in DOMAIN queue : k \in Nat /\ k <= Len(queue)
          /\ Len(queue) \in Nat
      BY <1>0, <1>3, <2>2, Appended
    <3>2. slr < j
      BY <1>0, <2>2 DEF QueueSorted
    <3> QED
      BY <1>0, <1>1, <1>3, <2>2, <3>1, <3>2 DEF QueueSorted
  <2>5. NewestUnderWay'
    <3> SUFFICES ASSUME NEW k \in DOMAIN toPrinter', IsRecord(toPrinter'[k]), NEW i \in Taken'
                 PROVE  i < toPrinter'[k].index
      BY DEF NewestUnderWay, IsRecord
    <3>1. j < toPrinter[k + 1].index
      BY <1>3, <2>1 DEF Once
    <3> QED
      BY <1>0, <1>3, <2>1, <3>1 DEF NewestUnderWay
  <2> QED
    BY <2>3, <2>4, <2>5
<1>4. ASSUME records' = records, Taken' = Taken PROVE RecordsSorted' /\ NewestUnderWay'
  <2>1. RecordsSorted'
    BY <1>0, <1>4 DEF RecordsSorted
  <2>2. ASSUME NEW k \in DOMAIN toPrinter', IsRecord(toPrinter'[k]), NEW i \in Taken
        PROVE  i < toPrinter'[k].index
    <3>1. CASE toPrinter' = toPrinter
      BY <1>0, <2>2, <3>1 DEF NewestUnderWay
    <3>2. CASE toPrinter # <<>> /\ toPrinter' = Tail(toPrinter)
      BY <1>0, <2>2, <3>2, HeadAndTail DEF NewestUnderWay
    <3>3. ASSUME NEW c \in Callers, Sends(c), toPrinter' = Append(toPrinter, call[c].todo[1])
          PROVE  i < toPrinter'[k].index
      <4>1. call[c].todo[1] \in Commands
        BY <3>3, HeadAndTail DEF Sends, TypeOK
      <4>2. \/ k \in DOMAIN toPrinter /\ toPrinter'[k] = toPrinter[k]
            \/ toPrinter'[k] = call[c].todo[1]
        BY <1>0, <3>3, <4>1, Appended
      <4>3. CASE toPrinter'[k] = call[c].todo[1]
        BY <1>1, <2>2, <3>3, <4>3, SendsRecord DEF Numbered, Todo
      <4> QED
        BY <1>0, <2>2, <4>2, <4>3 DEF NewestUnderWay
    <3>4. CASE toPrinter' = <<>>
      BY <2>2, <3>4
    <3> QED
      BY <3>1, <3>2, <3>3, <3>4, UnderWayStep
  <2> QED
    BY <1>4, <2>1, <2>2 DEF NewestUnderWay
<1>5. ASSUME records' = records, Taken' = Taken PROVE QueueSorted'
  <2>1. CASE queue' \in {queue, <<>>} /\ slr' = slr
    BY <1>0, <1>5, <2>1 DEF QueueSorted
  <2>2. CASE Label
    <3>1. /\ slr' = queue[1] /\ 1 \in DOMAIN queue
          /\ \A k \in DOMAIN queue' :
                k + 1 \in DOMAIN queue /\ queue'[k] = queue[k + 1] /\ k \in Nat /\ 1 < k + 1
      BY <1>0, <2>2, HeadAndTail DEF Label
    <3> QED
      BY <1>0, <1>5, <3>1 DEF QueueSorted
  <2>3. CASE PrinterExecutes
    <3>1. PICK accepted \in BOOLEAN : CarryOut(toPrinter[1], accepted)
      BY <2>3, ExecutesFields
    <3>2. ~(records' = Append(records, toPrinter[1].index))
      BY <1>0, <1>5
    <3> QED
      BY <2>1, <3>1, <3>2, CarryOutFields
  <2>4. CASE PrinterExecutesLate
    BY <1>0, <2>4 DEF PrinterExecutesLate
  <2>5. CASE \/ \E c \in Callers : Begins(c) \/ Sends(c) \/ Drops(c) \/ ReadReply(c)
             \/ StrayLine \/ UNCHANGED vars
    BY <2>1, <2>5 DEF Begins, Sends, Drops, ReadReply, StrayLine, vars, printerVars
  <2> QED
    BY <2>2, <2>3, <2>4, <2>5, StepCases
<1> QED
  BY <1>0, <1>2, <1>3, <1>4, <1>5, RecordsStep DEF FromLate

\* A reply stays one to its command.
LEMMA AnswersKept ==
    ASSUME TypeOK, TypeOK', Sorted, [Next]_vars,
           NEW reply \in Replies, NEW command \in Commands, NEW since \in Nat,
           Answers(reply, command, since)
    PROVE  /\ reply.cmd \in {command.cmd, "ERR"}
           /\ IsRecord(command) /\ reply.cmd # "ERR" => command.index \in Taken'
           /\ command.cmd = "SLR" /\ lates' = 0 => reply.value \in {Nothing} \cup since..slr'
<1>1. Taken \subseteq Taken'
  BY RecordsStep
<1>2. lates' = 0 => slr <= slr' /\ lates = 0
  BY FaultsGrow, OdometerForward
<1>3. slr \in Nat /\ slr' \in Nat
  BY DEF TypeOK
<1> QED
  BY <1>1, <1>2, <1>3 DEF Answers

LEMMA SteadyStep ==
    ASSUME TypeOK, TypeOK', CallShape, Sorted, Steady, [Next]_vars
    PROVE  Steady'
<1> USE ConstantTypes
<1> SUFFICES ASSUME strays' = 0 PROVE Steady'
  BY DEF Steady
<1>0. /\ strays = 0
      /\ toPrinter \in Seq(Commands) /\ toDriver \in Seq(Replies)
      /\ lock # NoCaller =>
            /\ lock \in Callers
            /\ call[lock].todo \in Seq(Commands) /\ call[lock].todo # <<>>
            /\ Head(call[lock].todo) = call[lock].todo[1]
            /\ call[lock].todo[1] \in Commands /\ 1 \in DOMAIN call[lock].todo
            /\ call[lock].since \in Nat
  <2>1. /\ strays = 0 /\ call \in [Callers -> CallType]
        /\ toPrinter \in Seq(Commands) /\ toDriver \in Seq(Replies)
    BY FaultsGrow DEF TypeOK, CallType
  <2>2. ASSUME lock # NoCaller
        PROVE  /\ lock \in Callers /\ call[lock] \in CallType /\ call[lock].todo # <<>>
    BY <2>1, <2>2 DEF TypeOK, CallShape, Waiting
  <2>3. ASSUME lock # NoCaller
        PROVE  call[lock].todo \in Seq(Commands) /\ call[lock].since \in Nat
    BY <2>2, <2>3 DEF CallType
  <2> QED
    BY <2>1, <2>2, <2>3, HeadAndTail
\* The connection and the call that waits are left as they are.
<1>1. ASSUME toPrinter' = toPrinter, toDriver' = toDriver, lock' = lock,
             lock # NoCaller => call'[lock] = call[lock]
      PROVE  Steady'
  <2>1. CASE lock = NoCaller
    BY <1>0, <1>1, <2>1 DEF Steady
  <2>2. CASE lock # NoCaller /\ toPrinter = <<call[lock].todo[1]>> /\ toDriver = <<>>
    BY <1>1, <2>2 DEF Steady
  <2>3. CASE /\ lock # NoCaller /\ toPrinter = <<>> /\ Len(toDriver) = 1
             /\ Answers(toDriver[1], call[lock].todo[1], call[lock].since)
    <3>1. toDriver[1] \in Replies
      <4>1. toDriver # <<>>
        <5>1. Len(toDriver) = 1 /\ toDriver \in Seq(Replies)
          BY <1>0, <2>3
        <5> HIDE <2>3
        <5> QED
          BY <5>1
      <4> QED
        BY <1>0, <4>1, HeadAndTail
    <3>2. Answers(toDriver[1], call[lock].todo[1], call[lock].since)'
      BY <1>0, <1>1, <2>3, <3>1, AnswersKept DEF Answers, IsRecord
    <3> QED
      BY <1>1, <2>3, <3>2 DEF Steady
  <2> QED
    BY <1>0, <2>1, <2>2, <2>3 DEF Steady
<1>2. ASSUME NEW c \in Callers, Begins(c) PROVE Steady'
  <2>1. lock # NoCaller => call'[lock] = call[lock]
    BY <1>0, <1>2 DEF Begins, OthersKeep
  <2> QED
    BY <1>1, <1>2, <2>1 DEF Begins, linkVars
<1>3. ASSUME NEW c \in Callers, Sends(c) PROVE Steady'
  <2>1. toPrinter = <<>> /\ toDriver = <<>> /\ call[c].todo # <<>> /\ call[c].todo \in Seq(Commands)
    BY <1>0, <1>3 DEF Sends, Steady, TypeOK
  <2>2. toPrinter' = <<call[c].todo[1]>>
    BY <1>3, <2>1, HeadAndTail DEF Sends
  <2> QED
    BY <1>3, <2>1, <2>2 DEF Sends, Steady
<1>4. ASSUME NEW c \in Callers, Drops(c) PROVE Steady'
  BY <1>4 DEF Drops, Steady
<1>5. ASSUME NEW c \in Callers, ReadReply(c) PROVE Steady'
  <2>1. toPrinter = <<>> /\ Len(toDriver) = 1
    BY <1>0, <1>5 DEF ReadReply, Steady
  <2>2. toDriver' = <<>>
    BY <1>0, <1>5, <2>1 DEF ReadReply
  <2> QED
    BY <1>5, <2>1, <2>2 DEF ReadReply, Steady
<1>6. CASE PrinterExecutes
  <2>1. PICK accepted \in BOOLEAN :
            /\ toPrinter # <<>> /\ toPrinter[1] \in Commands
            /\ CarryOut(toPrinter[1], accepted)
            /\ toDriver' = Append(toDriver, Answer(toPrinter[1], accepted))
            /\ toPrinter' = Tail(toPrinter)
            /\ UNCHANGED <<lock, call, bounds>>
    BY <1>6, ExecutesFields
  <2> DEFINE command == toPrinter[1]
             reply == Answer(command, accepted)
  <2>2. lock # NoCaller /\ toPrinter = <<call[lock].todo[1]>> /\ toDriver = <<>>
    BY <1>0, <2>1 DEF Steady
  <2>3. command = call[lock].todo[1]
    BY <2>2
  <2>4. toPrinter' = <<>>
    BY <2>1, <2>2
  <2>5. /\ reply.cmd = (IF accepted THEN command.cmd ELSE "ERR") /\ reply \in Replies
        /\ command.cmd = "SLR" => reply.value \in {Nothing, slr}
    BY <2>1, AnswerFields
  <2>6. IsRecord(command) /\ accepted => command.index \in Taken'
    <3>1. ASSUME IsRecord(command), accepted
          PROVE  records' = Append(records, command.index) /\ command.index \in 1..MaxIndex
      BY <2>1, <3>1, CarryOutFields, RecordIndex
    <3> QED
      BY <3>1, TakenGrows
  <2>7. command.cmd = "SLR" /\ lates = 0 => slr \in call[lock].since..slr
    <3>1. slr \in Nat /\ call[lock].since \in Nat
      BY <1>0, <2>2 DEF TypeOK
    <3>2. command.cmd = "SLR" /\ lates = 0 => call[lock].since <= slr
      BY <1>0, <2>2, <2>3 DEF CallShape, OdometerAlone
    <3> QED
      BY <3>1, <3>2
  <2>8. command.cmd # "ERR" /\ slr' = slr /\ lates' = lates
    BY <2>1, CarryOutFields DEF bounds, Commands, Command, SID, Names
  <2>9. Len(toDriver') = 1 /\ toDriver'[1] = reply
    BY <2>1, <2>2, <2>5
  <2> HIDE DEF reply, command
  <2>10. Answers(toDriver[1], call[lock].todo[1], call[lock].since)'
    BY <2>1, <2>3, <2>5, <2>6, <2>7, <2>8, <2>9 DEF Answers, IsRecord, command
  <2> QED
    BY <2>1, <2>2, <2>4, <2>9, <2>10 DEF Steady
<1>7. CASE PrinterExecutesLate \/ Label \/ UNCHANGED vars
  BY <1>1, <1>7 DEF PrinterExecutesLate, Label, vars, linkVars
<1>8. CASE StrayLine
  BY <1>0, <1>8 DEF StrayLine
<1> QED
  BY <1>2, <1>3, <1>4, <1>5, <1>6, <1>7, <1>8, StepCases

LEMMA AcknowledgedStep ==
    ASSUME TypeOK, CallShape, Numbered, Steady, Acknowledged, [Next]_vars
    PROVE  Acknowledged'
<1> USE ConstantTypes
<1>1. Taken \subseteq Taken' /\ (strays' = 0 => strays = 0) /\ nextIndex <= nextIndex'
      /\ nextIndex \in Nat /\ nextIndex' \in Nat /\ acked \subseteq Nat
  <2>1. nextIndex \in Nat /\ acked \subseteq Nat
    BY DEF TypeOK
  <2>2. nextIndex <= nextIndex' /\ nextIndex' \in Nat
    BY <2>1, TodoStep DEF TodoStays, TodoGivenUp, TodoAnswered, TodoNew
  <2> QED
    BY <2>1, <2>2, RecordsStep, FaultsGrow
<1>2. CASE acked' = acked
  BY <1>1, <1>2 DEF Acknowledged
<1>3. ASSUME NEW c \in Callers, ReadReply(c), acked' # acked PROVE Acknowledged'
  <2>1. /\ call[c].todo # <<>> /\ IsRecord(Head(call[c].todo))
        /\ ~Refused(Head(call[c].todo), Head(toDriver))
        /\ acked' = acked \cup {Head(call[c].todo).index}
    BY <1>3, ReplyFields
  <2> DEFINE command == call[c].todo[1]
  <2>2. /\ Head(call[c].todo) = command /\ 1 \in DOMAIN call[c].todo /\ command \in Commands
        /\ Head(toDriver) = toDriver[1] /\ lock = c /\ toDriver # <<>>
    BY <1>3, <2>1, HeadAndTail DEF ReadReply, TypeOK
  <2>3. command.index < nextIndex /\ command.index \in Nat
    <3>1. c = Pump
      BY <2>1, <2>2 DEF CallShape, OnlyPumpLoads
    <3> QED
      BY <2>1, <2>2, <3>1, RecordIndex DEF Numbered, Todo
  <2>4. strays = 0 => command.index \in Taken
    <3>1. ASSUME strays = 0 PROVE Answers(toDriver[1], command, call[c].since)
      BY <2>2, <3>1 DEF Steady
    <3>2. command.cmd \in Checked
      BY <2>1, <2>2 DEF IsRecord, Checked
    <3> QED
      BY <2>1, <2>2, <3>1, <3>2 DEF Answers, Refused
  <2>5. acked' = acked \cup {command.index}
    BY <2>1, <2>2
  <2> HIDE DEF command
  <2>6. \A i \in acked' : i < nextIndex'
    BY <1>1, <2>3, <2>5 DEF Acknowledged
  <2>7. strays' = 0 => acked' \subseteq Taken'
    BY <1>1, <2>4, <2>5 DEF Acknowledged
  <2> QED
    BY <2>6, <2>7 DEF Acknowledged
<1>4. CASE \/ \E c \in Callers : Begins(c) \/ Sends(c) \/ Drops(c)
           \/ PrinterExecutes \/ PrinterExecutesLate \/ StrayLine \/ Label \/ UNCHANGED vars
  <2>1. acked' = acked
    BY <1>4 DEF Begins, Sends, Drops, PrinterExecutes, PrinterExecutesLate, StrayLine, Label,
                vars, driverVars
  <2> QED
    BY <1>2, <2>1
<1> QED
  BY <1>2, <1>3, <1>4, StepCases

-----------------------------------------------------------------------------
(* The theorems.                                                            *)

LEMMA InitIInv == Init => IInv
<1> USE ConstantTypes
<1> SUFFICES ASSUME Init PROVE IInv
  OBVIOUS
<1>1. call = [c \in Callers |-> NoCall] /\ NoCall \in CallType /\ NoCall.todo = <<>>
  BY NoCallType DEF Init, NoCall
<1>2. /\ toPrinter = <<>> /\ toDriver = <<>> /\ queue = <<>> /\ records = <<>>
      /\ late = {} /\ acked = {} /\ slr = 0 /\ nextIndex = 1 /\ lock = NoCaller
      /\ open = FALSE /\ up = TRUE /\ strays = 0 /\ lates = 0
  BY DEF Init
<1>3. Taken = {} /\ Todo = <<>> /\ \A c \in Callers : call[c].todo = <<>>
  BY <1>1, <1>2 DEF Taken, Todo
<1>4. TypeOK
  <2>1. call \in [Callers -> CallType]
    BY <1>1
  <2>2. /\ toPrinter \in Seq(Commands) /\ toDriver \in Seq(Replies)
        /\ queue \in Seq(1..MaxIndex) /\ records \in Seq(1..MaxIndex)
    BY <1>2
  <2>3. nextIndex \in 1..(MaxIndex + 1) /\ slr \in 0..MaxIndex
        /\ strays \in 0..MaxFaults /\ lates \in 0..MaxFaults
    BY <1>2
  <2>4. /\ lock \in Callers \cup {NoCaller} /\ open \in BOOLEAN /\ up \in BOOLEAN
        /\ late \subseteq Commands /\ acked \subseteq 1..MaxIndex
    BY <1>2
  <2> QED
    BY <2>1, <2>2, <2>3, <2>4 DEF TypeOK, CallType
<1>5. CallShape
  <2>1. Waiting /\ RoomCounts
    BY <1>2 DEF Waiting, RoomCounts
  <2>2. OnlyPumpLoads /\ OdometerAlone
    BY <1>3 DEF OnlyPumpLoads, OdometerAlone, Callers
  <2> QED
    BY <2>1, <2>2 DEF CallShape
<1>6. Numbered /\ Once
  BY <1>2, <1>3 DEF Numbered, Once
<1>7. Sorted
  BY <1>2, <1>3 DEF Sorted, RecordsSorted, QueueSorted, NewestUnderWay
<1>8. Steady /\ Acknowledged
  BY <1>2 DEF Steady, Acknowledged
<1> QED
  BY <1>4, <1>5, <1>6, <1>7, <1>8 DEF IInv

LEMMA StepIInv == IInv /\ [Next]_vars => IInv'
<1> SUFFICES ASSUME IInv, [Next]_vars PROVE IInv'
  OBVIOUS
<1> USE DEF IInv
<1>1. TypeOK'
  BY TypeStep
<1>2. CallShape' /\ Numbered' /\ Once'
  BY <1>1, CallShapeStep, NumberedStep, OnceStep
<1>3. Sorted' /\ Steady' /\ Acknowledged'
  BY <1>1, SortedStep, SteadyStep, AcknowledgedStep
<1> QED
  BY <1>1, <1>2, <1>3

\* The invariant above holds throughout: what each goroutine has still to
\* send, the connection, the commands that outlived one and the records of
\* the printer fit together.
THEOREM Inductive == Spec => []IInv
  BY InitIInv, StepIInv, PTL DEF Spec

\* Every variable keeps its type.
THEOREM TypeCorrect == Spec => []TypeOK
<1>1. IInv => TypeOK
  BY DEF IInv
<1> QED
  BY <1>1, Inductive, PTL

\* As long as the printer only answers, no goroutine reads a line that was
\* meant for another, or for an earlier command of its own.
THEOREM OneExchangeHolds == Spec => []OneExchange
<1>1. IInv => OneExchange
  <2> SUFFICES ASSUME IInv, strays = 0 PROVE InStep
    BY DEF OneExchange
  <2>1. CASE lock = NoCaller
    BY <2>1 DEF IInv, Steady, InStep
  <2>2. CASE lock # NoCaller
    <3>1. lock \in Callers /\ call[lock].todo # <<>> /\ call[lock].todo \in Seq(Commands)
      BY <2>2 DEF IInv, TypeOK, CallShape, Waiting
    <3>2. Head(call[lock].todo) = call[lock].todo[1]
      BY <3>1, HeadAndTail
    <3>3. Len(toDriver) = 1 => Head(toDriver) = toDriver[1]
      BY HeadAndTail DEF IInv, TypeOK
    <3> QED
      BY <2>2, <3>2, <3>3 DEF IInv, Steady, Answers, InStep
  <2> QED
    BY <2>1, <2>2
<1> QED
  BY <1>1, Inductive, PTL

\* A record the driver counts as loaded is one the printer took.
THEOREM AcknowledgedWasLoadedHolds == Spec => []AcknowledgedWasLoaded
<1>1. IInv => AcknowledgedWasLoaded
  BY DEF IInv, Acknowledged, AcknowledgedWasLoaded, Taken
<1> QED
  BY <1>1, Inductive, PTL

\* The number GetLastPrintedIndex takes was the printer's at a moment of the
\* call, whichever goroutines share the connection.
THEOREM OdometerTrueHolds == Spec => []OdometerTrue
<1>1. IInv => OdometerTrue
  <2> SUFFICES ASSUME IInv, strays = 0, lates = 0, NEW c \in Callers, lock = c,
                      Head(call[c].todo).cmd = "SLR", toDriver # <<>>
               PROVE  Head(toDriver).value \in {Nothing} \cup call[c].since..slr
    BY DEF OdometerTrue
  <2>1. /\ lock # NoCaller /\ call[c].todo # <<>>
        /\ call[c].todo \in Seq(Commands) /\ toDriver \in Seq(Replies)
    BY ConstantTypes DEF IInv, TypeOK, CallShape, Waiting
  <2>2. Head(call[c].todo) = call[c].todo[1] /\ Head(toDriver) = toDriver[1]
    BY <2>1, HeadAndTail
  <2>3. Answers(toDriver[1], call[c].todo[1], call[c].since)
    BY <2>1 DEF IInv, Steady
  <2> QED
    BY <2>2, <2>3 DEF Answers
<1> QED
  BY <1>1, Inductive, PTL

\* The printer takes the records in the order the pump offered them, across
\* connections and time-outs.
THEOREM LoadedInOrderHolds == Spec => []LoadedInOrder
<1>1. IInv => LoadedInOrder
  BY DEF IInv, Sorted, RecordsSorted, LoadedInOrder
<1> QED
  BY <1>1, Inductive, PTL

\* The index of the last record offered, from the index of the next.
LEMMA OfferRange ==
    ASSUME NEW m \in Nat, NEW n \in (m + 1)..(MaxIndex + 1)
    PROVE  n - 1 \in (m - 1 + 1)..MaxIndex
  BY ConstantTypes

LEMMA ChannelInit == Init => Channel!Init
  BY ConstantTypes DEF Init, Channel!Init

LEMMA ChannelStep == IInv /\ [Next]_vars => [Channel!Next]_Channel!channelVars
<1> SUFFICES ASSUME IInv, [Next]_vars, ~UNCHANGED Channel!channelVars PROVE Channel!Next
  OBVIOUS
<1> USE ConstantTypes
<1>0. /\ TypeOK /\ CallShape /\ Numbered /\ Once /\ Acknowledged /\ Acknowledged'
      /\ Channel!Loaded = Taken /\ nextIndex \in Nat /\ nextIndex >= 1
  <2>1. IInv'
    BY StepIInv
  <2>2. Channel!Loaded = Taken
    BY DEF Taken, Channel!Loaded
  <2>3. TypeOK /\ nextIndex \in Nat /\ nextIndex >= 1
    BY DEF IInv, TypeOK
  <2> QED
    BY <2>1, <2>2, <2>3 DEF IInv
<1>1. ASSUME NEW c \in Callers, Begins(c) PROVE Channel!Next
  <2>1. /\ records' = records /\ acked' = acked /\ strays' = strays
        /\ nextIndex' # nextIndex
    BY <1>1 DEF Begins, printerVars, driverVars, bounds, Channel!channelVars
  <2>2. nextIndex' \in (nextIndex + 1)..(MaxIndex + 1)
    <3>1. TodoNew
      BY <1>0, <2>1, TodoStep DEF TodoStays, TodoGivenUp, TodoAnswered
    <3>2. nextIndex <= nextIndex' /\ nextIndex' \in 1..(MaxIndex + 1)
      BY <3>1 DEF TodoNew
    <3> QED
      BY <1>0, <2>1, <3>2
  <2>3. Channel!Offer
    <3>1. nextIndex' - 1 \in (nextIndex - 1 + 1)..MaxIndex
      BY <1>0, <2>2, OfferRange
    <3> QED
      BY <2>1, <3>1 DEF Channel!Offer
  <2> QED
    BY <2>3 DEF Channel!Next
<1>2. ASSUME NEW c \in Callers, ReadReply(c) PROVE Channel!Next
  <2>1. /\ records' = records /\ nextIndex' = nextIndex /\ strays' = strays /\ acked' # acked
    BY <1>2 DEF ReadReply, printerVars, bounds, Channel!channelVars
  <2>2. PICK i : acked' = acked \cup {i}
    BY <1>0, <1>2, <2>1, ReplyFields
  <2>3. i \in acked' /\ Taken' = Taken
    BY <2>1, <2>2 DEF Taken
  <2>4. i < nextIndex /\ (strays = 0 => i \in Taken) /\ i \in Nat /\ i >= 1
    <3>1. acked' \subseteq 1..MaxIndex
      BY StepIInv DEF IInv, TypeOK
    <3> QED
      BY <1>0, <2>1, <2>3, <3>1 DEF Acknowledged
  <2>5. Channel!Acknowledge
    BY <1>0, <2>1, <2>2, <2>4 DEF Channel!Acknowledge
  <2> QED
    BY <2>5 DEF Channel!Next
<1>3. CASE PrinterExecutes \/ PrinterExecutesLate
  <2>1. nextIndex' = nextIndex /\ acked' = acked /\ strays' = strays /\ records' # records
    BY <1>3 DEF PrinterExecutes, PrinterExecutesLate, driverVars, bounds, Channel!channelVars
  <2>2. PICK command \in Commands :
            /\ IsRecord(command) /\ records' = Append(records, command.index)
            /\ FromPrinter(command) \/ FromLate(command)
    BY <1>0, <2>1, RecordsStep
  <2>3. command.index \in 1..MaxIndex
    BY <2>2, RecordIndex
  <2>4. command.index \notin Taken /\ Behind(command.index)
    <3>1. toPrinter # <<>> => 1 \in DOMAIN toPrinter
      BY <1>0, HeadAndTail DEF TypeOK
    <3> QED
      BY <1>0, <2>2, <3>1 DEF FromPrinter, FromLate, Once, Numbered
  <2>5. Channel!Load
    BY <1>0, <2>1, <2>2, <2>3, <2>4 DEF Channel!Load, Behind
  <2> QED
    BY <2>5 DEF Channel!Next
<1>4. CASE StrayLine
  <2>1. strays' # 0 /\ nextIndex' = nextIndex /\ records' = records /\ acked' = acked
    BY <1>0, <1>4 DEF StrayLine, TypeOK, driverVars, printerVars
  <2>2. Channel!Distrust
    BY <2>1 DEF Channel!Distrust
  <2> QED
    BY <2>2 DEF Channel!Next
<1>5. CASE \/ \E c \in Callers : Sends(c) \/ Drops(c)
           \/ Label \/ UNCHANGED vars
  <2>1. UNCHANGED <<nextIndex, records, acked, strays>>
    BY <1>5 DEF Sends, Drops, Label, vars, driverVars, printerVars, bounds
  <2> QED
    BY <2>1 DEF Channel!channelVars
<1> QED
  BY <1>0, <1>1, <1>2, <1>3, <1>4, <1>5, StepCases

\* The driver, with its mutex, its connections and its time-outs, gives the
\* pump the channel of records that PrintLine takes for one step.
THEOREM Refinement == Spec => ImplementsChannel
<1>1. Init => Channel!Init
  BY ChannelInit
<1>2. IInv /\ [Next]_vars => [Channel!Next]_Channel!channelVars
  BY ChannelStep
<1> QED
  BY <1>1, <1>2, Inductive, PTL DEF Spec, ImplementsChannel, Channel!Spec

===============================================================================

----------------------------- MODULE VideojetLink -----------------------------
(***************************************************************************)
(* The one TCP connection of a Videojet driver                             *)
(* (internal/drivers/videojet/driver.go) and the goroutines that use it:   *)
(* the pump, the poller and the request handlers.                          *)
(*                                                                         *)
(* A method is a sequence of exchanges, each under the driver's mutex: dial *)
(* if there is no connection, write one line, read one line.  A reply is   *)
(* taken for that of the command because it is the next line; only SRC     *)
(* looks at the command it echoes.  An error closes the connection, and so *)
(* drops whatever is still to come on it.                                  *)
(*                                                                         *)
(* The printer, which is not in this repository, carries out the commands  *)
(* of a connection in order, or refuses them, and answers each with one    *)
(* line.  It may be late: carry out a command whose connection is closed   *)
(* by then, or not.                                                        *)
(*                                                                         *)
(* A record is named by its place among those the pump ever offered.  That *)
(* is its index while no task is stopped: a stop frees indices, and a new  *)
(* task starts at 1 (storage.go:413, 525-530).                             *)
(***************************************************************************)
EXTENDS Integers, Sequences

CONSTANTS Pump,          \* the pump of the line
          Others,        \* the poller, and the requests that use the driver
          NoCaller,      \* nobody holds the mutex
          Capacity,      \* records the printer takes (1000)
          MaxBatch,      \* records of one batch
          MaxIndex,      \* bound: records ever sent
          MaxFaults      \* bound: lines the printer sends unasked, and commands
                         \* it carries out after their connection is closed

Callers == {Pump} \cup Others

\* The parameters are in range, and the callers are different ones.
ASSUME LinkAssumption ==
    /\ NoCaller \notin Callers /\ Pump \notin Others
    /\ Capacity \in Nat /\ MaxBatch \in Nat /\ MaxIndex \in Nat
    /\ MaxFaults \in Nat

VARIABLES lock,       \* d.mu
          open,       \* d.conn is not nil
          toPrinter, toDriver, \* the lines under way on that connection
          call,       \* call[c]: the method c is in
          nextIndex,  \* the place of the next record to be offered
          up,         \* the process runs
          queue, slr, \* the printer: records, index of the last one applied
          records,    \* indices in the order the printer took them
          late,       \* commands of closed connections it will yet carry out
          acked,      \* indices the driver counted as loaded
          strays, lates  \* bounds

linkVars == <<lock, open, toPrinter, toDriver>>
driverVars == <<acked, up>>
printerVars == <<queue, slr, records>>
bounds == <<strays, lates>>
vars == <<linkVars, driverVars, call, nextIndex, printerVars, late, bounds>>

Command(cmd) == [cmd |-> cmd, index |-> 0]
SID(i) == [cmd |-> "SID", index |-> i]

\* The methods that something calls: nothing calls UpdateStaticFields.
\* GetTemplates and GetTemplateFields are to the others what GetStatus is.
Methods == [GetStatus           |-> <<Command("GST")>>,
            GetRemainingRibbon  |-> <<Command("GCL")>>,
            GetBufferFreeSpace  |-> <<Command("SRC")>>,
            GetLastPrintedIndex |-> <<Command("SLR")>>,
            ClearQueue          |-> <<Command("SCB")>>,
            SelectTemplate      |-> <<Command("SEL")>>,
            InitSession         |-> <<Command("SCB"), Command("SMR"), Command("SHO")>>]

Nothing == -1
Printing == 3   \* a state code of GST

NoCall == [todo |-> <<>>, reset |-> FALSE, room |-> 0, since |-> 0]

Busy(c) == call[c].todo # <<>> \/ call[c].reset

Init ==
    /\ lock = NoCaller /\ open = FALSE /\ toPrinter = <<>> /\ toDriver = <<>>
    /\ up = TRUE /\ nextIndex = 1
    /\ call = [c \in Callers |-> NoCall]
    /\ queue = <<>> /\ slr = 0 /\ records = <<>> /\ late = {} /\ acked = {}
    /\ strays = 0 /\ lates = 0

-----------------------------------------------------------------------------
(* The callers.                                                             *)

Begin(c, commands) ==
    /\ up /\ ~Busy(c)
    /\ call' = [call EXCEPT ![c] =
                   [NoCall EXCEPT !.todo = commands,
                      !.since = IF Head(commands).cmd = "SLR" THEN slr ELSE 0]]
    /\ UNCHANGED <<linkVars, driverVars, printerVars, late, bounds>>

\* The pump asks for room and sends as many records as there is room for;
\* whatever becomes of a record, the pump offers it no second time.
AskForRoom == Begin(Pump, Methods.GetBufferFreeSpace) /\ UNCHANGED nextIndex

Batch(n) == [k \in 1..n |-> SID(nextIndex + k - 1)]

SendBatch ==
    \E n \in 1..MaxBatch :
        /\ n <= call[Pump].room /\ nextIndex + n <= MaxIndex + 1
        /\ Begin(Pump, Batch(n))
        /\ nextIndex' = nextIndex + n

\* The poller and the handlers: any method at any time.
OtherCalls(c) ==
    /\ \E m \in DOMAIN Methods : Begin(c, Methods[m])
    /\ UNCHANGED nextIndex

-----------------------------------------------------------------------------
(* sendRaw, and what the methods do with its result.                        *)

\* The commands that change what the printer holds.
Effective == {"SID", "SCB"}

\* Mutant: an error leaves the connection as it is.
KeepOpen == UNCHANGED <<open, toPrinter, toDriver, late, lates>>

\* The connection is closed: what was under way is lost to the driver, and
\* the printer carries out a command it had received, or does not.
Close ==
    /\ open' = FALSE /\ toPrinter' = <<>> /\ toDriver' = <<>>
    /\ \/ UNCHANGED <<late, lates>>
       \/ /\ strays + lates < MaxFaults
          /\ \E k \in DOMAIN toPrinter :
                /\ toPrinter[k].cmd \in Effective
                /\ late' = late \cup {toPrinter[k]}
          /\ lates' = lates + 1

\* Mutant: the command is sent again.
Retry(c) == UNCHANGED call

\* The exchange failed: the method returns, a batch with what it has counted.
Failed(c) ==
    call' = [call EXCEPT ![c].todo = <<>>, ![c].since = 0]

MayLock(c) == lock = NoCaller

SendCommand(c) ==
    /\ up /\ call[c].todo # <<>> /\ MayLock(c) /\ lock # c
    /\ \/ /\ lock' = c /\ open' = TRUE
          /\ toPrinter' = Append(toPrinter, Head(call[c].todo))
          /\ UNCHANGED <<toDriver, call, late, lates>>
       \/ /\ Close /\ Failed(c)        \* dial or write error
          /\ UNCHANGED lock
    /\ UNCHANGED <<driverVars, nextIndex, printerVars, strays>>

\* The read fails or its deadline passes.
Timeout(c) ==
    /\ up /\ lock = c
    /\ Close /\ Failed(c)
    /\ lock' = NoCaller
    /\ UNCHANGED <<driverVars, nextIndex, printerVars, strays>>

\* The commands whose reply is searched for "ERR".
Checked == {"SID", "SHO", "SEL"}

\* Mutant: SRC takes any line for its own.
AnyLine(cmd, reply) == TRUE

Echoes(cmd, reply) == reply.cmd = cmd

Refused(command, reply) == command.cmd \in Checked /\ reply.cmd = "ERR"

\* The driver subtracts from 1000, whatever the printer was set up for.
Room(busy) == IF busy > Capacity THEN 0 ELSE Capacity - busy

\* A reply: the command it answers, and what its second field holds (Nothing
\* for no number there).  GetRemainingRibbon panics in the poller, where nobody
\* recovers, when the reply has no second field.
TakeReply(c, reply) ==
    LET k == call[c]
        command == Head(k.todo)
        done == [k EXCEPT !.todo = Tail(@)]
        given == [k EXCEPT !.todo = <<>>]
    IN  /\ call' = [call EXCEPT ![c] =
                CASE command.cmd = "SRC" ->
                       IF Echoes("SRC", reply)
                       THEN [done EXCEPT !.room = IF c = Pump THEN Room(reply.value) ELSE 0]
                       ELSE [done EXCEPT !.reset = TRUE]
                  [] command.cmd = "SLR" -> [done EXCEPT !.since = 0]
                  [] Refused(command, reply) -> given
                  [] OTHER -> done]
        /\ acked' = IF command.cmd = "SID" /\ ~Refused(command, reply)
                    THEN acked \cup {command.index} ELSE acked
        /\ up' = (command.cmd = "GCL" => reply.cmd # "ERR")

ReadReply(c) ==
    /\ up /\ lock = c /\ toDriver # <<>>
    /\ TakeReply(c, Head(toDriver))
    /\ toDriver' = Tail(toDriver)
    /\ lock' = NoCaller
    /\ UNCHANGED <<open, toPrinter, nextIndex, printerVars, late, bounds>>

\* GetBufferFreeSpace closes a connection that answered something else, in a
\* second critical section: whatever connection there is by then.
ResetSocket(c) ==
    /\ up /\ call[c].reset /\ lock = NoCaller
    /\ Close
    /\ call' = [call EXCEPT ![c].reset = FALSE]
    /\ UNCHANGED <<lock, driverVars, nextIndex, printerVars, strays>>

-----------------------------------------------------------------------------
(* The printer.                                                             *)

\* What a command does to the records, unless it is refused.
CarryOut(command, accepted) ==
    /\ UNCHANGED slr
    /\ CASE command.cmd = "SID" /\ accepted ->
              /\ queue' = Append(queue, command.index)
              /\ records' = Append(records, command.index)
         [] command.cmd = "SCB" /\ accepted -> queue' = <<>> /\ UNCHANGED records
         [] OTHER -> UNCHANGED <<queue, records>>

Answer(command, accepted) ==
    [cmd   |-> IF accepted THEN command.cmd ELSE "ERR",
     value |-> CASE ~accepted -> Nothing
                 [] accepted /\ command.cmd = "SRC" -> Len(queue)
                 [] accepted /\ command.cmd = "SLR" -> slr
                 [] accepted /\ command.cmd = "SID" -> command.index
                 [] accepted /\ command.cmd = "GST" -> Printing
                 [] OTHER -> Nothing]

PrinterExecutes ==
    /\ toPrinter # <<>>
    /\ LET command == Head(toPrinter)
       IN  \E accepted \in BOOLEAN :
              /\ CarryOut(command, accepted)
              /\ toDriver' = Append(toDriver, Answer(command, accepted))
    /\ toPrinter' = Tail(toPrinter)
    /\ UNCHANGED <<lock, open, driverVars, call, nextIndex, late, bounds>>

PrinterExecutesLate ==
    /\ \E command \in late :
          /\ CarryOut(command, TRUE)
          /\ late' = late \ {command}
    /\ UNCHANGED <<linkVars, driverVars, call, nextIndex, bounds>>

\* A line nobody asked for, such as an answer to the empty line of a new
\* connection: it has no second field.
StrayLine ==
    /\ open /\ strays + lates < MaxFaults
    /\ toDriver' = Append(toDriver, [cmd |-> "ERR", value |-> Nothing])
    /\ strays' = strays + 1
    /\ UNCHANGED <<lock, open, toPrinter, driverVars, call, nextIndex, printerVars,
                   late, lates>>

Label ==
    /\ queue # <<>>
    /\ slr' = Head(queue) /\ queue' = Tail(queue)
    /\ UNCHANGED <<linkVars, driverVars, call, nextIndex, records, late, bounds>>

-----------------------------------------------------------------------------
Exchange(c) == SendCommand(c) \/ ReadReply(c) \/ Timeout(c) \/ ResetSocket(c)

Next ==
    \/ AskForRoom \/ SendBatch \/ \E c \in Others : OtherCalls(c)
    \/ \E c \in Callers : Exchange(c)
    \/ PrinterExecutes \/ PrinterExecutesLate \/ StrayLine \/ Label

Spec == Init /\ [][Next]_vars

\* Goroutines are scheduled, the mutex starves nobody, every read has a
\* deadline, and the pump asks for room at every tick.
FairSpec ==
    /\ Spec
    /\ WF_vars(AskForRoom)
    /\ \A c \in Callers : SF_vars(Exchange(c))

-----------------------------------------------------------------------------
Names == {"GST", "GCL", "SRC", "SLR", "SCB", "SEL", "SMR", "SHO", "SID"}
Commands == {Command(cmd) : cmd \in Names \ {"SID"}} \cup {SID(i) : i \in 1..MaxIndex}
Replies == [cmd : Names \cup {"ERR"}, value : Int]

TypeOK ==
    /\ lock \in Callers \cup {NoCaller} /\ open \in BOOLEAN /\ up \in BOOLEAN
    /\ toPrinter \in Seq(Commands) /\ toDriver \in Seq(Replies)
    /\ call \in [Callers -> [todo : Seq(Commands), reset : BOOLEAN,
                             room : 0..Capacity, since : 0..MaxIndex]]
    /\ nextIndex \in 1..(MaxIndex + 1)
    /\ queue \in Seq(1..MaxIndex) /\ slr \in 0..MaxIndex /\ records \in Seq(1..MaxIndex)
    /\ late \subseteq Commands /\ acked \subseteq 1..MaxIndex
    /\ strays \in 0..MaxFaults /\ lates \in 0..MaxFaults

\* The connection carries what the holder of the mutex is waiting for, and
\* nothing when nobody waits.
InStep ==
    IF lock = NoCaller THEN toPrinter = <<>> /\ toDriver = <<>>
    ELSE \/ toPrinter = <<Head(call[lock].todo)>> /\ toDriver = <<>>
         \/ /\ toPrinter = <<>> /\ Len(toDriver) = 1
            /\ Head(toDriver).cmd \in {Head(call[lock].todo).cmd, "ERR"}

\* Taking the next line for the reply is sound as long as the printer only
\* answers: neither a late reply nor that to another goroutine is ever read.
OneExchange == strays = 0 => InStep

\* The number GetLastPrintedIndex takes was the index of the last label at a
\* moment of the call: the poller and the stop handler confirm no record by
\* the reply to another command.  A refusal has no number.
OdometerTrue ==
    strays = 0 /\ lates = 0 =>
        \A c \in Callers :
            (lock = c /\ Head(call[c].todo).cmd = "SLR" /\ toDriver # <<>>) =>
                Head(toDriver).value \in {Nothing} \cup call[c].since..slr

\* A record the driver counts as loaded was taken by the printer.
AcknowledgedWasLoaded ==
    strays = 0 => \A i \in acked : \E k \in DOMAIN records : records[k] = i

\* Records enter the printer in the order the pump offers them, also across
\* connections, unless a command outlives its connection.
LoadedInOrder ==
    lates = 0 => \A k, l \in DOMAIN records : k < l => records[k] < records[l]

\* A line out of turn does not shift the answers for good: whatever the
\* others ask, the next question for room closes the connection, unless the
\* process dies first, of a GCL that is answered without a field.
DesyncHeals == ~InStep ~> (InStep \/ ~up)

\* No call of the driver waits for good, for the mutex or for an answer: it
\* returns, or the process dies of a GCL that is answered without a field.
CallEnds == \A c \in Callers : (Busy(c) /\ up) ~> (~Busy(c) \/ ~up)

Channel == INSTANCE RecordChannel WITH
    offered <- nextIndex - 1, loaded <- records, trusted <- strays = 0

\* The driver gives the pump the channel of records PrintLine builds on.
ImplementsChannel == Channel!Spec
===============================================================================

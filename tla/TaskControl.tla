----------------------------- MODULE TaskControl -----------------------------
(***************************************************************************)
(* Tasks on lines: the create, append and stop handlers                    *)
(* (internal/api/handlers_tasks.go) as concurrent requests over the tasks  *)
(* table, the pumps StartPumping launches with their registry activeTasks  *)
(* (core/manager.go), and the restart of runApp (cmd/gateway/main.go).     *)
(* What happens to codes is PrintLine's subject; here a pump cycle is one  *)
(* period in which records are sent.  A line of Valentin printers has a    *)
(* pump for each of them, ValentinLine's subject, any other line one.      *)
(*                                                                         *)
(* session[l] is the task whose template and fields the printers of line l *)
(* were last set up for: SelectTemplate and InitSession are called by the  *)
(* create handler alone.                                                   *)
(***************************************************************************)
EXTENDS Integers, FiniteSets

CONSTANTS Lines,       \* line ids, positive
          Requests,    \* requests the API server handles at the same time
          FastPumps,   \* for each Valentin line, its registered drivers
          Events,      \* the events allowed, a subset of AllEvents
          MaxTasks,    \* bound: tasks ever created
          MaxRestarts, \* bound: restarts of the process
          MaxCalls     \* bound: append and stop requests

AllEvents ==
    {"overlap",    \* two requests at once
     "reappend",   \* an append to a task that is not active
     "slowPump",   \* a stop answers while the pump is inside its cycle
     "queryFails", \* a statement on the master database fails, or finds
                   \* no printer on the line any more
     "panics"}     \* a driver panics while a create sets it up

\* Line and task ids are positive, 0 stands for none; a server handles
\* finitely many requests at once.
ASSUME ControlAssumption ==
    /\ IsFiniteSet(Requests)
    /\ Lines \subseteq Nat \ {0}
    /\ DOMAIN FastPumps \subseteq Lines
    /\ FastPumps \in [DOMAIN FastPumps -> Nat]
    /\ MaxTasks \in Nat /\ MaxRestarts \in Nat /\ MaxCalls \in Nat
    /\ Events \subseteq AllEvents

VARIABLES status,     \* tasks.status, "absent" before the row exists
          lineOf,     \* tasks.line_id, 0 before the row exists
          session,    \* the task a line's printers are set up for, or 0
          request,    \* request[r]: where handler r is
          tracked,    \* activeTasks
          pumps,      \* pumps[t]: goroutines of task t at each place
          left,       \* history: tasks whose create ended without a status
          restarts, calls

bounds == <<restarts, calls>>
vars == <<status, lineOf, session, request, tracked, pumps, left, bounds>>

TaskIds == 1..MaxTasks
NoTask == 0
NoLine == 0
Statuses == {"absent", "ready", "active", "failed", "stopped"}
Places == {"tick", "send", "exit"}
Idle == [pc |-> "idle", task |-> NoTask, line |-> NoLine]
NoPumps == [place \in Places |-> 0]

Init ==
    /\ status = [t \in TaskIds |-> "absent"]
    /\ lineOf = [t \in TaskIds |-> NoLine]
    /\ session = [l \in Lines |-> NoTask]
    /\ request = [r \in Requests |-> Idle]
    /\ tracked = [t \in TaskIds |-> FALSE]
    /\ pumps = [t \in TaskIds |-> NoPumps]
    /\ left = {}
    /\ restarts = 0 /\ calls = 0

\* Mutant: a task being created does not count.
BusyActive(l) == \E t \in TaskIds : lineOf[t] = l /\ status[t] = "active"

\* GetActiveTaskByLine finds a task.
Busy(l) == \E t \in TaskIds : lineOf[t] = l /\ status[t] \in {"active", "ready"}

\* A new request: alone, unless requests overlap.
Accepts(r) ==
    /\ request[r] = Idle
    /\ "overlap" \in Events \/ \A s \in Requests : request[s] = Idle

QueryFails == "queryFails" \in Events

At(r, pc) == request[r].pc = pc
Goto(r, pc) == request' = [request EXCEPT ![r].pc = pc]
Answer(r) == request' = [request EXCEPT ![r] = Idle]

-----------------------------------------------------------------------------
(* handleTaskCreate: check the line, insert the row, set up the printers,   *)
(* activate.                                                                *)

Created == {t \in TaskIds : status[t] # "absent"}
Inserting == {r \in Requests : At(r, "insert")}

CreateCheck(r, l) ==
    /\ Accepts(r)
    /\ Cardinality(Created) + Cardinality(Inserting) < MaxTasks
    /\ ~Busy(l)
    /\ request' = [request EXCEPT ![r] = [pc |-> "insert", task |-> NoTask, line |-> l]]
    /\ UNCHANGED <<status, lineOf, session, tracked, pumps, left, bounds>>

\* CreateTask: the next id, status ready.
CreateInsert(r) ==
    LET t == Cardinality(Created) + 1
    IN  /\ At(r, "insert")
        /\ \/ /\ status' = [status EXCEPT ![t] = "ready"]
              /\ lineOf' = [lineOf EXCEPT ![t] = request[r].line]
              /\ request' = [request EXCEPT ![r].pc = "prepare", ![r].task = t]
           \/ QueryFails /\ Answer(r) /\ UNCHANGED <<status, lineOf>>
        /\ UNCHANGED <<session, tracked, pumps, left, bounds>>

\* What a create writes of its task, and does not look whether it was written.
Conclude(t, s) ==
    \/ status' = [status EXCEPT ![t] = s] /\ UNCHANGED left
    \/ QueryFails /\ left' = left \cup {t} /\ UNCHANGED status

\* Mutant: a task that failed to start is left as it is.
FailForgotten(t) == UNCHANGED <<status, left>>

Fail(t) == Conclude(t, "failed")

\* Every printer is asked for its status and set up; the first failure, maybe
\* after a printer was already set up, fails the task and answers.  A panic is
\* recovered by the HTTP server: the request ends, and the task has no more
\* from it.
CreatePrepare(r) ==
    LET t == request[r].task
        own == [session EXCEPT ![lineOf[t]] = t]
    IN  /\ At(r, "prepare")
        /\ \/ session' = own /\ Goto(r, "activate") /\ UNCHANGED <<status, left>>
           \/ session' \in {session, own} /\ Fail(t) /\ Answer(r)
           \/ /\ "panics" \in Events
              /\ session' \in {session, own}
              /\ left' = left \cup {t}
              /\ Answer(r)
              /\ UNCHANGED status
        /\ UNCHANGED <<lineOf, tracked, pumps, bounds>>

CreateActivate(r) ==
    /\ At(r, "activate")
    /\ Conclude(request[r].task, "active")
    /\ Answer(r)
    /\ UNCHANGED <<lineOf, session, tracked, pumps, bounds>>

-----------------------------------------------------------------------------
(* handleTaskAppend after its insert: activate, start the pumps.            *)

AppendAccept(r, t) ==
    /\ Accepts(r)
    /\ calls < MaxCalls
    /\ IF "reappend" \in Events THEN status[t] # "absent" ELSE status[t] = "active"
    /\ request' = [request EXCEPT ![r] = [Idle EXCEPT !.pc = "reactivate", !.task = t]]
    /\ calls' = calls + 1
    /\ UNCHANGED <<status, lineOf, session, tracked, pumps, left, restarts>>

AppendActivate(r) ==
    /\ At(r, "reactivate")
    /\ \/ status' = [status EXCEPT ![request[r].task] = "active"]
       \/ QueryFails /\ UNCHANGED status
    /\ Goto(r, "start")
    /\ UNCHANGED <<lineOf, session, tracked, pumps, left, bounds>>

\* Mutant: the registry is not consulted.
StartsAlways(t) == TRUE

\* StartPumping looks into the registry and enters under one lock.
Starts(t) == ~tracked[t]

AppendRegister(r) ==
    LET t == request[r].task
    IN  /\ At(r, "start")
        /\ \/ /\ Starts(t)
              /\ tracked' = [tracked EXCEPT ![t] = TRUE]
              /\ Goto(r, "launch")
           \/ /\ ~Starts(t) \/ QueryFails
              /\ Answer(r)
              /\ UNCHANGED tracked
        /\ UNCHANGED <<status, lineOf, session, pumps, left, bounds>>

\* A fast pump starts with a push, the default pump with a tick.  A Valentin
\* line none of whose drivers is registered gets no pump, and no other.
IsFast(l) == l \in DOMAIN FastPumps
Launched(l) == IF IsFast(l) THEN FastPumps[l] ELSE 1
Launch(t, running) ==
    [running EXCEPT ![IF IsFast(lineOf[t]) THEN "send" ELSE "tick"] = @ + Launched(lineOf[t])]

\* Mutant: a pump that ends stays registered.
StaysTracked(t) == UNCHANGED tracked

stopTaskTracking(t) == tracked' = [tracked EXCEPT ![t] = FALSE]

\* The rest of StartPumping asks for the printers; without them the task
\* leaves the registry again.
AppendLaunch(r) ==
    LET t == request[r].task
    IN  /\ At(r, "launch")
        /\ \/ pumps' = [pumps EXCEPT ![t] = Launch(t, @)] /\ UNCHANGED tracked
           \/ QueryFails /\ stopTaskTracking(t) /\ UNCHANGED pumps
        /\ Answer(r)
        /\ UNCHANGED <<status, lineOf, session, left, bounds>>

-----------------------------------------------------------------------------
(* handleTaskStop: refuse a finished task, set the status, settle with the  *)
(* printers, answer.                                                        *)

StopCheck(r, t) ==
    /\ Accepts(r)
    /\ calls < MaxCalls
    /\ status[t] \notin {"absent", "stopped"}
    /\ request' = [request EXCEPT ![r] = [Idle EXCEPT !.pc = "set", !.task = t]]
    /\ calls' = calls + 1
    /\ UNCHANGED <<status, lineOf, session, tracked, pumps, left, restarts>>

\* A stop that cannot set the status answers an error and goes no further.
StopSet(r) ==
    /\ At(r, "set")
    /\ \/ status' = [status EXCEPT ![request[r].task] = "stopped"] /\ Goto(r, "settle")
       \/ QueryFails /\ Answer(r) /\ UNCHANGED status
    /\ UNCHANGED <<lineOf, session, tracked, pumps, left, bounds>>

\* Up to three seconds of polling and clearing, then the answer.
StopAnswer(r) ==
    /\ At(r, "settle")
    /\ "slowPump" \in Events \/ pumps[request[r].task]["send"] = 0
    /\ Answer(r)
    /\ UNCHANGED <<status, lineOf, session, tracked, pumps, left, bounds>>

-----------------------------------------------------------------------------
(* RunDefaultPumper and RunValentinFastPumper.                              *)

Move(t, from, to) ==
    /\ pumps[t][from] > 0
    /\ pumps' = [pumps EXCEPT ![t][from] = @ - 1, ![t][to] = @ + 1]

\* Mutant: a stopped task is pumped to its end.
Pumped == {"active", "failed", "stopped"}

Pumping == {"active", "failed"}

\* One tick: a stopped task or a failed query ends the pump; a ready task skips
\* the tick of the default pump, not that of a fast one; any other is pumped, a
\* failed one too.
PumpTick(t) ==
    /\ \/ /\ status[t] = "stopped" \/ QueryFails
          /\ Move(t, "tick", "exit")
       \/ /\ status[t] \in Pumping \/ (status[t] = "ready" /\ IsFast(lineOf[t]))
          /\ Move(t, "tick", "send")
    /\ UNCHANGED <<status, lineOf, session, request, tracked, left, bounds>>

PumpCycleEnds(t) ==
    /\ Move(t, "send", "tick")
    /\ UNCHANGED <<status, lineOf, session, request, tracked, left, bounds>>

\* The deferred stopTaskTracking.
PumpExit(t) ==
    /\ pumps[t]["exit"] > 0
    /\ pumps' = [pumps EXCEPT ![t]["exit"] = @ - 1]
    /\ stopTaskTracking(t)
    /\ UNCHANGED <<status, lineOf, session, request, left, bounds>>

Pump(t) == PumpTick(t) \/ PumpCycleEnds(t) \/ PumpExit(t)

-----------------------------------------------------------------------------
\* Active or ready tasks are pumped after a restart, but for those whose query
\* fails.
Recovered ==
    LET found == {t \in TaskIds : status[t] \in {"active", "ready"}}
    IN  IF QueryFails THEN SUBSET found ELSE {found}

\* The process dies with its requests and pumps.
Restart ==
    /\ restarts < MaxRestarts
    /\ restarts' = restarts + 1
    /\ request' = [r \in Requests |-> Idle]
    /\ \E started \in Recovered :
          /\ tracked' = [t \in TaskIds |-> t \in started]
          /\ pumps' = [t \in TaskIds |-> IF t \in started THEN Launch(t, NoPumps) ELSE NoPumps]
    /\ UNCHANGED <<status, lineOf, session, left, calls>>

Handle(r) ==
    \/ CreateInsert(r) \/ CreatePrepare(r) \/ CreateActivate(r)
    \/ AppendActivate(r) \/ AppendRegister(r) \/ AppendLaunch(r)
    \/ StopSet(r) \/ StopAnswer(r)

Next ==
    \/ \E r \in Requests, l \in Lines : CreateCheck(r, l)
    \/ \E r \in Requests, t \in TaskIds : AppendAccept(r, t) \/ StopCheck(r, t)
    \/ \E r \in Requests : Handle(r)
    \/ \E t \in TaskIds : Pump(t)
    \/ Restart

Spec == Init /\ [][Next]_vars

\* An accepted request is served to its end and goroutines are scheduled.
Fairness ==
    /\ \A r \in Requests : WF_vars(Handle(r))
    /\ \A t \in TaskIds : WF_vars(Pump(t))

FairSpec == Spec /\ Fairness

-----------------------------------------------------------------------------
TypeOK ==
    /\ status \in [TaskIds -> Statuses]
    /\ lineOf \in [TaskIds -> Lines \cup {NoLine}]
    /\ session \in [Lines -> TaskIds \cup {NoTask}]
    /\ request \in [Requests ->
          [pc : {"idle", "insert", "prepare", "activate", "reactivate", "start",
                 "launch", "set", "settle"},
           task : TaskIds \cup {NoTask}, line : Lines \cup {NoLine}]]
    /\ tracked \in [TaskIds -> BOOLEAN]
    /\ pumps \in [TaskIds -> [Places -> Nat]]
    /\ left \subseteq TaskIds
    /\ restarts \in 0..MaxRestarts /\ calls \in 0..MaxCalls

PumpCount(t) == pumps[t]["tick"] + pumps[t]["send"] + pumps[t]["exit"]

Launching(t) == {r \in Requests : At(r, "launch") /\ request[r].task = t}

\* No task with a default pump is ever pumped twice, and none is registered
\* with nobody pumping it or about to, which would keep every later append from
\* starting a pump (manager.go:54).  A task on Valentin printers may be pumped
\* by more than its pumps, as the first that ends takes it out of the registry,
\* but while it is registered it has one for each printer, or will get them.
OnePumpPerTask ==
    \A t \in TaskIds :
        /\ ~IsFast(lineOf[t]) =>
              Cardinality(Launching(t)) + PumpCount(t) = IF tracked[t] THEN 1 ELSE 0
        /\ tracked[t] => Launching(t) # {} \/ PumpCount(t) >= Launched(lineOf[t])

\* "Линия %d уже занята задачей %d. Сначала остановите её."
\* (handlers_tasks.go:60): a line works on one task at a time.
OneTaskPerLine ==
    \A t, u \in TaskIds :
        /\ t # u /\ lineOf[t] = lineOf[u]
        /\ status[t] \in {"active", "ready"}
        => status[u] \notin {"active", "ready"}

\* Records are sent to printers set up for their own task: no code is put on
\* the template of another product.  After a restart this is so for the default
\* pump alone, as a fast one pumps a task whose create the restart cut off.
OwnSession ==
    \A t \in TaskIds :
        pumps[t]["send"] > 0 /\ (IsFast(lineOf[t]) => restarts = 0)
            => session[lineOf[t]] = t

\* No task is left being created, which would keep its line from every other:
\* not unless the process dies in the middle of it, the status that ends it is
\* not written, or a driver panics.
CreateEnds ==
    \A t \in TaskIds :
        (status[t] = "ready" /\ restarts = 0)
            ~> (status[t] # "ready" \/ restarts > 0 \/ t \in left)

\* A task that stays stopped ends up with no pump, and out of the registry
\* unless it never had one.
Released(t) == PumpCount(t) = 0 /\ (tracked[t] => Launched(lineOf[t]) = 0)

StopReleases ==
    \A t \in TaskIds : (status[t] = "stopped") ~> (Released(t) \/ status[t] # "stopped")
=============================================================================

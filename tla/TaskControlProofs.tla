-------------------------- MODULE TaskControlProofs --------------------------
(***************************************************************************)
(* Proofs about TaskControl, for any number of lines, tasks and requests   *)
(* at once, whatever events are allowed, queries failing and drivers        *)
(* panicking among them: the registry of pumps is right.                   *)
(***************************************************************************)
EXTENDS TaskControl, FiniteSetTheorems, TLAPS

-----------------------------------------------------------------------------
(* Types.  An insert takes the id after the last one, which is in range     *)
(* because a create is only accepted while there is room for it, and        *)
(* because nothing but an insert brings a row into being: every other       *)
(* request is about a task that has one.  As ids are given out in order, it *)
(* never meets an older row.                                                *)

AboutCreatedTasks ==
    \A r \in Requests :
        request[r].pc \notin {"idle", "insert"} => request[r].task \in Created

RoomForCreates ==
    Cardinality(Created) + Cardinality(Inserting) <= MaxTasks

IdsInOrder == \A t \in TaskIds : t \in Created <=> t <= Cardinality(Created)

Typed == TypeOK /\ AboutCreatedTasks /\ RoomForCreates /\ IdsInOrder

\* The two sets that are counted are finite.
LEMMA Counted ==
    /\ IsFiniteSet(Created) /\ Cardinality(Created) \in Nat
    /\ IsFiniteSet(Inserting) /\ Cardinality(Inserting) \in Nat
<1>1. IsFiniteSet(TaskIds)
  BY FS_Interval, ControlAssumption DEF TaskIds
<1>2. Created \subseteq TaskIds /\ Inserting \subseteq Requests
  BY DEF Created, Inserting
<1>3. IsFiniteSet(Created) /\ IsFiniteSet(Inserting)
  BY <1>1, <1>2, FS_Subset, ControlAssumption
<1> QED
  BY <1>3, FS_CardinalityType

LEMMA TypedInit == Init => Typed
<1> SUFFICES ASSUME Init
             PROVE  Typed
  OBVIOUS
<1>1. TypeOK
  BY ControlAssumption DEF Init, TypeOK, Idle, NoPumps, NoTask, NoLine, Statuses, TaskIds
<1>2. AboutCreatedTasks
  BY DEF Init, AboutCreatedTasks, Idle
<1>3. Created = {} /\ Inserting = {}
  BY DEF Init, Created, Inserting, At, Idle
<1>4. RoomForCreates
  BY <1>3, FS_EmptySet, ControlAssumption DEF RoomForCreates
<1>5. IdsInOrder
  BY <1>3, FS_EmptySet DEF IdsInOrder, TaskIds
<1> QED
  BY <1>1, <1>2, <1>4, <1>5 DEF Typed

\* A step that brings no task into being and accepts no create keeps the room.
LEMMA RoomKept ==
    ASSUME RoomForCreates, IdsInOrder, Created' = Created, Inserting' \subseteq Inserting
    PROVE  RoomForCreates' /\ IdsInOrder'
<1>1. Cardinality(Created') <= Cardinality(Created)
  BY Counted, FS_Subset
<1>2. Cardinality(Inserting') <= Cardinality(Inserting)
  BY Counted, FS_Subset
<1>3. Cardinality(Created') \in Nat /\ Cardinality(Inserting') \in Nat
  BY Counted, FS_Subset, FS_CardinalityType
<1>4. IdsInOrder'
  BY DEF IdsInOrder
<1> QED
  BY <1>1, <1>2, <1>3, <1>4, Counted, ControlAssumption DEF RoomForCreates

\* What a step of a handler does to its request keeps the type.
RequestType ==
    [pc : {"idle", "insert", "prepare", "activate", "reactivate", "start", "launch", "set",
           "settle"},
     task : TaskIds \cup {NoTask}, line : Lines \cup {NoLine}]

LEMMA RequestTyped ==
    ASSUME NEW r \in Requests, request \in [Requests -> RequestType],
           NEW pc \in {"idle", "insert", "prepare", "activate", "reactivate", "start",
                       "launch", "set", "settle"},
           NEW t \in TaskIds
    PROVE  /\ [request EXCEPT ![r].pc = pc] \in [Requests -> RequestType]
           /\ [request EXCEPT ![r].pc = pc, ![r].task = t] \in [Requests -> RequestType]
<1>1. request[r] \in RequestType
  OBVIOUS
<1>2. /\ [request[r] EXCEPT !.pc = pc] \in RequestType
      /\ [request[r] EXCEPT !.pc = pc, !.task = t] \in RequestType
  BY <1>1 DEF RequestType
<1> QED
  BY <1>2

\* The id an insert takes.
LEMMA NextId ==
    ASSUME Typed, NEW r \in Requests, At(r, "insert")
    PROVE  Cardinality(Created) + 1 \in TaskIds \ Created
<1>1. r \in Inserting
  BY DEF Inserting
<1>2. Cardinality(Inserting) # 0
  BY <1>1, Counted, FS_EmptySet
<1>3. Cardinality(Created) + 1 \in TaskIds
  BY <1>2, Counted, ControlAssumption DEF Typed, RoomForCreates, TaskIds
<1> QED
  BY <1>3, Counted DEF Typed, IdsInOrder

\* Accepting a create and its insert.
LEMMA TypedCreate ==
    ASSUME Typed, NEW r \in Requests,
           CreateInsert(r) \/ \E l \in Lines : CreateCheck(r, l)
    PROVE  Typed'
<1> DEFINE t == Cardinality(Created) + 1
<1>1. ASSUME NEW l \in Lines, CreateCheck(r, l)
      PROVE  Typed'
  <2> USE <1>1 DEF CreateCheck, NoTask, NoLine
  <2>1. TypeOK'
    BY DEF Typed, TypeOK, bounds
  <2>2. AboutCreatedTasks'
    BY DEF Typed, TypeOK, AboutCreatedTasks, Created
  <2>3. Created' = Created /\ Inserting' \subseteq Inserting \cup {r}
    BY DEF Typed, TypeOK, Created, Inserting, At
  <2>4. /\ Cardinality(Inserting') <= Cardinality(Inserting) + 1
        /\ Cardinality(Inserting') \in Nat
    <3>1. /\ IsFiniteSet(Inserting \cup {r})
          /\ Cardinality(Inserting \cup {r}) \in {Cardinality(Inserting), Cardinality(Inserting) + 1}
      BY Counted, FS_AddElement
    <3>2. IsFiniteSet(Inserting') /\ Cardinality(Inserting') <= Cardinality(Inserting \cup {r})
      BY <2>3, <3>1, FS_Subset
    <3>3. Cardinality(Inserting') \in Nat /\ Cardinality(Inserting \cup {r}) \in Nat
      BY <3>1, <3>2, FS_CardinalityType
    <3> QED
      BY <3>1, <3>2, <3>3, Counted
  <2>5. RoomForCreates'
    BY <2>3, <2>4, Counted, ControlAssumption DEF RoomForCreates
  <2>6. IdsInOrder'
    BY <2>3 DEF Typed, IdsInOrder
  <2> QED
    BY <2>1, <2>2, <2>5, <2>6 DEF Typed
<1>2. CASE CreateInsert(r) /\ status' # status
  <2>1. /\ t \in TaskIds \ Created /\ At(r, "insert")
        /\ status' = [status EXCEPT ![t] = "ready"]
        /\ lineOf' = [lineOf EXCEPT ![t] = request[r].line]
        /\ request' = [request EXCEPT ![r].pc = "prepare", ![r].task = t]
        /\ UNCHANGED <<session, tracked, pumps, left, bounds>>
    BY <1>2, NextId DEF CreateInsert
  <2> HIDE DEF t
  <2>2. TypeOK'
    <3>1. request[r].line \in Lines \cup {NoLine}
      BY DEF Typed, TypeOK
    <3>2. status' \in [TaskIds -> Statuses] /\ lineOf' \in [TaskIds -> Lines \cup {NoLine}]
      BY <2>1, <3>1 DEF Typed, TypeOK, Statuses
    <3>3. request' \in [Requests -> RequestType]
      BY <2>1, RequestTyped DEF Typed, TypeOK, RequestType
    <3> QED
      BY <2>1, <3>2, <3>3 DEF Typed, TypeOK, bounds, RequestType
  <2>3. Created' = Created \cup {t}
    BY <2>1 DEF Typed, TypeOK, Created
  <2>4. AboutCreatedTasks'
    BY <2>1, <2>3 DEF Typed, TypeOK, AboutCreatedTasks, At
  <2>5. Inserting' = Inserting \ {r} /\ r \in Inserting
    BY <2>1 DEF Typed, TypeOK, Inserting, At
  <2>6. Cardinality(Inserting') = Cardinality(Inserting) - 1
    BY <2>5, Counted, FS_RemoveElement
  <2>7. Cardinality(Created') = Cardinality(Created) + 1
    BY <2>1, <2>3, Counted, FS_AddElement
  <2>8. RoomForCreates'
    BY <2>6, <2>7, Counted, ControlAssumption DEF Typed, RoomForCreates
  <2>9. IdsInOrder'
    <3>1. \A u \in TaskIds : u \in Created' <=> u <= Cardinality(Created) + 1
      BY <2>3, Counted DEF Typed, IdsInOrder, TaskIds, t
    <3> QED
      BY <2>7, <3>1 DEF IdsInOrder
  <2> QED
    BY <2>2, <2>4, <2>8, <2>9 DEF Typed
<1>3. CASE CreateInsert(r) /\ status' = status
  <2>1. /\ t \in TaskIds \ Created /\ At(r, "insert")
    BY <1>3, NextId DEF CreateInsert, t
  <2>2. /\ request' = [request EXCEPT ![r] = Idle]
        /\ UNCHANGED <<status, lineOf, session, tracked, pumps, left, bounds>>
    BY <1>3, <2>1 DEF CreateInsert, Answer, Typed, TypeOK, Created, t
  <2>3. Created' = Created /\ Inserting' \subseteq Inserting
    BY <2>2 DEF Typed, TypeOK, Created, Inserting, At, Idle
  <2>4. TypeOK' /\ AboutCreatedTasks'
    BY <2>2, <2>3 DEF Typed, TypeOK, AboutCreatedTasks, Idle, NoTask, NoLine, bounds
  <2> QED
    BY <2>3, <2>4, RoomKept DEF Typed
<1> QED
  BY <1>1, <1>2, <1>3

\* The other steps of a request: they concern a task that has a row.
LEMMA TypedRequest ==
    ASSUME Typed, NEW r \in Requests,
           \/ CreatePrepare(r) \/ CreateActivate(r) \/ AppendActivate(r) \/ StopSet(r)
           \/ \E t \in TaskIds : AppendAccept(r, t) \/ StopCheck(r, t)
           \/ StopAnswer(r)
    PROVE  Typed'
<1> USE DEF At, Goto, Answer, Idle, NoTask, NoLine
<1>1. CASE CreatePrepare(r) \/ CreateActivate(r) \/ AppendActivate(r) \/ StopSet(r)
  <2> DEFINE t == request[r].task
  <2>1. t \in Created /\ t \in TaskIds
    BY <1>1 DEF Typed, AboutCreatedTasks, Created, CreatePrepare, CreateActivate,
                AppendActivate, StopSet
  <2>2. /\ \/ status' = status
           \/ \E v \in Statuses \ {"absent"} : status' = [status EXCEPT ![t] = v]
        /\ \/ request' = [request EXCEPT ![r] = Idle]
           \/ \E v \in {"activate", "start", "settle"} :
                 request' = [request EXCEPT ![r].pc = v]
        /\ session' = session \/ session' = [session EXCEPT ![lineOf[t]] = t]
        /\ left' \subseteq left \cup {t}
        /\ request[r].pc \notin {"idle", "insert"}
        /\ UNCHANGED <<lineOf, tracked, pumps, bounds>>
    BY <1>1 DEF CreatePrepare, CreateActivate, AppendActivate, StopSet, Fail, Conclude, Statuses
  <2>3. TypeOK'
    <3>1. status' \in [TaskIds -> Statuses] /\ session' \in [Lines -> TaskIds \cup {NoTask}]
      <4> HIDE DEF t
      <4>1. status \in [TaskIds -> Statuses] /\ session \in [Lines -> TaskIds \cup {NoTask}]
        BY DEF Typed, TypeOK
      <4>2. \A v \in Statuses : [status EXCEPT ![t] = v] \in [TaskIds -> Statuses]
        BY <4>1
      <4>3. [session EXCEPT ![lineOf[t]] = t] \in [Lines -> TaskIds \cup {NoTask}]
        BY <2>1, <4>1
      <4> QED
        BY <2>2, <4>1, <4>2, <4>3
    <3>2. request' \in [Requests -> RequestType]
      <4>1. Idle \in RequestType
        BY DEF RequestType
      <4>2. request \in [Requests -> RequestType]
        BY DEF Typed, TypeOK, RequestType
      <4>3. [request EXCEPT ![r] = Idle] \in [Requests -> RequestType]
        BY <4>1, <4>2
      <4>4. \A v \in {"activate", "start", "settle"} :
               [request EXCEPT ![r].pc = v] \in [Requests -> RequestType]
        BY <2>1, <4>2, RequestTyped
      <4> QED
        BY <2>2, <4>3, <4>4
    <3> QED
      BY <2>1, <2>2, <3>1, <3>2 DEF Typed, TypeOK, bounds, RequestType
  <2>4. Created' = Created /\ Inserting' \subseteq Inserting
    <3>1. status \in [TaskIds -> Statuses] /\ request \in [Requests -> RequestType]
      BY DEF Typed, TypeOK, RequestType
    <3>2. Created' = Created
      <4> HIDE DEF t
      <4> QED
        BY <2>1, <2>2, <3>1 DEF Created
    <3>3. request'[r].pc # "insert" /\ \A s \in Requests : s # r => request'[s] = request[s]
      BY <2>2, <3>1 DEF RequestType
    <3>4. Inserting' \subseteq Inserting
      BY <3>3 DEF Inserting
    <3> QED
      BY <3>2, <3>4
  <2>5. AboutCreatedTasks'
    <3>1. \A s \in Requests : s # r => request'[s] = request[s]
      BY <2>2 DEF Typed, TypeOK
    <3>2. request'[r].pc = "idle" \/ request'[r].task = t
      BY <2>2 DEF Typed, TypeOK
    <3> HIDE DEF t
    <3> QED
      BY <2>1, <2>4, <3>1, <3>2 DEF Typed, AboutCreatedTasks
  <2> QED
    BY <2>3, <2>4, <2>5, RoomKept DEF Typed
<1>2. ASSUME NEW t \in TaskIds, AppendAccept(r, t) \/ StopCheck(r, t)
      PROVE  Typed'
  <2>1. /\ status[t] # "absent" /\ calls < MaxCalls /\ calls' = calls + 1
        /\ \E pc \in {"reactivate", "set"} :
              request' = [request EXCEPT ![r] = [pc |-> pc, task |-> t, line |-> 0]]
        /\ UNCHANGED <<status, lineOf, session, tracked, pumps, left, restarts>>
    BY <1>2 DEF AppendAccept, StopCheck
  <2>2. TypeOK'
    BY <2>1, ControlAssumption DEF Typed, TypeOK
  <2>3. Created' = Created /\ Inserting' \subseteq Inserting /\ t \in Created
    BY <2>1 DEF Typed, TypeOK, Created, Inserting
  <2>4. AboutCreatedTasks'
    BY <2>1, <2>3 DEF Typed, TypeOK, AboutCreatedTasks
  <2> QED
    BY <2>2, <2>3, <2>4, RoomKept DEF Typed
<1>3. CASE StopAnswer(r)
  <2>1. request' = [request EXCEPT ![r] = Idle]
        /\ UNCHANGED <<status, lineOf, session, tracked, pumps, left, bounds>>
    BY <1>3 DEF StopAnswer
  <2>2. TypeOK'
    BY <2>1 DEF Typed, TypeOK, bounds
  <2>3. Created' = Created /\ Inserting' \subseteq Inserting
    BY <2>1 DEF Typed, TypeOK, Created, Inserting
  <2>4. AboutCreatedTasks'
    BY <2>1, <2>3 DEF Typed, TypeOK, AboutCreatedTasks
  <2> QED
    BY <2>2, <2>3, <2>4, RoomKept DEF Typed
<1> QED
  BY <1>1, <1>2, <1>3

-----------------------------------------------------------------------------
(* The pumps.  The registry agrees with the goroutines because a goroutine  *)
(* leaves it as its last act, and because StartPumping looks and enters     *)
(* under one lock.                                                          *)

Count(places) == places["tick"] + places["send"] + places["exit"]

\* A goroutine going from one place to another is the same goroutine.
LEMMA MoveStep ==
    ASSUME pumps \in [TaskIds -> [Places -> Nat]],
           NEW t \in TaskIds, NEW from \in Places, NEW to \in Places, from # to,
           Move(t, from, to)
    PROVE  /\ pumps' \in [TaskIds -> [Places -> Nat]]
           /\ \A u \in TaskIds : Count(pumps'[u]) = Count(pumps[u])
<1> DEFINE moved == [pumps[t] EXCEPT ![from] = @ - 1, ![to] = @ + 1]
<1>1. pumps[t] \in [Places -> Nat] /\ pumps[t][from] > 0
  BY DEF Move
<1>2. moved \in [Places -> Nat]
  BY <1>1
<1>3. Count(moved) = Count(pumps[t])
  BY <1>1 DEF Count, Places
<1>4. pumps' = [pumps EXCEPT ![t] = moved]
  BY DEF Move
<1> HIDE DEF moved
<1> QED
  BY <1>2, <1>3, <1>4

\* Launching adds the line's number of goroutines.
LEMMA LaunchStep ==
    ASSUME NEW t \in TaskIds, NEW f \in [Places -> Nat]
    PROVE  /\ Launched(lineOf[t]) \in Nat
           /\ Launch(t, f) \in [Places -> Nat]
           /\ Count(f) \in Nat
           /\ Count(Launch(t, f)) = Count(f) + Launched(lineOf[t])
<1>1. Launched(lineOf[t]) \in Nat
  BY ControlAssumption DEF Launched, IsFast
<1> DEFINE n == Launched(lineOf[t])
<1> HIDE DEF n
<1>2. ASSUME NEW place \in {"send", "tick"}
      PROVE  /\ [f EXCEPT ![place] = @ + n] \in [Places -> Nat]
             /\ Count([f EXCEPT ![place] = @ + n]) = Count(f) + n
  BY <1>1 DEF Count, Places, n
<1>3. Count(f) \in Nat
  BY DEF Count, Places
<1> QED
  BY <1>1, <1>2, <1>3 DEF Launch, n

\* One goroutine of a default pump, or one request about to launch it, and only
\* for a registered task.
Single(t) ==
    IF tracked[t]
    THEN \/ Launching(t) = {} /\ Count(pumps[t]) = 1
         \/ Count(pumps[t]) = 0 /\ \E r \in Requests : Launching(t) = {r}
    ELSE Launching(t) = {} /\ Count(pumps[t]) = 0

Unattended(t) == ~tracked[t] /\ Count(pumps[t]) = 0 /\ Launching(t) = {}

\* The registry agrees with the goroutines that run.
Registered ==
    \A t \in TaskIds :
        /\ t \notin Created => Unattended(t)
        /\ ~IsFast(lineOf[t]) => Single(t)
        /\ tracked[t] => Launching(t) # {} \/ Count(pumps[t]) >= Launched(lineOf[t])

\* A step which launches nothing, and touches neither registry nor pumps.
LEMMA RegisteredKept ==
    ASSUME Registered, UNCHANGED <<tracked, pumps>>, Created \subseteq Created',
           \A t \in Created : lineOf'[t] = lineOf[t],
           \A s \in Requests : \/ request'[s] = request[s]
                               \/ request[s].pc # "launch" /\ request'[s].pc # "launch"
    PROVE  Registered'
<1>1. \A t \in TaskIds : Launching(t)' = Launching(t)
  BY DEF Launching, At
<1>2. ASSUME NEW t \in TaskIds
      PROVE  /\ Unattended(t)' <=> Unattended(t)
             /\ Single(t)' <=> Single(t)
             /\ Count(pumps[t])' = Count(pumps[t])
  BY <1>1 DEF Unattended, Single, Count
<1>3. ASSUME NEW t \in TaskIds, t \in Created
      PROVE  /\ t \notin Created' => Unattended(t)'
             /\ ~IsFast(lineOf[t])' => Single(t)'
             /\ tracked'[t] => Launching(t)' # {} \/ Count(pumps[t])' >= Launched(lineOf[t])'
  BY <1>1, <1>2, <1>3 DEF Registered, IsFast, Launched
<1>4. ASSUME NEW t \in TaskIds, t \notin Created
      PROVE  Unattended(t)' /\ Single(t)' /\ ~tracked'[t]
  BY <1>2, <1>4 DEF Registered, Unattended, Single
<1> QED
  BY <1>3, <1>4 DEF Registered

\* The steps of a pump.
LEMMA PumpStep ==
    ASSUME TypeOK, Registered, NEW t \in TaskIds, Pump(t)
    PROVE  /\ tracked' \in [TaskIds -> BOOLEAN]
           /\ pumps' \in [TaskIds -> [Places -> Nat]]
           /\ Registered'
<1>1. pumps \in [TaskIds -> [Places -> Nat]] /\ tracked \in [TaskIds -> BOOLEAN]
  BY DEF TypeOK
<1>2. UNCHANGED <<status, lineOf, request>>
  BY DEF Pump, PumpTick, PumpCycleEnds, PumpExit
<1>3. \A u \in TaskIds : Launching(u)' = Launching(u)
  BY <1>2 DEF Launching, At
<1>4. Created' = Created
  BY <1>2 DEF Created
<1>5. CASE PumpTick(t) \/ PumpCycleEnds(t)
  <2>1. /\ \E from, to \in Places : from # to /\ Move(t, from, to)
        /\ tracked' = tracked
    BY <1>5 DEF PumpTick, PumpCycleEnds, Places
  <2>2. /\ pumps' \in [TaskIds -> [Places -> Nat]]
        /\ \A u \in TaskIds : Count(pumps'[u]) = Count(pumps[u])
    BY <1>1, <2>1, MoveStep
  <2>3. \A u \in TaskIds : /\ Unattended(u)' <=> Unattended(u)
                           /\ Single(u)' <=> Single(u)
                           /\ Count(pumps[u])' = Count(pumps[u])
    BY <1>3, <2>1, <2>2 DEF Unattended, Single, Count
  <2> QED
    BY <1>1, <1>2, <1>3, <1>4, <2>1, <2>2, <2>3 DEF Registered, IsFast, Launched
<1>6. CASE PumpExit(t)
  <2> DEFINE gone == [pumps[t] EXCEPT !["exit"] = @ - 1]
  <2>1. /\ pumps[t] \in [Places -> Nat] /\ pumps[t]["exit"] > 0
        /\ pumps' = [pumps EXCEPT ![t] = gone]
        /\ tracked' = [tracked EXCEPT ![t] = FALSE]
    BY <1>1, <1>6 DEF PumpExit, stopTaskTracking
  <2>2. gone \in [Places -> Nat] /\ Count(gone) = Count(pumps[t]) - 1 /\ Count(pumps[t]) > 0
    BY <2>1 DEF Count, Places
  <2> HIDE DEF gone
  <2>3. pumps' \in [TaskIds -> [Places -> Nat]] /\ tracked' \in [TaskIds -> BOOLEAN]
    BY <1>1, <2>1, <2>2
  <2>4. \A u \in TaskIds : IF u = t THEN pumps'[u] = gone /\ tracked'[u] = FALSE
                           ELSE pumps'[u] = pumps[u] /\ tracked'[u] = tracked[u]
    BY <1>1, <2>1
  <2>5. t \in Created
    BY <2>2 DEF Registered, Unattended
  <2>6. ~IsFast(lineOf[t]) => Single(t)'
    <3>1. ~IsFast(lineOf[t]) => Launching(t) = {} /\ Count(pumps[t]) = 1
      BY <2>2 DEF Registered, Single
    <3>2. ~IsFast(lineOf[t]) => Count(gone) = 0
      BY <2>2, <3>1
    <3>3. Count(pumps[t])' = Count(gone) /\ tracked'[t] = FALSE
      BY <2>4 DEF Count
    <3> QED
      BY <1>3, <3>1, <3>2, <3>3 DEF Single
  <2>7. \A u \in TaskIds : u # t =>
           /\ Unattended(u)' <=> Unattended(u)
           /\ Single(u)' <=> Single(u)
           /\ Count(pumps[u])' = Count(pumps[u])
    BY <1>3, <2>4 DEF Unattended, Single, Count
  <2>8. ASSUME NEW u \in TaskIds, u # t
        PROVE  /\ u \notin Created' => Unattended(u)'
               /\ ~IsFast(lineOf[u])' => Single(u)'
               /\ tracked'[u] => Launching(u)' # {} \/ Count(pumps[u])' >= Launched(lineOf[u])'
    BY <1>2, <1>3, <1>4, <2>4, <2>7, <2>8 DEF Registered, IsFast, Launched
  <2>9. Registered'
    BY <1>2, <1>4, <2>4, <2>5, <2>6, <2>8 DEF Registered, IsFast
  <2> QED
    BY <2>3, <2>9
<1> QED
  BY <1>5, <1>6 DEF Pump

\* The two steps of StartPumping.
LEMMA StartStep ==
    ASSUME Typed, Registered, NEW r \in Requests, AppendRegister(r) \/ AppendLaunch(r),
           NEW t, t = request[r].task
    PROVE  Typed' /\ Registered'
<1>1. /\ t \in TaskIds /\ t \in Created /\ request[r].pc \in {"start", "launch"}
      /\ UNCHANGED <<status, lineOf, session, left, bounds>>
      /\ \/ request' = [request EXCEPT ![r] = Idle]
         \/ request' = [request EXCEPT ![r].pc = "launch"]
      /\ TypeOK
  BY DEF AppendRegister, AppendLaunch, At, Answer, Goto, Typed, AboutCreatedTasks, Created
<1>2. Idle \in RequestType /\ Idle.pc = "idle"
  BY DEF RequestType, Idle, NoTask, NoLine
<1>3. request \in [Requests -> RequestType]
  BY <1>1 DEF TypeOK, RequestType
<1>4. request' \in [Requests -> RequestType]
  <2>1. [request EXCEPT ![r] = Idle] \in [Requests -> RequestType]
    BY <1>2, <1>3
  <2>2. [request EXCEPT ![r].pc = "launch"] \in [Requests -> RequestType]
    BY <1>1, <1>3, RequestTyped
  <2> QED
    BY <1>1, <2>1, <2>2
<1>5. Created' = Created /\ Inserting' \subseteq Inserting
  BY <1>1, <1>2, <1>3 DEF Created, Inserting, At, RequestType
<1>6. AboutCreatedTasks'
  <2>1. request'[r] = Idle \/ request'[r].task = t
    BY <1>1, <1>3 DEF RequestType
  <2>2. \A s \in Requests : s # r => request'[s] = request[s]
    BY <1>1, <1>3
  <2> QED
    BY <1>1, <1>2, <1>5, <2>1, <2>2 DEF Typed, AboutCreatedTasks
<1>7. pumps[t] \in [Places -> Nat] /\ Count(pumps[t]) \in Nat /\ Launched(lineOf[t]) \in Nat
  BY <1>1, LaunchStep DEF TypeOK
<1>8. \A u \in TaskIds : u # t => Launching(u)' = Launching(u)
  BY <1>1, <1>2, <1>3 DEF Launching, At, RequestType
<1>9. ASSUME \A u \in TaskIds : u # t => tracked'[u] = tracked[u] /\ pumps'[u] = pumps[u],
             ~IsFast(lineOf[t]) => Single(t)',
             tracked'[t] => Launching(t)' # {} \/ Count(pumps'[t]) >= Launched(lineOf[t])
      PROVE  Registered'
  <2>1. \A u \in TaskIds : u # t =>
           /\ Unattended(u)' <=> Unattended(u)
           /\ Single(u)' <=> Single(u)
           /\ Count(pumps[u])' = Count(pumps[u])
    BY <1>8, <1>9 DEF Unattended, Single, Count
  <2>2. ASSUME NEW u \in TaskIds, u # t
        PROVE  /\ u \notin Created' => Unattended(u)'
               /\ ~IsFast(lineOf[u])' => Single(u)'
               /\ tracked'[u] => Launching(u)' # {} \/ Count(pumps[u])' >= Launched(lineOf[u])'
    BY <1>1, <1>5, <1>8, <1>9, <2>1, <2>2 DEF Registered, IsFast, Launched
  <2>3. /\ t \notin Created' => Unattended(t)'
        /\ ~IsFast(lineOf[t])' => Single(t)'
        /\ tracked'[t] => Launching(t)' # {} \/ Count(pumps[t])' >= Launched(lineOf[t])'
    BY <1>1, <1>5, <1>9 DEF IsFast, Launched, Count
  <2> QED
    BY <2>2, <2>3 DEF Registered
<1>10. ASSUME tracked' \in [TaskIds -> BOOLEAN], pumps' \in [TaskIds -> [Places -> Nat]]
       PROVE  Typed'
  <2>1. TypeOK'
    BY <1>1, <1>4, <1>10 DEF TypeOK, RequestType, bounds
  <2> QED
    BY <1>5, <1>6, <2>1, RoomKept DEF Typed
<1>11. tracked \in [TaskIds -> BOOLEAN] /\ pumps \in [TaskIds -> [Places -> Nat]]
  BY <1>1 DEF TypeOK
<1>12. CASE /\ At(r, "start") /\ Starts(t) /\ Goto(r, "launch")
            /\ tracked' = [tracked EXCEPT ![t] = TRUE] /\ pumps' = pumps
  <2>1. ~tracked[t] /\ tracked' = [tracked EXCEPT ![t] = TRUE] /\ pumps' = pumps
    BY <1>12 DEF Starts
  <2>2. Launching(t)' = Launching(t) \cup {r}
    BY <1>3, <1>12 DEF Launching, At, Goto, RequestType
  <2>3. ~IsFast(lineOf[t]) => Single(t)'
    <3>1. ~IsFast(lineOf[t]) => Launching(t) = {} /\ Count(pumps[t]) = 0
      BY <1>1, <2>1 DEF Registered, Single
    <3>2. tracked'[t] /\ Count(pumps[t])' = Count(pumps[t])
      BY <1>1, <1>11, <2>1 DEF Count
    <3> QED
      BY <2>2, <3>1, <3>2 DEF Single
  <2>4. Registered'
    BY <1>9, <1>11, <2>1, <2>2, <2>3
  <2> QED
    BY <1>10, <1>11, <2>1, <2>4
<1>13. CASE At(r, "start") /\ Answer(r) /\ UNCHANGED <<tracked, pumps>>
  <2>1. UNCHANGED <<tracked, pumps>>
    BY <1>13
  <2>2. request[r].pc # "launch" /\ request'[r].pc # "launch"
    BY <1>2, <1>3, <1>13 DEF At, Answer
  <2>3. \A s \in Requests : s # r => request'[s] = request[s]
    BY <1>1, <1>3
  <2>4. Registered'
    BY <1>1, <1>5, <2>1, <2>2, <2>3, RegisteredKept
  <2> QED
    BY <1>10, <1>11, <2>1, <2>4
<1>14. CASE AppendLaunch(r)
  <2>1. /\ r \in Launching(t) /\ Launching(t)' = Launching(t) \ {r}
        /\ request' = [request EXCEPT ![r] = Idle]
    BY <1>2, <1>3, <1>14 DEF AppendLaunch, Launching, At, Answer, RequestType
  <2>2. ~IsFast(lineOf[t]) => /\ tracked[t] /\ Count(pumps[t]) = 0
                              /\ Launching(t)' = {} /\ Launched(lineOf[t]) = 1
    <3>1. ~IsFast(lineOf[t]) => Single(t) /\ Launched(lineOf[t]) = 1
      BY <1>1 DEF Registered, Launched
    <3>2. Single(t) => tracked[t] /\ Count(pumps[t]) = 0 /\ Launching(t) = {r}
      BY <2>1 DEF Single
    <3> QED
      BY <2>1, <3>1, <3>2
  <2>3. CASE pumps' = [pumps EXCEPT ![t] = Launch(t, @)] /\ UNCHANGED tracked
    <3>1. /\ Launch(t, pumps[t]) \in [Places -> Nat]
          /\ Count(Launch(t, pumps[t])) = Count(pumps[t]) + Launched(lineOf[t])
      BY <1>1, <1>7, LaunchStep
    <3>2. pumps'[t] = Launch(t, pumps[t]) /\ \A u \in TaskIds : u # t => pumps'[u] = pumps[u]
      BY <1>1, <1>11, <2>3
    <3>3. Count(pumps[t])' = Count(Launch(t, pumps[t]))
      BY <3>2 DEF Count
    <3>4. Count(pumps'[t]) >= Launched(lineOf[t])
      BY <1>7, <3>1, <3>2
    <3>5. ~IsFast(lineOf[t]) => Count(pumps[t])' = 1
      BY <2>2, <3>1, <3>3
    <3>6. ~IsFast(lineOf[t]) => Single(t)'
      BY <2>2, <2>3, <3>5 DEF Single
    <3>7. pumps' \in [TaskIds -> [Places -> Nat]]
      BY <1>1, <1>11, <2>3, <3>1
    <3> QED
      BY <1>9, <1>10, <1>11, <2>3, <3>2, <3>4, <3>6, <3>7
  <2>4. CASE stopTaskTracking(t) /\ UNCHANGED pumps
    <3>1. tracked' \in [TaskIds -> BOOLEAN] /\ tracked'[t] = FALSE
          /\ \A u \in TaskIds : u # t => tracked'[u] = tracked[u]
      BY <1>1, <1>11, <2>4 DEF stopTaskTracking
    <3>2. Count(pumps[t])' = Count(pumps[t])
      BY <2>4 DEF Count
    <3>3. ~IsFast(lineOf[t]) => Single(t)'
      BY <2>2, <3>1, <3>2 DEF Single
    <3> QED
      BY <1>9, <1>10, <1>11, <2>4, <3>1, <3>3
  <2> QED
    BY <1>14, <2>3, <2>4 DEF AppendLaunch
<1> QED
  BY <1>12, <1>13, <1>14 DEF AppendRegister

-----------------------------------------------------------------------------
(* Together.                                                                *)

ControlInv == Typed /\ Registered

LEMMA ControlInit == Init => ControlInv
<1> SUFFICES ASSUME Init
             PROVE  ControlInv
  OBVIOUS
<1>1. \A t \in TaskIds : Count(pumps[t]) = 0 /\ tracked[t] = FALSE /\ Launching(t) = {}
  BY DEF Init, NoPumps, Count, Places, Launching, At, Idle
<1> QED
  BY <1>1, TypedInit DEF ControlInv, Registered, Unattended, Single

LEMMA RestartStep ==
    ASSUME ControlInv, Restart
    PROVE  ControlInv'
<1> USE DEF ControlInv
<1>1. PICK started \in Recovered :
         /\ tracked' = [t \in TaskIds |-> t \in started]
         /\ pumps' = [t \in TaskIds |-> IF t \in started THEN Launch(t, NoPumps) ELSE NoPumps]
  BY DEF Restart
<1>2. /\ request' = [r \in Requests |-> Idle]
      /\ restarts < MaxRestarts /\ restarts' = restarts + 1
      /\ UNCHANGED <<status, lineOf, session, left, calls>>
  BY DEF Restart
<1>3. \A t \in TaskIds : t \in started => t \in Created
  BY DEF Recovered, Created
<1>4. NoPumps \in [Places -> Nat] /\ Count(NoPumps) = 0
  BY DEF NoPumps, Count, Places
<1>5. ASSUME NEW t \in TaskIds
      PROVE  /\ Launched(lineOf[t]) \in Nat
             /\ Launch(t, NoPumps) \in [Places -> Nat]
             /\ Count(Launch(t, NoPumps)) = Launched(lineOf[t])
  BY <1>4, LaunchStep
<1>6. TypeOK'
  <2>1. pumps' \in [TaskIds -> [Places -> Nat]]
    BY <1>1, <1>4, <1>5
  <2>2. tracked' \in [TaskIds -> BOOLEAN]
    <3>1. tracked' = [t \in TaskIds |-> t \in started]
      BY <1>1
    <3> QED
      BY <3>1, SMT
  <2> QED
    BY <1>2, <2>1, <2>2, ControlAssumption DEF Typed, TypeOK, Idle, NoTask, NoLine
<1>7. Created' = Created /\ Inserting' = {}
  BY <1>2 DEF Created, Inserting, At, Idle
<1>8. AboutCreatedTasks'
  BY <1>2 DEF AboutCreatedTasks, Idle
<1>9. \A t \in TaskIds : Launching(t)' = {}
  BY <1>2 DEF Launching, At, Idle
<1>10. ASSUME NEW t \in TaskIds
       PROVE  /\ t \notin Created' => Unattended(t)'
              /\ ~IsFast(lineOf[t])' => Single(t)'
              /\ tracked'[t] => Launching(t)' # {} \/ Count(pumps[t])' >= Launched(lineOf[t])'
  <2>1. lineOf'[t] = lineOf[t] /\ Launching(t)' = {}
    BY <1>2, <1>9
  <2>2. CASE t \in started
    <3>1. tracked'[t] /\ pumps'[t] = Launch(t, NoPumps)
      BY <1>1, <2>2
    <3>2. Count(pumps[t])' = Launched(lineOf[t])
      BY <1>5, <3>1 DEF Count
    <3>3. ~IsFast(lineOf[t]) => Single(t)'
      BY <2>1, <3>1, <3>2 DEF Single, Launched
    <3> QED
      BY <1>3, <1>5, <1>7, <2>1, <2>2, <3>1, <3>2, <3>3 DEF IsFast, Launched
  <2>3. CASE t \notin started
    <3>1. ~tracked'[t] /\ pumps'[t] = NoPumps
      BY <1>1, <2>3
    <3>2. Count(pumps[t])' = 0
      BY <1>4, <3>1 DEF Count
    <3> QED
      BY <2>1, <3>1, <3>2 DEF Unattended, Single
  <2> QED
    BY <2>2, <2>3
<1>11. Registered'
  BY <1>10 DEF Registered
<1> QED
  BY <1>6, <1>7, <1>8, <1>11, RoomKept DEF Typed

LEMMA ControlStep == ControlInv /\ [Next]_vars => ControlInv'
<1> SUFFICES ASSUME ControlInv, [Next]_vars
             PROVE  ControlInv'
  OBVIOUS
<1> USE DEF ControlInv
<1>1. TypeOK
  BY DEF Typed
<1>2. ASSUME NEW r \in Requests, NEW l \in Lines, CreateCheck(r, l)
      PROVE  ControlInv'
  <2>1. /\ UNCHANGED <<status, lineOf, tracked, pumps>> /\ request[r] = Idle
        /\ request' = [request EXCEPT ![r] = [pc |-> "insert", task |-> NoTask, line |-> l]]
    BY <1>2 DEF CreateCheck, Accepts
  <2>2. \A s \in Requests : \/ request'[s] = request[s]
                            \/ request[s].pc # "launch" /\ request'[s].pc # "launch"
    BY <1>1, <2>1 DEF TypeOK, Idle
  <2>3. Created' = Created
    BY <2>1 DEF Created
  <2> QED
    BY <1>2, <2>1, <2>2, <2>3, TypedCreate, RegisteredKept
<1>3. ASSUME NEW r \in Requests, CreateInsert(r)
      PROVE  ControlInv'
  <2> DEFINE t == Cardinality(Created) + 1
  <2>1. /\ UNCHANGED <<tracked, pumps>> /\ request[r].pc = "insert"
        /\ \/ /\ status' = [status EXCEPT ![t] = "ready"]
              /\ lineOf' = [lineOf EXCEPT ![t] = request[r].line]
              /\ request' = [request EXCEPT ![r].pc = "prepare", ![r].task = t]
           \/ /\ UNCHANGED <<status, lineOf>>
              /\ request' = [request EXCEPT ![r] = Idle]
        /\ t \in TaskIds \ Created
    BY <1>3, NextId DEF CreateInsert, At, Answer
  <2> HIDE DEF t
  <2>2. Created \subseteq Created' /\ \A u \in Created : lineOf'[u] = lineOf[u]
    BY <1>1, <2>1 DEF TypeOK, Created
  <2>3. \A s \in Requests : \/ request'[s] = request[s]
                            \/ request[s].pc # "launch" /\ request'[s].pc # "launch"
    BY <1>1, <2>1 DEF TypeOK, Idle
  <2> QED
    BY <1>3, <2>1, <2>2, <2>3, TypedCreate, RegisteredKept
<1>4. ASSUME NEW r \in Requests, Typed',
             \/ CreatePrepare(r) \/ CreateActivate(r) \/ AppendActivate(r)
             \/ StopSet(r) \/ StopAnswer(r)
      PROVE  ControlInv'
  <2>1. /\ UNCHANGED <<tracked, pumps, lineOf>> /\ request[r].pc # "launch"
        /\ \A s \in Requests : s # r => request'[s] = request[s]
        /\ request'[r].pc # "launch"
    BY <1>1, <1>4 DEF CreatePrepare, CreateActivate, AppendActivate, StopSet, StopAnswer,
                      At, Goto, Answer, Idle, TypeOK
  <2>2. Created \subseteq Created'
    <3>1. request[r].task \in TaskIds
      BY <1>4 DEF CreatePrepare, CreateActivate, AppendActivate, StopSet, StopAnswer, At,
                  Typed, AboutCreatedTasks, Created
    <3>2. \/ status' = status
          \/ \E v \in {"failed", "active", "stopped"} :
                status' = [status EXCEPT ![request[r].task] = v]
      BY <1>4 DEF CreatePrepare, CreateActivate, AppendActivate, StopSet, StopAnswer, Fail,
                  Conclude
    <3> QED
      BY <1>1, <3>1, <3>2 DEF TypeOK, Created
  <2> QED
    BY <1>4, <2>1, <2>2, RegisteredKept
<1>5. ASSUME NEW r \in Requests, NEW t \in TaskIds, AppendAccept(r, t) \/ StopCheck(r, t)
      PROVE  ControlInv'
  <2>1. /\ UNCHANGED <<status, lineOf, tracked, pumps>> /\ request[r] = Idle
        /\ \/ request' = [request EXCEPT ![r] = [Idle EXCEPT !.pc = "reactivate", !.task = t]]
           \/ request' = [request EXCEPT ![r] = [Idle EXCEPT !.pc = "set", !.task = t]]
    BY <1>5 DEF AppendAccept, StopCheck, Accepts
  <2>2. \A s \in Requests : \/ request'[s] = request[s]
                            \/ request[s].pc # "launch" /\ request'[s].pc # "launch"
    <3>1. \A pc \in {"reactivate", "set"} : [Idle EXCEPT !.pc = pc, !.task = t].pc = pc
      BY DEF Idle
    <3>2. request'[r].pc \in {"reactivate", "set"}
          /\ \A s \in Requests : s # r => request'[s] = request[s]
      BY <1>1, <2>1, <3>1 DEF TypeOK
    <3> QED
      BY <2>1, <3>2 DEF Idle
  <2>3. Created' = Created
    BY <2>1 DEF Created
  <2> QED
    BY <1>5, <2>1, <2>2, <2>3, TypedRequest, RegisteredKept
<1>6. ASSUME NEW t \in TaskIds, Pump(t)
      PROVE  ControlInv'
  <2>1. /\ tracked' \in [TaskIds -> BOOLEAN]
        /\ pumps' \in [TaskIds -> [Places -> Nat]]
        /\ Registered'
    BY <1>1, <1>6, PumpStep
  <2>2. UNCHANGED <<status, lineOf, session, request, left, bounds>>
    BY <1>6 DEF Pump, PumpTick, PumpCycleEnds, PumpExit
  <2>3. TypeOK'
    BY <1>1, <2>1, <2>2 DEF TypeOK, bounds
  <2>4. Created' = Created /\ Inserting' = Inserting
    BY <2>2 DEF Created, Inserting, At
  <2>5. AboutCreatedTasks'
    BY <2>2, <2>4 DEF Typed, AboutCreatedTasks
  <2> QED
    BY <2>1, <2>3, <2>4, <2>5, RoomKept DEF Typed
<1>7. CASE UNCHANGED vars
  <2>1. Created' = Created /\ Inserting' = Inserting
    BY <1>7 DEF vars, Created, Inserting, At
  <2>2. TypeOK' /\ AboutCreatedTasks'
    BY <1>1, <1>7, <2>1 DEF vars, bounds, Typed, TypeOK, AboutCreatedTasks
  <2>3. Registered'
    BY <1>7, <2>1, RegisteredKept DEF vars
  <2> QED
    BY <2>1, <2>2, <2>3, RoomKept DEF Typed
<1>8. ASSUME NEW r \in Requests, Handle(r)
      PROVE  ControlInv'
  <2>1. CASE AppendRegister(r) \/ AppendLaunch(r)
    BY <2>1, StartStep
  <2> QED
    BY <1>3, <1>4, <1>8, <2>1, TypedRequest DEF Handle
<1>9. CASE Next
  BY <1>2, <1>5, <1>6, <1>8, <1>9, RestartStep DEF Next
<1> QED
  BY <1>7, <1>9

\* Statuses, requests, the registry and the pumps keep their types; every id
\* a create takes is one of the table's.
THEOREM ControlTypeCorrect == Spec => []TypeOK
<1>1. ControlInv => TypeOK
  BY DEF ControlInv, Typed
<1> QED
  BY <1>1, ControlInit, ControlStep, PTL DEF Spec

\* However appends, stops, ending pumps, failing queries and restarts
\* interleave, a task with a default pump is registered exactly while one
\* goroutine pumps it or is about to be launched, and a registered task on a
\* Valentin line has a pump for each printer (manager.go:46-90, 257).
THEOREM OnePump == Spec => []OnePumpPerTask
<1>1. ControlInv => OnePumpPerTask
  <2> SUFFICES ASSUME ControlInv, NEW t \in TaskIds
               PROVE  /\ ~IsFast(lineOf[t]) => Cardinality(Launching(t)) + PumpCount(t)
                                                  = IF tracked[t] THEN 1 ELSE 0
                      /\ tracked[t] => \/ Launching(t) # {}
                                       \/ PumpCount(t) >= Launched(lineOf[t])
    BY DEF OnePumpPerTask
  <2>1. PumpCount(t) = Count(pumps[t])
    BY DEF PumpCount, Count
  <2>2. CASE IsFast(lineOf[t])
    BY <2>1, <2>2 DEF ControlInv, Registered
  <2>3. CASE ~IsFast(lineOf[t])
    <3>1. Single(t)
      BY <2>3 DEF ControlInv, Registered
    <3>2. CASE Launching(t) = {}
      BY <2>1, <2>3, <3>1, <3>2, FS_EmptySet DEF Single, ControlInv, Registered
    <3>3. ASSUME NEW r \in Requests, Launching(t) = {r}
          PROVE  tracked[t] /\ Cardinality(Launching(t)) = 1 /\ PumpCount(t) = 0
      BY <2>1, <3>1, <3>3, FS_Singleton DEF Single
    <3> QED
      BY <3>1, <3>2, <3>3 DEF Single
  <2> QED
    BY <2>2, <2>3
<1> QED
  BY <1>1, ControlInit, ControlStep, PTL DEF Spec

-----------------------------------------------------------------------------
(* One request at a time, and appends to active tasks only.  The check of   *)
(* the line is then still true when the task is inserted and activated.     *)

OneAtATime == Events \cap {"overlap", "reappend"} = {}

Alone == \A r, s \in Requests : request[r] # Idle /\ request[s] # Idle => r = s

\* What the request that is served knows of its task and line.
InService ==
    \A r \in Requests :
        /\ request[r].pc = "insert" =>
              request[r].line \in Lines /\ ~Busy(request[r].line)
        /\ request[r].pc \in {"prepare", "activate"} => status[request[r].task] = "ready"
        /\ request[r].pc \in {"reactivate", "start", "launch"} => status[request[r].task] = "active"
        /\ request[r].pc = "settle" => status[request[r].task] = "stopped"

QuietInv == Alone /\ InService /\ OneTaskPerLine

LEMMA QuietInit == Init => QuietInv
  BY DEF Init, QuietInv, Alone, InService, OneTaskPerLine, Idle

\* The request under way is the only one.
LEMMA OthersIdle ==
    ASSUME TypeOK, Alone, NEW r \in Requests, request[r].pc # "idle"
    PROVE  \A s \in Requests : s # r => request[s] = Idle
  BY DEF Alone, Idle

LEMMA QuietStep ==
    ASSUME OneAtATime, ControlInv, ControlInv', QuietInv, [Next]_vars
    PROVE  QuietInv'
<1> USE DEF Idle
<1>1. TypeOK /\ TypeOK' /\ AboutCreatedTasks
  BY DEF ControlInv, Typed
<1>2. ASSUME UNCHANGED <<status, lineOf, request>>
      PROVE  QuietInv'
  BY <1>2 DEF QuietInv, Alone, InService, OneTaskPerLine, Busy
<1>3. ASSUME NEW r \in Requests, Accepts(r), UNCHANGED <<status, lineOf>>,
             NEW pc \in {"insert", "reactivate", "set"}, NEW t \in TaskIds \cup {NoTask},
             NEW l \in Lines \cup {NoLine},
             request' = [request EXCEPT ![r] = [pc |-> pc, task |-> t, line |-> l]],
             pc = "insert" => l \in Lines /\ ~Busy(l),
             pc = "reactivate" => status[t] = "active"
      PROVE  QuietInv'
  <2>1. \A s \in Requests : request[s] = Idle
    BY <1>3 DEF OneAtATime, Accepts
  <2>2. \A s \in Requests : request'[s] = IF s = r THEN [pc |-> pc, task |-> t, line |-> l]
                                          ELSE Idle
    BY <1>1, <1>3, <2>1 DEF TypeOK
  <2>3. Alone'
    BY <2>2 DEF Alone
  <2>4. InService'
    BY <1>3, <2>2 DEF InService, Busy
  <2> QED
    BY <1>3, <2>3, <2>4 DEF QuietInv, OneTaskPerLine
<1>4. ASSUME NEW r \in Requests, Handle(r)
      PROVE  QuietInv'
  <2>1. /\ request[r].pc # "idle"
        /\ \A s \in Requests : s # r => request'[s] = Idle
    <3>1. request[r].pc # "idle"
      BY <1>4 DEF Handle, CreateInsert, CreatePrepare, CreateActivate, AppendActivate,
                  AppendRegister, AppendLaunch, StopSet, StopAnswer, At
    <3>2. \A s \in Requests : s # r => request'[s] = request[s]
      BY <1>1, <1>4 DEF Handle, CreateInsert, CreatePrepare, CreateActivate, AppendActivate,
                  AppendRegister, AppendLaunch, StopSet, StopAnswer, Goto, Answer, TypeOK
    <3> QED
      BY <1>1, <3>1, <3>2, OthersIdle DEF QuietInv
  <2>2. Alone'
    BY <2>1 DEF Alone
  <2>3. ASSUME InService', OneTaskPerLine'
        PROVE  QuietInv'
    BY <2>2, <2>3 DEF QuietInv
  <2>4. ASSUME \/ request'[r] = Idle
               \/ /\ request'[r].pc \in {"prepare", "activate"}
                  /\ status'[request'[r].task] = "ready"
               \/ /\ request'[r].pc \in {"start", "launch"}
                  /\ status'[request'[r].task] = "active"
               \/ request'[r].pc = "settle" /\ status'[request'[r].task] = "stopped"
        PROVE  InService'
    BY <2>1, <2>4 DEF InService
  <2>5. CASE CreateInsert(r) /\ ~Answer(r)
    <3> DEFINE t == Cardinality(Created) + 1
               l == request[r].line
    <3>1. t \in TaskIds /\ l \in Lines /\ ~Busy(l)
      BY <2>5, NextId DEF CreateInsert, At, ControlInv, QuietInv, InService
    <3>2. /\ status' = [status EXCEPT ![t] = "ready"]
          /\ lineOf' = [lineOf EXCEPT ![t] = l]
          /\ request' = [request EXCEPT ![r].pc = "prepare", ![r].task = t]
      BY <2>5 DEF CreateInsert
    <3> HIDE DEF t, l
    <3>3. request'[r].pc = "prepare" /\ request'[r].task = t /\ status'[t] = "ready"
      BY <1>1, <3>1, <3>2 DEF TypeOK
    <3>4. OneTaskPerLine'
      BY <1>1, <3>1, <3>2 DEF QuietInv, OneTaskPerLine, Busy, TypeOK
    <3> QED
      BY <2>3, <2>4, <3>3, <3>4
  <2>8. CASE CreateInsert(r) /\ Answer(r)
    <3> DEFINE t == Cardinality(Created) + 1
    <3>1. t \in TaskIds \ Created /\ request[r].pc = "insert"
      BY <2>8, NextId DEF CreateInsert, At, ControlInv
    <3>2. request'[r] = Idle
      BY <1>1, <2>8 DEF Answer, TypeOK
    <3>3. UNCHANGED <<status, lineOf>>
      <4>1. request' # [request EXCEPT ![r].pc = "prepare", ![r].task = t]
        BY <1>1, <3>2 DEF TypeOK
      <4> HIDE DEF t
      <4> QED
        BY <2>8, <4>1 DEF CreateInsert, t
    <3>4. OneTaskPerLine'
      BY <3>3 DEF QuietInv, OneTaskPerLine
    <3> QED
      BY <2>3, <2>4, <3>2, <3>4
  <2>6. CASE CreatePrepare(r) \/ CreateActivate(r) \/ AppendActivate(r) \/ StopSet(r)
    <3> DEFINE t == request[r].task
    <3>1. t \in TaskIds
      BY <1>1, <2>1, <2>6 DEF AboutCreatedTasks, Created, At, CreatePrepare, CreateActivate,
                              AppendActivate, StopSet
    <3>2. lineOf' = lineOf
      BY <2>6 DEF CreatePrepare, CreateActivate, AppendActivate, StopSet
    <3>3. \/ status' = status /\ status[t] = "ready"
             /\ request' = [request EXCEPT ![r].pc = "activate"]
          \/ status' = status /\ request' = [request EXCEPT ![r] = Idle]
          \/ status' = [status EXCEPT ![t] = "failed"] /\ request' = [request EXCEPT ![r] = Idle]
          \/ status' = [status EXCEPT ![t] = "active"] /\ status[t] = "ready"
             /\ request' = [request EXCEPT ![r] = Idle]
          \/ status' \in {status, [status EXCEPT ![t] = "active"]} /\ status[t] = "active"
             /\ request' = [request EXCEPT ![r].pc = "start"]
          \/ status' = [status EXCEPT ![t] = "stopped"]
             /\ request' = [request EXCEPT ![r].pc = "settle"]
      BY <2>6 DEF CreatePrepare, CreateActivate, AppendActivate, StopSet, Fail, Conclude, Goto,
                  Answer, At, QuietInv, InService
    <3> HIDE DEF t
    <3>4. InService'
      <4>1. \/ request'[r] = Idle
            \/ request'[r].pc = "activate" /\ request'[r].task = t /\ status'[t] = "ready"
            \/ request'[r].pc = "start" /\ request'[r].task = t /\ status'[t] = "active"
            \/ request'[r].pc = "settle" /\ request'[r].task = t /\ status'[t] = "stopped"
        BY <1>1, <3>1, <3>3 DEF TypeOK, t
      <4> QED
        BY <2>4, <4>1
    <3>5. \A u \in TaskIds : status'[u] \in {"active", "ready"} => status[u] \in {"active", "ready"}
      BY <1>1, <3>1, <3>3 DEF TypeOK
    <3>6. OneTaskPerLine'
      BY <3>2, <3>5 DEF QuietInv, OneTaskPerLine
    <3> QED
      BY <2>3, <3>4, <3>6
  <2>7. CASE AppendRegister(r) \/ AppendLaunch(r) \/ StopAnswer(r)
    <3>1. /\ UNCHANGED <<status, lineOf>>
          /\ \/ request' = [request EXCEPT ![r] = Idle]
             \/ /\ request' = [request EXCEPT ![r].pc = "launch"]
                /\ request[r].pc = "start"
      BY <2>7 DEF AppendRegister, AppendLaunch, StopAnswer, Answer, Goto, At
    <3>2. \/ request'[r] = Idle
          \/ request'[r].pc = "launch" /\ status'[request'[r].task] = "active"
      BY <1>1, <3>1 DEF TypeOK, QuietInv, InService
    <3>3. OneTaskPerLine'
      BY <3>1 DEF QuietInv, OneTaskPerLine
    <3> QED
      BY <2>3, <2>4, <3>2, <3>3
  <2> QED
    BY <1>4, <2>5, <2>6, <2>7, <2>8 DEF Handle
<1>5. ASSUME NEW r \in Requests, NEW l \in Lines, CreateCheck(r, l)
      PROVE  QuietInv'
  BY <1>3, <1>5 DEF CreateCheck, NoTask
<1>6. ASSUME NEW r \in Requests, NEW t \in TaskIds, AppendAccept(r, t) \/ StopCheck(r, t)
      PROVE  QuietInv'
  <2>1. /\ Accepts(r) /\ UNCHANGED <<status, lineOf>>
        /\ \/ /\ status[t] = "active"
              /\ request' = [request EXCEPT ![r] = [pc |-> "reactivate", task |-> t,
                                                   line |-> NoLine]]
           \/ request' = [request EXCEPT ![r] = [pc |-> "set", task |-> t, line |-> NoLine]]
    BY <1>6 DEF AppendAccept, StopCheck, OneAtATime
  <2> HIDE DEF Idle
  <2> QED
    BY <1>3, <2>1
<1>7. ASSUME NEW t \in TaskIds, Pump(t)
      PROVE  QuietInv'
  BY <1>2, <1>7 DEF Pump, PumpTick, PumpCycleEnds, PumpExit
<1>8. CASE Restart
  <2>1. request' = [s \in Requests |-> Idle] /\ UNCHANGED <<status, lineOf>>
    BY <1>8 DEF Restart
  <2> QED
    BY <2>1 DEF QuietInv, Alone, InService, OneTaskPerLine
<1>9. CASE UNCHANGED vars
  BY <1>2, <1>9 DEF vars
<1> QED
  BY <1>4, <1>5, <1>6, <1>7, <1>8, <1>9 DEF Next

\* Requests that do not overlap, and do not revive tasks, leave a line with one
\* task at most (handlers_tasks.go:54-62), across restarts that find tasks in
\* the middle of their creation, and however slow the pumps are.
THEOREM OneTask == ASSUME OneAtATime PROVE Spec => []OneTaskPerLine
<1>1. ControlInv /\ QuietInv /\ [Next]_vars => (ControlInv /\ QuietInv)'
  BY ControlStep, QuietStep
<1>2. Init => ControlInv /\ QuietInv
  BY ControlInit, QuietInit
<1>3. QuietInv => OneTaskPerLine
  BY DEF QuietInv
<1> QED
  BY <1>1, <1>2, <1>3, PTL DEF Spec

-----------------------------------------------------------------------------
(* When, moreover, a stop waits for the cycle its pump is in, records reach  *)
(* only printers that were set up for their task.                            *)

Waited == OneAtATime /\ "slowPump" \notin Events

\* The task is being set up by the request that is served.
SetUp(t) == \E r \in Requests :
                request[r].pc \in {"prepare", "activate"} /\ request[r].task = t

\* Its stop is being served.
Settling(t) == \E r \in Requests : request[r].pc = "settle" /\ request[r].task = t

OwnLines == \A t \in Created : lineOf[t] \in Lines

Attended(t) == tracked[t] \/ Count(pumps[t]) > 0

\* Nobody pumps a task before it is activated or once it failed; only a restart
\* gives a ready task pumps, of which the default pump waits.
PumpedLater ==
    \A t \in TaskIds :
        \/ status[t] \in {"absent", "failed"}
        \/ SetUp(t)
        \/ status[t] = "ready" /\ restarts = 0
        => ~Attended(t)

\* The tasks OwnSession is about.
Sends(t) == pumps[t]["send"] > 0 /\ (IsFast(lineOf[t]) => restarts = 0)

SendsInService ==
    \A t \in TaskIds : Sends(t) =>
        \/ status[t] = "active"
        \/ status[t] = "stopped" /\ Settling(t)

SessionKnown ==
    /\ \A t \in TaskIds : status[t] = "active" => session[lineOf[t]] = t
    /\ \A r \in Requests : request[r].pc = "activate" =>
          session[lineOf[request[r].task]] = request[r].task

SessionInv == OwnLines /\ PumpedLater /\ SendsInService /\ SessionKnown /\ OwnSession

LEMMA SessionInit == Init => SessionInv
<1> SUFFICES ASSUME Init
             PROVE  SessionInv
  OBVIOUS
<1> USE DEF Init
<1>1. Created = {}
  BY DEF Created
<1>2. \A t \in TaskIds : /\ pumps[t]["send"] = 0 /\ status[t] # "active"
                         /\ ~tracked[t] /\ Count(pumps[t]) = 0
  BY DEF NoPumps, Places, Count
<1> QED
  BY <1>1, <1>2 DEF SessionInv, OwnLines, PumpedLater, Attended, SendsInService, Sends,
                    SessionKnown, OwnSession, SetUp, Idle

\* A goroutine at a place is a goroutine.
LEMMA Attending ==
    ASSUME TypeOK, NEW t \in TaskIds, NEW place \in Places, pumps[t][place] > 0
    PROVE  Attended(t)
<1>1. pumps[t] \in [Places -> Nat]
  BY DEF TypeOK
<1> QED
  BY <1>1 DEF Attended, Count, Places

\* No row comes into being: the lines are what they were.
LEMMA RowsStay ==
    ASSUME OwnLines, Created' = Created, UNCHANGED lineOf
    PROVE  OwnLines'
  BY DEF OwnLines

\* The server accepts a request.
LEMMA SessionAccept ==
    ASSUME ControlInv, SessionInv, OneAtATime, NEW r \in Requests, Accepts(r),
           UNCHANGED <<status, lineOf, session, tracked, pumps, restarts>>,
           \A s \in Requests : s # r => request'[s] = request[s],
           request'[r].pc \in {"insert", "reactivate", "set"}
    PROVE  SessionInv'
<1>1. \A s \in Requests : request[s] = Idle
  BY DEF OneAtATime, Accepts
<1>2. \A s \in Requests : request'[s].pc \notin {"prepare", "activate", "settle"}
  BY <1>1 DEF Idle
<1>3. Created' = Created
  BY DEF Created
<1>4. \A t \in TaskIds : ~Settling(t) /\ ~SetUp(t)'
  BY <1>1, <1>2 DEF Settling, SetUp, Idle
<1> QED
  BY <1>2, <1>3, <1>4, RowsStay
     DEF SessionInv, PumpedLater, Attended, Count, SendsInService, Sends, IsFast,
         SessionKnown, OwnSession

\* While a request is served, the others are idle before and after its step.
LEMMA Served ==
    ASSUME ControlInv, QuietInv, NEW r \in Requests, Handle(r)
    PROVE  /\ request[r].pc # "idle"
           /\ \A s \in Requests : s # r => request[s] = Idle /\ request'[s] = Idle
<1>1. TypeOK
  BY DEF ControlInv, Typed
<1>2. request[r].pc # "idle"
  BY DEF Handle, CreateInsert, CreatePrepare, CreateActivate, AppendActivate, AppendRegister, AppendLaunch,
         StopSet, StopAnswer, At
<1>3. \A s \in Requests : s # r => request'[s] = request[s]
  BY <1>1 DEF Handle, CreateInsert, CreatePrepare, CreateActivate, AppendActivate,
         AppendRegister, AppendLaunch, StopSet, StopAnswer, Goto, Answer, TypeOK
<1> QED
  BY <1>1, <1>2, <1>3, OthersIdle DEF QuietInv

\* An insert, done or refused.
LEMMA SessionInsert ==
    ASSUME ControlInv, QuietInv, SessionInv, NEW r \in Requests, CreateInsert(r),
           NEW t, t = Cardinality(Created) + 1, NEW l, l = request[r].line
    PROVE  SessionInv'
<1>1. TypeOK /\ t \in TaskIds /\ t \notin Created /\ l \in Lines /\ request[r].pc = "insert"
  BY NextId DEF CreateInsert, At, ControlInv, Typed, QuietInv, InService
<1>2. /\ \/ /\ status' = [status EXCEPT ![t] = "ready"]
            /\ lineOf' = [lineOf EXCEPT ![t] = l]
            /\ request' = [request EXCEPT ![r].pc = "prepare", ![r].task = t]
         \/ request' = [request EXCEPT ![r] = Idle] /\ UNCHANGED <<status, lineOf>>
      /\ UNCHANGED <<session, tracked, pumps, restarts>>
  BY DEF CreateInsert, Answer, bounds
<1>3. \A s \in Requests : s # r => request[s] = Idle /\ request'[s] = Idle
  BY Served DEF Handle
<1>4. status[t] = "absent" /\ ~Attended(t) /\ ~Sends(t)
  <2>1. status[t] = "absent" /\ ~Attended(t)
    BY <1>1 DEF Created, SessionInv, PumpedLater
  <2> QED
    BY <1>1, <2>1, Attending DEF Sends, Places
<1>5. \A u \in TaskIds : Sends(u) => u # t /\ status[u] = "active"
  BY <1>1, <1>3, <1>4 DEF SessionInv, SendsInService, Settling, Idle
<1>6. /\ \A u \in TaskIds : u # t => status'[u] = status[u] /\ lineOf'[u] = lineOf[u]
      /\ \/ /\ request'[r].pc = "prepare" /\ request'[r].task = t
            /\ status'[t] = "ready" /\ lineOf'[t] = l
         \/ request'[r] = Idle /\ status' = status /\ lineOf' = lineOf
  BY <1>1, <1>2 DEF TypeOK
<1>7. OwnLines'
  BY <1>1, <1>6 DEF SessionInv, OwnLines, Created
<1>8. \A u \in TaskIds : Attended(u)' <=> Attended(u)
  BY <1>2 DEF Attended, Count
<1>9. \A u \in TaskIds : SetUp(u)' => u = t
  BY <1>3, <1>6 DEF SetUp, Idle
<1>10. PumpedLater'
  BY <1>2, <1>4, <1>6, <1>8, <1>9 DEF SessionInv, PumpedLater
<1>11. \A u \in TaskIds : Sends(u)' => u # t /\ Sends(u)
  <2>1. pumps[t]["send"] > 0 => Attended(t)
    BY <1>1, Attending DEF Places
  <2> QED
    BY <1>2, <1>4, <1>6, <2>1 DEF Sends, IsFast
<1>12. SendsInService' /\ OwnSession'
  BY <1>2, <1>5, <1>6, <1>11 DEF SendsInService, SessionInv, OwnSession, Sends
<1>13. SessionKnown'
  <2>1. \A u \in TaskIds : status'[u] = "active" => session'[lineOf'[u]] = u
    BY <1>2, <1>6 DEF SessionInv, SessionKnown
  <2>2. \A s \in Requests : request'[s].pc # "activate"
    BY <1>3, <1>6 DEF Idle
  <2> QED
    BY <2>1, <2>2 DEF SessionKnown
<1> QED
  BY <1>7, <1>10, <1>12, <1>13 DEF SessionInv

LEMMA SessionPrepare ==
    ASSUME ControlInv, QuietInv, SessionInv, NEW r \in Requests, CreatePrepare(r)
    PROVE  SessionInv'
<1> DEFINE t == request[r].task
           own == [session EXCEPT ![lineOf[t]] = t]
<1>1. /\ TypeOK /\ t \in Created /\ t \in TaskIds /\ request[r].pc = "prepare"
      /\ status[t] = "ready"
  BY DEF CreatePrepare, At, ControlInv, Typed, AboutCreatedTasks, Created, QuietInv, InService
<1>2. /\ \/ session' = own /\ request' = [request EXCEPT ![r].pc = "activate"]
            /\ status' = status
         \/ /\ session' \in {session, own}
            /\ status' \in {status, [status EXCEPT ![t] = "failed"]}
            /\ request' = [request EXCEPT ![r] = Idle]
      /\ UNCHANGED <<lineOf, tracked, pumps, restarts>>
  BY DEF CreatePrepare, Fail, Conclude, Goto, Answer, bounds
<1>3. \A s \in Requests : s # r => request[s] = Idle /\ request'[s] = Idle
  BY Served DEF Handle
<1>4. lineOf[t] \in Lines /\ SetUp(t) /\ ~Attended(t)
  BY <1>1 DEF SetUp, SessionInv, OwnLines, PumpedLater
<1>5. session'[lineOf[t]] \in {t, session[lineOf[t]]}
      /\ (request'[r].pc = "activate" => session'[lineOf[t]] = t)
      /\ \A l \in Lines : l # lineOf[t] => session'[l] = session[l]
  BY <1>1, <1>2, <1>4 DEF TypeOK, Idle
<1>6. /\ \/ request'[r] = Idle
         \/ request'[r].pc = "activate" /\ request'[r].task = t
      /\ status'[t] \in {"ready", "failed"}
      /\ \A u \in TaskIds : u # t => status'[u] = status[u]
  BY <1>1, <1>2 DEF TypeOK
<1> HIDE DEF t, own
<1>7. Created' = Created
  BY <1>1, <1>6 DEF Created
<1>8. \A u \in TaskIds : status[u] = "active" => /\ u # t /\ lineOf[u] \in Lines
                                                 /\ lineOf[u] # lineOf[t]
                                                 /\ session'[lineOf[u]] = u
  <2> SUFFICES ASSUME NEW u \in TaskIds, status[u] = "active"
               PROVE  /\ u # t /\ lineOf[u] \in Lines /\ lineOf[u] # lineOf[t]
                      /\ session'[lineOf[u]] = u
    OBVIOUS
  <2>1. u # t /\ lineOf[u] \in Lines
    BY <1>1 DEF SessionInv, OwnLines, Created
  <2>2. lineOf[u] # lineOf[t]
    BY <1>1, <2>1 DEF QuietInv, OneTaskPerLine
  <2> QED
    BY <1>5, <2>1, <2>2 DEF SessionInv, SessionKnown
<1>9. \A u \in TaskIds : Sends(u)' => Sends(u) /\ status[u] = "active"
  BY <1>1, <1>2, <1>3 DEF SessionInv, SendsInService, Sends, IsFast, Settling, Idle
<1>10. PumpedLater'
  <2>1. \A u \in TaskIds : SetUp(u)' => u = t
    BY <1>3, <1>6 DEF SetUp, Idle
  <2>2. \A u \in TaskIds : Attended(u)' <=> Attended(u)
    BY <1>2 DEF Attended, Count
  <2> QED
    BY <1>2, <1>4, <1>6, <2>1, <2>2 DEF SessionInv, PumpedLater
<1>11. SendsInService' /\ OwnSession'
  BY <1>2, <1>6, <1>8, <1>9 DEF SendsInService, OwnSession, Sends
<1>12. SessionKnown'
  <2>1. \A u \in TaskIds : status'[u] = "active" => session'[lineOf'[u]] = u
    BY <1>2, <1>6, <1>8
  <2>2. ASSUME NEW s \in Requests, request'[s].pc = "activate"
        PROVE  session'[lineOf'[request'[s].task]] = request'[s].task
    <3>1. s = r /\ request'[r].task = t
      BY <1>3, <1>6, <2>2 DEF Idle
    <3> QED
      BY <1>2, <1>5, <2>2, <3>1
  <2> QED
    BY <2>1, <2>2 DEF SessionKnown
<1> QED
  BY <1>2, <1>7, <1>10, <1>11, <1>12, RowsStay DEF SessionInv

\* A request sets the status of its task, to active or to stopped, or fails to.
LEMMA SessionStatus ==
    ASSUME ControlInv, QuietInv, SessionInv, NEW r \in Requests,
           CreateActivate(r) \/ AppendActivate(r) \/ StopSet(r)
    PROVE  SessionInv'
<1> DEFINE t == request[r].task
<1>1. /\ TypeOK /\ t \in Created /\ t \in TaskIds
      /\ request[r].pc \in {"activate", "reactivate", "set"}
  BY DEF CreateActivate, AppendActivate, StopSet, At, ControlInv, Typed, AboutCreatedTasks,
         Created
<1>2. /\ \/ /\ status' = [status EXCEPT ![t] = "active"] /\ session[lineOf[t]] = t
            /\ \/ request' = [request EXCEPT ![r] = Idle]
               \/ request' = [request EXCEPT ![r].pc = "start"]
         \/ /\ status' = [status EXCEPT ![t] = "stopped"]
            /\ request' = [request EXCEPT ![r].pc = "settle"]
         \/ /\ status' = status
            /\ \/ request' = [request EXCEPT ![r] = Idle]
               \/ request' = [request EXCEPT ![r].pc = "start"]
      /\ UNCHANGED <<lineOf, session, tracked, pumps, restarts>>
  <2> USE DEF bounds
  <2>1. CASE CreateActivate(r)
    BY <2>1 DEF CreateActivate, Conclude, At, Answer, SessionInv, SessionKnown
  <2>2. CASE AppendActivate(r)
    <3>1. status[t] = "active"
      BY <2>2 DEF AppendActivate, At, QuietInv, InService
    <3> QED
      BY <1>1, <2>2, <3>1 DEF AppendActivate, Goto, SessionInv, SessionKnown
  <2>3. CASE StopSet(r)
    BY <2>3 DEF StopSet, Goto, Answer
  <2> QED
    BY <2>1, <2>2, <2>3
<1>3. \A s \in Requests : s # r => request[s] = Idle /\ request'[s] = Idle
  BY Served DEF Handle
<1>4. /\ \A u \in TaskIds : u # t => status'[u] = status[u]
      /\ \/ status'[t] = "active" /\ request'[r].pc \in {"idle", "start"}
            /\ session[lineOf[t]] = t
         \/ status'[t] = "stopped" /\ request'[r].pc = "settle" /\ request'[r].task = t
         \/ status'[t] = status[t] /\ request'[r].pc \in {"idle", "start"}
  BY <1>1, <1>2 DEF TypeOK, Idle
<1> HIDE DEF t
<1>5. Created' = Created
  BY <1>1, <1>4 DEF Created
<1>6. \A u \in TaskIds : ~Settling(u)
  BY <1>1, <1>3 DEF Settling, Idle
<1>7. PumpedLater'
  <2>1. \A u \in TaskIds : ~SetUp(u)'
    BY <1>3, <1>4 DEF SetUp, Idle
  <2>2. \A u \in TaskIds : Attended(u)' <=> Attended(u)
    BY <1>2 DEF Attended, Count
  <2> QED
    BY <1>2, <1>4, <2>1, <2>2 DEF SessionInv, PumpedLater
<1>8. SendsInService'
  <2> SUFFICES ASSUME NEW u \in TaskIds, Sends(u)
               PROVE  \/ status'[u] = "active"
                      \/ status'[u] = "stopped" /\ Settling(u)'
    BY <1>2 DEF SendsInService, Sends, IsFast
  <2>1. CASE u = t
    BY <1>4, <1>6, <2>1 DEF Settling, SessionInv, SendsInService
  <2>2. CASE u # t
    BY <1>4, <1>6, <2>2 DEF SessionInv, SendsInService
  <2> QED
    BY <2>1, <2>2
<1>9. OwnSession'
  BY <1>2 DEF SessionInv, OwnSession, IsFast
<1>10. SessionKnown'
  BY <1>2, <1>3, <1>4 DEF SessionInv, SessionKnown, Idle
<1> QED
  BY <1>2, <1>5, <1>7, <1>8, <1>9, <1>10, RowsStay DEF SessionInv

\* A request launches the pumps of its task, or ends.
LEMMA SessionAnswer ==
    ASSUME Waited, ControlInv, QuietInv, SessionInv, NEW r \in Requests,
           AppendRegister(r) \/ AppendLaunch(r) \/ StopAnswer(r),
           NEW t, t = request[r].task
    PROVE  SessionInv'
<1>1. TypeOK /\ t \in TaskIds /\ request[r].pc \in {"start", "launch", "settle"}
  BY DEF AppendRegister, AppendLaunch, StopAnswer, At, ControlInv, Typed, AboutCreatedTasks,
         Created
<1>2. /\ \/ request' = [request EXCEPT ![r] = Idle]
         \/ request' = [request EXCEPT ![r].pc = "launch"]
      /\ UNCHANGED <<status, lineOf, session, restarts>>
  BY DEF AppendRegister, AppendLaunch, StopAnswer, Answer, Goto, bounds
<1>3. /\ request'[r].pc \in {"idle", "launch"}
      /\ \A s \in Requests : s # r => request[s] = Idle /\ request'[s] = Idle
  BY <1>1, <1>2, Served DEF Handle, TypeOK, Idle
<1>4. \A u \in TaskIds : pumps[u] \in [Places -> Nat]
  BY <1>1 DEF TypeOK
<1>5. /\ \A u \in TaskIds : u # t => tracked'[u] = tracked[u] /\ pumps'[u] = pumps[u]
      /\ \/ status[t] = "active"
         \/ tracked'[t] = tracked[t] /\ pumps'[t] = pumps[t] /\ pumps[t]["send"] = 0
  <2>1. CASE AppendRegister(r) \/ AppendLaunch(r)
    <3>1. status[t] = "active"
      BY <2>1 DEF AppendRegister, AppendLaunch, At, QuietInv, InService
    <3>2. /\ tracked' = tracked \/ \E b \in BOOLEAN : tracked' = [tracked EXCEPT ![t] = b]
          /\ pumps' = pumps \/ pumps' = [pumps EXCEPT ![t] = Launch(t, @)]
      BY <2>1 DEF AppendRegister, AppendLaunch, stopTaskTracking
    <3> QED
      BY <1>1, <3>1, <3>2 DEF TypeOK
  <2>2. CASE StopAnswer(r)
    BY <2>2 DEF StopAnswer, Waited
  <2> QED
    BY <2>1, <2>2
<1>6. Created' = Created
  BY <1>2 DEF Created
<1>7. \A u \in TaskIds : ~SetUp(u)'
  BY <1>3 DEF SetUp, Idle
<1>8. \A u \in TaskIds : u # t \/ status[t] # "active" => (Attended(u)' <=> Attended(u))
  BY <1>5 DEF Attended, Count
<1>9. PumpedLater'
  BY <1>2, <1>7, <1>8 DEF SessionInv, PumpedLater
<1>10. \A u \in TaskIds : Sends(u)' => status[u] = "active"
  <2> SUFFICES ASSUME NEW u \in TaskIds, Sends(u)', status[u] # "active"
               PROVE  FALSE
    OBVIOUS
  <2>1. Sends(u)
    BY <1>2, <1>5 DEF Sends, IsFast
  <2>2. Settling(u)
    BY <2>1 DEF SessionInv, SendsInService
  <2>3. u = t
    BY <1>3, <2>2 DEF Settling, Idle
  <2> QED
    BY <1>5, <2>1, <2>3 DEF Sends
<1>11. SendsInService' /\ OwnSession'
  BY <1>2, <1>10 DEF SessionInv, SendsInService, OwnSession, Sends, SessionKnown
<1>12. SessionKnown'
  BY <1>2, <1>3 DEF SessionInv, SessionKnown, Idle
<1> QED
  BY <1>2, <1>6, <1>9, <1>11, <1>12, RowsStay DEF SessionInv

LEMMA SessionPump ==
    ASSUME ControlInv, SessionInv, NEW t \in TaskIds, Pump(t)
    PROVE  SessionInv'
<1>1. /\ UNCHANGED <<status, lineOf, session, request, restarts>>
      /\ tracked \in [TaskIds -> BOOLEAN] /\ pumps \in [TaskIds -> [Places -> Nat]]
      /\ TypeOK
  BY DEF Pump, PumpTick, PumpCycleEnds, PumpExit, ControlInv, Typed, TypeOK, bounds
<1>2. \A u \in TaskIds : u # t => pumps'[u] = pumps[u] /\ tracked'[u] = tracked[u]
  BY <1>1 DEF Pump, PumpTick, PumpCycleEnds, PumpExit, Move, stopTaskTracking
<1>3. Attended(t)
  <2>1. \E place \in Places : pumps[t][place] > 0
    BY DEF Pump, PumpTick, PumpCycleEnds, PumpExit, Move, Places
  <2> QED
    BY <1>1, <2>1, Attending
<1>4. \A u \in TaskIds : Attended(u)' => Attended(u)
  BY <1>2, <1>3 DEF Attended, Count
<1>5. \A u \in TaskIds : Sends(u)' => Sends(u) \/ status[u] = "active"
  <2> SUFFICES ASSUME NEW u \in TaskIds, Sends(u)'
               PROVE  Sends(u) \/ status[u] = "active"
    OBVIOUS
  <2>1. pumps[t] \in [Places -> Nat]
    BY <1>1
  <2>2. CASE u # t
    BY <1>1, <1>2, <2>2 DEF Sends, IsFast
  <2>3. CASE u = t /\ PumpTick(t)
    <3>1. CASE Move(t, "tick", "exit")
      BY <1>1, <2>1, <2>3, <3>1 DEF Move, Places, Sends, IsFast
    <3>2. CASE status[t] \in Pumping
      BY <1>3, <2>3, <3>2 DEF Pumping, SessionInv, PumpedLater
    <3>3. CASE status[t] = "ready" /\ IsFast(lineOf[t])
      BY <1>1, <1>3, <2>3, <3>3 DEF SessionInv, PumpedLater, Sends, IsFast
    <3> QED
      BY <2>3, <3>1, <3>2, <3>3 DEF PumpTick
  <2>4. CASE u = t /\ PumpCycleEnds(t)
    BY <1>1, <2>1, <2>4 DEF PumpCycleEnds, Move, Places, Sends, IsFast
  <2>5. CASE u = t /\ PumpExit(t)
    BY <1>1, <2>1, <2>5 DEF PumpExit, Places, Sends, IsFast
  <2> QED
    BY <2>2, <2>3, <2>4, <2>5 DEF Pump
<1>6. Created' = Created
  BY <1>1 DEF Created
<1>7. PumpedLater'
  BY <1>1, <1>4 DEF SessionInv, PumpedLater, SetUp
<1>8. SendsInService'
  BY <1>1, <1>5 DEF SessionInv, SendsInService, Settling
<1>9. OwnSession' /\ SessionKnown'
  BY <1>1, <1>5 DEF SessionInv, OwnSession, SessionKnown, Sends
<1> QED
  BY <1>1, <1>6, <1>7, <1>8, <1>9, RowsStay DEF SessionInv

LEMMA SessionRestart ==
    ASSUME ControlInv, SessionInv, Restart
    PROVE  SessionInv'
<1>1. /\ request' = [r \in Requests |-> Idle]
      /\ UNCHANGED <<status, lineOf, session>>
      /\ restarts \in Nat /\ restarts' = restarts + 1
      /\ \E started \in Recovered :
            /\ tracked' = [t \in TaskIds |-> t \in started]
            /\ pumps' = [t \in TaskIds |-> IF t \in started THEN Launch(t, NoPumps)
                                           ELSE NoPumps]
  BY DEF Restart, ControlInv, Typed, TypeOK
<1>2. PICK started \in Recovered :
         /\ tracked' = [t \in TaskIds |-> t \in started]
         /\ pumps' = [t \in TaskIds |-> IF t \in started THEN Launch(t, NoPumps) ELSE NoPumps]
  BY <1>1
<1>3. NoPumps \in [Places -> Nat] /\ NoPumps["send"] = 0 /\ Count(NoPumps) = 0
  BY DEF NoPumps, Places, Count
<1>4. \A t \in TaskIds : Attended(t)' => status[t] \in {"active", "ready"}
  <2>1. \A t \in TaskIds : t \notin started => ~tracked'[t] /\ pumps'[t] = NoPumps
    BY <1>2
  <2>2. \A t \in TaskIds : t \in started => status[t] \in {"active", "ready"}
    BY DEF Recovered
  <2>3. \A t \in TaskIds : t \notin started => Count(pumps[t])' = 0
    BY <1>3, <2>1 DEF Count
  <2> QED
    BY <2>1, <2>2, <2>3 DEF Attended
<1>5. restarts' # 0
  BY <1>1
<1>6. \A t \in TaskIds : ~Sends(t)'
  <2> SUFFICES ASSUME NEW t \in TaskIds, ~IsFast(lineOf[t])
               PROVE  pumps'[t]["send"] = 0
    BY <1>1, <1>5 DEF Sends, IsFast
  <2>1. [NoPumps EXCEPT !["tick"] = @ + Launched(lineOf[t])]["send"] = 0
    BY <1>3 DEF Places
  <2>2. Launch(t, NoPumps)["send"] = 0
    BY <2>1 DEF Launch
  <2> QED
    BY <1>2, <1>3, <2>2
<1>7. \A r \in Requests : request'[r].pc = "idle"
  BY <1>1 DEF Idle
<1>8. Created' = Created
  BY <1>1 DEF Created
<1>9. PumpedLater'
  BY <1>1, <1>4, <1>5, <1>7 DEF PumpedLater, SetUp
<1>10. SendsInService' /\ OwnSession'
  BY <1>6 DEF SendsInService, OwnSession, Sends
<1>11. SessionKnown'
  BY <1>1, <1>7 DEF SessionInv, SessionKnown
<1> QED
  BY <1>1, <1>8, <1>9, <1>10, <1>11, RowsStay DEF SessionInv

LEMMA SessionStep ==
    ASSUME Waited, ControlInv, QuietInv, SessionInv, [Next]_vars
    PROVE  SessionInv'
<1>1. ASSUME NEW r \in Requests, NEW l \in Lines, CreateCheck(r, l)
      PROVE  SessionInv'
  <2>1. /\ Accepts(r) /\ UNCHANGED <<status, lineOf, session, tracked, pumps, restarts>>
        /\ \A s \in Requests : s # r => request'[s] = request[s]
        /\ request'[r].pc = "insert"
    BY <1>1 DEF CreateCheck, ControlInv, Typed, TypeOK, bounds
  <2> QED
    BY <2>1, SessionAccept DEF Waited
<1>2. ASSUME NEW r \in Requests, NEW t \in TaskIds, AppendAccept(r, t) \/ StopCheck(r, t)
      PROVE  SessionInv'
  <2>1. /\ Accepts(r) /\ UNCHANGED <<status, lineOf, session, tracked, pumps, restarts>>
        /\ \A s \in Requests : s # r => request'[s] = request[s]
        /\ request'[r].pc \in {"reactivate", "set"}
    <3>1. /\ Accepts(r) /\ UNCHANGED <<status, lineOf, session, tracked, pumps, restarts>>
          /\ \/ request' = [request EXCEPT ![r] = [Idle EXCEPT !.pc = "reactivate", !.task = t]]
             \/ request' = [request EXCEPT ![r] = [Idle EXCEPT !.pc = "set", !.task = t]]
      BY <1>2 DEF AppendAccept, StopCheck
    <3>2. request \in [Requests -> RequestType]
      BY DEF ControlInv, Typed, TypeOK, RequestType
    <3>3. ASSUME NEW pc
          PROVE  [Idle EXCEPT !.pc = pc, !.task = t].pc = pc
      BY DEF Idle
    <3> QED
      BY <3>1, <3>2, <3>3
  <2> QED
    BY <2>1, SessionAccept DEF Waited
<1>3. ASSUME NEW r \in Requests, Handle(r)
      PROVE  SessionInv'
  BY <1>3, SessionInsert, SessionPrepare, SessionStatus, SessionAnswer DEF Handle
<1>4. CASE UNCHANGED vars
  BY <1>4 DEF vars, bounds, SessionInv, OwnLines, PumpedLater, Attended, Count, SendsInService,
              Sends, IsFast, SessionKnown, OwnSession, SetUp, Settling, Created
<1> QED
  BY <1>1, <1>2, <1>3, <1>4, SessionPump, SessionRestart DEF Next

\* A pump sends only to printers that were set up for its task last
\* (SelectTemplate and InitSession in handlers_tasks.go:88-129): no later task's
\* create, failed, cut off or not, takes the line from a task that is still being
\* sent.
THEOREM SessionIsOwn == ASSUME Waited PROVE Spec => []OwnSession
<1> DEFINE Inv == ControlInv /\ QuietInv /\ SessionInv
<1>1. Inv /\ [Next]_vars => Inv'
  BY ControlStep, QuietStep, SessionStep DEF Waited
<1>2. Init => Inv
  BY ControlInit, QuietInit, SessionInit
<1>3. Inv => OwnSession
  BY DEF SessionInv
<1> QED
  BY <1>1, <1>2, <1>3, PTL DEF Spec

=============================================================================

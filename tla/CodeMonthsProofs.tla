--------------------------- MODULE CodeMonthsProofs ---------------------------
(***************************************************************************)
(* Theorems about the turn of a month, for any number of callers, codes    *)
(* and months.  Locked says what the write lock protects, Ages what the    *)
(* calls' months have to do with each other, Kept where a code is that was *)
(* stored before a search began.                                           *)
(***************************************************************************)
EXTENDS CodeMonths, TLAPS

\* The lock is held from the second comparison to the opening.
Locked ==
    \A c \in Callers :
        /\ call[c].at \in {"checkpoint", "open"} <=> writer = c
        /\ call[c].at \in {"checkpoint", "open"} => curMonth # call[c].key

\* No call is ahead of the calendar; beside a young call there are no older
\* ones, and so nobody takes the store back from under it.
Ages ==
    \A c \in Callers :
        /\ call[c].key <= month
        /\ call[c].young =>
              /\ \A d \in Callers : UnderWay(d) => call[d].key >= call[c].key
              /\ call[c].at = "take" => curMonth >= call[c].key
              /\ call[c].at \in Working => call[c].shard >= call[c].key

\* What is stored has a file; without a step back no file is newer than the
\* month, and a known code is in the month a search begins with or before it.
Kept ==
    /\ curMonth \in files
    /\ \A m \in Months : stored[m] # {} => m \in files
    /\ ~back => \A m \in files : m <= curMonth
    /\ \A c \in Callers :
          /\ call[c].at \in Working => call[c].shard \in files
          /\ call[c].known => \E m \in Months : call[c].code \in stored[m]
          /\ ~back /\ call[c].known =>
                /\ call[c].at \in {"begin", "transact"} =>
                      \E m \in Months : m <= call[c].shard /\ call[c].code \in stored[m]
                /\ call[c].at = "archives" =>
                      \E m \in Months : m < call[c].shard /\ call[c].code \in stored[m]

IInv == TypeOK /\ Locked /\ Ages /\ Kept

LEMMA IdleCall == Idle \in Calls
  BY MonthsAssumption DEF Idle, Calls, Operations, Months

\* The types of a call after a step that only sends it to another place.
LEMMA GoToType ==
    ASSUME TypeOK, NEW c \in Callers, NEW place \in {"idle"} \cup Rotating \cup Working,
           GoTo(c, place)
    PROVE  call' \in [Callers -> Calls]
  BY DEF TypeOK, GoTo, Calls

LEMMA ReturnType ==
    ASSUME TypeOK, NEW c \in Callers, Return(c)
    PROVE  /\ call' \in [Callers -> Calls]
           /\ master' \in Callers \cup {NoCaller}
  BY IdleCall DEF TypeOK, Return

LEMMA TypeStep == TypeOK /\ [Next]_vars => TypeOK'
<1> SUFFICES ASSUME TypeOK, [Next]_vars
             PROVE  TypeOK'
  OBVIOUS
<1>1. CASE Turn
  BY <1>1, MonthsAssumption DEF Turn, TypeOK, dbVars, Months
<1>2. ASSUME NEW c \in Callers, Begin(c) PROVE TypeOK'
  <2>1. PICK op \in Operations, code \in Codes \cup {NoCode} :
            call' = [call EXCEPT ![c] =
                [at |-> "check", op |-> op, code |-> code, key |-> month,
                 shard |-> 1, closed |-> FALSE,
                 young |-> \A d \in Callers : UnderWay(d) => call[d].key = month,
                 known |-> \E m \in Months : code \in stored[m]]]
    BY <1>2 DEF Begin
  <2> DEFINE young == \A d \in Callers : UnderWay(d) => call[d].key = month
             known == \E m \in Months : code \in stored[m]
  <2>2. young \in BOOLEAN /\ known \in BOOLEAN
    OBVIOUS
  <2> HIDE DEF young, known
  <2>3. [at |-> "check", op |-> op, code |-> code, key |-> month, shard |-> 1,
         closed |-> FALSE, young |-> young, known |-> known] \in Calls
    BY <2>2, MonthsAssumption DEF Calls, Rotating, TypeOK, Months
  <2>4. call' \in [Callers -> Calls]
    BY <2>1, <2>3, IdleCall DEF TypeOK, young, known
  <2> QED
    BY <1>2, <2>4 DEF Begin, TypeOK, dbVars
<1>3. ASSUME NEW c \in Callers, GetCodesDB(c) PROVE TypeOK'
  <2>1. CASE Check(c)
    <3>1. call' \in [Callers -> Calls]
      BY <2>1, GoToType DEF Check, Rotating
    <3> QED
      BY <2>1, <3>1 DEF Check, TypeOK, dbVars
  <2>2. CASE Lock(c)
    <3>1. call' \in [Callers -> Calls]
      BY <2>2, GoToType DEF Lock, Rotating
    <3> QED
      BY <2>2, <3>1 DEF Lock, TypeOK, dbVars
  <2>3. CASE Checkpoint(c)
    <3>1. call' \in [Callers -> Calls]
      BY <2>3, GoToType DEF Checkpoint, Rotating
    <3> QED
      BY <2>3, <3>1 DEF Checkpoint, TypeOK, dbVars
  <2>4. CASE Open(c)
    <3> DEFINE opened(d) == IF d = c THEN [call[d] EXCEPT !.at = "take"]
                            ELSE [call[d] EXCEPT !.closed = @ \/ call[d].at \in Working]
    <3>3. ASSUME NEW d \in Callers PROVE opened(d) \in Calls
      <4>1. call[d] \in Calls
        BY DEF TypeOK
      <4>2. CASE d = c
        BY <4>1, <4>2 DEF Calls, Rotating
      <4>3. CASE d # c
        <5> DEFINE closed == call[d].closed \/ call[d].at \in Working
        <5>1. closed \in BOOLEAN
          OBVIOUS
        <5> HIDE DEF closed
        <5>2. [call[d] EXCEPT !.closed = closed] \in Calls
          BY <4>1, <5>1 DEF Calls
        <5> QED
          BY <4>3, <5>2 DEF closed
      <4> QED
        BY <4>2, <4>3
    <3>1. call' \in [Callers -> Calls]
      BY <2>4, <3>3 DEF Open
    <3>2. call[c].key \in Months /\ back' \in BOOLEAN
      BY <2>4 DEF Open, TypeOK, Calls
    <3> QED
      BY <2>4, <3>1, <3>2 DEF Open, TypeOK
  <2>5. CASE Take(c)
    <3>1. call' \in [Callers -> Calls]
      <4>1. call[c] \in Calls /\ curMonth \in Months
        BY DEF TypeOK
      <4>2. [[call[c] EXCEPT !.at = "begin"] EXCEPT !.shard = curMonth] \in Calls
        BY <4>1 DEF Calls, Working
      <4>3. call' = [call EXCEPT ![c] = [[call[c] EXCEPT !.at = "begin"] EXCEPT !.shard = curMonth]]
        BY <2>5 DEF Take, TypeOK
      <4> QED
        BY <4>2, <4>3 DEF TypeOK
    <3> QED
      BY <2>5, <3>1 DEF Take, TypeOK, dbVars
  <2> QED
    BY <1>3, <2>1, <2>2, <2>3, <2>4, <2>5 DEF GetCodesDB
<1>4. ASSUME NEW c \in Callers, Query(c) PROVE TypeOK'
  <2>1. CASE Acquire(c)
    <3>1. call' \in [Callers -> Calls] /\ master' \in Callers \cup {NoCaller}
      BY <2>1, GoToType, ReturnType DEF Acquire, Working, TypeOK
    <3> QED
      BY <2>1, <3>1 DEF Acquire, TypeOK, dbVars
  <2>2. CASE Transact(c)
    <3>1. /\ call' \in [Callers -> Calls] /\ master' \in Callers \cup {NoCaller}
          /\ stored' \in [Months -> SUBSET Codes]
      <4>1. CASE Finish(c)
        BY <4>1, ReturnType DEF Finish, TypeOK
      <4>2. CASE Committed(c)
        BY <4>2, GoToType DEF Committed, TypeOK, Working
      <4>3. CASE Search(c)
        BY <4>3, GoToType, ReturnType DEF Search, TypeOK, Working
      <4> QED
        BY <2>2, <4>1, <4>2, <4>3 DEF Transact
    <3> QED
      BY <2>2, <3>1 DEF Transact, Release, TypeOK, dbVars
  <2>3. CASE Count(c)
    BY <2>3, ReturnType DEF Count, TypeOK, dbVars
  <2>4. CASE Archives(c)
    BY <2>4, ReturnType DEF Archives, TypeOK, dbVars
  <2> QED
    BY <1>4, <2>1, <2>2, <2>3, <2>4 DEF Query
<1>5. CASE UNCHANGED vars
  BY <1>5 DEF vars, dbVars, TypeOK
<1> QED
  BY <1>1, <1>2, <1>3, <1>4, <1>5 DEF Next

-----------------------------------------------------------------------------
\* What a step leaves as it is of a call.
Same(d) ==
    /\ call'[d].code = call[d].code /\ call'[d].key = call[d].key
    /\ call'[d].young = call[d].young /\ call'[d].known = call[d].known
Stays(d) == Same(d) /\ call'[d].at = call[d].at /\ call'[d].shard = call[d].shard
OthersStay(c) == \A d \in Callers \ {c} : Stays(d)

LEMMA GoToFields ==
    ASSUME TypeOK, NEW c \in Callers, NEW place, GoTo(c, place)
    PROVE  /\ OthersStay(c) /\ Same(c)
           /\ call'[c].at = place /\ call'[c].shard = call[c].shard
  BY DEF TypeOK, GoTo, Calls, OthersStay, Stays, Same

LEMMA ReturnFields ==
    ASSUME TypeOK, NEW c \in Callers, Return(c)
    PROVE  OthersStay(c) /\ call'[c] = Idle
  BY DEF TypeOK, Return, OthersStay, Stays, Same

LEMMA OpenFields ==
    ASSUME TypeOK, NEW c \in Callers, Open(c)
    PROVE  OthersStay(c) /\ Same(c) /\ call'[c].at = "take"
<1>1. ASSUME NEW d \in Callers \ {c} PROVE Stays(d)
  <2>1. call'[d] = [call[d] EXCEPT !.closed = @ \/ call[d].at \in Working]
    BY DEF Open
  <2>2. call[d] \in Calls
    BY DEF TypeOK
  <2> QED
    BY <2>1, <2>2 DEF Calls, Stays, Same
<1>2. call'[c] = [call[c] EXCEPT !.at = "take"] /\ call[c] \in Calls
  BY DEF Open, TypeOK
<1> QED
  BY <1>1, <1>2 DEF OthersStay, Same, Calls

LEMMA TakeFields ==
    ASSUME TypeOK, NEW c \in Callers, Take(c)
    PROVE  /\ OthersStay(c) /\ Same(c)
           /\ call'[c].at = "begin" /\ call'[c].shard = curMonth
<1>1. call'[c] = [[call[c] EXCEPT !.at = "begin"] EXCEPT !.shard = curMonth]
  BY DEF Take, TypeOK
<1>2. call[c] \in Calls
  BY DEF TypeOK
<1>3. \A d \in Callers \ {c} : call'[d] = call[d]
  BY DEF Take, TypeOK
<1> QED
  BY <1>1, <1>2, <1>3 DEF OthersStay, Stays, Same, Calls

LEMMA BeginFields ==
    ASSUME TypeOK, NEW c \in Callers, Begin(c)
    PROVE  /\ OthersStay(c)
           /\ call'[c].at = "check" /\ call'[c].key = month
           /\ call'[c].young => \A d \in Callers : UnderWay(d) => call[d].key = month
           /\ call'[c].known => \E m \in Months : call'[c].code \in stored[m]
  BY DEF Begin, TypeOK, OthersStay, Stays, Same

\* The steps of a call after it has its database: it goes on, or it returns,
\* and the databases stay as they are.
LEMMA QueryFields ==
    ASSUME TypeOK, NEW c \in Callers, Query(c)
    PROVE  /\ OthersStay(c)
           /\ UNCHANGED <<month, dbVars, writer>>
           /\ call[c].at \in Working
           /\ \/ call'[c] = Idle
              \/ /\ Same(c) /\ call'[c].shard = call[c].shard
                 /\ call'[c].at \in {"transact", "count", "archives"}
<1>1. CASE Acquire(c)
  BY <1>1, GoToFields, ReturnFields DEF Acquire, Working
<1>2. CASE Transact(c)
  BY <1>2, GoToFields, ReturnFields DEF Transact, Finish, Committed, Search, Working
<1>3. CASE Count(c)
  BY <1>3, ReturnFields DEF Count, Working
<1>4. CASE Archives(c)
  BY <1>4, ReturnFields DEF Archives, Working
<1> QED
  BY <1>1, <1>2, <1>3, <1>4 DEF Query

\* Codes are added by updates alone, to a shard that is in use.
LEMMA QueryStored ==
    ASSUME TypeOK, Kept, NEW c \in Callers, Query(c)
    PROVE  /\ \A m \in Months : stored[m] \subseteq stored'[m]
           /\ \A m \in Months : stored'[m] # {} => m \in files
<1>1. CASE UNCHANGED stored
  BY <1>1 DEF Kept
<1>2. CASE Transact(c) /\ Finish(c)
  BY <1>2 DEF Transact, Finish, Kept, TypeOK, Working
<1> QED
  BY <1>1, <1>2 DEF Query, Acquire, Transact, Committed, Search, Count, Archives

-----------------------------------------------------------------------------
LEMMA LockedStep == IInv /\ [Next]_vars => Locked'
<1> SUFFICES ASSUME TypeOK, Locked, [Next]_vars
             PROVE  Locked'
  BY DEF IInv
<1>1. CASE Turn \/ UNCHANGED vars
  BY <1>1 DEF Turn, vars, dbVars, Locked
<1>2. ASSUME NEW c \in Callers, Begin(c) PROVE Locked'
  BY <1>2, BeginFields DEF Begin, Locked, OthersStay, Stays, Same, dbVars, UnderWay
<1>3. ASSUME NEW c \in Callers, Check(c) PROVE Locked'
  BY <1>3, GoToFields DEF Check, Locked, OthersStay, Stays, Same, dbVars
<1>4. ASSUME NEW c \in Callers, Lock(c) PROVE Locked'
  <2>1. CASE Current(call[c].key)
    BY <1>4, <2>1, GoToFields DEF Lock, Locked, OthersStay, Stays, Same, dbVars
  <2>2. CASE ~Current(call[c].key)
    BY <1>4, <2>2, GoToFields, MonthsAssumption
    DEF Lock, Locked, OthersStay, Stays, Same, dbVars, Current
  <2> QED
    BY <2>1, <2>2
<1>5. ASSUME NEW c \in Callers, Checkpoint(c) PROVE Locked'
  BY <1>5, GoToFields DEF Checkpoint, Locked, OthersStay, Stays, Same, dbVars
<1>6. ASSUME NEW c \in Callers, Open(c) PROVE Locked'
  <2>1. writer = c /\ writer' = NoCaller
    BY <1>6 DEF Open, Locked
  <2>2. \A d \in Callers : call'[d].at \notin {"checkpoint", "open"}
    BY <1>6, <2>1, OpenFields DEF Locked, OthersStay, Stays, Same
  <2>3. \A d \in Callers : writer' # d
    BY <2>1, MonthsAssumption
  <2> QED
    BY <2>2, <2>3 DEF Locked
<1>7. ASSUME NEW c \in Callers, Take(c) PROVE Locked'
  <2>1. UNCHANGED <<dbVars, writer>> /\ call[c].at = "take"
    BY <1>7 DEF Take
  <2>2. OthersStay(c) /\ Same(c) /\ call'[c].at = "begin"
    BY <1>7, TakeFields
  <2> QED
    BY <2>1, <2>2 DEF Locked, OthersStay, Stays, Same, dbVars
<1>8. ASSUME NEW c \in Callers, Query(c) PROVE Locked'
  BY <1>8, QueryFields DEF Working, Idle, Locked, OthersStay, Stays, Same, dbVars
<1> QED
  BY <1>1, <1>2, <1>3, <1>4, <1>5, <1>6, <1>7, <1>8 DEF Next, GetCodesDB

LEMMA AgesStep == IInv /\ [Next]_vars => Ages'
<1> SUFFICES ASSUME TypeOK, Ages, [Next]_vars
             PROVE  Ages'
  BY DEF IInv
<1>0. /\ month \in Int /\ curMonth \in Int
      /\ \A c \in Callers : call[c].key \in Int /\ call[c].shard \in Int
                            /\ call[c].young \in BOOLEAN
  BY DEF TypeOK, Months, Calls
<1>1. CASE Turn
  BY <1>0, <1>1 DEF Turn, dbVars, Ages, UnderWay
<1>2. CASE UNCHANGED vars
  BY <1>2 DEF vars, dbVars, Ages, UnderWay
<1>3. ASSUME NEW c \in Callers, Begin(c) PROVE Ages'
  <2>1. UNCHANGED <<month, curMonth>>
    BY <1>3 DEF Begin, dbVars
  <2>2. OthersStay(c) /\ call'[c].at = "check" /\ call'[c].key = month
    BY <1>3, BeginFields
  <2>3. ASSUME NEW d \in Callers, call'[d].young, NEW e \in Callers, UnderWay(e)'
        PROVE  call'[e].key >= call'[d].key
    <3>1. CASE d = c
      BY <1>0, <1>3, <2>2, <2>3, <3>1, BeginFields DEF OthersStay, Stays, Same, UnderWay
    <3>2. CASE d # c
      BY <1>0, <2>2, <2>3, <3>2 DEF OthersStay, Stays, Same, UnderWay, Ages
    <3> QED
      BY <3>1, <3>2
  <2> QED
    BY <1>0, <2>1, <2>2, <2>3 DEF OthersStay, Stays, Same, Ages, Working
<1>4. ASSUME NEW c \in Callers, Check(c) \/ Lock(c) \/ Checkpoint(c) PROVE Ages'
  <2>1. /\ UNCHANGED <<month, curMonth>> /\ UnderWay(c)
        /\ OthersStay(c) /\ Same(c)
        /\ call'[c].at = "take" => curMonth = call[c].key
        /\ call'[c].at \notin Working
    BY <1>4, GoToFields DEF Check, Lock, Checkpoint, Current, dbVars, UnderWay, Working
  <2> QED
    BY <1>0, <2>1 DEF OthersStay, Stays, Same, Ages, UnderWay
<1>5. ASSUME NEW c \in Callers, Open(c) PROVE Ages'
  <2>1. /\ month' = month /\ curMonth' = call[c].key /\ UnderWay(c)
        /\ OthersStay(c) /\ Same(c) /\ call'[c].at = "take"
    BY <1>5, OpenFields DEF Open, UnderWay
  <2> QED
    BY <1>0, <2>1 DEF OthersStay, Stays, Same, Ages, UnderWay, Working
<1>6. ASSUME NEW c \in Callers, Take(c) PROVE Ages'
  <2>1. /\ UNCHANGED <<month, curMonth>> /\ call[c].at = "take"
        /\ OthersStay(c) /\ Same(c) /\ call'[c].at = "begin" /\ call'[c].shard = curMonth
    BY <1>6, TakeFields DEF Take, dbVars
  <2> QED
    BY <1>0, <2>1 DEF OthersStay, Stays, Same, Ages, UnderWay
<1>7. ASSUME NEW c \in Callers, Query(c) PROVE Ages'
  <2>1. /\ UNCHANGED <<month, curMonth>> /\ OthersStay(c) /\ call[c].at \in Working
        /\ \/ call'[c] = Idle
           \/ Same(c) /\ call'[c].shard = call[c].shard /\ call'[c].at # "take"
    BY <1>7, QueryFields DEF dbVars
  <2>2. CASE call'[c] = Idle
    <3>1. /\ call'[c].at = "idle" /\ call'[c].key = 1 /\ ~call'[c].young
          /\ 1 <= month
      BY <2>2 DEF Idle, TypeOK, Months
    <3> QED
      BY <1>0, <2>1, <3>1 DEF OthersStay, Stays, Same, Ages, UnderWay
  <2>3. CASE Same(c) /\ call'[c].shard = call[c].shard /\ call'[c].at # "take"
    BY <1>0, <2>1, <2>3 DEF OthersStay, Stays, Same, Ages, UnderWay, Working
  <2> QED
    BY <2>1, <2>2, <2>3
<1> QED
  BY <1>1, <1>2, <1>3, <1>4, <1>5, <1>6, <1>7 DEF Next, GetCodesDB

LEMMA KeptStep == IInv /\ [Next]_vars => Kept'
<1> SUFFICES ASSUME TypeOK, Kept, [Next]_vars
             PROVE  Kept'
  BY DEF IInv
<1>0. /\ curMonth \in Int /\ \A m \in Months : m \in Int
      /\ \A c \in Callers : call[c].key \in Months /\ call[c].shard \in Months
                            /\ call[c].known \in BOOLEAN
      /\ back \in BOOLEAN /\ files \subseteq Months
  BY DEF TypeOK, Months, Calls
<1>1. CASE Turn \/ UNCHANGED vars
  BY <1>1 DEF Turn, vars, dbVars, Kept
<1>2. ASSUME NEW c \in Callers, Begin(c) PROVE Kept'
  <2>1. /\ UNCHANGED <<dbVars, stored>> /\ OthersStay(c)
        /\ call'[c].at = "check"
        /\ call'[c].known => \E m \in Months : call'[c].code \in stored[m]
    BY <1>2, BeginFields DEF Begin
  <2> QED
    BY <2>1 DEF dbVars, OthersStay, Stays, Same, Kept, Working
<1>3. ASSUME NEW c \in Callers, Check(c) \/ Lock(c) \/ Checkpoint(c) PROVE Kept'
  <2>1. /\ UNCHANGED <<dbVars, stored>> /\ OthersStay(c) /\ Same(c)
        /\ call'[c].at \notin Working
    BY <1>3, GoToFields DEF Check, Lock, Checkpoint, Working
  <2> QED
    BY <2>1 DEF dbVars, OthersStay, Stays, Same, Kept, Working
<1>4. ASSUME NEW c \in Callers, Open(c) PROVE Kept'
  <2>1. /\ curMonth' = call[c].key /\ files' = files \cup {call[c].key}
        /\ back' = (back \/ call[c].key < curMonth) /\ stored' = stored
        /\ OthersStay(c) /\ Same(c) /\ call'[c].at = "take"
    BY <1>4, OpenFields DEF Open
  <2>2. ~back' => ~back /\ \A m \in files' : m <= curMonth'
    <3> SUFFICES ASSUME ~back' PROVE ~back /\ \A m \in files' : m <= curMonth'
      OBVIOUS
    <3>1. ~back /\ ~(call[c].key < curMonth)
      BY <2>1
    <3>2. \A m \in files : m <= curMonth
      BY <3>1 DEF Kept
    <3>3. curMonth <= call[c].key
      BY <1>0, <3>1
    <3>4. ASSUME NEW m \in files' PROVE m <= curMonth'
      BY <1>0, <2>1, <3>2, <3>3
    <3> QED
      BY <3>1, <3>4
  <2> QED
    BY <2>1, <2>2 DEF OthersStay, Stays, Same, Kept, Working
<1>5. ASSUME NEW c \in Callers, Take(c) PROVE Kept'
  <2>1. /\ UNCHANGED <<dbVars, stored>> /\ OthersStay(c) /\ Same(c)
        /\ call'[c].at = "begin" /\ call'[c].shard = curMonth
    BY <1>5, TakeFields DEF Take
  <2>2. ~back /\ call[c].known =>
            \E m \in Months : m <= curMonth /\ call[c].code \in stored[m]
    BY <1>0 DEF Kept
  <2> QED
    BY <2>1, <2>2 DEF dbVars, OthersStay, Stays, Same, Kept, Working
<1>6. ASSUME NEW c \in Callers, Query(c) PROVE Kept'
  <2>1. /\ UNCHANGED dbVars /\ OthersStay(c) /\ call[c].at \in Working
        /\ \/ call'[c] = Idle
           \/ /\ Same(c) /\ call'[c].shard = call[c].shard
              /\ call'[c].at \in {"transact", "count", "archives"}
    BY <1>6, QueryFields
  <2>2. /\ \A m \in Months : stored[m] \subseteq stored'[m]
        /\ \A m \in Months : stored'[m] # {} => m \in files
    BY <1>6, QueryStored
  <2>3. ASSUME NEW d \in Callers \ {c} PROVE
            /\ call'[d].at \in Working => call'[d].shard \in files
            /\ call'[d].known => \E m \in Months : call'[d].code \in stored'[m]
            /\ ~back /\ call'[d].known =>
                  /\ call'[d].at \in {"begin", "transact"} =>
                        \E m \in Months : m <= call'[d].shard /\ call'[d].code \in stored'[m]
                  /\ call'[d].at = "archives" =>
                        \E m \in Months : m < call'[d].shard /\ call'[d].code \in stored'[m]
    BY <2>1, <2>2 DEF OthersStay, Stays, Same, Kept
  <2>4. CASE call'[c] = Idle
    <3>1. call'[c].at = "idle" /\ ~call'[c].known
      BY <2>4 DEF Idle
    <3> QED
      BY <2>1, <2>2, <2>3, <3>1 DEF Kept, dbVars, Working
  <2>5. CASE /\ Same(c) /\ call'[c].shard = call[c].shard
             /\ call'[c].at \in {"transact", "count", "archives"}
    <3>1. CASE call'[c].at = "archives"
      <4>1. /\ call[c].at = "transact" /\ stored' = stored
            /\ call[c].code \notin stored[call[c].shard]
        BY <1>6, <2>4, <3>1, GoToFields, ReturnFields
        DEF Query, Acquire, Transact, Finish, Committed, Search, Count, Archives, Idle
      <4>2. ~back /\ call[c].known =>
                \E m \in Months : m < call[c].shard /\ call[c].code \in stored[m]
        <5> SUFFICES ASSUME ~back, call[c].known
                     PROVE  \E m \in Months : m < call[c].shard /\ call[c].code \in stored[m]
          OBVIOUS
        <5>1. PICK m \in Months : m <= call[c].shard /\ call[c].code \in stored[m]
          BY <4>1 DEF Kept
        <5>2. m # call[c].shard
          BY <4>1, <5>1
        <5>3. m < call[c].shard
          BY <1>0, <5>1, <5>2
        <5> QED
          BY <5>1, <5>3
      <4> QED
        BY <2>1, <2>2, <2>3, <2>5, <3>1, <4>1, <4>2 DEF Kept, dbVars, Same, Working
    <3>2. CASE call'[c].at = "transact"
      <4>1. call[c].at = "begin"
        BY <1>6, <3>2, GoToFields, ReturnFields
        DEF Query, Acquire, Transact, Finish, Committed, Search, Count, Archives, Idle
      <4> QED
        BY <2>1, <2>2, <2>3, <2>5, <3>2, <4>1 DEF Kept, dbVars, Same, Working
    <3>3. CASE call'[c].at = "count"
      BY <2>1, <2>2, <2>3, <2>5, <3>3 DEF Kept, dbVars, Same, Working
    <3> QED
      BY <2>5, <3>1, <3>2, <3>3
  <2> QED
    BY <2>1, <2>4, <2>5
<1> QED
  BY <1>1, <1>2, <1>3, <1>4, <1>5, <1>6 DEF Next, GetCodesDB

-----------------------------------------------------------------------------
LEMMA InitIInv == Init => IInv
<1> SUFFICES ASSUME Init PROVE IInv
  OBVIOUS
<1>1. TypeOK
  <2>1. 1 \in Months
    BY MonthsAssumption DEF Months
  <2>2. call \in [Callers -> Calls]
    BY IdleCall DEF Init
  <2> QED
    BY <2>1, <2>2 DEF Init, TypeOK
<1>2. Locked /\ Ages
  BY MonthsAssumption DEF Init, Locked, Ages, Idle, UnderWay, Working
<1>3. Kept
  BY MonthsAssumption DEF Init, Kept, Idle, Months, Working
<1> QED
  BY <1>1, <1>2, <1>3 DEF IInv

LEMMA Inductive == Spec => []IInv
<1>1. IInv /\ [Next]_vars => IInv'
  BY TypeStep, LockedStep, AgesStep, KeptStep DEF IInv
<1> QED
  BY InitIInv, <1>1, PTL DEF Spec

\* The months, calls and shards keep their types.
THEOREM TypeCorrect == Spec => []TypeOK
<1>1. IInv => TypeOK
  BY DEF IInv
<1> QED
  BY Inductive, <1>1, PTL

\* A call that begins beside no older one is not given an earlier month's
\* database, whatever the others do (getCodesDB, storage.go:68).
THEOREM NoStepBackHolds == Spec => []NoStepBack
<1>1. IInv => NoStepBack
  BY DEF IInv, Ages, NoStepBack
<1> QED
  BY Inductive, <1>1, PTL

\* While the store only goes forward, the passport of a code that was stored
\* before the search began is found (GetCodePassport, storage.go:584).
THEOREM PassportFindsHolds == Spec => []PassportFinds
<1>1. IInv => PassportFinds
  <2> SUFFICES ASSUME IInv, ~back, NEW c \in Callers,
                      call[c].at = "archives", call[c].known
               PROVE  \E m \in Archived(c) : call[c].code \in stored[m]
    BY DEF PassportFinds
  <2>1. PICK m \in Months : m < call[c].shard /\ call[c].code \in stored[m]
    BY DEF IInv, Kept
  <2>2. m \in files /\ call[c].shard <= curMonth
    BY <2>1 DEF IInv, Kept, Working
  <2>3. m # curMonth
    BY <2>1, <2>2 DEF IInv, TypeOK, Months, Calls
  <2> QED
    BY <2>1, <2>2, <2>3 DEF Archived
<1> QED
  BY Inductive, <1>1, PTL

\* Only the opening of another month closes the database of a call at work:
\* the month is compared again under the write lock (storage.go:86).
THEOREM ClosedForAnotherMonthHolds == Spec => ClosedForAnotherMonth
<1>1. ASSUME IInv, [Next]_vars, NEW c \in Callers, ~call[c].closed, call'[c].closed
      PROVE  curMonth' # curMonth
  <2>1. call[c].closed \in BOOLEAN /\ call[c] \in Calls
    BY <1>1 DEF IInv, TypeOK, Calls
  <2>2. PICK d \in Callers : Open(d)
    <3>1. call'[c] # call[c]
      BY <1>1
    <3>2. ASSUME NEW d \in Callers, Begin(d) PROVE FALSE
      BY <1>1, <3>2 DEF IInv, TypeOK, Begin
    <3>3. ASSUME NEW d \in Callers, Check(d) \/ Lock(d) \/ Checkpoint(d) \/ Take(d)
          PROVE  FALSE
      BY <1>1, <2>1, <3>3 DEF IInv, TypeOK, Calls, Check, Lock, Checkpoint, Take, GoTo
    <3>4. ASSUME NEW d \in Callers, Query(d) PROVE FALSE
      BY <1>1, <2>1, <3>4
      DEF IInv, TypeOK, Calls, Query, Acquire, Transact, Finish, Committed, Search,
          Count, Archives, GoTo, Return, Idle
    <3> QED
      BY <1>1, <3>1, <3>2, <3>3, <3>4 DEF Next, GetCodesDB, Turn, vars
  <2> QED
    BY <1>1, <2>2 DEF IInv, Locked, Open
<1>2. IInv /\ [Next]_vars =>
          [\A c \in Callers : ~call[c].closed /\ call'[c].closed => curMonth' # curMonth]_vars
  BY <1>1
<1> QED
  BY Inductive, <1>2, PTL DEF Spec, ClosedForAnotherMonth


-----------------------------------------------------------------------------
\* The connection is given up by the transaction that has it, or closed under it.
Connected == \A c \in Callers : conn = c => call[c].at = "transact"

LEMMA ConnectedStep == IInv /\ Connected /\ [Next]_vars => Connected'
<1> SUFFICES ASSUME TypeOK, Connected, [Next]_vars
             PROVE  Connected'
  BY DEF IInv
<1>1. CASE Turn \/ UNCHANGED vars
  BY <1>1 DEF Turn, vars, Connected
<1>2. ASSUME NEW c \in Callers, Begin(c) PROVE Connected'
  <2>1. OthersStay(c) /\ UNCHANGED conn /\ call[c].at # "transact"
    BY <1>2, BeginFields DEF Begin, UnderWay
  <2> QED
    BY <2>1 DEF Connected, OthersStay, Stays
<1>3. ASSUME NEW c \in Callers, Open(c) PROVE Connected'
  BY <1>3, MonthsAssumption DEF Open, Connected
<1>4. ASSUME NEW c \in Callers, Take(c) PROVE Connected'
  BY <1>4, TakeFields DEF Take, Connected, OthersStay, Stays
<1>5. ASSUME NEW c \in Callers, Check(c) \/ Lock(c) \/ Checkpoint(c) PROVE Connected'
  <2>1. UNCHANGED conn /\ call[c].at # "transact"
    BY <1>5 DEF Check, Lock, Checkpoint
  <2>2. \E place : GoTo(c, place)
    BY <1>5 DEF Check, Lock, Checkpoint
  <2>3. OthersStay(c)
    BY <2>2, GoToFields
  <2> QED
    BY <2>1, <2>3 DEF Connected, OthersStay, Stays
<1>6. ASSUME NEW c \in Callers, Acquire(c) PROVE Connected'
  <2>1. CASE Return(c) /\ UNCHANGED conn
    <3>1. OthersStay(c) /\ call[c].at = "begin"
      BY <1>6, <2>1, ReturnFields DEF Acquire
    <3> QED
      BY <2>1, <3>1 DEF Connected, OthersStay, Stays
  <2>2. CASE conn' = c /\ GoTo(c, "transact")
    BY <2>2, GoToFields DEF Connected
  <2> QED
    BY <1>6, <2>1, <2>2 DEF Acquire
<1>7. ASSUME NEW c \in Callers, Transact(c) PROVE Connected'
  <2>1. conn' # c /\ (conn' = conn \/ conn' = NoCaller)
    BY <1>7, MonthsAssumption DEF Transact, Release
  <2>2. OthersStay(c)
    BY <1>7, QueryFields DEF Query
  <2> QED
    BY <2>1, <2>2, MonthsAssumption DEF Connected, OthersStay, Stays
<1>8. ASSUME NEW c \in Callers, Count(c) \/ Archives(c) PROVE Connected'
  <2>1. UNCHANGED conn /\ call[c].at # "transact"
    BY <1>8 DEF Count, Archives
  <2>2. OthersStay(c)
    BY <1>8, QueryFields DEF Query
  <2> QED
    BY <2>1, <2>2 DEF Connected, OthersStay, Stays
<1> QED
  BY <1>1, <1>2, <1>3, <1>4, <1>5, <1>6, <1>7, <1>8 DEF Next, GetCodesDB, Query

\* The rotation waits, with the write lock, for a transaction, and a
\* transaction waits for nobody: no circle of waits, in any number of calls.
THEOREM WaitsEndHolds == Spec => []WaitsEnd
<1>1. Init => Connected
  BY MonthsAssumption DEF Init, Connected
<1>2. ASSUME Locked, Connected PROVE WaitsEnd
  <2>1. ASSUME NEW c \in Callers, c = conn
        PROVE  UnderWay(c) /\ WaitsFor(c) = {}
    BY <1>2, <2>1 DEF Connected, UnderWay, WaitsFor
  <2>2. ASSUME NEW c \in Callers, c = writer
        PROVE  UnderWay(c) /\ \A d \in WaitsFor(c) : d = conn
    <3>1. call[c].at \in {"checkpoint", "open"}
      BY <1>2, <2>2 DEF Locked
    <3> QED
      BY <3>1 DEF UnderWay, WaitsFor
  <2>3. ASSUME NEW c \in Callers, NEW d \in WaitsFor(c)
        PROVE  d \in Callers /\ (d = writer \/ d = conn)
    BY <2>3 DEF WaitsFor
  <2>4. \A c \in Callers : WaitsFor(c) \subseteq Callers
    BY DEF WaitsFor
  <2> QED
    BY <2>1, <2>2, <2>3, <2>4 DEF WaitsEnd
<1>3. IInv => Locked
  BY DEF IInv
<1> QED
  BY <1>1, <1>2, <1>3, Inductive, ConnectedStep, PTL DEF Spec
===============================================================================

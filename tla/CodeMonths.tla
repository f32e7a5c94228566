------------------------------ MODULE CodeMonths ------------------------------
(***************************************************************************)
(* The store across months (internal/storage/storage.go): every operation  *)
(* on codes asks getCodesDB for the database of the month, which closes    *)
(* that of another month first.  Here are the month a call has read, the   *)
(* read-write lock, the one connection of a database and the one of the    *)
(* master database.  Of the codes only their presence counts: CodeShard    *)
(* has what the transactions of a month do to them.                        *)
(*                                                                         *)
(* Readers hold the lock for a comparison, which is one step.  A call      *)
(* keeps the database it was given.  When that is closed, a transaction    *)
(* that runs goes on and one that asks for the connection fails.           *)
(***************************************************************************)
EXTENDS Integers

CONSTANTS Callers,    \* goroutines that use the store
          NoCaller,   \* nobody has the lock or the connection
          Codes,
          NoCode,     \* the call is about no single code
          MaxMonth    \* bound: months

\* The parameters are in range.
ASSUME MonthsAssumption ==
    NoCaller \notin Callers /\ NoCode \notin Codes /\ MaxMonth \in Nat \ {0}

Months == 1..MaxMonth

VARIABLES month,      \* the calendar
          curMonth,   \* s.curMonth, the month of s.codesDB
          files,      \* the months that have a file
          writer,     \* who holds codesMu for writing
          conn,       \* who has the connection of s.codesDB
          master,     \* who has the connection of s.db
          call,       \* call[c]: what c is doing
          stored,     \* stored[m]: the codes in the shard of month m
          back        \* the store has gone back to an earlier month

dbVars == <<curMonth, files, back>>
vars == <<month, dbVars, writer, conn, master, call, stored>>

\* An update is an append, a fetch or a report of printed codes.
Operations == {"update", "reconcile", "passport", "list"}

\* A call goes to the database of the month, then works on it.
Rotating == {"check", "lock", "checkpoint", "open", "take"}
Working == {"begin", "transact", "count", "archives"}

\* key: the month read; shard, closed: that of its database, and its fate;
\* young, known: see NoStepBack and PassportFinds.
Idle == [at |-> "idle", op |-> "list", code |-> NoCode, key |-> 1, shard |-> 1,
         closed |-> FALSE, young |-> FALSE, known |-> FALSE]

UnderWay(c) == call[c].at # "idle"

Init ==
    /\ month = 1 /\ curMonth = 1 /\ files = {1} /\ back = FALSE
    /\ writer = NoCaller /\ conn = NoCaller /\ master = NoCaller
    /\ call = [c \in Callers |-> Idle]
    /\ stored = [m \in Months |-> {}]

-----------------------------------------------------------------------------
\* time.Now() is read first of all.  GetActiveTasks comes with the rows of the
\* master database open.
Begin(c) ==
    /\ ~UnderWay(c)
    /\ \E op \in Operations, code \in Codes \cup {NoCode} :
          /\ code # NoCode <=> op = "passport"
          /\ op = "list" => master = NoCaller
          /\ master' = IF op = "list" THEN c ELSE master
          /\ call' = [call EXCEPT ![c] =
                [at |-> "check", op |-> op, code |-> code, key |-> month,
                 shard |-> 1, closed |-> FALSE,
                 young |-> \A d \in Callers : UnderWay(d) => call[d].key = month,
                 known |-> \E m \in Months : code \in stored[m]]]
    /\ UNCHANGED <<month, dbVars, writer, conn, stored>>

GoTo(c, place) == call' = [call EXCEPT ![c].at = place]

\* Mutant: any open database will do.
AnyMonth(key) == curMonth \in Months

Current(key) == curMonth = key

Check(c) ==
    /\ call[c].at = "check" /\ writer = NoCaller
    /\ GoTo(c, IF Current(call[c].key) THEN "take" ELSE "lock")
    /\ UNCHANGED <<month, dbVars, writer, conn, master, stored>>

\* Mutant: the month is not compared again under the write lock.
LockUnchecked(c) ==
    /\ call[c].at = "lock" /\ writer = NoCaller
    /\ GoTo(c, "checkpoint") /\ writer' = c
    /\ UNCHANGED <<month, dbVars, conn, master, stored>>

Lock(c) ==
    /\ call[c].at = "lock" /\ writer = NoCaller
    /\ IF Current(call[c].key)
       THEN GoTo(c, "take") /\ UNCHANGED writer
       ELSE GoTo(c, "checkpoint") /\ writer' = c
    /\ UNCHANGED <<month, dbVars, conn, master, stored>>

\* The checkpoint needs the connection: it waits, under the lock, for the
\* transaction that runs.
Checkpoint(c) ==
    /\ call[c].at = "checkpoint" /\ conn = NoCaller
    /\ GoTo(c, "open")
    /\ UNCHANGED <<month, dbVars, writer, conn, master, stored>>

\* Close, sql.Open, migration: a shard that exists keeps its rows.
Open(c) ==
    /\ call[c].at = "open"
    /\ curMonth' = call[c].key /\ files' = files \cup {call[c].key}
    /\ back' = (back \/ call[c].key < curMonth)
    /\ conn' = NoCaller /\ writer' = NoCaller
    /\ call' = [d \in Callers |->
                  IF d = c THEN [call[d] EXCEPT !.at = "take"]
                  ELSE [call[d] EXCEPT !.closed = @ \/ call[d].at \in Working]]
    /\ UNCHANGED <<month, master, stored>>

\* The second read lock of getCodesDB.
Take(c) ==
    /\ call[c].at = "take" /\ writer = NoCaller
    /\ call' = [call EXCEPT ![c].at = "begin", ![c].shard = curMonth]
    /\ UNCHANGED <<month, dbVars, writer, conn, master, stored>>

-----------------------------------------------------------------------------
\* The call ends; a list closes the rows of the master database.
Return(c) ==
    /\ call' = [call EXCEPT ![c] = Idle]
    /\ master' = IF master = c THEN NoCaller ELSE master

\* Begin, Exec or Query, which fails on a closed database.
Acquire(c) ==
    /\ call[c].at = "begin"
    /\ \/ call[c].closed /\ Return(c) /\ UNCHANGED conn
       \/ /\ ~call[c].closed /\ conn = NoCaller
          /\ conn' = c /\ GoTo(c, "transact")
          /\ UNCHANGED master
    /\ UNCHANGED <<month, dbVars, writer, stored>>

\* Mutant: the cursor of a query stays open.
Leak(c) == UNCHANGED conn

Release(c) == conn' = IF conn = c THEN NoCaller ELSE conn

\* An update adds codes, or leaves the set of codes as it is; a list only reads.
Finish(c) ==
    /\ Return(c)
    /\ \/ /\ call[c].op = "update"
          /\ \E new \in SUBSET Codes :
                stored' = [stored EXCEPT ![call[c].shard] = @ \cup new]
       \/ call[c].op = "list" /\ UNCHANGED stored

\* A reconciliation has committed and counts in a query of its own.
Committed(c) ==
    /\ call[c].op = "reconcile" /\ GoTo(c, "count")
    /\ UNCHANGED <<master, stored>>

\* A passport that finds nothing goes on to the archives.
Search(c) ==
    /\ call[c].op = "passport"
    /\ IF call[c].code \in stored[call[c].shard] THEN Return(c)
       ELSE GoTo(c, "archives") /\ UNCHANGED master
    /\ UNCHANGED stored

Transact(c) ==
    /\ call[c].at = "transact"
    /\ Release(c)
    /\ Finish(c) \/ Committed(c) \/ Search(c)
    /\ UNCHANGED <<month, dbVars, writer>>

\* Also an error ends the call: the handler then reports nothing returned.
Count(c) ==
    /\ call[c].at = "count"
    /\ call[c].closed \/ conn = NoCaller
    /\ Return(c)
    /\ UNCHANGED <<month, dbVars, writer, conn, stored>>

\* Mutant: the month a call began in is skipped.
OtherMonths(c) == files \ {call[c].key}

\* Every file but that of s.curMonth, which is read without the lock.
Archived(c) == files \ {curMonth}

\* The code is searched for there; the call ends, with it or with "not found".
Archives(c) ==
    /\ call[c].at = "archives"
    /\ Return(c)
    /\ UNCHANGED <<month, dbVars, writer, conn, stored>>

-----------------------------------------------------------------------------
Turn ==
    /\ month < MaxMonth /\ month' = month + 1
    /\ UNCHANGED <<dbVars, writer, conn, master, call, stored>>

GetCodesDB(c) == Check(c) \/ Lock(c) \/ Checkpoint(c) \/ Open(c) \/ Take(c)
Query(c) == Acquire(c) \/ Transact(c) \/ Count(c) \/ Archives(c)

Next == Turn \/ \E c \in Callers : Begin(c) \/ GetCodesDB(c) \/ Query(c)

Spec == Init /\ [][Next]_vars

-----------------------------------------------------------------------------
Calls == [at : {"idle"} \cup Rotating \cup Working, op : Operations,
          code : Codes \cup {NoCode}, key : Months, shard : Months,
          closed : BOOLEAN, young : BOOLEAN, known : BOOLEAN]

TypeOK ==
    /\ month \in Months /\ curMonth \in Months /\ files \subseteq Months
    /\ back \in BOOLEAN
    /\ writer \in Callers \cup {NoCaller} /\ conn \in Callers \cup {NoCaller}
    /\ master \in Callers \cup {NoCaller}
    /\ call \in [Callers -> Calls]
    /\ stored \in [Months -> SUBSET Codes]

\* A call that begins when no call of an earlier month is under way never works
\* on an earlier month's codes.  (One that begins beside such a call may: the
\* old call takes the store back to the month it has read, storage.go:76.)
NoStepBack ==
    \A c \in Callers :
        call[c].young /\ call[c].at \in Working => call[c].shard >= call[c].key

\* A call loses its database only to that of another month: two calls that
\* find the month turned do not close each other's.
ClosedForAnotherMonth ==
    [][\A c \in Callers : ~call[c].closed /\ call'[c].closed => curMonth' # curMonth]_vars

\* A code that was in the store when the search began is found, in whatever
\* month the search ends (as long as the store goes forward): the one file
\* that is left out has been searched, or is newer than the code.
PassportFinds ==
    ~back => \A c \in Callers :
        call[c].at = "archives" /\ call[c].known
            => \E m \in Archived(c) : call[c].code \in stored[m]

\* Whom the next step of a call waits for: who has the lock, or the connection.
WaitsFor(c) ==
    {d \in Callers :
        \/ d = writer /\ call[c].at \in {"check", "lock", "take"}
        \/ /\ d = conn
           /\ \/ call[c].at = "checkpoint"
              \/ call[c].at \in {"begin", "count"} /\ ~call[c].closed}

\* The waits for the lock and for the connection of the month never close a
\* circle: whoever keeps a call waiting is under way, and waits at most for
\* one who waits for nobody.  As no call goes back, every call returns, and
\* with it the connection of the master database that a list has.
WaitsEnd ==
    \A c \in Callers : \A d \in WaitsFor(c) :
        /\ UnderWay(d)
        /\ \A e \in WaitsFor(d) : UnderWay(e) /\ WaitsFor(e) = {}
===============================================================================

---------------------------- MODULE ConnectionPool ----------------------------
(***************************************************************************)
(* src/db: MySQLPool hands database connections to goroutines; each runs   *)
(* one statement on its connection (MySQLDriver) and gives it back         *)
(* (QueryBuilder).                                                         *)
(*                                                                         *)
(* The non-blocking client wants every operation on a connection finished, *)
(* and every result stored, before the next statement.  Meanwhile the      *)
(* goroutine waits for the socket (Netpoller.tla).  acquire() and          *)
(* release() are critical sections of one spinlock, a step each.           *)
(***************************************************************************)
EXTENDS Naturals, Sequences, Queues

CONSTANTS
  Goroutine,   \* the goroutines that use the database
  Size,        \* how many connections init() tries to open
  Nobody       \* a result without rows

ASSUME SizeAssumption == Size \in Nat
ASSUME NobodyAssumption == Nobody \notin Goroutine

Driver == 1..Size

NoDriver == 0    \* nullptr

VARIABLES
  pool,      \* pool_
  capacity,  \* capacity_
  drv,       \* the local drv of each goroutine
  pc,        \* where each goroutine is
  pending,   \* external: an operation on the connection is not finished
  unread,    \* external: the connection holds a result that is not stored
  ran,       \* external: whose statement the connection has run last
  rows,      \* the local result of each goroutine: whose statement it is of
  aborted    \* the assertion of get_driver_safely() failed

connection == <<pending, unread, ran>>
vars == <<pool, capacity, drv, pc, connection, rows, aborted>>

\* "select", "insert": a connection is acquired.  "query", "update", "store":
\* in the loop of that operation.  "queried": execute_query has run the
\* statement.  "stored", "updated": the driver call has returned.  "rows":
\* model() has given the connection back and converts the rows.
PoolPC == {"idle", "select", "insert", "query", "queried", "store", "stored",
           "update", "updated", "rows"}

TypeOK ==
  /\ pool \in Seq(Driver)
  /\ capacity \in 0..Size
  /\ drv \in [Goroutine -> Driver \cup {NoDriver}]
  /\ pc \in [Goroutine -> PoolPC]
  /\ pending \in [Driver -> BOOLEAN]
  /\ unread \in [Driver -> BOOLEAN]
  /\ ran \in [Driver -> Goroutine \cup {Nobody}]
  /\ rows \in [Goroutine -> Goroutine \cup {Nobody}]
  /\ aborted \in BOOLEAN

\* init(): some of the connections could be opened, in this order.
Init ==
  /\ capacity \in 0..Size
  /\ pool = [i \in 1..capacity |-> i]
  /\ drv = [g \in Goroutine |-> NoDriver]
  /\ pc = [g \in Goroutine |-> "idle"]
  /\ pending = [d \in Driver |-> FALSE]
  /\ unread = [d \in Driver |-> FALSE]
  /\ ran = [d \in Driver |-> Nobody]
  /\ rows = [g \in Goroutine |-> Nobody]
  /\ aborted = FALSE

Moves(g, from, to) ==
  ~aborted /\ pc[g] = from /\ pc' = [pc EXCEPT ![g] = to]

-----------------------------------------------------------------------------
\* Faulty: front() without pop().
Acquire_front(g, statement) ==
  /\ Moves(g, "idle", statement)
  /\ pool # <<>>
  /\ drv' = [drv EXCEPT ![g] = Head(pool)]
  /\ UNCHANGED <<pool, capacity, connection, rows, aborted>>

\* acquire(), from model() or from insert().
Acquire(g, statement) ==
  /\ Moves(g, "idle", statement)
  /\ pool # <<>>
  /\ drv' = [drv EXCEPT ![g] = Head(pool)]
  /\ pool' = Tail(pool)
  /\ UNCHANGED <<capacity, connection, rows, aborted>>

\* acquire() returns nullptr, and the assertion ends the process.
AcquireFails(g) ==
  /\ Moves(g, "idle", "idle")
  /\ pool = <<>>
  /\ aborted' = TRUE
  /\ UNCHANGED <<pool, capacity, drv, connection, rows>>

\* The _start call of an operation, and the waits for the socket after it.
Operates(g, from, to) ==
  /\ Moves(g, from, to)
  /\ pending' = [pending EXCEPT ![drv[g]] = TRUE]
  /\ ran' = IF from = "queried" THEN ran ELSE [ran EXCEPT ![drv[g]] = g]
  /\ UNCHANGED <<pool, capacity, drv, unread, rows, aborted>>

Starts(g) ==
  \/ Operates(g, "select", "query")
  \/ Operates(g, "insert", "update")
  \/ Operates(g, "queried", "store")

\* The last _cont call.  A statement that succeeds may leave a result.
Completes(g, from, to, result) ==
  /\ Moves(g, from, to)
  /\ pending' = [pending EXCEPT ![drv[g]] = FALSE]
  /\ unread' = [unread EXCEPT ![drv[g]] = result]
  /\ UNCHANGED <<pool, capacity, drv, ran, aborted>>

\* Faulty: execute_query leaves the result where it is.
QueryDone_unread(g) ==
  /\ \E result \in BOOLEAN : Completes(g, "query", "stored", result)
  /\ UNCHANGED rows

\* execute_query does not look at err; it stores the result, if there is one.
QueryDone(g) ==
  /\ \E result \in BOOLEAN : Completes(g, "query", "queried", result)
  /\ UNCHANGED rows

\* The rows of a result are in the client's memory and belong to the caller's
\* QueryResult; without a result there are none.
StoreDone(g) ==
  /\ Completes(g, "store", "stored", FALSE)
  /\ rows' = [rows EXCEPT ![g] =
                IF unread[drv[g]] THEN ran[drv[g]] ELSE Nobody]

\* Faulty: insert() returns at once when the statement fails.
UpdateDone_returns(g) ==
  \/ Completes(g, "update", "updated", FALSE) /\ UNCHANGED rows
  \/ /\ Moves(g, "update", "idle")
     /\ pending' = [pending EXCEPT ![drv[g]] = FALSE]
     /\ drv' = [drv EXCEPT ![g] = NoDriver]
     /\ UNCHANGED <<pool, capacity, unread, ran, rows, aborted>>

\* An INSERT leaves no result; err only decides the value returned.
UpdateDone(g) == Completes(g, "update", "updated", FALSE) /\ UNCHANGED rows

\* release(): the connection goes to the end of the queue.
Release(g) ==
  /\ Moves(g, "stored", "rows") \/ Moves(g, "updated", "idle")
  /\ pool' = Append(pool, drv[g])
  /\ drv' = [drv EXCEPT ![g] = NoDriver]
  /\ UNCHANGED <<capacity, connection, rows, aborted>>

\* model() converts the rows, and its result is freed.
Converts(g) ==
  /\ Moves(g, "rows", "idle")
  /\ rows' = [rows EXCEPT ![g] = Nobody]
  /\ UNCHANGED <<pool, capacity, drv, connection, aborted>>

Use(g) == Starts(g) \/ QueryDone(g) \/ StoreDone(g) \/ UpdateDone(g)

Next ==
  \E g \in Goroutine :
     \/ \E statement \in {"select", "insert"} : Acquire(g, statement)
     \/ AcquireFails(g) \/ Use(g) \/ Release(g) \/ Converts(g)

Spec == Init /\ [][Next]_vars

-----------------------------------------------------------------------------
(***************************************************************************)
(* Properties.                                                             *)
(***************************************************************************)

\* A connection is used by one goroutine at a time, and is not in the pool
\* while it is used.
ExclusiveUse ==
  /\ Distinct(pool)
  /\ \A g, h \in Goroutine :
       drv[g] # NoDriver => ~In(pool, drv[g]) /\ (drv[g] = drv[h] => g = h)

\* No error path loses a connection: the opened ones are in the pool or in use.
NoneLeaked ==
  \A d \in 1..capacity : In(pool, d) \/ \E g \in Goroutine : drv[g] = d

\* Each opened connection is in one place, in the pool or with a goroutine.
OnePlace == ExclusiveUse /\ NoneLeaked

\* A connection is given back with its operation finished and its result
\* stored: the next goroutine's statement never follows half of another.
PooledIsIdle ==
  \A d \in Driver : In(pool, d) => ~pending[d] /\ ~unread[d]

\* The rows that model() converts are those of its own statement, although it
\* does so when its connection may be running somebody else's.
RowsAreOwn == \A g \in Goroutine : pc[g] = "rows" => rows[g] \in {g, Nobody}

=============================================================================

------------------------- MODULE ConnectionPoolProofs -------------------------
(***************************************************************************)
(* Proofs about ConnectionPool.tla, for every number of goroutines and of  *)
(* connections.                                                            *)
(***************************************************************************)
EXTENDS ConnectionPool, TLAPS

\* A goroutine has a connection exactly while it is inside model() or insert().
Holding ==
  \A g \in Goroutine : drv[g] = NoDriver <=> pc[g] \in {"idle", "rows"}

\* Where a goroutine neither operates on its connection nor has left a result.
Clean ==
  \A g \in Goroutine :
     pc[g] \in {"select", "insert", "stored", "updated"} =>
       ~pending[drv[g]] /\ ~unread[drv[g]]

\* From the start of its SELECT to the end of the store, a goroutine's
\* connection has run no other statement; the rows it keeps are its own.
Own ==
  \A g \in Goroutine :
     /\ pc[g] \in {"query", "queried", "store"} => ran[drv[g]] = g
     /\ rows[g] \in {g, Nobody}

IInv ==
  /\ TypeOK /\ Holding /\ ExclusiveUse /\ NoneLeaked /\ PooledIsIdle /\ Clean
  /\ Own

LEMMA InitIInv == Init => IInv
<1> SUFFICES ASSUME Init PROVE IInv
  OBVIOUS
<1> USE SizeAssumption
<1>1. capacity \in 0..Size /\ capacity \in Nat /\ capacity <= Size
  BY DEF Init
<1>2. /\ pool \in Seq(Driver)
      /\ Len(pool) = capacity
      /\ \A i \in 1..Len(pool) : pool[i] = i
  BY <1>1 DEF Init, Driver
<1>3. TypeOK
  BY <1>1, <1>2 DEF Init, TypeOK, PoolPC
<1>4. Distinct(pool) /\ \A d \in 1..capacity : In(pool, d)
  BY <1>2 DEF Distinct, In
<1>5. ExclusiveUse /\ NoneLeaked
  BY <1>4 DEF Init, ExclusiveUse, NoneLeaked
<1>6. Holding /\ PooledIsIdle /\ Clean /\ Own
  BY DEF Init, Holding, PooledIsIdle, Clean, Own
<1>7. QED
  BY <1>3, <1>5, <1>6 DEF IInv

\* The two halves of an operation touch the goroutine's own connection only.
LEMMA OperatesIInv ==
  ASSUME IInv, NEW g \in Goroutine, NEW from, NEW to \in {"query", "update", "store"},
         from \notin {"idle", "rows"}, to = "store" <=> from = "queried",
         Operates(g, from, to)
  PROVE  IInv'
<1> USE DEF IInv, Operates, Moves
<1>1. drv[g] \in Driver /\ ~In(pool, drv[g])
  BY DEF TypeOK, Holding, ExclusiveUse
<1>2. \A h \in Goroutine :
        h # g /\ pc[h] \notin {"idle", "rows"} => drv[h] # drv[g]
  BY <1>1 DEF Holding, ExclusiveUse, NoDriver, Driver
<1>3. TypeOK'
  BY <1>1 DEF TypeOK, PoolPC
<1>4. Holding'
  BY DEF TypeOK, Holding
<1>5. ExclusiveUse' /\ NoneLeaked'
  BY DEF ExclusiveUse, NoneLeaked
<1>6. PooledIsIdle'
  BY <1>1 DEF TypeOK, PooledIsIdle
<1>7. Clean'
  <2> SUFFICES ASSUME NEW h \in Goroutine,
                      pc'[h] \in {"select", "insert", "stored", "updated"}
               PROVE  ~pending'[drv[h]] /\ ~unread[drv[h]]
    BY DEF Clean
  <2>1. h # g /\ pc'[h] = pc[h]
    BY DEF TypeOK
  <2>2. drv[h] \in Driver /\ drv[h] # drv[g]
    BY <2>1, <1>2 DEF TypeOK, Holding
  <2>3. QED
    BY <2>1, <2>2 DEF Clean, TypeOK
<1>8. Own'
  <2> SUFFICES ASSUME NEW h \in Goroutine
               PROVE  /\ pc'[h] \in {"query", "queried", "store"} =>
                           ran'[drv[h]] = h
                      /\ rows[h] \in {h, Nobody}
    BY DEF Own
  <2>1. rows[h] \in {h, Nobody}
    BY DEF Own
  <2>2. CASE h = g
    BY <2>1, <2>2, <1>1 DEF TypeOK, Own
  <2>3. CASE h # g /\ pc'[h] \in {"query", "queried", "store"}
    <3>1. pc[h] = pc'[h] /\ drv[h] \in Driver /\ drv[h] # drv[g]
      BY <2>3, <1>2 DEF TypeOK, Holding
    <3>2. QED
      BY <2>1, <2>3, <3>1 DEF TypeOK, Own
  <2>4. QED
    BY <2>1, <2>2, <2>3
<1>9. QED
  BY <1>3, <1>4, <1>5, <1>6, <1>7, <1>8

\* The end of an operation.  rows' is any that is the goroutine's own.
LEMMA CompletesIInv ==
  ASSUME IInv, NEW g \in Goroutine, NEW from,
         NEW to \in {"queried", "stored", "updated"}, NEW result \in BOOLEAN,
         from \notin {"idle", "rows"}, to = "queried" <=> from = "query",
         to # "queried" => ~result,
         Completes(g, from, to, result),
         NEW mine \in {g, Nobody}, rows' = [rows EXCEPT ![g] = mine]
  PROVE  IInv'
<1> USE DEF IInv, Completes, Moves
<1>1. drv[g] \in Driver /\ ~In(pool, drv[g])
  BY DEF TypeOK, Holding, ExclusiveUse
<1>2. \A h \in Goroutine :
        h # g /\ pc[h] \notin {"idle", "rows"} => drv[h] # drv[g]
  BY <1>1 DEF Holding, ExclusiveUse, NoDriver, Driver
<1>3. TypeOK'
  BY <1>1 DEF TypeOK, PoolPC
<1>4. Holding'
  BY DEF TypeOK, Holding
<1>5. ExclusiveUse' /\ NoneLeaked'
  BY DEF ExclusiveUse, NoneLeaked
<1>6. PooledIsIdle'
  BY <1>1 DEF TypeOK, PooledIsIdle
<1>7. Clean'
  <2> SUFFICES ASSUME NEW h \in Goroutine,
                      pc'[h] \in {"select", "insert", "stored", "updated"}
               PROVE  ~pending'[drv[h]] /\ ~unread'[drv[h]]
    BY DEF Clean
  <2>1. CASE h = g
    BY <2>1, <1>1 DEF TypeOK
  <2>2. CASE h # g
    <3>1. pc'[h] = pc[h] /\ drv[h] \in Driver /\ drv[h] # drv[g]
      BY <2>2, <1>2 DEF TypeOK, Holding
    <3>2. QED
      BY <3>1 DEF Clean, TypeOK
  <2>3. QED
    BY <2>1, <2>2
<1>8. Own'
  BY DEF TypeOK, Own
<1>9. QED
  BY <1>3, <1>4, <1>5, <1>6, <1>7, <1>8

LEMMA AcquireIInv ==
  ASSUME IInv, NEW g \in Goroutine, NEW statement \in {"select", "insert"},
         Acquire(g, statement)
  PROVE  IInv'
<1> DEFINE d == Head(pool)
<1> USE DEF IInv, Acquire, Moves, connection
<1>1. /\ Tail(pool) \in Seq(Driver)
      /\ d \in Driver
      /\ In(pool, d)
      /\ Distinct(Tail(pool))
      /\ \A y : In(Tail(pool), y) <=> In(pool, y) /\ y # d
  BY PopProperties DEF TypeOK, ExclusiveUse
<1>2. /\ pool' = Tail(pool)
      /\ drv' = [drv EXCEPT ![g] = d]
      /\ pc' = [pc EXCEPT ![g] = statement]
      /\ drv[g] = NoDriver
  BY DEF Holding
<1> HIDE DEF d
<1>3. TypeOK'
  BY <1>1, <1>2 DEF TypeOK, PoolPC
<1>4. Holding'
  BY <1>1, <1>2 DEF TypeOK, Holding, NoDriver, Driver
<1>5. \A h \in Goroutine : drv[h] # NoDriver => drv[h] # d
  BY <1>1 DEF ExclusiveUse
<1>6. ExclusiveUse'
  BY <1>1, <1>2, <1>5 DEF TypeOK, ExclusiveUse
<1>7. NoneLeaked'
  <2> SUFFICES ASSUME NEW e \in 1..capacity
               PROVE  In(pool', e) \/ \E h \in Goroutine : drv'[h] = e
    BY DEF NoneLeaked
  <2>1. CASE e = d
    BY <2>1, <1>2 DEF TypeOK
  <2>2. CASE e # d /\ In(pool, e)
    BY <2>2, <1>1, <1>2
  <2>3. CASE \E h \in Goroutine : drv[h] = e
    <3>1. PICK h \in Goroutine : drv[h] = e
      BY <2>3
    <3>2. e # NoDriver
      BY SizeAssumption DEF TypeOK, NoDriver
    <3>3. drv'[h] = e
      BY <3>1, <3>2, <1>2 DEF TypeOK
    <3>4. QED
      BY <3>3
  <2>4. QED
    BY <2>1, <2>2, <2>3 DEF NoneLeaked
<1>8. PooledIsIdle'
  BY <1>1, <1>2 DEF PooledIsIdle
<1>9. Clean'
  BY <1>1, <1>2 DEF TypeOK, Clean, PooledIsIdle
<1>10. Own'
  BY <1>2 DEF TypeOK, Own
<1>11. QED
  BY <1>3, <1>4, <1>6, <1>7, <1>8, <1>9, <1>10

LEMMA ReleaseIInv ==
  ASSUME IInv, NEW g \in Goroutine, Release(g)
  PROVE  IInv'
<1> DEFINE d == drv[g]
<1> USE DEF IInv, Release, Moves, connection
<1>1. d \in Driver /\ d # NoDriver /\ ~In(pool, d)
  BY DEF TypeOK, Holding, ExclusiveUse
<1>2. /\ Append(pool, d) \in Seq(Driver)
      /\ Distinct(Append(pool, d))
      /\ \A y : In(Append(pool, d), y) <=> In(pool, y) \/ y = d
  BY <1>1, PushProperties DEF TypeOK, ExclusiveUse
<1>3. /\ pool' = Append(pool, d)
      /\ drv' = [drv EXCEPT ![g] = NoDriver]
      /\ \E to \in {"idle", "rows"} : pc' = [pc EXCEPT ![g] = to]
      /\ ~pending[d] /\ ~unread[d]
  BY DEF Clean
<1>4. \A h \in Goroutine : drv[h] = d => h = g
  BY <1>1 DEF ExclusiveUse
<1> HIDE DEF d
<1>5. TypeOK'
  BY <1>2, <1>3 DEF TypeOK, PoolPC
<1>6. Holding'
  BY <1>3 DEF TypeOK, Holding
<1>7. ExclusiveUse'
  BY <1>2, <1>3, <1>4 DEF TypeOK, ExclusiveUse
<1>8. NoneLeaked'
  <2> SUFFICES ASSUME NEW e \in 1..capacity
               PROVE  In(pool', e) \/ \E h \in Goroutine : drv'[h] = e
    BY DEF NoneLeaked
  <2>1. CASE e = d \/ In(pool, e)
    BY <2>1, <1>2, <1>3
  <2>2. CASE e # d /\ \E h \in Goroutine : drv[h] = e
    <3>1. PICK h \in Goroutine : drv[h] = e
      BY <2>2
    <3>2. h # g
      BY <3>1, <2>2 DEF d
    <3>3. drv'[h] = e
      BY <3>1, <3>2, <1>3 DEF TypeOK
    <3>4. QED
      BY <3>3
  <2>3. QED
    BY <2>1, <2>2 DEF NoneLeaked
<1>9. PooledIsIdle'
  BY <1>2, <1>3 DEF PooledIsIdle
<1>10. Clean'
  BY <1>3 DEF TypeOK, Clean
<1>11. Own'
  BY <1>3 DEF TypeOK, Holding, Own
<1>12. QED
  BY <1>5, <1>6, <1>7, <1>8, <1>9, <1>10, <1>11

LEMMA ConvertsIInv ==
  ASSUME IInv, NEW g \in Goroutine, Converts(g)
  PROVE  IInv'
<1>1. /\ pc' = [pc EXCEPT ![g] = "idle"] /\ pc[g] = "rows"
      /\ rows' = [rows EXCEPT ![g] = Nobody]
      /\ UNCHANGED <<pool, capacity, drv, pending, unread, ran, aborted>>
  BY DEF Converts, Moves, connection
<1>2. TypeOK' /\ Holding' /\ Clean' /\ Own'
  BY <1>1 DEF IInv, TypeOK, PoolPC, Holding, Clean, Own
<1>3. ExclusiveUse' /\ NoneLeaked' /\ PooledIsIdle'
  BY <1>1 DEF IInv, ExclusiveUse, NoneLeaked, PooledIsIdle
<1>4. QED
  BY <1>2, <1>3 DEF IInv

LEMMA StepIInv == IInv /\ [Next]_vars => IInv'
<1> SUFFICES ASSUME IInv, [Next]_vars PROVE IInv'
  OBVIOUS
<1>1. ASSUME NEW g \in Goroutine, NEW statement \in {"select", "insert"},
             Acquire(g, statement)
      PROVE  IInv'
  BY <1>1, AcquireIInv
<1>2. ASSUME NEW g \in Goroutine, AcquireFails(g) PROVE IInv'
  <2>1. /\ UNCHANGED <<pool, capacity, drv, pc, connection, rows>>
        /\ aborted' = TRUE
    BY <1>2 DEF AcquireFails, Moves, IInv, TypeOK, connection
  <2>2. QED
    BY <2>1 DEF IInv, TypeOK, Holding, ExclusiveUse, NoneLeaked, PooledIsIdle,
                Clean, Own, connection
<1>3. ASSUME NEW g \in Goroutine, Starts(g) PROVE IInv'
  BY <1>3, OperatesIInv DEF Starts
<1>4. ASSUME NEW g \in Goroutine,
             QueryDone(g) \/ UpdateDone(g) \/ StoreDone(g)
      PROVE  IInv'
  <2>1. rows[g] \in {g, Nobody} /\ rows = [rows EXCEPT ![g] = rows[g]]
    BY DEF IInv, TypeOK, Own
  <2>2. CASE QueryDone(g)
    <3>1. PICK result \in BOOLEAN : Completes(g, "query", "queried", result)
      BY <2>2 DEF QueryDone
    <3>2. QED
      BY <3>1, <2>1, <2>2, CompletesIInv DEF QueryDone
  <2>3. CASE UpdateDone(g)
    BY <2>1, <2>3, CompletesIInv DEF UpdateDone
  <2>4. CASE StoreDone(g)
    <3>1. ran[drv[g]] = g
      BY <2>4 DEF StoreDone, Completes, Moves, IInv, Own
    <3>2. \E mine \in {g, Nobody} : rows' = [rows EXCEPT ![g] = mine]
      BY <3>1, <2>4 DEF StoreDone
    <3>3. Completes(g, "store", "stored", FALSE)
      BY <2>4 DEF StoreDone
    <3>4. QED
      BY <3>2, <3>3, CompletesIInv
  <2>5. QED
    BY <1>4, <2>2, <2>3, <2>4
<1>5. ASSUME NEW g \in Goroutine, Converts(g) PROVE IInv'
  BY <1>5, ConvertsIInv
<1>6. ASSUME NEW g \in Goroutine, Release(g) PROVE IInv'
  BY <1>6, ReleaseIInv
<1>7. CASE UNCHANGED vars
  BY <1>7 DEF IInv, TypeOK, Holding, ExclusiveUse, NoneLeaked, PooledIsIdle,
              Clean, Own, vars, connection
<1>8. QED
  BY <1>1, <1>2, <1>3, <1>4, <1>5, <1>6, <1>7 DEF Next, Use

-----------------------------------------------------------------------------
\* The inductive invariant holds throughout.
LEMMA InvariantIInv == Spec => []IInv
  BY InitIInv, StepIInv, PTL DEF Spec

\* The variables keep their types.
THEOREM TypeCorrect == Spec => []TypeOK
  BY InvariantIInv, PTL DEF IInv

\* No two goroutines ever have one connection, none has a connection that lies
\* in the pool, and no path through model() or insert() loses one.
THEOREM Conservation == Spec => []OnePlace
  BY InvariantIInv, PTL DEF IInv, OnePlace

\* The rows that model() converts are those of its own statement.
THEOREM OwnRows == Spec => []RowsAreOwn
<1>1. IInv => RowsAreOwn
  BY DEF IInv, Own, RowsAreOwn
<1>2. QED
  BY <1>1, InvariantIInv, PTL

\* A connection in the pool has no operation under way and no result unread.
THEOREM CleanReturn == Spec => []PooledIsIdle
  BY InvariantIInv, PTL DEF IInv

=============================================================================

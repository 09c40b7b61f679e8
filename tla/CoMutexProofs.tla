----------------------------- MODULE CoMutexProofs -----------------------------
(***************************************************************************)
(* Proofs about CoMutex: mutual exclusion for every number of goroutines,  *)
(* that locked_ is set exactly while one goroutine owns the mutex, and     *)
(* that it uses the runtime as the contract of Goroutines allows.          *)
(*                                                                         *)
(* Mutual exclusion is not inductive: unlock() leaves locked_ set for a    *)
(* goroutine that is nowhere but in next_g, then in the ready queue.  The  *)
(* invariant follows the mutex through these places.                       *)
(***************************************************************************)
EXTENDS CoMutex, TLAPS

\* A queued goroutine is blocked in lock(), registered, and queued once.
QueueOK ==
  /\ Distinct(waiting_gs)
  /\ \A g \in Goroutine :
       /\ Queued(g) => pc[g] = "waiting" /\ handle[g] = "registered"
       /\ pc[g] = "waiting" => fiber[g] \in {"parking", "suspended"}

\* The goroutine that unlock() has taken out of the queue is still registered:
\* only the one goroutine in "wake" can push it.
NextOK ==
  /\ \A g \in Goroutine : pc[g] = "wake" =>
       /\ next_g[g] \in Goroutine
       /\ pc[next_g[g]] = "waiting"
       /\ ~Queued(next_g[g])
       /\ handle[next_g[g]] = "registered"
  /\ \A g, h \in Goroutine : pc[g] = "wake" /\ pc[h] = "wake" => g = h

IInv == TypeOK /\ QueueOK /\ NextOK /\ LockedIffOwned

-----------------------------------------------------------------------------

\* The mutex starts free, with no one in its queue.
LEMMA Initially == Init => IInv
<1> SUFFICES ASSUME Init PROVE IInv
  OBVIOUS
<1>1. TypeOK
  <2>1. RuntimeTypeOK
    BY DEF Init, RuntimeInit, RuntimeTypeOK, FiberState, HandleState
  <2>2. waiting_gs \in Seq(Goroutine)
    BY DEF Init
  <2>3. pc \in [Goroutine -> MutexPC]
    BY DEF Init, MutexPC
  <2>4. QED
    BY <2>1, <2>2, <2>3 DEF Init, TypeOK
<1>2. Len(waiting_gs) = 0 /\ \A g : ~Queued(g)
  <2>1. Len(waiting_gs) = 0
    BY DEF Init
  <2>2. QED
    BY <2>1 DEF Queued, In
<1>3. \A g \in Goroutine : pc[g] = "idle"
  BY DEF Init
<1>4. QueueOK /\ NextOK
  BY <1>2, <1>3 DEF QueueOK, NextOK, Distinct
<1>5. LockedIffOwned
  BY <1>3 DEF Init, LockedIffOwned, Owner
<1>6. QED
  BY <1>1, <1>4, <1>5 DEF IInv

\* Every variable keeps its type.
LEMMA TypeStep == IInv /\ [Next]_vars => TypeOK'
<1> SUFFICES ASSUME IInv, [Next]_vars PROVE TypeOK'
  OBVIOUS
<1> USE DEF IInv, TypeOK, RuntimeTypeOK, FiberState, HandleState, MutexPC,
        Moves, Register, PushReady, gvars, mvars
<1>1. ASSUME NEW g \in Goroutine, Acquire(g) PROVE TypeOK'
  BY <1>1 DEF Acquire, try_lock
<1>2. ASSUME NEW g \in Goroutine, Contend(g) PROVE TypeOK'
  BY <1>2 DEF Contend
<1>3. ASSUME NEW g \in Goroutine, Enqueue(g) PROVE TypeOK'
  BY <1>3, PushProperties DEF Enqueue
<1>4. ASSUME NEW g \in Goroutine, HandOff(g) PROVE TypeOK'
  BY <1>4, PopProperties DEF HandOff
<1>5. ASSUME NEW g \in Goroutine, Release(g) PROVE TypeOK'
  BY <1>5 DEF Release
<1>6. ASSUME NEW g \in Goroutine, WakeNext(g) PROVE TypeOK'
  BY <1>6 DEF WakeNext
<1>7. ASSUME NEW g \in Goroutine, Schedule(g) PROVE TypeOK'
  BY <1>7 DEF Schedule, Resume
<1>8. ASSUME NEW g \in Goroutine, Start(g) PROVE TypeOK'
  BY <1>8 DEF Start, Go
<1>9. ASSUME NEW g \in Goroutine, Suspend(g) PROVE TypeOK'
  BY <1>9 DEF Suspend, Yield
<1>10. ASSUME NEW g \in Goroutine, Return(g) PROVE TypeOK'
  BY <1>10 DEF Return, Finish
<1>11. CASE UNCHANGED vars
  BY <1>11 DEF vars
<1>12. QED
  BY <1>1, <1>2, <1>3, <1>4, <1>5, <1>6, <1>7, <1>8, <1>9, <1>10, <1>11
  DEF Next, Proceed

\* Only the goroutine itself joins the queue, and it leaves it before it runs.
LEMMA QueueOKStep == IInv /\ [Next]_vars => QueueOK'
<1> SUFFICES ASSUME IInv, [Next]_vars PROVE QueueOK'
  OBVIOUS
<1> USE NoGoroutineAssumption
    DEF IInv, TypeOK, RuntimeTypeOK, QueueOK, NextOK, LockedIffOwned, Owner,
        Moves, Running, Register, PushReady, gvars, mvars
<1>1. ASSUME NEW g \in Goroutine, Acquire(g) PROVE QueueOK'
  BY <1>1 DEF Acquire, try_lock, Queued
<1>2. ASSUME NEW g \in Goroutine, Contend(g) PROVE QueueOK'
  BY <1>2 DEF Contend, Queued
<1>3. ASSUME NEW g \in Goroutine, Enqueue(g) PROVE QueueOK'
  <2>1. ~Queued(g)
    BY <1>3 DEF Enqueue
  <2>2. /\ \A h : Queued(h)' <=> Queued(h) \/ h = g
        /\ Distinct(waiting_gs)'
    BY <1>3, <2>1, PushProperties DEF Enqueue, Queued
  <2>3. QED
    BY <1>3, <2>2 DEF Enqueue
<1>4. ASSUME NEW g \in Goroutine, HandOff(g) PROVE QueueOK'
  <2>1. PICK n \in Goroutine : n = Head(waiting_gs)
    BY <1>4, PopProperties DEF HandOff
  <2>2. /\ Queued(n)
        /\ \A h : Queued(h)' <=> Queued(h) /\ h # n
        /\ Distinct(waiting_gs)'
    BY <1>4, <2>1, PopProperties DEF HandOff, Queued
  <2>3. next_g'[g] = n /\ \A h \in Goroutine \ {g} : next_g'[h] = next_g[h]
    BY <1>4, <2>1 DEF HandOff
  <2>4. QED
    BY <1>4, <2>2, <2>3 DEF HandOff
<1>5. ASSUME NEW g \in Goroutine, Release(g) PROVE QueueOK'
  <2>1. \A h : ~Queued(h)
    <3>1. Len(waiting_gs) = 0
      BY <1>5 DEF Release
    <3>2. QED
      BY <3>1 DEF Queued, In
  <2>2. QED
    BY <1>5, <2>1 DEF Release, Queued
<1>6. ASSUME NEW g \in Goroutine, WakeNext(g) PROVE QueueOK'
  BY <1>6 DEF WakeNext, Queued
<1>7. ASSUME NEW g \in Goroutine, Schedule(g) PROVE QueueOK'
  BY <1>7 DEF Schedule, Resume, Resumable, Queued
<1>8. ASSUME NEW g \in Goroutine, Start(g) PROVE QueueOK'
  BY <1>8 DEF Start, Go, Queued
<1>9. ASSUME NEW g \in Goroutine, Suspend(g) PROVE QueueOK'
  BY <1>9 DEF Suspend, Yield, Queued
<1>10. ASSUME NEW g \in Goroutine, Return(g) PROVE QueueOK'
  BY <1>10 DEF Return, Finish, Queued
<1>11. CASE UNCHANGED vars
  BY <1>11 DEF vars, Queued
<1>12. QED
  BY <1>1, <1>2, <1>3, <1>4, <1>5, <1>6, <1>7, <1>8, <1>9, <1>10, <1>11
  DEF Next, Proceed

\* While one goroutine is between unlock()'s spinlock and push_ready, nobody
\* else holds the mutex to unlock it.
LEMMA NextOKStep == IInv /\ [Next]_vars => NextOK'
<1> SUFFICES ASSUME IInv, [Next]_vars PROVE NextOK'
  OBVIOUS
<1> USE NoGoroutineAssumption
    DEF IInv, TypeOK, RuntimeTypeOK, QueueOK, NextOK, LockedIffOwned, Owner,
        Moves, Running, Register, PushReady, gvars, mvars
<1>1. ASSUME NEW g \in Goroutine, Acquire(g) PROVE NextOK'
  BY <1>1 DEF Acquire, try_lock, Queued
<1>2. ASSUME NEW g \in Goroutine, Contend(g) PROVE NextOK'
  BY <1>2 DEF Contend, Queued
<1>3. ASSUME NEW g \in Goroutine, Enqueue(g) PROVE NextOK'
  <2>1. ~Queued(g)
    BY <1>3 DEF Enqueue
  <2>2. /\ \A h : Queued(h)' <=> Queued(h) \/ h = g
        /\ Distinct(waiting_gs)'
    BY <1>3, <2>1, PushProperties DEF Enqueue, Queued
  <2>3. QED
    BY <1>3, <2>2 DEF Enqueue
<1>4. ASSUME NEW g \in Goroutine, HandOff(g) PROVE NextOK'
  <2>1. PICK n \in Goroutine : n = Head(waiting_gs)
    BY <1>4, PopProperties DEF HandOff
  <2>2. /\ Queued(n)
        /\ \A h : Queued(h)' <=> Queued(h) /\ h # n
        /\ Distinct(waiting_gs)'
    BY <1>4, <2>1, PopProperties DEF HandOff, Queued
  <2>3. next_g'[g] = n /\ \A h \in Goroutine \ {g} : next_g'[h] = next_g[h]
    BY <1>4, <2>1 DEF HandOff
  <2>4. QED
    BY <1>4, <2>2, <2>3 DEF HandOff
<1>5. ASSUME NEW g \in Goroutine, Release(g) PROVE NextOK'
  <2>1. \A h : ~Queued(h)
    <3>1. Len(waiting_gs) = 0
      BY <1>5 DEF Release
    <3>2. QED
      BY <3>1 DEF Queued, In
  <2>2. QED
    BY <1>5, <2>1 DEF Release, Queued
<1>6. ASSUME NEW g \in Goroutine, WakeNext(g) PROVE NextOK'
  BY <1>6 DEF WakeNext, Queued
<1>7. ASSUME NEW g \in Goroutine, Schedule(g) PROVE NextOK'
  BY <1>7 DEF Schedule, Resume, Resumable, Queued
<1>8. ASSUME NEW g \in Goroutine, Start(g) PROVE NextOK'
  BY <1>8 DEF Start, Go, Queued
<1>9. ASSUME NEW g \in Goroutine, Suspend(g) PROVE NextOK'
  BY <1>9 DEF Suspend, Yield, Queued
<1>10. ASSUME NEW g \in Goroutine, Return(g) PROVE NextOK'
  BY <1>10 DEF Return, Finish, Queued
<1>11. CASE UNCHANGED vars
  BY <1>11 DEF vars, Queued
<1>12. QED
  BY <1>1, <1>2, <1>3, <1>4, <1>5, <1>6, <1>7, <1>8, <1>9, <1>10, <1>11
  DEF Next, Proceed

\* Ownership passes from the unlocker to the goroutine it takes out.
LEMMA LockedIffOwnedStep == IInv /\ [Next]_vars => LockedIffOwned'
<1> SUFFICES ASSUME IInv, [Next]_vars PROVE LockedIffOwned'
  OBVIOUS
<1> USE NoGoroutineAssumption
    DEF IInv, TypeOK, RuntimeTypeOK, QueueOK, NextOK, LockedIffOwned, Owner,
        Moves, Running, Register, PushReady, gvars, mvars
<1>1. ASSUME NEW g \in Goroutine, Acquire(g) PROVE LockedIffOwned'
  BY <1>1 DEF Acquire, try_lock, Queued
<1>2. ASSUME NEW g \in Goroutine, Contend(g) PROVE LockedIffOwned'
  BY <1>2 DEF Contend, Queued
<1>3. ASSUME NEW g \in Goroutine, Enqueue(g) PROVE LockedIffOwned'
  <2>1. ~Queued(g)
    BY <1>3 DEF Enqueue
  <2>2. /\ \A h : Queued(h)' <=> Queued(h) \/ h = g
        /\ Distinct(waiting_gs)'
    BY <1>3, <2>1, PushProperties DEF Enqueue, Queued
  <2>3. QED
    BY <1>3, <2>2 DEF Enqueue
<1>4. ASSUME NEW g \in Goroutine, HandOff(g) PROVE LockedIffOwned'
  <2>1. PICK n \in Goroutine : n = Head(waiting_gs)
    BY <1>4, PopProperties DEF HandOff
  <2>2. /\ Queued(n)
        /\ \A h : Queued(h)' <=> Queued(h) /\ h # n
        /\ Distinct(waiting_gs)'
    BY <1>4, <2>1, PopProperties DEF HandOff, Queued
  <2>3. next_g'[g] = n /\ \A h \in Goroutine \ {g} : next_g'[h] = next_g[h]
    BY <1>4, <2>1 DEF HandOff
  <2>4. QED
    BY <1>4, <2>2, <2>3 DEF HandOff
<1>5. ASSUME NEW g \in Goroutine, Release(g) PROVE LockedIffOwned'
  <2>1. \A h : ~Queued(h)
    <3>1. Len(waiting_gs) = 0
      BY <1>5 DEF Release
    <3>2. QED
      BY <3>1 DEF Queued, In
  <2>2. QED
    BY <1>5, <2>1 DEF Release, Queued
<1>6. ASSUME NEW g \in Goroutine, WakeNext(g) PROVE LockedIffOwned'
  BY <1>6 DEF WakeNext, Queued
<1>7. ASSUME NEW g \in Goroutine, Schedule(g) PROVE LockedIffOwned'
  BY <1>7 DEF Schedule, Resume, Resumable, Queued
<1>8. ASSUME NEW g \in Goroutine, Start(g) PROVE LockedIffOwned'
  BY <1>8 DEF Start, Go, Queued
<1>9. ASSUME NEW g \in Goroutine, Suspend(g) PROVE LockedIffOwned'
  BY <1>9 DEF Suspend, Yield, Queued
<1>10. ASSUME NEW g \in Goroutine, Return(g) PROVE LockedIffOwned'
  BY <1>10 DEF Return, Finish, Queued
<1>11. CASE UNCHANGED vars
  BY <1>11 DEF vars, Queued
<1>12. QED
  BY <1>1, <1>2, <1>3, <1>4, <1>5, <1>6, <1>7, <1>8, <1>9, <1>10, <1>11
  DEF Next, Proceed

\* The invariant holds throughout.
LEMMA Invariance == Spec => []IInv
<1>1. IInv /\ [Next]_vars => IInv'
  BY TypeStep, QueueOKStep, NextOKStep, LockedIffOwnedStep DEF IInv
<1>2. QED
  BY Initially, <1>1, PTL DEF Spec

-----------------------------------------------------------------------------
\* Every variable of the mutex keeps its type.
THEOREM TypeCorrect == Spec => []TypeOK
  BY Invariance, PTL DEF IInv

\* locked_ is set exactly while one goroutine owns the mutex.
THEOREM Ownership == Spec => []LockedIffOwned
  BY Invariance, PTL DEF IInv

\* No two goroutines are ever past lock() and before unlock().
THEOREM Exclusion == Spec => []MutualExclusion
<1>1. IInv => MutualExclusion
  BY DEF IInv, LockedIffOwned, Owner, MutualExclusion
<1>2. QED
  BY <1>1, Invariance, PTL

\* The mutex uses the runtime only as its contract allows, so everything proved
\* of the contract holds of goroutines that use mutexes.
THEOREM Obedience == Spec => ObeysContract
<1>1. Init => RuntimeInit
  BY DEF Init
<1>2. IInv /\ [Next]_vars => [RuntimeNext]_gvars
  <2> SUFFICES ASSUME IInv, [Next]_vars
      PROVE  RuntimeNext \/ UNCHANGED gvars
    OBVIOUS
  <2> USE DEF RuntimeNext, RuntimeStep
  <2>1. ASSUME NEW g \in Goroutine, Acquire(g)
       PROVE  RuntimeNext \/ UNCHANGED gvars
    BY <2>1 DEF Acquire
  <2>2. ASSUME NEW g \in Goroutine, Contend(g)
       PROVE  RuntimeNext \/ UNCHANGED gvars
    BY <2>2 DEF Contend
  <2>3. ASSUME NEW g \in Goroutine, Enqueue(g)
       PROVE  RuntimeNext \/ UNCHANGED gvars
    BY <2>3 DEF Enqueue, Moves, Park
  <2>4. ASSUME NEW g \in Goroutine, HandOff(g)
       PROVE  RuntimeNext \/ UNCHANGED gvars
    BY <2>4 DEF HandOff
  <2>5. ASSUME NEW g \in Goroutine, Release(g)
       PROVE  RuntimeNext \/ UNCHANGED gvars
    BY <2>5 DEF Release
  <2>6. ASSUME NEW g \in Goroutine, WakeNext(g)
       PROVE  RuntimeNext \/ UNCHANGED gvars
    BY <2>6 DEF IInv, NextOK, WakeNext, Moves, Wake
  <2>7. ASSUME NEW g \in Goroutine, Schedule(g)
       PROVE  RuntimeNext \/ UNCHANGED gvars
    BY <2>7 DEF Schedule
  <2>8. ASSUME NEW g \in Goroutine, Start(g)
       PROVE  RuntimeNext \/ UNCHANGED gvars
    BY <2>8 DEF Start
  <2>9. ASSUME NEW g \in Goroutine, Suspend(g)
       PROVE  RuntimeNext \/ UNCHANGED gvars
    BY <2>9 DEF Suspend
  <2>10. ASSUME NEW g \in Goroutine, Return(g)
       PROVE  RuntimeNext \/ UNCHANGED gvars
    BY <2>10 DEF Return
  <2>11. CASE UNCHANGED vars
    BY <2>11 DEF vars
  <2>12. QED
    BY <2>1, <2>2, <2>3, <2>4, <2>5, <2>6, <2>7, <2>8, <2>9, <2>10, <2>11
    DEF Next, Proceed
<1>3. QED
  BY <1>1, <1>2, Invariance, PTL DEF Spec, ObeysContract

=============================================================================

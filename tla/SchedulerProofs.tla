---------------------------- MODULE SchedulerProofs ----------------------------
(***************************************************************************)
(* Proofs about Scheduler: its types, that no goroutine's stack is entered *)
(* by two workers, that sleepers are neither early nor out of order, and   *)
(* that it implements the contract of Goroutines.                          *)
(*                                                                         *)
(* The argument is that a goroutine has at most one pending pointer, in    *)
(* one place: the ready queue, a worker on its way into resume(), a timer  *)
(* or a wait structure; and that a goroutine whose code runs has none.     *)
(***************************************************************************)
EXTENDS Scheduler, TLAPS

\* The pointers to one goroutine are never in two places.
OnePlace ==
  /\ Distinct(ready_queue)
  /\ \A t, u \in timers : t.g = u.g /\ t.g # NoGoroutine => t = u
  /\ \A g \in Goroutine :
        /\ Registered(g) => ~Ready(g)
        /\ ~(g \in parked /\ InTimers(g))
        /\ \A w \in Worker : HeldBy(w, g) => ~Queued(g)
        /\ \A v, w \in Worker : HeldBy(v, g) /\ HeldBy(w, g) => v = w

\* A pending pointer is to a goroutine that is suspended or about to be.
PendingBlocked ==
  \A g \in Goroutine :
     Registered(g) \/ Ready(g) =>
        g \in created /\ g \notin finished /\ g \in ctx \cup yielding

\* A fiber is in ctx_ exactly while no worker is on its stack.
FiberPlace ==
  /\ \A g \in ctx : g \in created /\ g \notin finished /\ g \notin yielding
  /\ \A g \in yielding : g \in created /\ g \notin finished
  /\ finished \subseteq created
  /\ \A w \in Worker, g \in Goroutine :
        OnStack(w, g) => g \in created /\ g \notin ctx
  /\ \A v, w \in Worker, g \in Goroutine :
        OnStack(v, g) /\ OnStack(w, g) => v = w

\* What each worker's local state says of the goroutine it holds.
WorkerLocal ==
  \A w \in Worker :
     /\ pc[w] \in {"resume", "switch", "run", "back"} => held[w] \in Goroutine
     /\ pc[w] \in {"switch", "run"} => current[w] = held[w]
     /\ pc[w] = "switch" => held[w] \in ctx
     /\ pc[w] = "run" => top[w] /\ held[w] \notin finished
     /\ pc[w] = "back" => held[w] \in yielding \cup finished
     /\ adding[w] # NoTimer =>
          /\ pc[w] = "run" /\ current[w] \notin yielding
          /\ adding[w].g \in {NoGoroutine, current[w]}

IInv == TypeOK /\ OnePlace /\ PendingBlocked /\ FiberPlace /\ WorkerLocal

-----------------------------------------------------------------------------
\* push_ready queues its argument and nothing else.
LEMMA PushReadyQueues ==
  ASSUME TypeOK, NEW g \in Goroutine, push_ready(g)
  PROVE  /\ ready_queue' \in Seq(Goroutine)
         /\ \A h : Queued(h)' <=> Queued(h) \/ h = g
         /\ Distinct(ready_queue) /\ ~Queued(g) => Distinct(ready_queue)'
  BY PushProperties DEF TypeOK, push_ready, Queued

\* Popping the head of a queue without duplicates removes that goroutine.
LEMMA PopUnqueues ==
  ASSUME TypeOK, OnePlace, ready_queue # <<>>,
         ready_queue' = Tail(ready_queue)
  PROVE  /\ ready_queue' \in Seq(Goroutine)
         /\ Head(ready_queue) \in Goroutine
         /\ Queued(Head(ready_queue))
         /\ \A h : Queued(h)' <=> Queued(h) /\ h # Head(ready_queue)
         /\ Distinct(ready_queue)'
  BY PopProperties DEF TypeOK, OnePlace, Queued

-----------------------------------------------------------------------------
\* Every variable keeps its type.
LEMMA TypeStep == IInv /\ [Next]_vars => TypeOK'
<1> SUFFICES ASSUME IInv, [Next]_vars PROVE TypeOK'
  OBVIOUS
<1> USE TimeAssumption, NoGoroutineAssumption
    DEF heap, slept, env, local, fibers, IInv, TypeOK, WorkerLocal, Timer, WorkerPC,
        Moves, push_ready, Executes
<1>1. ASSUME NEW w \in Worker, LockTimers(w)
     PROVE  TypeOK'
  BY <1>1 DEF LockTimers
<1>2. ASSUME NEW w \in Worker, NEW t \in timers, ExpireSleep(w, t)
     PROVE  TypeOK'
  BY <1>2 DEF ExpireSleep
<1>3. ASSUME NEW w \in Worker, NEW t \in timers, ExpireCallback(w, t)
     PROVE  TypeOK'
  <2>1. t \in Timer
    BY <1>3 DEF TypeOK
  <2>2. parked' \subseteq parked /\ timers' \subseteq timers
    BY <1>3 DEF ExpireCallback
  <2>3. ready_queue' \in Seq(Goroutine)
    BY <1>3, PushReadyQueues DEF ExpireCallback
  <2>4. QED
    BY <1>3, <2>2, <2>3 DEF ExpireCallback, TypeOK
<1>4. ASSUME NEW w \in Worker, UnlockTimers(w)
     PROVE  TypeOK'
  BY <1>4 DEF UnlockTimers
<1>5. ASSUME NEW w \in Worker, Pop(w)
     PROVE  TypeOK'
  BY <1>5 DEF Pop, Forget
<1>6. ASSUME NEW w \in Worker, WaitTimeout(w)
     PROVE  TypeOK'
  BY <1>6 DEF WaitTimeout
<1>7. ASSUME NEW w \in Worker, Exit(w)
     PROVE  TypeOK'
  BY <1>7 DEF Exit
<1>8. ASSUME NEW w \in Worker, ResumeTest(w)
     PROVE  TypeOK'
  BY <1>8 DEF ResumeTest
<1>9. ASSUME NEW w \in Worker, ResumeDrop(w)
     PROVE  TypeOK'
  BY <1>9 DEF ResumeDrop
<1>10. ASSUME NEW w \in Worker, Switch(w)
      PROVE  TypeOK'
  BY <1>10 DEF Switch
<1>11. ASSUME NEW w \in Worker, Back(w)
      PROVE  TypeOK'
  BY <1>11 DEF Back
<1>12. ASSUME NEW w \in Worker, Yield(w)
      PROVE  TypeOK'
  BY <1>12 DEF Yield
<1>13. ASSUME NEW w \in Worker, NEW ms \in Delay, sleep(w, ms)
      PROVE  TypeOK'
  BY <1>13 DEF sleep, ReadClock
<1>14. ASSUME NEW w \in Worker, Park(w)
      PROVE  TypeOK'
  BY <1>14 DEF Park
<1>15. ASSUME NEW w \in Worker, Finish(w)
      PROVE  TypeOK'
  BY <1>15 DEF Finish
<1>16. ASSUME NEW w \in Worker, NEW ms \in Delay, add_timer(w, ms)
      PROVE  TypeOK'
  BY <1>16 DEF add_timer, ReadClock
<1>17. ASSUME NEW g \in Goroutine, go(g)
      PROVE  TypeOK'
  BY <1>17 DEF go
<1>18. ASSUME NEW g \in Goroutine, Wake(g)
      PROVE  TypeOK'
  BY <1>18 DEF Wake
<1>19. ASSUME Tick
      PROVE  TypeOK'
  BY <1>19 DEF Tick
<1>20. ASSUME Stop
      PROVE  TypeOK'
  BY <1>20 DEF Stop
<1>21. ASSUME NEW w \in Worker, Insert(w)
      PROVE  TypeOK'
  BY <1>21 DEF Insert
<1>22. CASE UNCHANGED vars
  BY <1>22 DEF vars
<1>23. QED
  BY <1>1, <1>2, <1>3, <1>4, <1>5, <1>6, <1>7, <1>8, <1>9, <1>10, <1>11, <1>12,
     <1>13, <1>14, <1>15, <1>16, <1>17, <1>18, <1>19, <1>20, <1>21, <1>22
  DEF Next, worker_loop, CheckTimers, resume, Blocks

\* No step puts a second pointer to a goroutine anywhere.
LEMMA OnePlaceStep == IInv /\ [Next]_vars => OnePlace'
<1> SUFFICES ASSUME IInv, [Next]_vars PROVE OnePlace'
  OBVIOUS
<1> TypeOK'
  BY TypeStep
<1> USE NoGoroutineAssumption
    DEF heap, env, local, fibers, IInv, TypeOK, OnePlace, PendingBlocked,
        FiberPlace, WorkerLocal, Timer, Moves, Executes, Registered,
        Ready, InTimers, HeldBy, OnStack
<1>1. ASSUME NEW w \in Worker, LockTimers(w)
     PROVE  OnePlace'
  BY <1>1 DEF LockTimers, Queued
<1>2. ASSUME NEW w \in Worker, NEW t \in timers, ExpireSleep(w, t)
     PROVE  OnePlace'
  <2>1. t.g \in Goroutine /\ push_ready(t.g) /\ ~Queued(t.g)
    BY <1>2
    DEF ExpireSleep, IInv, TypeOK, Timer, OnePlace, PendingBlocked, Registered,
        InTimers, Ready, HeldBy
  <2>2. /\ \A h : Queued(h)' <=> Queued(h) \/ h = t.g
        /\ Distinct(ready_queue)'
    BY <2>1, PushReadyQueues DEF IInv, OnePlace
  <2>3. QED
    BY <1>2, <2>1, <2>2 DEF ExpireSleep
<1>3. ASSUME NEW w \in Worker, NEW t \in timers, ExpireCallback(w, t)
     PROVE  OnePlace'
  <2>1. CASE ready_queue' = ready_queue /\ parked' = parked
    BY <1>3, <2>1 DEF ExpireCallback, Queued
  <2>2. ASSUME NEW g \in parked, parked' = parked \ {g}, push_ready(g)
        PROVE  OnePlace'
    <3>1. g \in Goroutine /\ ~Queued(g)
      BY <1>3, <2>2
      DEF IInv, TypeOK, OnePlace, Registered, InTimers, Ready, HeldBy
    <3>2. /\ \A h : Queued(h)' <=> Queued(h) \/ h = g
          /\ Distinct(ready_queue)'
      BY <2>2, <3>1, PushReadyQueues DEF IInv, OnePlace
    <3>3. timers' \subseteq timers /\ UNCHANGED <<pc, held>>
      BY <1>3 DEF ExpireCallback
    <3>4. \A h \in Goroutine : Registered(h)' => Registered(h) /\ h # g
      BY <2>2, <3>1, <3>3
    <3>5. \A v \in Worker, h \in Goroutine : HeldBy(v, h)' <=> HeldBy(v, h)
      BY <3>3
    <3>6. ASSUME NEW h \in Goroutine
          PROVE  /\ (Registered(h) => ~Ready(h))'
                 /\ ~(h \in parked /\ InTimers(h))'
                 /\ \A v \in Worker : HeldBy(v, h)' => ~Queued(h)'
      <4>1. Registered(g) /\ ~Ready(g)
        BY <2>2, <3>1
      <4>2. CASE h = g
        BY <3>2, <3>4, <3>5, <4>1, <4>2
      <4>3. CASE h # g
        <5>1. Queued(h)' <=> Queued(h)
          BY <3>2, <4>3
        <5>2. Ready(h)' <=> Ready(h)
          BY <3>5, <5>1
        <5>3. InTimers(h)' => InTimers(h)
          BY <3>3
        <5>4. QED
          BY <2>2, <3>4, <3>5, <5>1, <5>2, <5>3
      <4>4. QED
        BY <4>2, <4>3
    <3>7. (\A t1, t2 \in timers : t1.g = t2.g /\ t1.g # NoGoroutine => t1 = t2)'
      BY <3>3
    <3>8. QED
      BY <3>2, <3>5, <3>6, <3>7
  <2>3. QED
    BY <1>3, <2>1, <2>2 DEF ExpireCallback
<1>4. ASSUME NEW w \in Worker, UnlockTimers(w)
     PROVE  OnePlace'
  BY <1>4 DEF UnlockTimers, Queued
<1>5. ASSUME NEW w \in Worker, Pop(w)
     PROVE  OnePlace'
  BY <1>5, PopUnqueues DEF Pop
<1>6. ASSUME NEW w \in Worker, WaitTimeout(w)
     PROVE  OnePlace'
  BY <1>6 DEF WaitTimeout, Queued
<1>7. ASSUME NEW w \in Worker, Exit(w)
     PROVE  OnePlace'
  BY <1>7 DEF Exit, Queued
<1>8. ASSUME NEW w \in Worker, ResumeTest(w)
     PROVE  OnePlace'
  BY <1>8 DEF ResumeTest, Queued
<1>9. ASSUME NEW w \in Worker, ResumeDrop(w)
     PROVE  OnePlace'
  BY <1>9 DEF ResumeDrop, Queued
<1>10. ASSUME NEW w \in Worker, Switch(w)
      PROVE  OnePlace'
  BY <1>10 DEF Switch, Queued
<1>11. ASSUME NEW w \in Worker, Back(w)
      PROVE  OnePlace'
  BY <1>11 DEF Back, Queued
<1>12. ASSUME NEW w \in Worker, Yield(w)
      PROVE  OnePlace'
  BY <1>12 DEF Yield, Queued
<1>13. ASSUME NEW w \in Worker, NEW ms \in Delay, sleep(w, ms)
      PROVE  OnePlace'
  BY <1>13 DEF sleep, ReadClock, Queued
<1>14. ASSUME NEW w \in Worker, Park(w)
      PROVE  OnePlace'
  BY <1>14 DEF Park, Queued
<1>15. ASSUME NEW w \in Worker, Finish(w)
      PROVE  OnePlace'
  BY <1>15 DEF Finish, Queued
<1>16. ASSUME NEW w \in Worker, NEW ms \in Delay, add_timer(w, ms)
      PROVE  OnePlace'
  BY <1>16 DEF add_timer, ReadClock, Queued
<1>17. ASSUME NEW g \in Goroutine, go(g)
      PROVE  OnePlace'
  <2>1. g \in Goroutine /\ push_ready(g) /\ ~Queued(g)
    BY <1>17
    DEF go, IInv, TypeOK, Timer, OnePlace, PendingBlocked, Registered,
        InTimers, Ready, HeldBy
  <2>2. /\ \A h : Queued(h)' <=> Queued(h) \/ h = g
        /\ Distinct(ready_queue)'
    BY <2>1, PushReadyQueues DEF IInv, OnePlace
  <2>3. QED
    BY <1>17, <2>1, <2>2 DEF go
<1>18. ASSUME NEW g \in Goroutine, Wake(g)
      PROVE  OnePlace'
  <2>1. g \in Goroutine /\ push_ready(g) /\ ~Queued(g)
    BY <1>18
    DEF Wake, IInv, TypeOK, Timer, OnePlace, PendingBlocked, Registered,
        InTimers, Ready, HeldBy
  <2>2. /\ \A h : Queued(h)' <=> Queued(h) \/ h = g
        /\ Distinct(ready_queue)'
    BY <2>1, PushReadyQueues DEF IInv, OnePlace
  <2>3. QED
    BY <1>18, <2>1, <2>2 DEF Wake
<1>19. ASSUME Tick
      PROVE  OnePlace'
  BY <1>19 DEF Tick, Queued
<1>20. ASSUME Stop
      PROVE  OnePlace'
  BY <1>20 DEF Stop, Queued
<1>21. ASSUME NEW w \in Worker, Insert(w)
      PROVE  OnePlace'
  BY <1>21 DEF Insert, slept, Queued
<1>22. CASE UNCHANGED vars
  BY <1>22 DEF vars, Queued
<1>23. QED
  BY <1>1, <1>2, <1>3, <1>4, <1>5, <1>6, <1>7, <1>8, <1>9, <1>10, <1>11, <1>12,
     <1>13, <1>14, <1>15, <1>16, <1>17, <1>18, <1>19, <1>20, <1>21, <1>22
  DEF Next, worker_loop, CheckTimers, resume, Blocks

\* A pointer is stored only by its goroutine, on its way to yield().
LEMMA PendingBlockedStep == IInv /\ [Next]_vars => PendingBlocked'
<1> SUFFICES ASSUME IInv, [Next]_vars PROVE PendingBlocked'
  OBVIOUS
<1> TypeOK'
  BY TypeStep
<1> USE NoGoroutineAssumption
    DEF heap, env, local, fibers, IInv, TypeOK, OnePlace, PendingBlocked,
        FiberPlace, WorkerLocal, Timer, Moves, Executes, Registered,
        Ready, InTimers, HeldBy, OnStack
<1>1. ASSUME NEW w \in Worker, LockTimers(w)
     PROVE  PendingBlocked'
  BY <1>1 DEF LockTimers, Queued
<1>2. ASSUME NEW w \in Worker, NEW t \in timers, ExpireSleep(w, t)
     PROVE  PendingBlocked'
  <2>1. t.g \in Goroutine /\ push_ready(t.g) /\ ~Queued(t.g)
    BY <1>2
    DEF ExpireSleep, IInv, TypeOK, Timer, OnePlace, PendingBlocked, Registered,
        InTimers, Ready, HeldBy
  <2>2. /\ \A h : Queued(h)' <=> Queued(h) \/ h = t.g
        /\ Distinct(ready_queue)'
    BY <2>1, PushReadyQueues DEF IInv, OnePlace
  <2>3. QED
    BY <1>2, <2>1, <2>2 DEF ExpireSleep
<1>3. ASSUME NEW w \in Worker, NEW t \in timers, ExpireCallback(w, t)
     PROVE  PendingBlocked'
  <2>1. CASE ready_queue' = ready_queue /\ parked' = parked
    BY <1>3, <2>1 DEF ExpireCallback, Queued
  <2>2. ASSUME NEW g \in parked, parked' = parked \ {g}, push_ready(g)
        PROVE  PendingBlocked'
    <3>1. g \in Goroutine /\ ~Queued(g)
      BY <1>3, <2>2
      DEF IInv, TypeOK, OnePlace, Registered, InTimers, Ready, HeldBy
    <3>2. /\ \A h : Queued(h)' <=> Queued(h) \/ h = g
          /\ Distinct(ready_queue)'
      BY <2>2, <3>1, PushReadyQueues DEF IInv, OnePlace
    <3>3. timers' \subseteq timers
      BY <1>3 DEF ExpireCallback
    <3>4. QED
      BY <1>3, <2>2, <3>1, <3>2, <3>3 DEF ExpireCallback
  <2>3. QED
    BY <1>3, <2>1, <2>2 DEF ExpireCallback
<1>4. ASSUME NEW w \in Worker, UnlockTimers(w)
     PROVE  PendingBlocked'
  BY <1>4 DEF UnlockTimers, Queued
<1>5. ASSUME NEW w \in Worker, Pop(w)
     PROVE  PendingBlocked'
  <2>1. ASSUME NEW g \in Goroutine, Registered(g)' \/ Ready(g)'
        PROVE  Registered(g) \/ Ready(g)
    <3>1. Queued(g)' => Queued(g)
      BY <1>5, PopUnqueues DEF Pop
    <3>2. ASSUME NEW v \in Worker, HeldBy(v, g)'
          PROVE  Queued(g) \/ HeldBy(v, g)
      BY <1>5, <3>2, PopUnqueues DEF Pop
    <3>3. QED
      BY <1>5, <2>1, <3>1, <3>2 DEF Pop
  <2>2. QED
    BY <1>5, <2>1 DEF Pop
<1>6. ASSUME NEW w \in Worker, WaitTimeout(w)
     PROVE  PendingBlocked'
  BY <1>6 DEF WaitTimeout, Queued
<1>7. ASSUME NEW w \in Worker, Exit(w)
     PROVE  PendingBlocked'
  BY <1>7 DEF Exit, Queued
<1>8. ASSUME NEW w \in Worker, ResumeTest(w)
     PROVE  PendingBlocked'
  BY <1>8 DEF ResumeTest, Queued
<1>9. ASSUME NEW w \in Worker, ResumeDrop(w)
     PROVE  PendingBlocked'
  BY <1>9 DEF ResumeDrop, Queued
<1>10. ASSUME NEW w \in Worker, Switch(w)
      PROVE  PendingBlocked'
  BY <1>10 DEF Switch, Queued
<1>11. ASSUME NEW w \in Worker, Back(w)
      PROVE  PendingBlocked'
  BY <1>11 DEF Back, Queued
<1>12. ASSUME NEW w \in Worker, Yield(w)
      PROVE  PendingBlocked'
  BY <1>12 DEF Yield, Queued
<1>13. ASSUME NEW w \in Worker, NEW ms \in Delay, sleep(w, ms)
      PROVE  PendingBlocked'
  BY <1>13 DEF sleep, ReadClock, Queued
<1>14. ASSUME NEW w \in Worker, Park(w)
      PROVE  PendingBlocked'
  BY <1>14 DEF Park, Queued
<1>15. ASSUME NEW w \in Worker, Finish(w)
      PROVE  PendingBlocked'
  BY <1>15 DEF Finish, Queued
<1>16. ASSUME NEW w \in Worker, NEW ms \in Delay, add_timer(w, ms)
      PROVE  PendingBlocked'
  BY <1>16 DEF add_timer, ReadClock, Queued
<1>17. ASSUME NEW g \in Goroutine, go(g)
      PROVE  PendingBlocked'
  <2>1. g \in Goroutine /\ push_ready(g) /\ ~Queued(g)
    BY <1>17
    DEF go, IInv, TypeOK, Timer, OnePlace, PendingBlocked, Registered,
        InTimers, Ready, HeldBy
  <2>2. /\ \A h : Queued(h)' <=> Queued(h) \/ h = g
        /\ Distinct(ready_queue)'
    BY <2>1, PushReadyQueues DEF IInv, OnePlace
  <2>3. QED
    BY <1>17, <2>1, <2>2 DEF go
<1>18. ASSUME NEW g \in Goroutine, Wake(g)
      PROVE  PendingBlocked'
  <2>1. g \in Goroutine /\ push_ready(g) /\ ~Queued(g)
    BY <1>18
    DEF Wake, IInv, TypeOK, Timer, OnePlace, PendingBlocked, Registered,
        InTimers, Ready, HeldBy
  <2>2. /\ \A h : Queued(h)' <=> Queued(h) \/ h = g
        /\ Distinct(ready_queue)'
    BY <2>1, PushReadyQueues DEF IInv, OnePlace
  <2>3. QED
    BY <1>18, <2>1, <2>2 DEF Wake
<1>19. ASSUME Tick
      PROVE  PendingBlocked'
  BY <1>19 DEF Tick, Queued
<1>20. ASSUME Stop
      PROVE  PendingBlocked'
  BY <1>20 DEF Stop, Queued
<1>21. ASSUME NEW w \in Worker, Insert(w)
      PROVE  PendingBlocked'
  BY <1>21 DEF Insert, slept, Queued
<1>22. CASE UNCHANGED vars
  BY <1>22 DEF vars, Queued
<1>23. QED
  BY <1>1, <1>2, <1>3, <1>4, <1>5, <1>6, <1>7, <1>8, <1>9, <1>10, <1>11, <1>12,
     <1>13, <1>14, <1>15, <1>16, <1>17, <1>18, <1>19, <1>20, <1>21, <1>22
  DEF Next, worker_loop, CheckTimers, resume, Blocks

\* The stack of a goroutine is in ctx_ or on one worker.
LEMMA FiberPlaceStep == IInv /\ [Next]_vars => FiberPlace'
<1> SUFFICES ASSUME IInv, [Next]_vars PROVE FiberPlace'
  OBVIOUS
<1> TypeOK'
  BY TypeStep
<1> USE NoGoroutineAssumption
    DEF heap, env, local, fibers, IInv, TypeOK, OnePlace, PendingBlocked,
        FiberPlace, WorkerLocal, Moves, Executes,
        Registered, Ready, InTimers, HeldBy, OnStack
<1>1. ASSUME NEW w \in Worker, LockTimers(w)
     PROVE  FiberPlace'
  BY <1>1 DEF LockTimers
<1>2. ASSUME NEW w \in Worker, NEW t \in timers, ExpireSleep(w, t)
     PROVE  FiberPlace'
  BY <1>2 DEF ExpireSleep
<1>3. ASSUME NEW w \in Worker, NEW t \in timers, ExpireCallback(w, t)
     PROVE  FiberPlace'
  BY <1>3 DEF ExpireCallback
<1>4. ASSUME NEW w \in Worker, UnlockTimers(w)
     PROVE  FiberPlace'
  BY <1>4 DEF UnlockTimers
<1>5. ASSUME NEW w \in Worker, Pop(w)
     PROVE  FiberPlace'
  BY <1>5 DEF Pop
<1>6. ASSUME NEW w \in Worker, WaitTimeout(w)
     PROVE  FiberPlace'
  BY <1>6 DEF WaitTimeout
<1>7. ASSUME NEW w \in Worker, Exit(w)
     PROVE  FiberPlace'
  BY <1>7 DEF Exit
<1>8. ASSUME NEW w \in Worker, ResumeTest(w)
     PROVE  FiberPlace'
  BY <1>8 DEF ResumeTest
<1>9. ASSUME NEW w \in Worker, ResumeDrop(w)
     PROVE  FiberPlace'
  BY <1>9 DEF ResumeDrop
<1>10. ASSUME NEW w \in Worker, Switch(w)
      PROVE  FiberPlace'
  BY <1>10 DEF Switch
<1>11. ASSUME NEW w \in Worker, Back(w)
      PROVE  FiberPlace'
  BY <1>11 DEF Back
<1>12. ASSUME NEW w \in Worker, Yield(w)
      PROVE  FiberPlace'
  BY <1>12 DEF Yield
<1>13. ASSUME NEW w \in Worker, NEW ms \in Delay, sleep(w, ms)
      PROVE  FiberPlace'
  BY <1>13 DEF sleep, ReadClock
<1>14. ASSUME NEW w \in Worker, Park(w)
      PROVE  FiberPlace'
  BY <1>14 DEF Park
<1>15. ASSUME NEW w \in Worker, Finish(w)
      PROVE  FiberPlace'
  BY <1>15 DEF Finish
<1>16. ASSUME NEW w \in Worker, NEW ms \in Delay, add_timer(w, ms)
      PROVE  FiberPlace'
  BY <1>16 DEF add_timer, ReadClock
<1>17. ASSUME NEW g \in Goroutine, go(g)
      PROVE  FiberPlace'
  BY <1>17 DEF go
<1>18. ASSUME NEW g \in Goroutine, Wake(g)
      PROVE  FiberPlace'
  BY <1>18 DEF Wake
<1>19. ASSUME Tick
      PROVE  FiberPlace'
  BY <1>19 DEF Tick
<1>20. ASSUME Stop
      PROVE  FiberPlace'
  BY <1>20 DEF Stop
<1>21. ASSUME NEW w \in Worker, Insert(w)
      PROVE  FiberPlace'
  BY <1>21 DEF Insert, slept
<1>22. CASE UNCHANGED vars
  BY <1>22 DEF vars
<1>23. QED
  BY <1>1, <1>2, <1>3, <1>4, <1>5, <1>6, <1>7, <1>8, <1>9, <1>10, <1>11, <1>12,
     <1>13, <1>14, <1>15, <1>16, <1>17, <1>18, <1>19, <1>20, <1>21, <1>22
  DEF Next, worker_loop, CheckTimers, resume, Blocks

\* A worker's local state stays coherent with the shared state.
LEMMA WorkerLocalStep == IInv /\ [Next]_vars => WorkerLocal'
<1> SUFFICES ASSUME IInv, [Next]_vars PROVE WorkerLocal'
  OBVIOUS
<1> TypeOK'
  BY TypeStep
<1> USE NoGoroutineAssumption
    DEF heap, env, local, fibers, IInv, TypeOK, OnePlace, PendingBlocked,
        FiberPlace, WorkerLocal, Moves, Executes,
        Registered, Ready, InTimers, HeldBy, OnStack
<1>1. ASSUME NEW w \in Worker, LockTimers(w)
     PROVE  WorkerLocal'
  BY <1>1 DEF LockTimers
<1>2. ASSUME NEW w \in Worker, NEW t \in timers, ExpireSleep(w, t)
     PROVE  WorkerLocal'
  BY <1>2 DEF ExpireSleep
<1>3. ASSUME NEW w \in Worker, NEW t \in timers, ExpireCallback(w, t)
     PROVE  WorkerLocal'
  BY <1>3 DEF ExpireCallback
<1>4. ASSUME NEW w \in Worker, UnlockTimers(w)
     PROVE  WorkerLocal'
  BY <1>4 DEF UnlockTimers
<1>5. ASSUME NEW w \in Worker, Pop(w)
     PROVE  WorkerLocal'
  BY <1>5 DEF Pop
<1>6. ASSUME NEW w \in Worker, WaitTimeout(w)
     PROVE  WorkerLocal'
  BY <1>6 DEF WaitTimeout
<1>7. ASSUME NEW w \in Worker, Exit(w)
     PROVE  WorkerLocal'
  BY <1>7 DEF Exit
<1>8. ASSUME NEW w \in Worker, ResumeTest(w)
     PROVE  WorkerLocal'
  BY <1>8 DEF ResumeTest, Resumable
<1>9. ASSUME NEW w \in Worker, ResumeDrop(w)
     PROVE  WorkerLocal'
  BY <1>9 DEF ResumeDrop
<1>10. ASSUME NEW w \in Worker, Switch(w)
      PROVE  WorkerLocal'
  BY <1>10 DEF Switch
<1>11. ASSUME NEW w \in Worker, Back(w)
      PROVE  WorkerLocal'
  BY <1>11 DEF Back
<1>12. ASSUME NEW w \in Worker, Yield(w)
      PROVE  WorkerLocal'
  BY <1>12 DEF Yield
<1>13. ASSUME NEW w \in Worker, NEW ms \in Delay, sleep(w, ms)
      PROVE  WorkerLocal'
  BY <1>13 DEF sleep, ReadClock
<1>14. ASSUME NEW w \in Worker, Park(w)
      PROVE  WorkerLocal'
  BY <1>14 DEF Park
<1>15. ASSUME NEW w \in Worker, Finish(w)
      PROVE  WorkerLocal'
  BY <1>15 DEF Finish
<1>16. ASSUME NEW w \in Worker, NEW ms \in Delay, add_timer(w, ms)
      PROVE  WorkerLocal'
  BY <1>16 DEF add_timer, ReadClock
<1>17. ASSUME NEW g \in Goroutine, go(g)
      PROVE  WorkerLocal'
  BY <1>17 DEF go
<1>18. ASSUME NEW g \in Goroutine, Wake(g)
      PROVE  WorkerLocal'
  BY <1>18 DEF Wake
<1>19. ASSUME Tick
      PROVE  WorkerLocal'
  BY <1>19 DEF Tick
<1>20. ASSUME Stop
      PROVE  WorkerLocal'
  BY <1>20 DEF Stop
<1>21. ASSUME NEW w \in Worker, Insert(w)
      PROVE  WorkerLocal'
  BY <1>21 DEF Insert, slept
<1>22. CASE UNCHANGED vars
  BY <1>22 DEF vars
<1>23. QED
  BY <1>1, <1>2, <1>3, <1>4, <1>5, <1>6, <1>7, <1>8, <1>9, <1>10, <1>11, <1>12,
     <1>13, <1>14, <1>15, <1>16, <1>17, <1>18, <1>19, <1>20, <1>21, <1>22
  DEF Next, worker_loop, CheckTimers, resume, Blocks

\* No goroutine exists yet, and every worker is about to check the timers.
LEMMA Initially == Init => IInv
<1> SUFFICES ASSUME Init PROVE IInv
  OBVIOUS
<1>1. TypeOK
  <2>1. /\ pc \in [Worker -> WorkerPC]
        /\ held \in [Worker -> Goroutine \cup {NoGoroutine}]
        /\ current \in [Worker -> Goroutine \cup {NoGoroutine}]
        /\ top \in [Worker -> BOOLEAN]
    BY DEF Init, WorkerPC
  <2>2. ready_queue \in Seq(Goroutine) /\ timers \subseteq Timer
    BY DEF Init
  <2>3. QED
    BY <2>1, <2>2 DEF Init, TypeOK
<1>2. Len(ready_queue) = 0 /\ timers = {} /\ parked = {}
  BY DEF Init
<1>3. \A w \in Worker : pc[w] = "check"
  BY DEF Init
<1>4. \A g : ~Queued(g) /\ ~InTimers(g)
  BY <1>2 DEF Queued, In, InTimers
<1>5. OnePlace /\ PendingBlocked
  BY <1>2, <1>3, <1>4
  DEF OnePlace, PendingBlocked, Registered, Ready, HeldBy, Distinct
<1>6. FiberPlace /\ WorkerLocal
  BY <1>3 DEF Init, FiberPlace, WorkerLocal, OnStack
<1>7. QED
  BY <1>1, <1>5, <1>6 DEF IInv

\* The invariant holds throughout.
LEMMA Invariance == Spec => []IInv
<1>1. IInv /\ [Next]_vars => IInv'
  BY TypeStep, OnePlaceStep, PendingBlockedStep, FiberPlaceStep,
     WorkerLocalStep DEF IInv
<1>2. QED
  BY Initially, <1>1, PTL DEF Spec

\* Every variable of the scheduler keeps its type.
THEOREM TypeCorrect == Spec => []TypeOK
  BY Invariance, PTL DEF IInv

\* No goroutine's stack is entered by two workers at once, for every number
\* of goroutines and workers.
THEOREM StackExclusion == Spec => []OneWorkerPerGoroutine
<1>1. IInv => OneWorkerPerGoroutine
  BY DEF IInv, FiberPlace, WorkerLocal, OneWorkerPerGoroutine, OnStack
<1>2. QED
  BY <1>1, Invariance, PTL

\* Goroutine::current() always names the goroutine that calls it.
THEOREM CurrentCorrect == Spec => []CurrentIsSelf
<1>1. IInv => CurrentIsSelf
  BY DEF IInv, WorkerLocal, CurrentIsSelf
<1>2. QED
  BY <1>1, Invariance, PTL

\* A goroutine whose code runs is referenced from nowhere: nothing can resume
\* it a second time.
THEOREM ReferenceCorrect == Spec => []SingleReference
<1>1. ASSUME IInv, NEW g \in Goroutine,
             fiberOf(g) \in {"new", "running", "finished"}
      PROVE  handleOf(g) = "none"
  <2>1. ~(g \in created /\ g \notin finished /\ g \in ctx \cup yielding)
    BY <1>1 DEF fiberOf
  <2>2. ~Registered(g) /\ ~Ready(g)
    BY <1>1, <2>1 DEF IInv, PendingBlocked
  <2>3. QED
    BY <2>2 DEF handleOf
<1>2. IInv => SingleReference
  BY <1>1 DEF SingleReference, Contract!RunningUnreferenced
<1>3. QED
  BY <1>2, Invariance, PTL

\* A goroutine's code is executed once: no second worker runs it, and nothing
\* is left that could start it on one.
THEOREM ExecutionCorrect == Spec => []ExecutedOnce
  BY StackExclusion, ReferenceCorrect, PTL DEF ExecutedOnce

(***************************************************************************)
(* The order of sleepers.  A goroutine that has not reached its deadline   *)
(* is in the heap with it; and whoever must be taken from the queue before *)
(* another is ahead of it: both in the heap, or one step further on, or    *)
(* both in the queue.                                                      *)
(***************************************************************************)
Slumber(g) ==
  deadline[g] <= now \/ \E t \in timers : t.g = g /\ t.at = deadline[g]

BothAsleep(g, h) == \E t, u \in timers : t.g = g /\ u.g = h /\ t.at < u.at

BothQueued(g, h) ==
  \E i, j \in 1..Len(ready_queue) :
     i < j /\ ready_queue[i] = g /\ ready_queue[j] = h

Precedes(g, h) ==
  BothAsleep(g, h) \/ (Queued(g) /\ InTimers(h)) \/ BothQueued(g, h)

ClockRead == asof <= now

Deadlines == \A g \in Goroutine : Slumber(g)

Ahead == \A p \in before : Precedes(p[1], p[2])

\* push_ready keeps the order of the queue, and puts its argument behind those
\* that are there.
LEMMA PushKeepsOrder ==
  ASSUME TypeOK, NEW g \in Goroutine, push_ready(g)
  PROVE  /\ \A a, b : BothQueued(a, b) => BothQueued(a, b)'
         /\ \A a : Queued(a) => BothQueued(a, g)'
<1> DEFINE n == Len(ready_queue)
<1>1. /\ n \in Nat
      /\ Len(ready_queue') = n + 1
      /\ \A i \in 1..n : ready_queue'[i] = ready_queue[i]
      /\ ready_queue'[n + 1] = g
  BY DEF TypeOK, push_ready
<1> HIDE DEF n
<1>2. \A i \in 1..n : i \in 1..Len(ready_queue') /\ i < n + 1
  BY <1>1
<1>3. n + 1 \in 1..Len(ready_queue')
  BY <1>1
<1>4. ASSUME NEW a, NEW b, BothQueued(a, b) PROVE BothQueued(a, b)'
  BY <1>1, <1>2, <1>4 DEF BothQueued, n
<1>5. ASSUME NEW a, Queued(a) PROVE BothQueued(a, g)'
  <2>1. PICK i \in 1..n : ready_queue[i] = a
    BY <1>5 DEF Queued, In, n
  <2>2. QED
    BY <1>1, <1>2, <1>3, <2>1 DEF BothQueued
<1>6. QED
  BY <1>4, <1>5

\* Taking the head keeps the order of the others, and the head of a queue
\* without duplicates is behind nobody.
LEMMA PopKeepsOrder ==
  ASSUME TypeOK, OnePlace, ready_queue # <<>>,
         ready_queue' = Tail(ready_queue)
  PROVE  /\ \A a, b : BothQueued(a, b) /\ a # Head(ready_queue)
                         => BothQueued(a, b)'
         /\ \A a : ~BothQueued(a, Head(ready_queue))
<1> DEFINE n == Len(ready_queue)
           hd == Head(ready_queue)
<1>1. /\ n \in Nat \ {0}
      /\ hd = ready_queue[1]
      /\ Len(ready_queue') = n - 1
      /\ \A i \in 1..n - 1 : ready_queue'[i] = ready_queue[i + 1]
  BY DEF TypeOK
<1> HIDE DEF n, hd
<1>2. ASSUME NEW a, NEW b, BothQueued(a, b), a # hd
      PROVE  BothQueued(a, b)'
  <2>1. PICK i \in 1..n, j \in 1..n :
           i < j /\ ready_queue[i] = a /\ ready_queue[j] = b
    BY <1>2 DEF BothQueued, n
  <2>2. i - 1 \in 1..n - 1 /\ j - 1 \in 1..n - 1 /\ i - 1 < j - 1
    BY <1>1, <1>2, <2>1
  <2>3. ready_queue'[i - 1] = a /\ ready_queue'[j - 1] = b
    BY <1>1, <2>1, <2>2
  <2>4. QED
    BY <1>1, <2>2, <2>3 DEF BothQueued
<1>3. ASSUME NEW a, BothQueued(a, hd) PROVE FALSE
  <2>1. PICK i \in 1..n, j \in 1..n : i < j /\ ready_queue[j] = hd
    BY <1>3 DEF BothQueued, n
  <2>2. 1 \in 1..n /\ ready_queue[1] = ready_queue[j]
    BY <1>1, <2>1
  <2>3. 1 = j
    BY <2>1, <2>2 DEF OnePlace, Distinct, n
  <2>4. QED
    BY <2>1, <2>3
<1>4. QED
  BY <1>2, <1>3 DEF hd

\* check_timers never uses a time that is yet to come.
LEMMA ClockReadStep == IInv /\ ClockRead /\ [Next]_vars => ClockRead'
<1> SUFFICES ASSUME IInv, ClockRead, [Next]_vars PROVE ClockRead'
  OBVIOUS
<1> USE DEF ClockRead
<1>1. asof \in Nat /\ now \in Nat
  BY DEF IInv, TypeOK
<1>2. ASSUME NEW w \in Worker, LockTimers(w) PROVE ClockRead'
  BY <1>1, <1>2 DEF LockTimers, env
<1>3. CASE Tick
  BY <1>1, <1>3 DEF Tick, heap
<1>4. CASE UNCHANGED <<asof, now>>
  BY <1>4
<1>5. QED
  BY <1>2, <1>3, <1>4
  DEF Next, worker_loop, CheckTimers, resume, Blocks, ExpireSleep,
      ExpireCallback, UnlockTimers, Pop, WaitTimeout, Exit, ResumeTest,
      ResumeDrop, Switch, Back, Yield, sleep, Park, Finish, add_timer,
      ReadClock, Insert, go, Wake, Stop, heap, env, vars

\* A sleeper stays in the heap until its time has come.
LEMMA DeadlinesStep ==
  IInv /\ ClockRead /\ Deadlines /\ [Next]_vars => Deadlines'
<1> SUFFICES ASSUME IInv, ClockRead, Deadlines, [Next]_vars,
                    NEW g \in Goroutine
             PROVE  Slumber(g)'
  BY DEF Deadlines
<1>1. /\ asof \in Nat /\ now \in Nat
      /\ deadline \in [Goroutine -> Nat]
      /\ \A t \in timers : t.at \in Nat
  BY DEF IInv, TypeOK, Timer
<1>2. Slumber(g)
  BY DEF Deadlines
<1>3. ASSUME NEW w \in Worker, NEW t \in timers,
             ExpireSleep(w, t) \/ ExpireCallback(w, t)
      PROVE  Slumber(g)'
  <2>1. /\ t.at <= asof
        /\ timers' = timers \ {t}
        /\ UNCHANGED <<deadline, now>>
    BY <1>3 DEF ExpireSleep, ExpireCallback, Due, slept, env
  <2>2. CASE t.g = g /\ t.at = deadline[g]
    BY <1>1, <2>1, <2>2 DEF Slumber, ClockRead
  <2>3. CASE ~(t.g = g /\ t.at = deadline[g])
    BY <1>2, <2>1, <2>3 DEF Slumber
  <2>4. QED
    BY <2>2, <2>3
<1>4. ASSUME NEW w \in Worker, Insert(w) PROVE Slumber(g)'
  <2>1. adding[w] \in timers' /\ timers \subseteq timers' /\ now' = now
    BY <1>4 DEF Insert, env
  <2>2. CASE deadline'[g] = deadline[g]
    BY <1>2, <2>1, <2>2 DEF Slumber
  <2>3. CASE deadline'[g] # deadline[g]
    <3>1. adding[w].g = g /\ deadline'[g] = adding[w].at
      BY <1>1, <1>4, <2>3 DEF Insert, slept
    <3>2. QED
      BY <2>1, <3>1 DEF Slumber
  <2>4. QED
    BY <2>2, <2>3
<1>5. CASE Tick
  BY <1>1, <1>2, <1>5 DEF Tick, heap, slept, Slumber
<1>6. CASE UNCHANGED <<timers, deadline, now>>
  BY <1>2, <1>6 DEF Slumber
<1>7. QED
  BY <1>3, <1>4, <1>5, <1>6
  DEF Next, worker_loop, CheckTimers, resume, Blocks, LockTimers,
      UnlockTimers, Pop, WaitTimeout, Exit, ResumeTest, ResumeDrop, Switch,
      Back, Yield, sleep, Park, Finish, add_timer, ReadClock, go, Wake, Stop,
      heap, slept, env, vars

\* A push of anybody leaves those in order that were, as long as the heap is
\* left alone.
LEMMA AheadPush ==
  ASSUME IInv, NEW a, NEW b, Precedes(a, b), NEW g \in Goroutine,
         push_ready(g), timers' = timers
  PROVE  Precedes(a, b)'
<1>1. \A h : Queued(h) => Queued(h)'
  BY PushReadyQueues DEF IInv
<1>2. BothQueued(a, b) => BothQueued(a, b)'
  BY PushKeepsOrder DEF IInv
<1>3. QED
  BY <1>1, <1>2 DEF Precedes, BothAsleep, InTimers

\* Whoever must be taken first stays ahead, from the heap to the head of the
\* queue.
LEMMA AheadStep == IInv /\ Ahead /\ [Next]_vars => Ahead'
<1> SUFFICES ASSUME IInv, Ahead, [Next]_vars PROVE Ahead'
  OBVIOUS
<1>1. /\ TypeOK /\ OnePlace
      /\ \A t \in timers : t.at \in Nat
      /\ \A t, u \in timers : t.g = u.g /\ t.g # NoGoroutine => t = u
      /\ before \subseteq Goroutine \X Goroutine
  BY DEF IInv, OnePlace, TypeOK, Timer
<1>2. \A g \in Goroutine : ~(Queued(g) /\ InTimers(g))
  BY DEF IInv, OnePlace, Registered, Ready
<1>3. ASSUME NEW w \in Worker, NEW t \in timers, ExpireSleep(w, t)
      PROVE  Ahead'
  <2>1. /\ t.g \in Goroutine /\ push_ready(t.g)
        /\ timers' = timers \ {t} /\ before' = before
        /\ \A u \in timers : t.at <= u.at
    BY <1>3 DEF ExpireSleep, Due, slept, IInv, TypeOK, Timer
  <2>2. /\ \A h : Queued(h)' <=> Queued(h) \/ h = t.g
        /\ \A a, b : BothQueued(a, b) => BothQueued(a, b)'
        /\ \A a : Queued(a) => BothQueued(a, t.g)'
    BY <1>1, <2>1, PushReadyQueues, PushKeepsOrder
  <2>3. ASSUME NEW a \in Goroutine, NEW b \in Goroutine, Precedes(a, b)
        PROVE  Precedes(a, b)'
    <3>1. CASE BothAsleep(a, b)
      <4>1. PICK u \in timers, v \in timers :
               u.g = a /\ v.g = b /\ u.at < v.at
        BY <3>1 DEF BothAsleep
      <4>2. v # t
        BY <1>1, <2>1, <4>1
      <4>3. CASE u = t
        BY <2>1, <2>2, <4>1, <4>2, <4>3 DEF Precedes, InTimers
      <4>4. CASE u # t
        BY <2>1, <4>1, <4>2, <4>4 DEF Precedes, BothAsleep
      <4>5. QED
        BY <4>3, <4>4
    <3>2. CASE Queued(a) /\ InTimers(b)
      <4>1. CASE t.g = b
        BY <2>2, <3>2, <4>1 DEF Precedes
      <4>2. CASE t.g # b
        BY <2>1, <2>2, <3>2, <4>2 DEF Precedes, InTimers
      <4>3. QED
        BY <4>1, <4>2
    <3>3. CASE BothQueued(a, b)
      BY <2>2, <3>3 DEF Precedes
    <3>4. QED
      BY <2>3, <3>1, <3>2, <3>3 DEF Precedes
  <2>4. QED
    BY <1>1, <2>1, <2>3 DEF Ahead
<1>4. ASSUME NEW w \in Worker, NEW t \in timers, ExpireCallback(w, t)
      PROVE  Ahead'
  <2>1. /\ t.g = NoGoroutine
        /\ timers' = timers \ {t} /\ before' = before
    BY <1>4 DEF ExpireCallback, slept
  <2>2. /\ \A h : Queued(h) => Queued(h)'
        /\ \A a, b : BothQueued(a, b) => BothQueued(a, b)'
    <3>1. CASE ready_queue' = ready_queue
      BY <3>1 DEF Queued, BothQueued
    <3>2. ASSUME NEW g \in Goroutine, push_ready(g)
          PROVE  /\ \A h : Queued(h) => Queued(h)'
                 /\ \A a, b : BothQueued(a, b) => BothQueued(a, b)'
      BY <1>1, <3>2, PushReadyQueues, PushKeepsOrder
    <3>3. QED
      BY <1>1, <1>4, <3>1, <3>2 DEF ExpireCallback, TypeOK
  <2>3. ASSUME NEW a \in Goroutine, NEW b \in Goroutine, Precedes(a, b)
        PROVE  Precedes(a, b)'
    <3>1. \A u \in timers : u.g \in {a, b} => u \in timers'
      BY <2>1, NoGoroutineAssumption
    <3>2. QED
      BY <2>2, <2>3, <3>1 DEF Precedes, BothAsleep, InTimers
  <2>4. QED
    BY <1>1, <2>1, <2>3 DEF Ahead
<1>5. ASSUME NEW w \in Worker, Pop(w)
      PROVE  Ahead'
  <2>1. /\ ready_queue # <<>> /\ ready_queue' = Tail(ready_queue)
        /\ timers' = timers
        /\ before' = {p \in before : Head(ready_queue) \notin {p[1], p[2]}}
    BY <1>5 DEF Pop, Forget
  <2>2. /\ \A h : Queued(h) /\ h # Head(ready_queue) => Queued(h)'
        /\ \A a, b : BothQueued(a, b) /\ a # Head(ready_queue)
                        => BothQueued(a, b)'
    BY <1>1, <2>1, PopUnqueues, PopKeepsOrder
  <2>3. ASSUME NEW a, NEW b, Precedes(a, b), a # Head(ready_queue)
        PROVE  Precedes(a, b)'
    BY <2>1, <2>2, <2>3 DEF Precedes, BothAsleep, InTimers
  <2>4. QED
    BY <2>1, <2>3 DEF Ahead
<1>6. ASSUME NEW w \in Worker, Insert(w)
      PROVE  Ahead'
  <2>1. timers \subseteq timers' /\ ready_queue' = ready_queue
    BY <1>6 DEF Insert
  <2>2. ASSUME NEW a, NEW b, Precedes(a, b)
        PROVE  Precedes(a, b)'
    BY <2>1, <2>2 DEF Precedes, BothAsleep, InTimers, Queued, BothQueued
  <2>3. ASSUME NEW p \in before', p \notin before
        PROVE  BothAsleep(p[1], p[2])'
    <3>1. before' = before \cup
               {q \in Goroutine \X Goroutine : \E t, u \in timers' :
                  t.g = q[1] /\ u.g = q[2] /\ t.at < u.at}
      BY <1>6, <2>3 DEF Insert, slept
    <3>2. QED
      BY <2>3, <3>1 DEF BothAsleep
  <2>4. QED
    BY <2>2, <2>3 DEF Ahead, Precedes
<1>7. ASSUME NEW g \in Goroutine, push_ready(g), UNCHANGED <<timers, before>>
      PROVE  Ahead'
  BY <1>7, AheadPush DEF Ahead
<1>8. CASE UNCHANGED <<ready_queue, timers, before>>
  BY <1>8 DEF Ahead, Precedes, BothAsleep, InTimers, Queued, BothQueued
<1>9. QED
  BY <1>3, <1>4, <1>5, <1>6, <1>7, <1>8
  DEF Next, worker_loop, CheckTimers, resume, Blocks, LockTimers,
      UnlockTimers, WaitTimeout, Exit, ResumeTest, ResumeDrop, Switch, Back,
      Yield, sleep, Park, Finish, add_timer, ReadClock, go, Wake, Tick, Stop,
      heap, slept, env, vars

\* The head of the queue is the only goroutine that ever leaves it.
LEMMA OnlyPopUnqueues ==
  ASSUME IInv, [Next]_vars, NEW h \in Goroutine, Queued(h), ~Queued(h)'
  PROVE  /\ ready_queue # <<>>
         /\ ready_queue' = Tail(ready_queue)
         /\ h = Head(ready_queue)
<1> TypeOK /\ OnePlace
  BY DEF IInv
<1>1. ASSUME NEW w \in Worker, Pop(w)
      PROVE  /\ ready_queue # <<>>
             /\ ready_queue' = Tail(ready_queue)
             /\ h = Head(ready_queue)
  BY <1>1, PopUnqueues DEF Pop
<1>2. ASSUME NEW g \in Goroutine, push_ready(g) PROVE FALSE
  BY <1>2, PushReadyQueues
<1>3. ASSUME NEW w \in Worker, NEW t \in timers,
             ExpireSleep(w, t) \/ ExpireCallback(w, t)
      PROVE  FALSE
  <2>1. CASE UNCHANGED ready_queue
    BY <2>1 DEF Queued
  <2>2. CASE \E g \in Goroutine : push_ready(g)
    BY <2>2, <1>2
  <2>3. QED
    BY <1>3, <2>1, <2>2 DEF ExpireSleep, ExpireCallback, TypeOK, Timer
<1>4. CASE UNCHANGED ready_queue
  BY <1>4 DEF Queued
<1>5. QED
  BY <1>1, <1>2, <1>3, <1>4
  DEF Next, worker_loop, CheckTimers, resume, Blocks, LockTimers,
      UnlockTimers, WaitTimeout, Exit, ResumeTest, ResumeDrop, Switch, Back,
      Yield, sleep, Park, Finish, add_timer, ReadClock, Insert, go, Wake, Tick,
      Stop, heap, env, vars

\* From the call of sleep to the code behind it, for every number of workers,
\* sleepers and durations: nobody runs before its deadline, and of two that
\* sleep at once the one with the earlier deadline is taken from the ready queue
\* first, whichever workers check the timers, and whoever else is pushed.
THEOREM SleepersOrder == Spec => SleepersInOrder
<1> DEFINE NotEarly == \A g \in Goroutine : Runs(g) => deadline[g] <= now
           Leaves == \A g, h \in Goroutine :
                        Queued(h) /\ ~Queued(h)' => <<g, h>> \notin before
<1>1. Init => ClockRead /\ Deadlines /\ Ahead
  BY DEF Init, ClockRead, Deadlines, Slumber, Ahead
<1>2. IInv /\ ClockRead /\ Deadlines /\ Ahead /\ [Next]_vars
        => ClockRead' /\ Deadlines' /\ Ahead'
  BY ClockReadStep, DeadlinesStep, AheadStep
<1>3. IInv /\ Deadlines => NotEarly
  <2> SUFFICES ASSUME IInv, Deadlines, NEW g \in Goroutine, Runs(g)
      PROVE  deadline[g] <= now
    OBVIOUS
  <2>1. ~InTimers(g)
    BY DEF IInv, PendingBlocked, FiberPlace, Runs, Registered
  <2>2. QED
    BY <2>1 DEF Deadlines, Slumber, InTimers
<1>4. IInv /\ Ahead /\ [Next]_vars => [Leaves]_vars
  <2> SUFFICES ASSUME IInv, Ahead, [Next]_vars,
                      NEW g \in Goroutine, NEW h \in Goroutine,
                      Queued(h), ~Queued(h)', <<g, h>> \in before
      PROVE  FALSE
    OBVIOUS
  <2>1. Precedes(g, h)
    BY DEF Ahead
  <2>2. ~InTimers(h)
    BY DEF IInv, OnePlace, Registered, Ready
  <2>3. BothQueued(g, h)
    BY <2>1, <2>2 DEF Precedes, BothAsleep, InTimers
  <2>4. QED
    BY <2>3, OnlyPopUnqueues, PopKeepsOrder DEF IInv
<1>5. QED
  BY <1>1, <1>2, <1>3, <1>4, Invariance, PTL DEF Spec, SleepersInOrder

-----------------------------------------------------------------------------
(***************************************************************************)
(* The refinement.  The lemmas below say what a step does to the mapped    *)
(* variables, one goroutine at a time.                                     *)
(***************************************************************************)

\* Only g is touched, or nobody.
Untouched(h) == fiberOf(h)' = fiberOf(h) /\ handleOf(h)' = handleOf(h)

Touches(g, f, k) ==
  /\ fiberOf(g)' = f
  /\ handleOf(g)' = k
  /\ \A h \in Goroutine \ {g} : Untouched(h)

\* Nobody is touched.
LEMMA MapStutter ==
  ASSUME \A h \in Goroutine : Untouched(h)
  PROVE  UNCHANGED Contract!gvars
  BY DEF Untouched, Contract!gvars

\* make_shared and push_ready.
LEMMA MapGo ==
  ASSUME NEW g \in Goroutine, fiberOf(g) = "new",
         Touches(g, "suspended", "ready")
  PROVE  Contract!Go(g)
  BY DEF Touches, Untouched, Contract!Go, Contract!PushReady

\* A goroutine has stored its pointer.
LEMMA MapPark ==
  ASSUME NEW g \in Goroutine, fiberOf(g) = "running",
         Touches(g, "parking", "registered")
  PROVE  Contract!Park(g)
  BY DEF Touches, Untouched, Contract!Park, Contract!Register,
         Contract!Running

\* A fiber is back in ctx_.
LEMMA MapYield ==
  ASSUME NEW g \in Goroutine, fiberOf(g) = "parking",
         Touches(g, "suspended", handleOf(g))
  PROVE  Contract!Yield(g)
  BY DEF Touches, Untouched, Contract!Yield

\* A registered pointer is pushed.
LEMMA MapWake ==
  ASSUME NEW g \in Goroutine, handleOf(g) = "registered",
         Touches(g, fiberOf(g), "ready")
  PROVE  Contract!Wake(g)
  BY DEF Touches, Untouched, Contract!Wake, Contract!PushReady

\* A worker lets go of a pointer.
LEMMA MapResume ==
  ASSUME NEW g \in Goroutine, handleOf(g) = "ready",
         Touches(g, IF fiberOf(g) = "suspended" THEN "running"
                    ELSE fiberOf(g), "none")
  PROVE  Contract!Resume(g)
  BY DEF Touches, Untouched, Contract!Resume, Contract!Resumable

\* A task has returned.
LEMMA MapFinish ==
  ASSUME NEW g \in Goroutine, fiberOf(g) = "running",
         Touches(g, "finished", handleOf(g))
  PROVE  Contract!Finish(g)
  BY DEF Touches, Untouched, Contract!Finish, Contract!Running

\* Every step of the scheduler is a step of the contract, or changes nothing
\* the contract can see.
LEMMA StepRefines ==
  IInv /\ TypeOK' /\ [Next]_vars => [Contract!RuntimeNext]_(Contract!gvars)
<1> SUFFICES ASSUME IInv, TypeOK', [Next]_vars
    PROVE  Contract!RuntimeNext \/ UNCHANGED Contract!gvars
  OBVIOUS
<1> DEFINE Simulated == Contract!RuntimeNext \/ UNCHANGED Contract!gvars
<1> USE NoGoroutineAssumption
    DEF heap, env, local, fibers, IInv, TypeOK, OnePlace, PendingBlocked,
        FiberPlace, WorkerLocal, Moves, Executes,
        Registered, Ready, InTimers, HeldBy, OnStack
<1>1. ASSUME NEW w \in Worker, LockTimers(w)
     PROVE  Simulated
  <2>1. \A h \in Goroutine : Untouched(h)
    BY <1>1 DEF LockTimers, fiberOf, handleOf, Untouched, Queued
  <2>2. QED
    BY <2>1, MapStutter
<1>2. ASSUME NEW w \in Worker, NEW t \in timers, ExpireSleep(w, t)
     PROVE  Simulated
  <2>1. PICK g \in Goroutine : g = t.g
    BY <1>2 DEF ExpireSleep, Timer
  <2>2. push_ready(g) /\ ~Queued(g) /\ handleOf(g) = "registered"
    BY <1>2, <2>1 DEF ExpireSleep, handleOf
  <2>3. Touches(g, fiberOf(g), "ready")
    BY <1>2, <2>1, <2>2, PushReadyQueues
    DEF ExpireSleep, Touches, Untouched, fiberOf, handleOf
  <2>4. QED
    BY <2>2, <2>3, MapWake DEF Contract!RuntimeNext, Contract!RuntimeStep
<1>3. ASSUME NEW w \in Worker, NEW t \in timers, ExpireCallback(w, t)
     PROVE  Simulated
  <2>1. CASE ready_queue' = ready_queue /\ parked' = parked
    <3>1. \A h \in Goroutine : Untouched(h)
      BY <1>3, <2>1 DEF ExpireCallback, fiberOf, handleOf, Untouched, Queued
    <3>2. QED
      BY <3>1, MapStutter
  <2>2. ASSUME NEW g \in parked, parked' = parked \ {g}, push_ready(g)
        PROVE  Contract!RuntimeNext
    <3>1. g \in Goroutine /\ ~Queued(g) /\ handleOf(g) = "registered"
      BY <1>3, <2>2 DEF fiberOf, handleOf, Untouched
    <3>2. Touches(g, fiberOf(g), "ready")
      BY <1>3, <2>2, <3>1, PushReadyQueues
      DEF ExpireCallback, fiberOf, handleOf, Untouched, Touches
    <3>3. QED
      BY <3>1, <3>2, MapWake DEF Contract!RuntimeNext, Contract!RuntimeStep
  <2>3. QED
    BY <1>3, <2>1, <2>2 DEF ExpireCallback, fiberOf, handleOf, Untouched
<1>4. ASSUME NEW w \in Worker, UnlockTimers(w)
     PROVE  Simulated
  <2>1. \A h \in Goroutine : Untouched(h)
    BY <1>4 DEF UnlockTimers, fiberOf, handleOf, Untouched, Queued
  <2>2. QED
    BY <2>1, MapStutter
<1>5. ASSUME NEW w \in Worker, Pop(w)
     PROVE  Simulated
  <2>1. \A h \in Goroutine :
           Queued(h) => (Queued(h) \/ \E v \in Worker : HeldBy(v, h))'
    BY <1>5, PopUnqueues DEF Pop, fiberOf, handleOf, Untouched
  <2>2. ASSUME NEW h \in Goroutine PROVE Untouched(h)
    <3>1. fiberOf(h)' = fiberOf(h)
      BY <1>5 DEF Pop, fiberOf
    <3>2. Ready(h)' <=> Ready(h)
      BY <1>5, <2>1, PopUnqueues DEF Pop
    <3>3. Registered(h)' <=> Registered(h)
      BY <1>5 DEF Pop
    <3>4. handleOf(h)' = handleOf(h)
      BY <3>2, <3>3 DEF handleOf
    <3>5. QED
      BY <3>1, <3>4 DEF Untouched
  <2>3. QED
    BY <2>2, MapStutter
<1>6. ASSUME NEW w \in Worker, WaitTimeout(w)
     PROVE  Simulated
  <2>1. \A h \in Goroutine : Untouched(h)
    BY <1>6 DEF WaitTimeout, fiberOf, handleOf, Untouched, Queued
  <2>2. QED
    BY <2>1, MapStutter
<1>7. ASSUME NEW w \in Worker, Exit(w)
     PROVE  Simulated
  <2>1. \A h \in Goroutine : Untouched(h)
    BY <1>7 DEF Exit, fiberOf, handleOf, Untouched, Queued
  <2>2. QED
    BY <2>1, MapStutter
<1>8. ASSUME NEW w \in Worker, ResumeTest(w)
     PROVE  Simulated
  <2>1. \A h \in Goroutine : Untouched(h)
    BY <1>8 DEF ResumeTest, fiberOf, handleOf, Untouched, Queued, Resumable
  <2>2. QED
    BY <2>1, MapStutter
<1>9. ASSUME NEW w \in Worker, ResumeDrop(w)
     PROVE  Simulated
  <2>1. PICK g \in Goroutine : g = held[w]
    BY <1>9 DEF ResumeDrop
  <2>2. fiberOf(g) # "suspended" /\ handleOf(g) = "ready"
    BY <1>9, <2>1 DEF ResumeDrop, fiberOf, handleOf, Queued, Resumable
  <2>3. /\ fiberOf(g)' = fiberOf(g)
        /\ \A h \in Goroutine \ {g} : fiberOf(h)' = fiberOf(h)
    BY <1>9, <2>1, <2>2 DEF ResumeDrop, fiberOf, Resumable
  <2>4. handleOf(g)' = "none"
    BY <1>9, <2>1, <2>2 DEF ResumeDrop, handleOf, Queued
  <2>5. ASSUME NEW h \in Goroutine \ {g}
        PROVE  handleOf(h)' = handleOf(h)
    BY <1>9, <2>1 DEF ResumeDrop, handleOf, Queued
  <2>6. Touches(g, fiberOf(g), "none")
    BY <2>3, <2>4, <2>5 DEF Touches, Untouched
  <2>7. QED
    BY <2>2, <2>6, MapResume DEF Contract!RuntimeNext, Contract!RuntimeStep
<1>10. ASSUME NEW w \in Worker, Switch(w)
      PROVE  Simulated
  <2>1. PICK g \in Goroutine : g = held[w]
    BY <1>10 DEF Switch
  <2>2. fiberOf(g) = "suspended" /\ handleOf(g) = "ready"
    BY <1>10, <2>1 DEF Switch, fiberOf, handleOf, Queued
  <2>3. /\ fiberOf(g)' = "running"
        /\ \A h \in Goroutine \ {g} : fiberOf(h)' = fiberOf(h)
    BY <1>10, <2>1, <2>2 DEF Switch, fiberOf
  <2>4. handleOf(g)' = "none"
    BY <1>10, <2>1, <2>2 DEF Switch, handleOf, Queued
  <2>5. ASSUME NEW h \in Goroutine \ {g}
        PROVE  handleOf(h)' = handleOf(h)
    BY <1>10, <2>1 DEF Switch, handleOf, Queued
  <2>6. Touches(g, "running", "none")
    BY <2>3, <2>4, <2>5 DEF Touches, Untouched
  <2>7. QED
    BY <2>2, <2>6, MapResume DEF Contract!RuntimeNext, Contract!RuntimeStep
<1>11. ASSUME NEW w \in Worker, Back(w)
      PROVE  Simulated
  <2>1. PICK g \in Goroutine : g = held[w]
    BY <1>11 DEF Back
  <2>2. \A h \in Goroutine \ {g} : fiberOf(h)' = fiberOf(h)
    BY <1>11, <2>1 DEF Back, fiberOf
  <2>3. ASSUME NEW h \in Goroutine PROVE handleOf(h)' = handleOf(h)
    BY <1>11, <2>1 DEF Back, handleOf, Queued
  <2>4. CASE g \in finished
    <3>1. fiberOf(g)' = fiberOf(g)
      BY <1>11, <2>1, <2>4 DEF Back, fiberOf
    <3>2. \A h \in Goroutine : Untouched(h)
      BY <2>2, <2>3, <3>1 DEF Untouched
    <3>3. QED
      BY <3>2, MapStutter
  <2>5. CASE g \notin finished
    <3>1. fiberOf(g) = "parking" /\ fiberOf(g)' = "suspended"
      BY <1>11, <2>1, <2>5 DEF Back, fiberOf
    <3>2. Touches(g, "suspended", handleOf(g))
      BY <2>2, <2>3, <3>1 DEF Touches, Untouched
    <3>3. QED
      BY <3>1, <3>2, MapYield
      DEF Contract!RuntimeNext, Contract!RuntimeStep
  <2>6. QED
    BY <2>4, <2>5
<1>12. ASSUME NEW w \in Worker, Yield(w)
      PROVE  Simulated
  <2>1. \A h \in Goroutine : Untouched(h)
    BY <1>12 DEF Yield, fiberOf, handleOf, Untouched, Queued
  <2>2. QED
    BY <2>1, MapStutter
<1>13. ASSUME NEW w \in Worker, NEW ms \in Delay, sleep(w, ms)
      PROVE  Simulated
  <2>1. \A h \in Goroutine : Untouched(h)
    BY <1>13
    DEF sleep, ReadClock, fiberOf, handleOf, Untouched, Queued
  <2>2. QED
    BY <2>1, MapStutter
<1>14. ASSUME NEW w \in Worker, Park(w)
      PROVE  Simulated
  <2>1. PICK g \in Goroutine : g = current[w]
    BY <1>14 DEF Park
  <2>2. fiberOf(g) = "running"
    BY <1>14, <2>1 DEF Park, fiberOf, handleOf, Queued
  <2>3. /\ fiberOf(g)' = "parking"
        /\ \A h \in Goroutine \ {g} : fiberOf(h)' = fiberOf(h)
    BY <1>14, <2>1, <2>2 DEF Park, fiberOf
  <2>4. handleOf(g)' = "registered"
    BY <1>14, <2>1, <2>2 DEF Park, handleOf, Queued
  <2>5. ASSUME NEW h \in Goroutine \ {g}
        PROVE  handleOf(h)' = handleOf(h)
    BY <1>14, <2>1 DEF Park, handleOf, Queued
  <2>6. Touches(g, "parking", "registered")
    BY <2>3, <2>4, <2>5 DEF Touches, Untouched
  <2>7. QED
    BY <2>2, <2>6, MapPark DEF Contract!RuntimeNext, Contract!RuntimeStep
<1>15. ASSUME NEW w \in Worker, Finish(w)
      PROVE  Simulated
  <2>1. PICK g \in Goroutine : g = held[w]
    BY <1>15 DEF Finish
  <2>2. fiberOf(g) = "running"
    BY <1>15, <2>1 DEF Finish, fiberOf, handleOf, Queued
  <2>3. /\ fiberOf(g)' = "finished"
        /\ \A h \in Goroutine \ {g} : fiberOf(h)' = fiberOf(h)
    BY <1>15, <2>1, <2>2 DEF Finish, fiberOf
  <2>4. handleOf(g)' = handleOf(g)
    BY <1>15, <2>1, <2>2 DEF Finish, handleOf, Queued
  <2>5. ASSUME NEW h \in Goroutine \ {g}
        PROVE  handleOf(h)' = handleOf(h)
    BY <1>15, <2>1 DEF Finish, handleOf, Queued
  <2>6. Touches(g, "finished", handleOf(g))
    BY <2>3, <2>4, <2>5 DEF Touches, Untouched
  <2>7. QED
    BY <2>2, <2>6, MapFinish DEF Contract!RuntimeNext, Contract!RuntimeStep
<1>16. ASSUME NEW w \in Worker, NEW ms \in Delay, add_timer(w, ms)
      PROVE  Simulated
  <2>1. \A h \in Goroutine : Untouched(h)
    BY <1>16
    DEF add_timer, ReadClock, fiberOf, handleOf, Untouched, Queued
  <2>2. QED
    BY <2>1, MapStutter
<1>17. ASSUME NEW g \in Goroutine, go(g)
      PROVE  Simulated
  <2>1. push_ready(g) /\ ~Queued(g) /\ fiberOf(g) = "new"
    BY <1>17 DEF go, fiberOf, handleOf, Untouched
  <2>2. Touches(g, "suspended", "ready")
    BY <1>17, <2>1, PushReadyQueues
    DEF go, fiberOf, handleOf, Untouched, Touches
  <2>3. QED
    BY <2>1, <2>2, MapGo DEF Contract!RuntimeNext, Contract!RuntimeStep
<1>18. ASSUME NEW g \in Goroutine, Wake(g)
      PROVE  Simulated
  <2>1. push_ready(g) /\ ~Queued(g) /\ handleOf(g) = "registered"
    BY <1>18 DEF Wake, handleOf
  <2>2. Touches(g, fiberOf(g), "ready")
    BY <1>18, <2>1, PushReadyQueues
    DEF Wake, Touches, Untouched, fiberOf, handleOf
  <2>3. QED
    BY <2>1, <2>2, MapWake DEF Contract!RuntimeNext, Contract!RuntimeStep
<1>19. ASSUME Tick
      PROVE  Simulated
  <2>1. \A h \in Goroutine : Untouched(h)
    BY <1>19 DEF Tick, fiberOf, handleOf, Untouched, Queued
  <2>2. QED
    BY <2>1, MapStutter
<1>20. ASSUME Stop
      PROVE  Simulated
  <2>1. \A h \in Goroutine : Untouched(h)
    BY <1>20 DEF Stop, fiberOf, handleOf, Untouched, Queued
  <2>2. QED
    BY <2>1, MapStutter
<1>21. ASSUME NEW w \in Worker, Insert(w)
      PROVE  Simulated
  <2> PICK g \in Goroutine \cup {NoGoroutine} : g = adding[w].g
    BY <1>21 DEF Insert
  <2>1. CASE g = NoGoroutine
    <3>1. \A h \in Goroutine : InTimers(h)' <=> InTimers(h)
      <4>1. timers' = timers \cup {adding[w]}
        BY <1>21 DEF Insert
      <4>2. \A h \in Goroutine : adding[w].g # h
        BY <2>1
      <4>3. QED
        BY <4>1, <4>2
    <3>2. UNCHANGED <<ready_queue, pc, held, created, ctx, finished, yielding,
                      parked>>
      BY <1>21, <2>1 DEF Insert
    <3>3. ASSUME NEW h \in Goroutine PROVE Untouched(h)
      <4>1. fiberOf(h)' = fiberOf(h)
        BY <3>2 DEF fiberOf
      <4>2. Registered(h)' <=> Registered(h)
        BY <3>1, <3>2
      <4>3. Ready(h)' <=> Ready(h)
        BY <3>2 DEF Queued
      <4>4. QED
        BY <4>1, <4>2, <4>3 DEF handleOf, Untouched
    <3>4. QED
      BY <3>3, MapStutter
  <2>2. CASE g # NoGoroutine
    <3>1. g \in Goroutine /\ g = held[w] /\ g \notin yielding
      BY <1>21, <2>2 DEF Insert, Timer
    <3>2. /\ timers' = timers \cup {adding[w]}
          /\ yielding' = yielding \cup {g}
          /\ UNCHANGED <<ready_queue, pc, held, created, ctx, finished, parked>>
      BY <1>21, <2>2 DEF Insert
    <3>3. fiberOf(g) = "running"
      BY <1>21, <3>1 DEF Insert, fiberOf
    <3>4. /\ fiberOf(g)' = "parking"
          /\ \A h \in Goroutine \ {g} : fiberOf(h)' = fiberOf(h)
      BY <3>1, <3>2, <3>3 DEF fiberOf
    <3>5. handleOf(g)' = "registered"
      BY <3>2 DEF handleOf
    <3>6. ASSUME NEW h \in Goroutine \ {g}
          PROVE  handleOf(h)' = handleOf(h)
      BY <3>2 DEF handleOf, Queued
    <3>7. Touches(g, "parking", "registered")
      BY <3>4, <3>5, <3>6 DEF Touches, Untouched
    <3>8. QED
      BY <3>1, <3>3, <3>7, MapPark
      DEF Contract!RuntimeNext, Contract!RuntimeStep
  <2>3. QED
    BY <2>1, <2>2
<1>22. CASE UNCHANGED vars
  <2>1. \A h \in Goroutine : Untouched(h)
    BY <1>22 DEF vars, fiberOf, handleOf, Untouched, Queued
  <2>2. QED
    BY <2>1, MapStutter
<1>23. QED
  BY <1>1, <1>2, <1>3, <1>4, <1>5, <1>6, <1>7, <1>8, <1>9, <1>10, <1>11, <1>12,
     <1>13, <1>14, <1>15, <1>16, <1>17, <1>18, <1>19, <1>20, <1>21, <1>22
  DEF Next, worker_loop, CheckTimers, resume, Blocks

\* The scheduler implements the contract on which the blocking primitives are
\* built, for every set of goroutines and workers.
THEOREM Implements == Spec => ImplementsContract
<1>1. Init => Contract!RuntimeInit
  <2>1. ASSUME Init, NEW g \in Goroutine
        PROVE  fiberOf(g) = "new" /\ handleOf(g) = "none"
    <3>1. Len(ready_queue) = 0
      BY <2>1 DEF Init
    <3>2. QED
      BY <2>1, <3>1 DEF Init, fiberOf, handleOf, Registered, Ready, Queued,
         In, InTimers, HeldBy
  <2>2. QED
    BY <2>1 DEF Contract!RuntimeInit
<1>2. IInv /\ IInv' /\ [Next]_vars => [Contract!RuntimeNext]_(Contract!gvars)
  BY StepRefines DEF IInv
<1>3. QED
  BY <1>1, <1>2, Invariance, PTL
  DEF Spec, ImplementsContract, Contract!RuntimeSpec

=============================================================================

-------------------------------- MODULE CoMutex --------------------------------
(***************************************************************************)
(* src/data_structure/co_mutex.cpp: the mutex that parks goroutines.       *)
(*                                                                         *)
(* A step is one atomic access: the compare-and-swap of try_lock, a        *)
(* critical section of wait_queue_lock_, or a push_ready.  lock() tests    *)
(* locked_ outside the spinlock, so an unlock() may fall between the       *)
(* failed test and the enqueueing.                                         *)
(***************************************************************************)
EXTENDS Goroutines, Naturals, Sequences, Queues

CONSTANT NoGoroutine        \* a null next_g

ASSUME NoGoroutineAssumption == NoGoroutine \notin Goroutine

VARIABLES
  locked,       \* locked_
  waiting_gs,   \* waiting_gs_
  next_g,       \* the local next_g of a goroutine in unlock()
  pc            \* where each goroutine is

mvars == <<locked, waiting_gs, next_g, pc>>
vars == <<gvars, mvars>>

\* "enqueue": try_lock failed.  "waiting": in the queue, or taken out of it and
\* not yet run.  "in": lock() has returned.  "wake": in unlock(), spinlock
\* released, next_g still to be pushed.
MutexPC == {"idle", "enqueue", "waiting", "in", "wake"}

TypeOK ==
  /\ RuntimeTypeOK
  /\ locked \in BOOLEAN
  /\ waiting_gs \in Seq(Goroutine)
  /\ next_g \in [Goroutine -> Goroutine \cup {NoGoroutine}]
  /\ pc \in [Goroutine -> MutexPC]

Init ==
  /\ RuntimeInit
  /\ locked = FALSE
  /\ waiting_gs = <<>>
  /\ next_g = [g \in Goroutine |-> NoGoroutine]
  /\ pc = [g \in Goroutine |-> "idle"]

Moves(g, from, to) == Running(g) /\ pc[g] = from /\ pc' = [pc EXCEPT ![g] = to]

-----------------------------------------------------------------------------
\* Faulty: a plain read and a plain write instead of the exchange.
try_lock_read(g) == locked' = TRUE

\* The compare-and-swap that succeeds.
try_lock(g) == ~locked /\ locked' = TRUE

\* lock() or a direct try_lock() gets the mutex at once.
Acquire(g) ==
  /\ Moves(g, "idle", "in")
  /\ try_lock(g)
  /\ UNCHANGED <<gvars, waiting_gs, next_g>>

\* lock(): the compare-and-swap fails.
Contend(g) ==
  /\ Moves(g, "idle", "enqueue")
  /\ locked
  /\ UNCHANGED <<gvars, locked, waiting_gs, next_g>>

\* lock(): join the queue; Goroutine::yield() comes next.
Enqueue(g) ==
  /\ Moves(g, "enqueue", "waiting")
  /\ waiting_gs' = Append(waiting_gs, g)
  /\ Register(g)
  /\ UNCHANGED <<locked, next_g>>

\* unlock() with somebody queued: ownership passes on, locked_ stays set.
HandOff(g) ==
  /\ Moves(g, "in", "wake")
  /\ waiting_gs # <<>>
  /\ next_g' = [next_g EXCEPT ![g] = Head(waiting_gs)]
  /\ waiting_gs' = Tail(waiting_gs)
  /\ UNCHANGED <<gvars, locked>>

\* unlock() with an empty queue.
Release(g) ==
  /\ Moves(g, "in", "idle")
  /\ waiting_gs = <<>>
  /\ locked' = FALSE
  /\ UNCHANGED <<gvars, waiting_gs, next_g>>

\* Faulty: locked_ is cleared although the mutex is handed to next_g.
WakeNext_clears(g) ==
  /\ Moves(g, "wake", "idle")
  /\ PushReady(next_g[g])
  /\ next_g' = [next_g EXCEPT ![g] = NoGoroutine]
  /\ locked' = FALSE
  /\ UNCHANGED <<fiber, waiting_gs>>

\* Faulty: the unlocker pushes itself.
WakeNext_self(g) ==
  /\ Moves(g, "wake", "idle")
  /\ PushReady(g)
  /\ next_g' = [next_g EXCEPT ![g] = NoGoroutine]
  /\ UNCHANGED <<fiber, locked, waiting_gs>>

\* Faulty: next_g is dropped.
WakeNext_forgets(g) ==
  /\ Moves(g, "wake", "idle")
  /\ next_g' = [next_g EXCEPT ![g] = NoGoroutine]
  /\ UNCHANGED <<gvars, locked, waiting_gs>>

\* unlock(): push_ready(next_g), after the spinlock is released.
WakeNext(g) ==
  /\ Moves(g, "wake", "idle")
  /\ PushReady(next_g[g])
  /\ next_g' = [next_g EXCEPT ![g] = NoGoroutine]
  /\ UNCHANGED <<fiber, locked, waiting_gs>>

-----------------------------------------------------------------------------
\* The runtime: a goroutine resumed inside lock() returns from it.
Schedule(g) ==
  /\ Resume(g)
  /\ pc' = [pc EXCEPT ![g] =
              IF Resumable(g) /\ @ = "waiting" THEN "in" ELSE @]
  /\ UNCHANGED <<locked, waiting_gs, next_g>>

Start(g) == Go(g) /\ UNCHANGED mvars

Suspend(g) == Yield(g) /\ UNCHANGED mvars

Return(g) == pc[g] = "idle" /\ Finish(g) /\ UNCHANGED mvars

\* What a goroutine that is inside lock() or unlock(), or that holds the
\* mutex, does next.
Proceed(g) == Enqueue(g) \/ HandOff(g) \/ Release(g) \/ WakeNext(g)

Next ==
  \E g \in Goroutine :
     Acquire(g) \/ Contend(g) \/ Proceed(g) \/ Schedule(g) \/ Start(g)
        \/ Suspend(g) \/ Return(g)

\* Ready goroutines are scheduled, and the holder unlocks; nothing is assumed
\* of goroutines that have not called lock().
Fairness ==
  \A g \in Goroutine :
     WF_vars(Proceed(g)) /\ WF_vars(Schedule(g)) /\ WF_vars(Suspend(g))

Spec == Init /\ [][Next]_vars /\ Fairness

-----------------------------------------------------------------------------
(***************************************************************************)
(* Properties.                                                             *)
(***************************************************************************)
Queued(g) == In(waiting_gs, g)

\* The goroutine the mutex belongs to: it is past lock(), or unlock() has
\* taken it out of the queue and it has not run yet.
Owner(g) == pc[g] = "in" \/ (pc[g] = "waiting" /\ ~Queued(g))

\* At most one goroutine is past lock() and before unlock().
MutualExclusion ==
  \A g, h \in Goroutine : pc[g] = "in" /\ pc[h] = "in" => g = h

\* "Being woken is holding the lock" (the comment in lock()): handing over
\* keeps locked_ set for exactly one goroutine at every moment, the one in
\* transit between unlock() and its wake-up included.  This implies
\* MutualExclusion.
LockedIffOwned ==
  /\ locked <=> \E g \in Goroutine : Owner(g)
  /\ \A g, h \in Goroutine : Owner(g) /\ Owner(h) => g = h

\* lock() and unlock() use the runtime as its contract allows: each queued
\* goroutine is pushed once, and only while it is registered.
ObeysContract == RuntimeInit /\ [][RuntimeNext]_gvars

\* A queued goroutine gets a mutex that somebody holds, in finitely many
\* hand-overs, unless the mutex was handed to a goroutine whose wake-up found
\* it still on its worker.
HandOverReachesAll ==
  \A g \in Goroutine :
     Queued(g) /\ locked ~> pc[g] = "in" \/ \E h \in Goroutine : Lost(h)

=============================================================================

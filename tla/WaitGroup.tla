------------------------------- MODULE WaitGroup -------------------------------
(***************************************************************************)
(* src/data_structure/wait_group.cpp: a counter, and the goroutines that   *)
(* wait for it to be zero.                                                 *)
(*                                                                         *)
(* The counter is an atomic that lock_ does not protect: add() decides     *)
(* that it must wake the waiters when its own update gives zero, and takes *)
(* the list of waiters in a later step.  In wait(), the second test and    *)
(* the push_back are one critical section of lock_, hence one step here:   *)
(* an update of the counter between the two has the effect of one after.   *)
(***************************************************************************)
EXTENDS Goroutines, Integers

CONSTANTS
  Delta,       \* the arguments of add(); done() is add(-1)
  MaxCounter   \* bound on the counter; below zero it stops at -1

ASSUME DeltaAssumption == Delta \subseteq Int /\ MaxCounter \in Nat

VARIABLES
  counter,     \* counter_
  waiting_gs,  \* waiting_gs_, whose order is not observable
  to_wake,     \* the local to_wake of a goroutine in add()
  pc,          \* where each goroutine is
  zeroed,      \* history: goroutines in wait() that have lived through a zero
  late         \* history: goroutines in wait() that joined the list between a
               \* zero and the swap of the add() that brought it about

history == <<zeroed, late>>
wvars == <<counter, waiting_gs, to_wake, pc, zeroed, late>>
vars == <<gvars, wvars>>

\* "swap": add() has made the counter zero.  "wake": in its loop.  "enlist":
\* wait() has passed its first test.  "waiting": from push_back to the return.
WaitGroupPC == {"idle", "swap", "wake", "enlist", "waiting"}

TypeOK ==
  /\ RuntimeTypeOK
  /\ counter \in -1..MaxCounter
  /\ waiting_gs \subseteq Goroutine
  /\ to_wake \in [Goroutine -> SUBSET Goroutine]
  /\ pc \in [Goroutine -> WaitGroupPC]
  /\ zeroed \subseteq Goroutine
  /\ late \subseteq Goroutine

Init ==
  /\ RuntimeInit
  /\ counter = 0
  /\ waiting_gs = {}
  /\ to_wake = [g \in Goroutine |-> {}]
  /\ pc = [g \in Goroutine |-> "idle"]
  /\ zeroed = {}
  /\ late = {}

Moves(g, from, to) == Running(g) /\ pc[g] = from /\ pc' = [pc EXCEPT ![g] = to]

InWait(g) == pc[g] \in {"enlist", "waiting"}

-----------------------------------------------------------------------------
\* The bounds on the counter.
Used(d) == counter + d \in -1..MaxCounter

\* Faulty: the waiters are woken whatever the result.
Add_wakes(g, d) ==
  /\ Moves(g, "idle", "swap")
  /\ Used(d)
  /\ counter + d > 0
  /\ counter' = counter + d
  /\ UNCHANGED <<gvars, waiting_gs, to_wake, history>>

\* add(): one atomic update, whose result is positive.
Add(g, d) ==
  /\ Running(g) /\ pc[g] = "idle"
  /\ Used(d)
  /\ counter + d > 0
  /\ counter' = counter + d
  /\ UNCHANGED <<gvars, waiting_gs, to_wake, pc, history>>

\* add() below zero: it throws, and the counter stays negative.
AddThrows(g, d) ==
  /\ Running(g) /\ pc[g] = "idle"
  /\ Used(d)
  /\ counter + d < 0
  /\ counter' = counter + d
  /\ UNCHANGED <<gvars, waiting_gs, to_wake, pc, history>>

\* add() to zero.
AddToZero(g, d) ==
  /\ Moves(g, "idle", "swap")
  /\ Used(d)
  /\ counter + d = 0
  /\ counter' = 0
  /\ zeroed' = zeroed \cup {h \in Goroutine : InWait(h)}
  /\ UNCHANGED <<gvars, waiting_gs, to_wake, late>>

\* add(): to_wake.swap(waiting_gs_), under lock_.
Swap(g) ==
  /\ Moves(g, "swap", "wake")
  /\ to_wake' = [to_wake EXCEPT ![g] = waiting_gs]
  /\ waiting_gs' = {}
  /\ UNCHANGED <<gvars, counter, history>>

\* Faulty: the loop does not advance.
WakeOne_again(g) ==
  /\ Running(g) /\ pc[g] = "wake"
  /\ \E h \in to_wake[g] : PushReady(h)
  /\ UNCHANGED <<fiber, counter, waiting_gs, to_wake, pc, history>>

\* add(): one round of the loop.
WakeOne(g) ==
  /\ Running(g) /\ pc[g] = "wake"
  /\ \E h \in to_wake[g] :
       /\ to_wake' = [to_wake EXCEPT ![g] = @ \ {h}]
       /\ PushReady(h)
  /\ UNCHANGED <<fiber, counter, waiting_gs, pc, history>>

\* Faulty: add() returns after it has woken one goroutine.
AddReturns_one(g) ==
  /\ Moves(g, "wake", "idle")
  /\ to_wake' = [to_wake EXCEPT ![g] = {}]
  /\ UNCHANGED <<gvars, counter, waiting_gs, history>>

AddReturns(g) ==
  /\ Moves(g, "wake", "idle")
  /\ to_wake[g] = {}
  /\ UNCHANGED <<gvars, counter, waiting_gs, to_wake, history>>

\* wait(): the first test, outside the lock, finds the counter not zero (if it
\* is zero, wait() returns and nothing has changed).
Wait(g) ==
  /\ Moves(g, "idle", "enlist")
  /\ counter # 0
  /\ UNCHANGED <<gvars, counter, waiting_gs, to_wake, history>>

\* Faulty: no second test under the lock.
Enlist_unchecked(g) ==
  /\ Moves(g, "enlist", "waiting")
  /\ waiting_gs' = waiting_gs \cup {g}
  /\ Register(g)
  /\ UNCHANGED <<counter, to_wake, history>>

\* wait(): the second test fails; Goroutine::yield() comes next.
Enlist(g) ==
  /\ Moves(g, "enlist", "waiting")
  /\ counter # 0
  /\ waiting_gs' = waiting_gs \cup {g}
  /\ Register(g)
  /\ late' = IF \E h \in Goroutine : pc[h] = "swap" THEN late \cup {g} ELSE late
  /\ UNCHANGED <<counter, to_wake, zeroed>>

\* wait(): the second test finds zero.
EnlistZero(g) ==
  /\ Moves(g, "enlist", "idle")
  /\ counter = 0
  /\ zeroed' = zeroed \ {g}
  /\ UNCHANGED <<gvars, counter, waiting_gs, to_wake, late>>

-----------------------------------------------------------------------------
\* The runtime: a goroutine resumed inside wait() returns from it.
Schedule(g) ==
  /\ Resume(g)
  /\ pc' = [pc EXCEPT ![g] =
              IF Resumable(g) /\ @ = "waiting" THEN "idle" ELSE @]
  /\ zeroed' = IF Resumable(g) THEN zeroed \ {g} ELSE zeroed
  /\ late' = IF Resumable(g) THEN late \ {g} ELSE late
  /\ UNCHANGED <<counter, waiting_gs, to_wake>>

Start(g) == Go(g) /\ UNCHANGED wvars

Suspend(g) == Yield(g) /\ UNCHANGED wvars

Return(g) == pc[g] = "idle" /\ Finish(g) /\ UNCHANGED wvars

Proceed(g) ==
  Swap(g) \/ WakeOne(g) \/ AddReturns(g) \/ Enlist(g) \/ EnlistZero(g)

Next ==
  \E g \in Goroutine :
     \/ \E d \in Delta : Add(g, d) \/ AddThrows(g, d) \/ AddToZero(g, d)
     \/ Wait(g) \/ Proceed(g)
     \/ Schedule(g) \/ Start(g) \/ Suspend(g) \/ Return(g)

\* Calls that have begun go on, and ready goroutines are scheduled; nothing is
\* assumed of new calls of add() and wait().
Fairness ==
  \A g \in Goroutine :
     WF_vars(Proceed(g)) /\ WF_vars(Schedule(g)) /\ WF_vars(Suspend(g))

Spec == Init /\ [][Next]_vars /\ Fairness

-----------------------------------------------------------------------------
(***************************************************************************)
(* Properties.                                                             *)
(***************************************************************************)

\* While goroutines are in the list, the counter is not zero, or somebody who
\* has brought it to zero is about to take the list: the two tests in wait()
\* leave no moment at which a waiter can slip in after the list was taken.
NobodyForgotten ==
  waiting_gs # {} =>
     counter # 0 \/ \E g \in Goroutine : pc[g] = "swap"

\* A goroutine is on one list only, and waits to be pushed from there.
OneList ==
  \A g \in Goroutine :
     /\ g \in waiting_gs =>
          handle[g] = "registered" /\ \A h \in Goroutine : g \notin to_wake[h]
     /\ \A h, k \in Goroutine :
          g \in to_wake[h] /\ g \in to_wake[k] => h = k

\* add() and wait() use the runtime as its contract allows.
ObeysContract == RuntimeInit /\ [][RuntimeNext]_gvars

\* "Suspend the current goroutine until the counter is zero" (wait_group.h):
\* wait() does not return unless the counter was zero at some moment of it.  The
\* exception: the group is used again before an add() that saw zero has taken
\* the list, and the waiters of the new round are in it.
WaitSpansZero ==
  [][\A g \in Goroutine : InWait(g) /\ ~InWait(g)' =>
        g \in zeroed \/ g \in late \/ counter = 0]_vars

\* A waiter returns once the counter is zero, unless its wake-up finds it
\* still on its worker.
ZeroWakesWaiters ==
  \A g \in Goroutine :
     pc[g] = "waiting" /\ counter = 0 ~> pc[g] # "waiting" \/ Lost(g)

=============================================================================

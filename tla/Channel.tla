-------------------------------- MODULE Channel --------------------------------
(***************************************************************************)
(* include/data_structure/channel.h: a bounded queue of values, on which   *)
(* senders and receivers park.                                             *)
(*                                                                         *)
(* push() hands nothing over: it puts its value into the buffer, above the *)
(* capacity if need be, and wakes one receiver, which tries again like any *)
(* other.  A receiver that comes by in between may take the value, and the *)
(* woken one parks again at the end of the queue.  pop() and the senders   *)
(* are the same in reverse.  A step is a critical section of lock_, or the *)
(* push_ready that follows it.                                             *)
(***************************************************************************)
EXTENDS Goroutines, Naturals, Sequences, FiniteSets, Queues

CONSTANTS
  Sender, Receiver,   \* goroutines that only push, and that only pop
  Rounds,             \* how often each of them does
  Capacities,         \* the arguments the constructor is called with
  NoGoroutine         \* a null g_to_wake

ASSUME NoGoroutineAssumption == NoGoroutine \notin Goroutine
ASSUME RolesAssumption ==
  Sender \cup Receiver \subseteq Goroutine /\ Sender \cap Receiver = {}
ASSUME FiniteAssumption == IsFiniteSet(Sender) /\ IsFiniteSet(Receiver)
ASSUME SizeAssumption == Capacities \subseteq Nat /\ Rounds \in Nat

VARIABLES
  capacity,      \* capacity_, set by the constructor
  buffer,        \* buffer_, values are named by their sender and its round
  send_waiters,  \* send_waiters_
  recv_waiters,  \* recv_waiters_
  g_to_wake,     \* the local g_to_wake of each goroutine
  left,          \* the calls each goroutine still has to complete
  pc,            \* where each goroutine is
  entered,       \* history: the values in the order push() stored them
  taken          \* history: the values in the order pop() returned them

queues == <<send_waiters, recv_waiters>>
hist == <<entered, taken>>
cvars == <<capacity, buffer, queues, g_to_wake, left, pc, hist>>
vars == <<gvars, cvars>>

\* "call": at the top of a call.  "waiting": from joining a queue to the return
\* of yield().  "again": back at the top of the loop.  "wake": spinlock
\* released, g_to_wake still to be pushed.
ChannelPC == {"call", "waiting", "again", "wake"}

Value == Sender \X (1..Rounds)

TypeOK ==
  /\ RuntimeTypeOK
  /\ capacity \in Capacities
  /\ buffer \in Seq(Value)
  /\ send_waiters \in Seq(Sender)
  /\ recv_waiters \in Seq(Receiver)
  /\ g_to_wake \in [Goroutine -> Goroutine \cup {NoGoroutine}]
  /\ left \in [Goroutine -> 0..Rounds]
  /\ pc \in [Goroutine -> ChannelPC]

Init ==
  /\ RuntimeInit
  /\ capacity \in Capacities
  /\ buffer = <<>>
  /\ send_waiters = <<>>
  /\ recv_waiters = <<>>
  /\ g_to_wake = [g \in Goroutine |-> NoGoroutine]
  /\ left = [g \in Goroutine |-> Rounds]
  /\ pc = [g \in Goroutine |-> "call"]
  /\ entered = <<>>
  /\ taken = <<>>

\* A goroutine at the top of the loop of push() or pop().
Tries(g) == Running(g) /\ pc[g] \in {"call", "again"} /\ left[g] > 0

\* Faulty: an off-by-one in the test of the size.
Room_one_more(n) == n <= capacity \/ (capacity = 0 /\ n = 0)

\* Faulty: capacity 0 is not special.
Room_strict(n) == n < capacity

\* buffer_ with n values takes one more; capacity 0 is treated like 1.
Room(n) == n < capacity \/ (capacity = 0 /\ n = 0)

-----------------------------------------------------------------------------
Store(g) ==
  /\ buffer' = Append(buffer, <<g, left[g]>>)
  /\ entered' = Append(entered, <<g, left[g]>>)

Completes(g) ==
  /\ left' = [left EXCEPT ![g] = @ - 1]
  /\ pc' = [pc EXCEPT ![g] = "call"]

Parks(g) ==
  /\ Register(g)
  /\ pc' = [pc EXCEPT ![g] = "waiting"]

WillWake(g, h) ==
  /\ g_to_wake' = [g_to_wake EXCEPT ![g] = h]
  /\ pc' = [pc EXCEPT ![g] = "wake"]

\* push() finds a receiver waiting: the capacity is not looked at.
PushToReceiver(g) ==
  /\ g \in Sender /\ Tries(g)
  /\ recv_waiters # <<>>
  /\ Store(g)
  /\ WillWake(g, Head(recv_waiters))
  /\ recv_waiters' = Tail(recv_waiters)
  /\ UNCHANGED <<gvars, capacity, send_waiters, left, taken>>

\* Faulty: the receivers are not looked at when there is room.
PushToBuffer_first(g) ==
  /\ g \in Sender /\ Tries(g)
  /\ Room(Len(buffer))
  /\ Store(g)
  /\ Completes(g)
  /\ UNCHANGED <<gvars, capacity, queues, g_to_wake, taken>>

PushToBuffer(g) ==
  /\ g \in Sender /\ Tries(g)
  /\ recv_waiters = <<>>
  /\ Room(Len(buffer))
  /\ Store(g)
  /\ Completes(g)
  /\ UNCHANGED <<gvars, capacity, queues, g_to_wake, taken>>

PushParks(g) ==
  /\ g \in Sender /\ Tries(g)
  /\ recv_waiters = <<>>
  /\ ~Room(Len(buffer))
  /\ send_waiters' = Append(send_waiters, g)
  /\ Parks(g)
  /\ UNCHANGED <<capacity, buffer, recv_waiters, g_to_wake, left, hist>>

\* Faulty: the newest value is taken first.
Take_newest(g) ==
  /\ taken' = Append(taken, buffer[Len(buffer)])
  /\ buffer' = SubSeq(buffer, 1, Len(buffer) - 1)

Take(g) ==
  /\ taken' = Append(taken, Head(buffer))
  /\ buffer' = Tail(buffer)

\* pop() makes room, and a sender is waiting for it.
PopWakesSender(g) ==
  /\ g \in Receiver /\ Tries(g)
  /\ buffer # <<>> /\ send_waiters # <<>>
  /\ Take(g)
  /\ WillWake(g, Head(send_waiters))
  /\ send_waiters' = Tail(send_waiters)
  /\ UNCHANGED <<gvars, capacity, recv_waiters, left, entered>>

\* Faulty: the senders are not looked at.
PopReturns_silent(g) ==
  /\ g \in Receiver /\ Tries(g)
  /\ buffer # <<>>
  /\ Take(g)
  /\ Completes(g)
  /\ UNCHANGED <<gvars, capacity, queues, g_to_wake, entered>>

PopReturns(g) ==
  /\ g \in Receiver /\ Tries(g)
  /\ buffer # <<>> /\ send_waiters = <<>>
  /\ Take(g)
  /\ Completes(g)
  /\ UNCHANGED <<gvars, capacity, queues, g_to_wake, entered>>

PopParks(g) ==
  /\ g \in Receiver /\ Tries(g)
  /\ buffer = <<>>
  /\ recv_waiters' = Append(recv_waiters, g)
  /\ Parks(g)
  /\ UNCHANGED <<capacity, buffer, send_waiters, g_to_wake, left, hist>>

\* Faulty: the front of the queue is woken twice.
WakeNext_again(g) ==
  /\ Running(g) /\ pc[g] = "wake"
  /\ PushReady(g_to_wake[g])
  /\ UNCHANGED <<fiber, cvars>>

\* push_ready(g_to_wake), and the call returns.
WakeNext(g) ==
  /\ Running(g) /\ pc[g] = "wake"
  /\ PushReady(g_to_wake[g])
  /\ g_to_wake' = [g_to_wake EXCEPT ![g] = NoGoroutine]
  /\ Completes(g)
  /\ UNCHANGED <<fiber, capacity, buffer, queues, hist>>

-----------------------------------------------------------------------------
\* The runtime: a goroutine resumed inside push() or pop() tries again.
Schedule(g) ==
  /\ Resume(g)
  /\ pc' = [pc EXCEPT ![g] =
              IF Resumable(g) /\ @ = "waiting" THEN "again" ELSE @]
  /\ UNCHANGED <<capacity, buffer, queues, g_to_wake, left, hist>>

Start(g) == Go(g) /\ UNCHANGED cvars

Suspend(g) == Yield(g) /\ UNCHANGED cvars

Return(g) == pc[g] = "call" /\ left[g] = 0 /\ Finish(g) /\ UNCHANGED cvars

push(g) == PushToReceiver(g) \/ PushToBuffer(g) \/ PushParks(g)

pop(g) == PopWakesSender(g) \/ PopReturns(g) \/ PopParks(g)

Proceed(g) == push(g) \/ pop(g) \/ WakeNext(g)

Next ==
  \E g \in Goroutine :
     Proceed(g) \/ Schedule(g) \/ Start(g) \/ Suspend(g) \/ Return(g)

\* Every goroutine is started and executes its calls, and ready goroutines are
\* scheduled.
Fairness ==
  \A g \in Goroutine :
     /\ WF_vars(Start(g)) /\ WF_vars(Proceed(g))
     /\ WF_vars(Schedule(g)) /\ WF_vars(Suspend(g))

Spec == Init /\ [][Next]_vars /\ Fairness

-----------------------------------------------------------------------------
(***************************************************************************)
(* Properties.                                                             *)
(***************************************************************************)

\* Taken out of its queue and not yet back at work on the channel.
Woken(g) ==
  \/ pc[g] = "again"
  \/ pc[g] = "waiting" /\ ~In(send_waiters, g) /\ ~In(recv_waiters, g)

WokenReceivers == Cardinality({g \in Receiver : Woken(g)})
WokenSenders == Cardinality({g \in Sender : Woken(g)})

Limit == IF capacity = 0 THEN 1 ELSE capacity

\* Nobody sleeps beside work: while receivers sleep, each value in the buffer
\* has a receiver that was woken for it; while senders sleep, each free place
\* has a sender that was woken for it, however they overtake each other.
NobodySleepsBesideWork ==
  /\ recv_waiters # <<>> => Len(buffer) <= WokenReceivers
  /\ send_waiters # <<>> => Len(buffer) + WokenSenders >= Limit

\* The buffer exceeds the capacity only by values whose receiver is on its way.
BufferBounded ==
  Len(buffer) <= Limit \/ Len(buffer) <= WokenReceivers

\* One wake-up for each value and for each free place.
WakeUpsMatch == NobodySleepsBesideWork /\ BufferBounded

\* Values come out in the order they went in, none lost and none twice.
FirstInFirstOut == taken \o buffer = entered

\* push() and pop() use the runtime as its contract allows.
ObeysContract == RuntimeInit /\ [][RuntimeNext]_gvars

AllDone == \A g \in Sender \cup Receiver : left[g] = 0

\* "Suspended after the lock is released, to wait for push to wake it" (the
\* comment in pop()): without the escape.
WokenByPush == <>AllDone

=============================================================================

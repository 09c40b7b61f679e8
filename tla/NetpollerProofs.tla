---------------------------- MODULE NetpollerProofs ----------------------------
(***************************************************************************)
(* Proofs about Netpoller, for any number of goroutines and descriptors:   *)
(* whoever waits has an event that will find it, an event finds whom it    *)
(* was registered for, and the runtime is used as its contract allows.     *)
(***************************************************************************)
EXTENDS Netpoller, TLAPS

\* A goroutine has a descriptor while it lives, and nobody else has it unless
\* it counts as shared.
FileOK ==
  /\ \A g \in Goroutine : fiber[g] \in {"new", "finished"} <=> file[g] = NoFd
  /\ \A g, h \in Goroutine :
       file[g] = file[h] /\ file[g] \in Fd \ shared => g = h

\* Where a goroutine's fiber is while it is in a watch function.
FiberOK ==
  \A g \in Goroutine :
    /\ pc[g] = "store" => fiber[g] = "running"
    /\ pc[g] \in {"lookup", "kevent"} => fiber[g] = "parking"
    /\ Waits(g) => fiber[g] \in {"parking", "suspended"}

Stored(g) ==
  (pc[g] \in {"lookup", "kevent"} \/ Waits(g)) /\ handle[g] = "registered"

\* A context holds a goroutine that has stored itself there and that nobody has
\* woken; poll_loop holds one that it has taken from the event's context.
WaiterOK ==
  /\ \A f \in Fd : waiting_g[f] # NoGoroutine =>
       file[waiting_g[f]] = f /\ Stored(waiting_g[f])
  /\ g_to_wake # NoGoroutine =>
       /\ event # NoEvent /\ file[g_to_wake] = event[1] /\ Stored(g_to_wake)
       /\ \A f \in Fd : waiting_g[f] # g_to_wake
  /\ \A g \in Goroutine :
       pc[g] \in {"lookup", "kevent"} /\ file[g] \notin shared =>
         waiting_g[file[g]] = g

\* The event is one that the waiter of its descriptor has registered.
Awaited(e) ==
  LET g == waiting_g[e[1]]
  IN  g # NoGoroutine /\ pc[g] = "yield" /\ e[2] = Filter(call[g])

\* An event that is registered or in hand is awaited, and never both.
EventOK ==
  /\ \A e \in armed : e[1] \notin shared => Awaited(e)
  /\ event # NoEvent /\ g_to_wake = NoGoroutine /\ event[1] \notin shared =>
       Awaited(event) /\ \A e \in armed : e[1] # event[1]

IInv == TypeOK /\ FileOK /\ FiberOK /\ WaiterOK /\ EventOK /\ WaiterHasEvent

-----------------------------------------------------------------------------
LEMMA Initially == Init => IInv
<1> SUFFICES ASSUME Init PROVE IInv
  OBVIOUS
<1> USE NullAssumption DEF Init, RuntimeInit
<1>1. TypeOK
  BY DEF TypeOK, RuntimeTypeOK, FiberState, HandleState, Calls, WatchPC
<1>2. FileOK /\ FiberOK
  BY DEF FileOK, FiberOK, Waits
<1>3. WaiterOK /\ EventOK /\ WaiterHasEvent
  BY DEF WaiterOK, EventOK, WaiterHasEvent, NoEvent
<1>4. QED
  BY <1>1, <1>2, <1>3 DEF IInv

\* Every variable keeps its type.
LEMMA TypeStep == IInv /\ [Next]_vars => TypeOK'
<1> SUFFICES ASSUME IInv, [Next]_vars PROVE TypeOK'
  OBVIOUS
<1> USE NullAssumption, ShareableAssumption
    DEF IInv, TypeOK, RuntimeTypeOK, FiberState, HandleState, FileOK, FiberOK,
        WatchPC, Calls, Events, NoEvent, Filter, gvars, nvars, poller,
        marks, Waits
<1>1. ASSUME NEW g \in Goroutine, NEW c \in Calls, Blocks(g, c) PROVE TypeOK'
  <2>1. undefined' \in BOOLEAN
    BY <1>1 DEF Blocks, Moves, Overlap
  <2>2. /\ call' \in [Goroutine -> Calls]
        /\ pc' \in [Goroutine -> WatchPC]
    BY <1>1 DEF Blocks, Moves
  <2>3. QED
    BY <1>1, <2>1, <2>2 DEF Blocks
<1>2. ASSUME NEW g \in Goroutine, Store(g) PROVE TypeOK'
  BY <1>2 DEF Store, Moves, Replace
<1>3. ASSUME NEW g \in Goroutine, Lookup(g) PROVE TypeOK'
  BY <1>3 DEF Lookup, Moves
<1>4. ASSUME NEW g \in Goroutine, RegisterEvent(g) PROVE TypeOK'
  BY <1>4 DEF RegisterEvent, Moves
<1>5. ASSUME NEW g \in Goroutine, Close(g) PROVE TypeOK'
  BY <1>5 DEF Close, Finish, Running
<1>6. ASSUME NEW g \in Goroutine, Schedule(g) PROVE TypeOK'
  BY <1>6 DEF Schedule, Resume, Resumable
<1>7. ASSUME NEW g \in Goroutine, Suspend(g) PROVE TypeOK'
  BY <1>7 DEF Suspend, Yield
<1>8. ASSUME NEW g \in Goroutine, NEW f \in Fd, Open(g, f) PROVE TypeOK'
  BY <1>8 DEF Open, Go, PushReady
<1>9. ASSUME NEW e \in Events, EventArrives(e) PROVE TypeOK'
  BY <1>9 DEF EventArrives
<1>10. ASSUME TakeWaiter PROVE TypeOK'
  BY <1>10 DEF TakeWaiter
<1>11. ASSUME WakeWaiter PROVE TypeOK'
  BY <1>11 DEF WakeWaiter, PushReady
<1>12. ASSUME NEW g \in Goroutine, RegisterFails(g) PROVE TypeOK'
  BY <1>12 DEF RegisterFails, Moves
<1>13. CASE UNCHANGED vars
  BY <1>13 DEF vars
<1>14. QED
  BY <1>1, <1>2, <1>3, <1>4, <1>5, <1>6, <1>7, <1>8, <1>9, <1>10, <1>11, <1>12,
     <1>13
  DEF Next, Watch, Poll

\* Descriptors: opened by one goroutine, closed by it.
LEMMA FileStep == IInv /\ [Next]_vars => FileOK'
<1> SUFFICES ASSUME IInv, [Next]_vars PROVE FileOK'
  OBVIOUS
<1> USE NullAssumption, ShareableAssumption
    DEF IInv, TypeOK, RuntimeTypeOK, FiberState, HandleState, FileOK, FiberOK,
        gvars, nvars, poller, marks, Waits
<1>1. ASSUME NEW g \in Goroutine, NEW c \in Calls, Blocks(g, c) PROVE FileOK'
  BY <1>1 DEF Blocks, Moves, Running
<1>2. ASSUME NEW g \in Goroutine, Store(g) PROVE FileOK'
  BY <1>2 DEF Store, Moves, Replace
<1>3. ASSUME NEW g \in Goroutine, Lookup(g) PROVE FileOK'
  BY <1>3 DEF Lookup, Moves
<1>4. ASSUME NEW g \in Goroutine, RegisterEvent(g) PROVE FileOK'
  BY <1>4 DEF RegisterEvent, Moves
<1>5. ASSUME NEW g \in Goroutine, Close(g) PROVE FileOK'
  BY <1>5 DEF Close, Finish, Running
<1>6. ASSUME NEW g \in Goroutine, Schedule(g) PROVE FileOK'
  BY <1>6 DEF Schedule, Resume, Resumable
<1>7. ASSUME NEW g \in Goroutine, Suspend(g) PROVE FileOK'
  BY <1>7 DEF Suspend, Yield
<1>8. ASSUME NEW g \in Goroutine, NEW f \in Fd, Open(g, f) PROVE FileOK'
  BY <1>8 DEF Open, Go, PushReady
<1>9. ASSUME NEW e \in Events, EventArrives(e) PROVE FileOK'
  BY <1>9 DEF EventArrives
<1>10. ASSUME TakeWaiter PROVE FileOK'
  BY <1>10 DEF TakeWaiter
<1>11. ASSUME WakeWaiter PROVE FileOK'
  BY <1>11 DEF WakeWaiter, PushReady
<1>12. ASSUME NEW g \in Goroutine, RegisterFails(g) PROVE FileOK'
  BY <1>12 DEF RegisterFails, Moves
<1>13. CASE UNCHANGED vars
  BY <1>13 DEF vars
<1>14. QED
  BY <1>1, <1>2, <1>3, <1>4, <1>5, <1>6, <1>7, <1>8, <1>9, <1>10, <1>11, <1>12,
     <1>13
  DEF Next, Watch, Poll

\* Fibers follow the watch functions.
LEMMA FiberStep == IInv /\ [Next]_vars => FiberOK'
<1> SUFFICES ASSUME IInv, [Next]_vars PROVE FiberOK'
  OBVIOUS
<1> USE NullAssumption, ShareableAssumption
    DEF IInv, TypeOK, RuntimeTypeOK, FiberState, HandleState, FileOK, FiberOK,
        gvars, nvars, poller, marks, Waits
<1>1. ASSUME NEW g \in Goroutine, NEW c \in Calls, Blocks(g, c) PROVE FiberOK'
  BY <1>1 DEF Blocks, Moves, Running
<1>2. ASSUME NEW g \in Goroutine, Store(g) PROVE FiberOK'
  BY <1>2 DEF Store, Moves, Replace
<1>3. ASSUME NEW g \in Goroutine, Lookup(g) PROVE FiberOK'
  BY <1>3 DEF Lookup, Moves
<1>4. ASSUME NEW g \in Goroutine, RegisterEvent(g) PROVE FiberOK'
  BY <1>4 DEF RegisterEvent, Moves
<1>5. ASSUME NEW g \in Goroutine, Close(g) PROVE FiberOK'
  BY <1>5 DEF Close, Finish, Running
<1>6. ASSUME NEW g \in Goroutine, Schedule(g) PROVE FiberOK'
  BY <1>6 DEF Schedule, Resume, Resumable
<1>7. ASSUME NEW g \in Goroutine, Suspend(g) PROVE FiberOK'
  BY <1>7 DEF Suspend, Yield
<1>8. ASSUME NEW g \in Goroutine, NEW f \in Fd, Open(g, f) PROVE FiberOK'
  BY <1>8 DEF Open, Go, PushReady
<1>9. ASSUME NEW e \in Events, EventArrives(e) PROVE FiberOK'
  BY <1>9 DEF EventArrives
<1>10. ASSUME TakeWaiter PROVE FiberOK'
  BY <1>10 DEF TakeWaiter
<1>11. ASSUME WakeWaiter PROVE FiberOK'
  BY <1>11 DEF WakeWaiter, PushReady
<1>12. ASSUME NEW g \in Goroutine, RegisterFails(g) PROVE FiberOK'
  BY <1>12 DEF RegisterFails, Moves
<1>13. CASE UNCHANGED vars
  BY <1>13 DEF vars
<1>14. QED
  BY <1>1, <1>2, <1>3, <1>4, <1>5, <1>6, <1>7, <1>8, <1>9, <1>10, <1>11, <1>12,
     <1>13
  DEF Next, Watch, Poll

\* A stored goroutine is let go by poll_loop or by whoever replaces it.
LEMMA WaiterStep == IInv /\ [Next]_vars => WaiterOK'
<1> SUFFICES ASSUME IInv, [Next]_vars PROVE WaiterOK'
  OBVIOUS
<1> USE NullAssumption, ShareableAssumption
    DEF IInv, TypeOK, RuntimeTypeOK, FiberState, HandleState, FileOK, FiberOK,
        WaiterOK, Stored, EventOK, Awaited, NoEvent, Events, gvars,
        nvars, poller, marks, Waits
<1>1. ASSUME NEW g \in Goroutine, NEW c \in Calls, Blocks(g, c) PROVE WaiterOK'
  BY <1>1 DEF Blocks, Moves, Running
<1>2. ASSUME NEW g \in Goroutine, Store(g) PROVE WaiterOK'
  BY <1>2 DEF Store, Moves, Replace
<1>3. ASSUME NEW g \in Goroutine, Lookup(g) PROVE WaiterOK'
  BY <1>3 DEF Lookup, Moves
<1>4. ASSUME NEW g \in Goroutine, RegisterEvent(g) PROVE WaiterOK'
  BY <1>4 DEF RegisterEvent, Moves
<1>5. ASSUME NEW g \in Goroutine, Close(g) PROVE WaiterOK'
  BY <1>5 DEF Close, Finish, Running
<1>6. ASSUME NEW g \in Goroutine, Schedule(g) PROVE WaiterOK'
  BY <1>6 DEF Schedule, Resume, Resumable
<1>7. ASSUME NEW g \in Goroutine, Suspend(g) PROVE WaiterOK'
  BY <1>7 DEF Suspend, Yield
<1>8. ASSUME NEW g \in Goroutine, NEW f \in Fd, Open(g, f) PROVE WaiterOK'
  BY <1>8 DEF Open, Go, PushReady
<1>9. ASSUME NEW e \in Events, EventArrives(e) PROVE WaiterOK'
  BY <1>9 DEF EventArrives
<1>10. ASSUME TakeWaiter PROVE WaiterOK'
  BY <1>10 DEF TakeWaiter
<1>11. ASSUME WakeWaiter PROVE WaiterOK'
  BY <1>11 DEF WakeWaiter, PushReady
<1>12. ASSUME NEW g \in Goroutine, RegisterFails(g) PROVE WaiterOK'
  BY <1>12 DEF RegisterFails, Moves
<1>13. CASE UNCHANGED vars
  BY <1>13 DEF vars
<1>14. QED
  BY <1>1, <1>2, <1>3, <1>4, <1>5, <1>6, <1>7, <1>8, <1>9, <1>10, <1>11, <1>12,
     <1>13
  DEF Next, Watch, Poll

\* Events are registered by the waiter of their descriptor and taken once.
LEMMA EventStep == IInv /\ [Next]_vars => EventOK'
<1> SUFFICES ASSUME IInv, [Next]_vars PROVE EventOK'
  OBVIOUS
<1> USE NullAssumption, ShareableAssumption
    DEF IInv, TypeOK, RuntimeTypeOK, FiberState, HandleState, FileOK, FiberOK,
        WaiterOK, EventOK, Stored, Awaited, NoEvent, Events, gvars,
        nvars, poller, marks, Waits
<1>1. ASSUME NEW g \in Goroutine, NEW c \in Calls, Blocks(g, c) PROVE EventOK'
  BY <1>1 DEF Blocks, Moves, Running
<1>2. ASSUME NEW g \in Goroutine, Store(g) PROVE EventOK'
  BY <1>2 DEF Store, Moves, Replace
<1>3. ASSUME NEW g \in Goroutine, Lookup(g) PROVE EventOK'
  BY <1>3 DEF Lookup, Moves
<1>4. ASSUME NEW g \in Goroutine, RegisterEvent(g) PROVE EventOK'
  <2>1. /\ pc[g] = "kevent" /\ pc' = [pc EXCEPT ![g] = "yield"]
        /\ armed' = armed \cup {<<file[g], Filter(call[g])>>}
        /\ UNCHANGED <<file, call, waiting_g, shared, event, g_to_wake>>
    BY <1>4 DEF RegisterEvent, Moves
  <2>2. file[g] \in Fd /\ (file[g] \notin shared => waiting_g[file[g]] = g)
    BY <2>1
  <2>3. file[g] \notin shared =>
          /\ \A e \in armed : e[1] # file[g]
          /\ g_to_wake = NoGoroutine => event[1] # file[g]
    BY <2>1, <2>2
  <2>4. QED
    BY <2>1, <2>2, <2>3
<1>5. ASSUME NEW g \in Goroutine, Close(g) PROVE EventOK'
  BY <1>5 DEF Close, Finish, Running
<1>6. ASSUME NEW g \in Goroutine, Schedule(g) PROVE EventOK'
  BY <1>6 DEF Schedule, Resume, Resumable
<1>7. ASSUME NEW g \in Goroutine, Suspend(g) PROVE EventOK'
  BY <1>7 DEF Suspend, Yield
<1>8. ASSUME NEW g \in Goroutine, NEW f \in Fd, Open(g, f) PROVE EventOK'
  BY <1>8 DEF Open, Go, PushReady
<1>9. ASSUME NEW e \in Events, EventArrives(e) PROVE EventOK'
  BY <1>9 DEF EventArrives
<1>10. ASSUME TakeWaiter PROVE EventOK'
  BY <1>10 DEF TakeWaiter
<1>11. ASSUME WakeWaiter PROVE EventOK'
  BY <1>11 DEF WakeWaiter, PushReady
<1>12. ASSUME NEW g \in Goroutine, RegisterFails(g) PROVE EventOK'
  BY <1>12 DEF RegisterFails, Moves
<1>13. CASE UNCHANGED vars
  BY <1>13 DEF vars
<1>14. QED
  BY <1>1, <1>2, <1>3, <1>4, <1>5, <1>6, <1>7, <1>8, <1>9, <1>10, <1>11, <1>12,
     <1>13
  DEF Next, Watch, Poll

\* No step separates a waiter from its event.
LEMMA HasEventStep == IInv /\ [Next]_vars => WaiterHasEvent'
<1> SUFFICES ASSUME IInv, [Next]_vars PROVE WaiterHasEvent'
  OBVIOUS
<1> USE NullAssumption, ShareableAssumption
    DEF IInv, TypeOK, RuntimeTypeOK, FiberState, HandleState, FileOK, FiberOK,
        WaiterOK, WaiterHasEvent, Stored, NoEvent, Events, gvars,
        nvars, poller, marks, Waits
<1>1. ASSUME NEW g \in Goroutine, NEW c \in Calls, Blocks(g, c) PROVE WaiterHasEvent'
  BY <1>1 DEF Blocks, Moves, Running
<1>2. ASSUME NEW g \in Goroutine, Store(g) PROVE WaiterHasEvent'
  BY <1>2 DEF Store, Moves, Replace
<1>3. ASSUME NEW g \in Goroutine, Lookup(g) PROVE WaiterHasEvent'
  BY <1>3 DEF Lookup, Moves
<1>4. ASSUME NEW g \in Goroutine, RegisterEvent(g) PROVE WaiterHasEvent'
  <2>1. /\ pc[g] = "kevent" /\ pc' = [pc EXCEPT ![g] = "yield"]
        /\ armed' = armed \cup {<<file[g], Filter(call[g])>>}
        /\ UNCHANGED <<file, call, waiting_g, shared, event>>
    BY <1>4 DEF RegisterEvent, Moves
  <2>2. ASSUME NEW f \in Fd \ shared, waiting_g[f] = g
        PROVE  \E e \in armed' : e[1] = f
    <3>1. file[g] = f
      BY <2>2
    <3> DEFINE new == <<file[g], Filter(call[g])>>
    <3>2. new \in armed' /\ new[1] = f
      BY <3>1, <2>1
    <3>3. QED
      BY <3>2
  <2>3. ASSUME NEW f \in Fd \ shared,
               waiting_g[f] # NoGoroutine, waiting_g[f] # g, pc'[waiting_g[f]] = "yield"
        PROVE  event[1] = f \/ \E e \in armed' : e[1] = f
    <3>1. pc[waiting_g[f]] = "yield"
      BY <2>1, <2>3
    <3>2. event[1] = f \/ \E e \in armed : e[1] = f
      BY <3>1, <2>3
    <3>3. QED
      BY <3>2, <2>1
  <2>4. QED
    BY <2>1, <2>2, <2>3
<1>5. ASSUME NEW g \in Goroutine, Close(g) PROVE WaiterHasEvent'
  BY <1>5 DEF Close, Finish, Running
<1>6. ASSUME NEW g \in Goroutine, Schedule(g) PROVE WaiterHasEvent'
  BY <1>6 DEF Schedule, Resume, Resumable
<1>7. ASSUME NEW g \in Goroutine, Suspend(g) PROVE WaiterHasEvent'
  BY <1>7 DEF Suspend, Yield
<1>8. ASSUME NEW g \in Goroutine, NEW f \in Fd, Open(g, f) PROVE WaiterHasEvent'
  BY <1>8 DEF Open, Go, PushReady
<1>9. ASSUME NEW e \in Events, EventArrives(e) PROVE WaiterHasEvent'
  BY <1>9 DEF EventArrives
<1>10. ASSUME TakeWaiter PROVE WaiterHasEvent'
  BY <1>10 DEF TakeWaiter
<1>11. ASSUME WakeWaiter PROVE WaiterHasEvent'
  BY <1>11 DEF WakeWaiter, PushReady
<1>12. ASSUME NEW g \in Goroutine, RegisterFails(g) PROVE WaiterHasEvent'
  BY <1>12 DEF RegisterFails, Moves
<1>13. CASE UNCHANGED vars
  BY <1>13 DEF vars
<1>14. QED
  BY <1>1, <1>2, <1>3, <1>4, <1>5, <1>6, <1>7, <1>8, <1>9, <1>10, <1>11, <1>12,
     <1>13
  DEF Next, Watch, Poll

LEMMA Invariance == Spec => []IInv
<1>1. IInv /\ [Next]_vars => IInv'
  BY TypeStep, FileStep, FiberStep, WaiterStep, EventStep, HasEventStep DEF IInv
<1>2. QED
  BY Initially, <1>1, PTL DEF Spec

\* Every variable has its type, in every behaviour.
THEOREM TypeCorrect == Spec => []TypeOK
  BY Invariance, PTL DEF IInv

\* A goroutine that waits for I/O on a descriptor of its own has an event that
\* will find it, unless kevent() refused it: none is lost between the storing and
\* the registration.
THEOREM WaiterFound == Spec => []WaiterHasEvent
  BY Invariance, PTL DEF IInv

\* watch() and poll_loop use the runtime as its contract allows, until two
\* goroutines share a descriptor.
THEOREM Obedience == Spec => ObeysContract
<1>1. Init => RuntimeInit
  BY DEF Init
<1> DEFINE Allowed == RuntimeNext \/ shared # {} \/ UNCHANGED gvars
<1>2. IInv /\ [Next]_vars => [RuntimeNext \/ shared # {}]_gvars
  <2> SUFFICES ASSUME IInv, [Next]_vars PROVE Allowed
    OBVIOUS
  <2> USE NullAssumption, ShareableAssumption
      DEF IInv, RuntimeNext, RuntimeStep
  <2>1. ASSUME NEW g \in Goroutine, NEW c \in Calls, Blocks(g, c) PROVE Allowed
    BY <2>1 DEF Blocks
  <2>2. ASSUME NEW g \in Goroutine, Store(g) PROVE Allowed
    <3>1. CASE shared # {}
      BY <3>1
    <3>2. CASE shared = {}
      <4>1. waiting_g[file[g]] = NoGoroutine
        BY <2>2, <3>2
        DEF Store, Moves, TypeOK, RuntimeTypeOK, FileOK, FiberOK, WaiterOK, Stored
      <4>2. Park(g)
        BY <2>2, <4>1
        DEF Store, Moves, Replace, Park, Register, Running, FiberOK, TypeOK, RuntimeTypeOK
      <4>3. QED
        BY <4>2
    <3>3. QED
      BY <3>1, <3>2
  <2>3. ASSUME NEW g \in Goroutine, Lookup(g) PROVE Allowed
    BY <2>3 DEF Lookup
  <2>4. ASSUME NEW g \in Goroutine, RegisterEvent(g) PROVE Allowed
    BY <2>4 DEF RegisterEvent
  <2>5. ASSUME NEW g \in Goroutine, Close(g) PROVE Allowed
    BY <2>5 DEF Close
  <2>6. ASSUME NEW g \in Goroutine, Schedule(g) PROVE Allowed
    BY <2>6 DEF Schedule
  <2>7. ASSUME NEW g \in Goroutine, Suspend(g) PROVE Allowed
    BY <2>7 DEF Suspend
  <2>8. ASSUME NEW g \in Goroutine, NEW f \in Fd, Open(g, f) PROVE Allowed
    BY <2>8 DEF Open
  <2>9. ASSUME NEW e \in Events, EventArrives(e) PROVE Allowed
    BY <2>9 DEF EventArrives
  <2>10. ASSUME TakeWaiter PROVE Allowed
    BY <2>10 DEF TakeWaiter
  <2>11. ASSUME WakeWaiter PROVE Allowed
    BY <2>11 DEF WakeWaiter, Wake, WaiterOK, Stored, TypeOK
  <2>12. ASSUME NEW g \in Goroutine, RegisterFails(g) PROVE Allowed
    BY <2>12 DEF RegisterFails
  <2>13. CASE UNCHANGED vars
    BY <2>13 DEF vars
  <2>14. QED
    BY <2>1, <2>2, <2>3, <2>4, <2>5, <2>6, <2>7, <2>8, <2>9, <2>10, <2>11, <2>12,
       <2>13
    DEF Next, Watch, Poll
<1>3. QED
  BY <1>1, <1>2, Invariance, PTL DEF Spec, ObeysContract

\* A goroutine is woken by an event of the kind it waits for.
THEOREM WokenRight == Spec => WokenMeansReady
<1> DEFINE ToWake == \A g \in Goroutine :
             g_to_wake' = g /\ g_to_wake # g /\ event[1] \notin shared =>
               event[2] = Filter(call[g])
<1>1. IInv /\ [Next]_vars => [ToWake]_vars
  <2> SUFFICES ASSUME IInv, Next PROVE ToWake
    OBVIOUS
  <2>1. CASE TakeWaiter
    BY <2>1, NullAssumption DEF TakeWaiter, IInv, TypeOK, EventOK, Awaited
  <2>2. CASE g_to_wake' \in {g_to_wake, NoGoroutine}
    BY <2>2, NullAssumption
  <2>3. CASE ~TakeWaiter
    <3>1. g_to_wake' \in {g_to_wake, NoGoroutine}
      BY <2>3 DEF Next, Watch, Poll, Blocks, Store, Lookup, RegisterEvent,
         RegisterFails, Close, Schedule, Suspend, Open, EventArrives, WakeWaiter, nvars, poller
    <3>2. QED
      BY <2>2, <3>1
  <2>4. QED
    BY <2>1, <2>3
<1>2. QED
  BY <1>1, Invariance, PTL DEF Spec, WokenMeansReady

=============================================================================

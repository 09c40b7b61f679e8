----------------------------- MODULE ChannelProofs -----------------------------
(***************************************************************************)
(* Proofs about Context, and with it about Channel, for any number of      *)
(* goroutines, calls and places: values leave in the order they entered,   *)
(* wake-ups match values and places, a Context gives one signal, and the   *)
(* runtime is used as its contract allows.                                 *)
(***************************************************************************)
EXTENDS Context, FiniteSetTheorems, SequenceTheorems, TLAPS

InQueue(g) == In(send_waiters, g) \/ In(recv_waiters, g)

\* Only a goroutine that waits and that nobody has woken is in a queue, once.
QueueOK ==
  /\ Distinct(send_waiters) /\ Distinct(recv_waiters)
  /\ \A g \in Goroutine :
       /\ InQueue(g) => pc[g] = "waiting" /\ handle[g] = "registered"
       /\ pc[g] = "waiting" => fiber[g] \in {"parking", "suspended"}

\* A call that is about to wake a goroutine has it for itself.
NextOK ==
  \A g \in Goroutine : pc[g] = "wake" =>
    /\ left[g] > 0
    /\ g_to_wake[g] \in Goroutine
    /\ pc[g_to_wake[g]] = "waiting" /\ handle[g_to_wake[g]] = "registered"
    /\ ~InQueue(g_to_wake[g])
    /\ \A h \in Goroutine :
         pc[h] = "wake" /\ g_to_wake[h] = g_to_wake[g] => h = g

HistOK == entered \in Seq(Value) /\ taken \in Seq(Value)

IInv == ContextTypeOK /\ HistOK /\ QueueOK /\ NextOK

-----------------------------------------------------------------------------
LEMMA Initially == ContextInit => IInv /\ FirstInFirstOut
<1> SUFFICES ASSUME ContextInit PROVE IInv /\ FirstInFirstOut
  OBVIOUS
<1> USE DEF ContextInit, Init
<1>1. RuntimeTypeOK
  BY DEF RuntimeInit, RuntimeTypeOK, FiberState, HandleState
<1>2. TypeOK
  BY <1>1, SizeAssumption DEF TypeOK, ChannelPC
<1>3. ContextTypeOK
  BY <1>2 DEF ContextTypeOK
<1>4. QueueOK /\ NextOK /\ HistOK
  BY DEF QueueOK, NextOK, HistOK, InQueue, In, Distinct
<1>5. FirstInFirstOut
  BY DEF FirstInFirstOut
<1>6. QED
  BY <1>3, <1>4, <1>5 DEF IInv

\* A value that is stored is one of Value: its sender has a call to complete.
LEMMA StoreType ==
  ASSUME IInv, NEW g \in Sender, left[g] > 0
  PROVE  <<g, left[g]>> \in Value
  BY RolesAssumption, SizeAssumption DEF IInv, ContextTypeOK, TypeOK, Value

\* Every variable keeps its type.
LEMMA TypeStep == IInv /\ [ContextNext]_cxvars => ContextTypeOK' /\ HistOK'
<1> SUFFICES ASSUME IInv, [ContextNext]_cxvars PROVE ContextTypeOK' /\ HistOK'
  OBVIOUS
<1> USE RolesAssumption, SizeAssumption
    DEF IInv, ContextTypeOK, HistOK, TypeOK, RuntimeTypeOK, FiberState,
        HandleState, ChannelPC, NextOK, Running, Tries, Completes, Parks,
        Register, PushReady, WillWake, queues, hist, cvars, vars, gvars, context
<1>1. ASSUME NEW g \in Goroutine, Sleeps(g)
      PROVE  ContextTypeOK' /\ HistOK'
  BY <1>1 DEF Sleeps
<1>2. ASSUME NEW g \in Goroutine, Expires(g)
      PROVE  ContextTypeOK' /\ HistOK'
  BY <1>2 DEF Expires, Wake
<1>3. ASSUME NEW g \in Goroutine, CancelFirst(g)
      PROVE  ContextTypeOK' /\ HistOK'
  BY <1>3 DEF CancelFirst, Cancels
<1>4. ASSUME NEW g \in Goroutine, CancelAgain(g)
      PROVE  ContextTypeOK' /\ HistOK'
  BY <1>4 DEF CancelAgain, Cancels
<1>5. ASSUME NEW g \in Goroutine, Pushes(g)
      PROVE  ContextTypeOK' /\ HistOK'
  <2> USE <1>5 DEF Pushes, Store
  <2>1. CASE PushToReceiver(g)
    <3>1. <<g, left[g]>> \in Value
      BY <2>1, StoreType DEF PushToReceiver
    <3>2. Head(recv_waiters) \in Receiver /\ Tail(recv_waiters) \in Seq(Receiver)
      BY <2>1 DEF PushToReceiver
    <3>3. buffer' \in Seq(Value) /\ entered' \in Seq(Value)
      BY <2>1, <3>1 DEF PushToReceiver
    <3>4. QED
      BY <2>1, <3>2, <3>3 DEF PushToReceiver
  <2>2. CASE PushToBuffer(g)
    <3>1. <<g, left[g]>> \in Value
      BY <2>2, StoreType DEF PushToBuffer
    <3>2. buffer' \in Seq(Value) /\ entered' \in Seq(Value)
      BY <2>2, <3>1 DEF PushToBuffer
    <3>3. QED
      BY <2>2, <3>2 DEF PushToBuffer
  <2>3. CASE PushParks(g)
    BY <2>3 DEF PushParks
  <2>4. CASE WakeNext(g)
    BY <2>4 DEF WakeNext
  <2>5. QED
    BY <2>1, <2>2, <2>3, <2>4 DEF push
<1>6. ASSUME NEW g \in Goroutine, Pops(g)
      PROVE  ContextTypeOK' /\ HistOK'
  <2> USE <1>6 DEF Pops, Take
  <2>1. CASE PopWakesSender(g)
    <3>1. Head(send_waiters) \in Sender /\ Tail(send_waiters) \in Seq(Sender)
      BY <2>1 DEF PopWakesSender
    <3>2. buffer' \in Seq(Value) /\ taken' \in Seq(Value)
      BY <2>1 DEF PopWakesSender
    <3>3. QED
      BY <2>1, <3>1, <3>2 DEF PopWakesSender
  <2>2. CASE PopReturns(g)
    <3>1. buffer' \in Seq(Value) /\ taken' \in Seq(Value)
      BY <2>2 DEF PopReturns
    <3>2. QED
      BY <2>2, <3>1 DEF PopReturns
  <2>3. CASE PopParks(g)
    BY <2>3 DEF PopParks
  <2>4. CASE WakeNext(g)
    BY <2>4 DEF WakeNext
  <2>5. QED
    BY <2>1, <2>2, <2>3, <2>4 DEF pop
<1>7. ASSUME NEW g \in Goroutine, Runtime(g)
      PROVE  ContextTypeOK' /\ HistOK'
  <2> USE <1>7 DEF Runtime
  <2>1. CASE Schedule(g)
    BY <2>1 DEF Schedule, Resume, Resumable
  <2>2. CASE Start(g)
    BY <2>2 DEF Start, Go
  <2>3. CASE Suspend(g)
    BY <2>3 DEF Suspend, Yield
  <2>4. CASE Return(g)
    BY <2>4 DEF Return, Finish
  <2>5. QED
    BY <2>1, <2>2, <2>3, <2>4
<1>8. ASSUME NEW g \in Goroutine, TimeoutReturns(g)
      PROVE  ContextTypeOK' /\ HistOK'
  BY <1>8 DEF TimeoutReturns, Finish
<1>9. CASE UNCHANGED cxvars
  BY <1>9 DEF cxvars
<1>10. QED
  BY <1>1, <1>2, <1>3, <1>4, <1>5, <1>6, <1>7, <1>8, <1>9
  DEF ContextNext, cancel


(***************************************************************************)
(* The queues, and the goroutines taken out of them.                       *)
(***************************************************************************)
LEMMA QueueStep == IInv /\ [ContextNext]_cxvars => QueueOK' /\ NextOK'
<1> SUFFICES ASSUME IInv, [ContextNext]_cxvars PROVE QueueOK' /\ NextOK'
  OBVIOUS
<1> USE RolesAssumption, SizeAssumption
    DEF IInv, ContextTypeOK, TypeOK, RuntimeTypeOK, QueueOK, NextOK, InQueue,
        Running, Tries, Completes, Parks, Register, PushReady, WillWake,
        queues, hist, cvars, vars, gvars, context
<1>1. ASSUME NEW g \in Goroutine, Sleeps(g)
      PROVE  QueueOK' /\ NextOK'
  BY <1>1 DEF Sleeps
<1>2. ASSUME NEW g \in Goroutine, Expires(g)
      PROVE  QueueOK' /\ NextOK'
  BY <1>2 DEF Expires, Wake
<1>3. ASSUME NEW g \in Goroutine, CancelFirst(g)
      PROVE  QueueOK' /\ NextOK'
  BY <1>3 DEF CancelFirst
<1>4. ASSUME NEW g \in Goroutine, CancelAgain(g)
      PROVE  QueueOK' /\ NextOK'
  BY <1>4 DEF CancelAgain, Cancels
<1>5. ASSUME NEW g \in Goroutine, WakeNext(g)
      PROVE  QueueOK' /\ NextOK'
  BY <1>5 DEF WakeNext
<1>6. ASSUME NEW g \in Goroutine, Pushes(g)
      PROVE  QueueOK' /\ NextOK'
  <2> USE <1>6 DEF Pushes, Store
  <2>1. CASE PushToReceiver(g)
    <3> DEFINE h == Head(recv_waiters)
    <3>1. /\ h \in Receiver /\ In(recv_waiters, h)
          /\ Distinct(Tail(recv_waiters))
          /\ \A y : In(Tail(recv_waiters), y) <=> In(recv_waiters, y) /\ y # h
      BY <2>1, PopProperties DEF PushToReceiver
    <3>2. ~In(send_waiters, h)
      BY <3>1 DEF In
    <3> HIDE DEF h
    <3>3. \A y : InQueue(y)' <=> InQueue(y) /\ y # h
      BY <2>1, <3>1, <3>2 DEF PushToReceiver, h
    <3>4. pc' = [pc EXCEPT ![g] = "wake"] /\ handle' = handle /\ left' = left
          /\ g_to_wake' = [g_to_wake EXCEPT ![g] = h] /\ left[g] > 0
      BY <2>1 DEF PushToReceiver, h
    <3>5. h # g /\ pc[g] # "waiting" /\ pc[h] = "waiting" /\ handle[h] = "registered"
          /\ h \in Goroutine /\ InQueue(h)
      BY <2>1, <3>1 DEF PushToReceiver
    <3>6. QueueOK'
      BY <2>1, <3>1, <3>3, <3>4, <3>5 DEF PushToReceiver, h
    <3>7. NextOK'
      BY <3>3, <3>4, <3>5
    <3>8. QED
      BY <3>6, <3>7
  <2>2. CASE PushToBuffer(g)
    BY <2>2 DEF PushToBuffer
  <2>3. CASE PushParks(g)
    <3>1. ~InQueue(g) /\ g \in Sender
      BY <2>3 DEF PushParks
    <3>2. Distinct(send_waiters')
          /\ \A y : In(send_waiters', y) <=> In(send_waiters, y) \/ y = g
      BY <2>3, <3>1, PushProperties DEF PushParks
    <3>3. \A y : InQueue(y)' <=> InQueue(y) \/ y = g
      BY <2>3, <3>2 DEF PushParks
    <3>4. QED
      BY <2>3, <3>2, <3>3 DEF PushParks
  <2>4. QED
    BY <2>1, <2>2, <2>3, <1>5 DEF push
<1>7. ASSUME NEW g \in Goroutine, Pops(g)
      PROVE  QueueOK' /\ NextOK'
  <2> USE <1>7 DEF Pops, Take
  <2>1. CASE PopWakesSender(g)
    <3> DEFINE h == Head(send_waiters)
    <3>1. /\ h \in Sender /\ In(send_waiters, h)
          /\ Distinct(Tail(send_waiters))
          /\ \A y : In(Tail(send_waiters), y) <=> In(send_waiters, y) /\ y # h
      BY <2>1, PopProperties DEF PopWakesSender
    <3>2. ~In(recv_waiters, h)
      BY <3>1 DEF In
    <3> HIDE DEF h
    <3>3. \A y : InQueue(y)' <=> InQueue(y) /\ y # h
      BY <2>1, <3>1, <3>2 DEF PopWakesSender, h
    <3>4. pc' = [pc EXCEPT ![g] = "wake"] /\ handle' = handle /\ left' = left
          /\ g_to_wake' = [g_to_wake EXCEPT ![g] = h] /\ left[g] > 0
      BY <2>1 DEF PopWakesSender, h
    <3>5. h # g /\ pc[g] # "waiting" /\ pc[h] = "waiting" /\ handle[h] = "registered"
          /\ h \in Goroutine /\ InQueue(h)
      BY <2>1, <3>1 DEF PopWakesSender
    <3>6. QueueOK'
      BY <2>1, <3>1, <3>3, <3>4, <3>5 DEF PopWakesSender, h
    <3>7. NextOK'
      BY <3>3, <3>4, <3>5
    <3>8. QED
      BY <3>6, <3>7
  <2>2. CASE PopReturns(g)
    BY <2>2 DEF PopReturns
  <2>3. CASE PopParks(g)
    <3>1. ~InQueue(g) /\ g \in Receiver
      BY <2>3 DEF PopParks
    <3>2. Distinct(recv_waiters')
          /\ \A y : In(recv_waiters', y) <=> In(recv_waiters, y) \/ y = g
      BY <2>3, <3>1, PushProperties DEF PopParks
    <3>3. \A y : InQueue(y)' <=> InQueue(y) \/ y = g
      BY <2>3, <3>2 DEF PopParks
    <3>4. QED
      BY <2>3, <3>2, <3>3 DEF PopParks
  <2>4. QED
    BY <2>1, <2>2, <2>3, <1>5 DEF pop
<1>8. ASSUME NEW g \in Goroutine, Schedule(g)
      PROVE  QueueOK' /\ NextOK'
  BY <1>8 DEF Schedule, Resume, Resumable
<1>9. ASSUME NEW g \in Goroutine, Start(g) \/ Suspend(g) \/ Return(g) \/ TimeoutReturns(g)
      PROVE  QueueOK' /\ NextOK'
  <2>1. CASE Start(g)
    BY <2>1 DEF Start, Go
  <2>2. CASE Suspend(g)
    BY <2>2 DEF Suspend, Yield
  <2>3. CASE Return(g)
    BY <2>3 DEF Return, Finish
  <2>4. CASE TimeoutReturns(g)
    BY <2>4 DEF TimeoutReturns, Finish
  <2>5. QED
    BY <1>9, <2>1, <2>2, <2>3, <2>4
<1>10. CASE UNCHANGED cxvars
  BY <1>10 DEF cxvars
<1>11. QED
  BY <1>1, <1>2, <1>3, <1>4, <1>6, <1>7, <1>8, <1>9, <1>10
  DEF ContextNext, cancel, Runtime

LEMMA Invariance == ContextSpec => []IInv
<1>1. IInv /\ [ContextNext]_cxvars => IInv'
  BY TypeStep, QueueStep DEF IInv
<1>2. QED
  BY Initially, <1>1, PTL DEF ContextSpec

\* Every variable has its type, in every behaviour.
THEOREM TypeCorrect == ContextSpec => []ContextTypeOK
  BY Invariance, PTL DEF IInv

-----------------------------------------------------------------------------
(***************************************************************************)
(* The order of the values.                                                *)
(***************************************************************************)

\* What is in the buffer follows what was taken out, by whatever step.
LEMMA StoreOrder ==
  ASSUME NEW S, NEW t \in Seq(S), NEW b \in Seq(S), NEW v \in S
  PROVE  t \o Append(b, v) = Append(t \o b, v)
  OBVIOUS

LEMMA TakeOrder ==
  ASSUME NEW S, NEW t \in Seq(S), NEW b \in Seq(S), b # <<>>
  PROVE  Append(t, Head(b)) \o Tail(b) = t \o b
  OBVIOUS

LEMMA OrderStep == IInv /\ FirstInFirstOut /\ [ContextNext]_cxvars => FirstInFirstOut'
<1> SUFFICES ASSUME IInv, FirstInFirstOut, [ContextNext]_cxvars PROVE FirstInFirstOut'
  OBVIOUS
<1> USE DEF FirstInFirstOut
<1>1. CASE UNCHANGED <<buffer, hist>>
  BY <1>1 DEF hist
<1>2. ASSUME NEW g \in Goroutine, PushToReceiver(g) \/ PushToBuffer(g)
      PROVE  FirstInFirstOut'
  <2>1. <<g, left[g]>> \in Value
    BY <1>2, StoreType DEF PushToReceiver, PushToBuffer, Tries
  <2>2. /\ buffer' = Append(buffer, <<g, left[g]>>)
        /\ entered' = Append(entered, <<g, left[g]>>)
        /\ taken' = taken
    BY <1>2 DEF PushToReceiver, PushToBuffer, Store
  <2>3. taken \in Seq(Value) /\ buffer \in Seq(Value)
    BY DEF IInv, ContextTypeOK, TypeOK, HistOK
  <2>4. taken \o Append(buffer, <<g, left[g]>>) = Append(taken \o buffer, <<g, left[g]>>)
    BY <2>1, <2>3, StoreOrder
  <2>5. QED
    BY <2>2, <2>4
<1>3. ASSUME NEW g \in Goroutine, PopWakesSender(g) \/ PopReturns(g)
      PROVE  FirstInFirstOut'
  BY <1>3, TakeOrder
  DEF PopWakesSender, PopReturns, Take, IInv, ContextTypeOK, TypeOK, HistOK
<1>4. ASSUME NEW g \in Goroutine, PushParks(g) \/ PopParks(g) \/ WakeNext(g)
                                  \/ Runtime(g) \/ TimeoutReturns(g)
      PROVE  UNCHANGED <<buffer, hist>>
  BY <1>4 DEF PushParks, PopParks, WakeNext, Runtime, Schedule, Start, Suspend,
              Return, TimeoutReturns, cvars
<1>5. ASSUME NEW g \in Goroutine, Sleeps(g) \/ Expires(g) \/ cancel(g)
      PROVE  UNCHANGED <<buffer, hist>>
  BY <1>5 DEF Sleeps, Expires, cancel, CancelFirst, CancelAgain, cvars
<1>6. CASE UNCHANGED cxvars
  BY <1>1, <1>6 DEF cxvars, vars, cvars
<1>7. QED
  BY <1>1, <1>2, <1>3, <1>4, <1>5, <1>6
  DEF ContextNext, Pushes, Pops, push, pop

\* Values come out of the channel in the order they went in, whoever pushes and
\* pops, and whoever is overtaken.
THEOREM OrderKept == ContextSpec => []FirstInFirstOut
  BY Initially, Invariance, OrderStep, PTL DEF ContextSpec

-----------------------------------------------------------------------------
(***************************************************************************)
(* A Context gives one signal.                                             *)
(***************************************************************************)

\* One call of cancel() at most is in push(), the one that has set the flag; it
\* has not stored its signal yet, or is about to wake the receiver for it.
SignalOK ==
  cancellers # {} =>
    /\ capacity = 1
    /\ ~done_flag => pushing = {} /\ entered = <<>>
    /\ \A g, h \in pushing : g = h
    /\ \A g \in pushing : pc[g] = "wake" \/ entered = <<>>
    /\ Len(entered) <= 1
    /\ send_waiters = <<>>

LEMMA SignalStep ==
  IInv /\ FirstInFirstOut /\ SignalOK /\ [ContextNext]_cxvars => SignalOK'
<1> SUFFICES ASSUME IInv, FirstInFirstOut, SignalOK, [ContextNext]_cxvars,
                    (cancellers # {})'
             PROVE  SignalOK'
  BY DEF SignalOK
<1> USE RolesAssumption
    DEF IInv, ContextTypeOK, TypeOK, HistOK, SignalOK, queues, hist, cvars, vars,
        gvars, context, Completes, Parks, WillWake
<1>1. ASSUME NEW g \in Goroutine, Sleeps(g) \/ Expires(g)
      PROVE  SignalOK'
  BY <1>1 DEF Sleeps, Expires
<1>2. ASSUME NEW g \in Goroutine, cancel(g)
      PROVE  SignalOK'
  BY <1>2 DEF cancel, CancelFirst, CancelAgain, Cancels
<1>3. ASSUME NEW g \in Goroutine, Pushes(g)
      PROVE  SignalOK'
  <2> USE <1>3 DEF Pushes, Store, Tries
  <2>1. g \in pushing /\ cancellers # {}
    OBVIOUS
  <2>2. ASSUME pc[g] # "wake" PROVE entered = <<>> /\ buffer = <<>> /\ done_flag
    <3>1. entered = <<>> /\ done_flag
      BY <2>1, <2>2
    <3>2. buffer = <<>>
      BY <3>1, ConcatEqualIffEmpty DEF FirstInFirstOut
    <3>3. QED
      BY <3>1, <3>2
  <2>3. CASE PushToReceiver(g)
    <3>1. entered = <<>> /\ done_flag /\ pc'[g] = "wake" /\ Len(entered') = 1
      BY <2>2, <2>3 DEF PushToReceiver
    <3>2. pushing' \subseteq pushing /\ send_waiters' = send_waiters
          /\ capacity' = capacity /\ done_flag' = done_flag
      BY <2>3 DEF PushToReceiver
    <3>3. QED
      BY <2>1, <3>1, <3>2
  <2>4. CASE PushToBuffer(g)
    <3>1. entered = <<>> /\ done_flag /\ Len(entered') = 1
      BY <2>2, <2>4 DEF PushToBuffer
    <3>2. left'[g] < left[g]
      BY <2>4 DEF PushToBuffer
    <3>3. pushing' = {} /\ send_waiters' = send_waiters
          /\ capacity' = capacity /\ done_flag' = done_flag
      BY <2>1, <2>4, <3>2 DEF PushToBuffer
    <3>4. QED
      BY <3>1, <3>3
  <2>5. CASE PushParks(g)
    <3>1. Len(buffer) = 0 /\ capacity = 1
      BY <2>1, <2>2, <2>5 DEF PushParks
    <3>2. QED
      BY <2>5, <3>1 DEF PushParks, Room
  <2>6. CASE WakeNext(g)
    <3>1. left'[g] < left[g]
      BY <2>6 DEF WakeNext, NextOK
    <3>2. pushing' = {} /\ done_flag
      BY <2>1, <3>1
    <3>3. QED
      BY <2>6, <3>2 DEF WakeNext
  <2>7. QED
    BY <2>3, <2>4, <2>5, <2>6 DEF push
<1>4. ASSUME NEW g \in Goroutine, Pops(g)
      PROVE  SignalOK'
  <2> USE <1>4 DEF Pops, Take
  <2>1. g \notin pushing
    OBVIOUS
  <2>2. CASE PopWakesSender(g)
    BY <2>2 DEF PopWakesSender
  <2>3. CASE PopReturns(g)
    BY <2>1, <2>3 DEF PopReturns
  <2>4. CASE PopParks(g)
    BY <2>1, <2>4 DEF PopParks
  <2>5. CASE WakeNext(g)
    BY <2>1, <2>5 DEF WakeNext
  <2>6. QED
    BY <2>2, <2>3, <2>4, <2>5 DEF pop
<1>5. ASSUME NEW g \in Goroutine, Runtime(g) \/ TimeoutReturns(g)
      PROVE  SignalOK'
  BY <1>5 DEF Runtime, Schedule, Start, Suspend, Return, TimeoutReturns
<1>6. CASE UNCHANGED cxvars
  BY <1>6 DEF cxvars
<1>7. QED
  BY <1>1, <1>2, <1>3, <1>4, <1>5, <1>6 DEF ContextNext

\* However many goroutines cancel a Context, one signal is sent, behind the
\* flag, and no call of cancel() blocks for it.
THEOREM SignalOnce == ContextSpec => []OneSignal
<1>1. ContextInit => SignalOK
  BY DEF ContextInit, Init, SignalOK
<1>2. SignalOK => OneSignal
  BY DEF SignalOK, OneSignal
<1>3. QED
  BY Initially, Invariance, OrderKept, SignalStep, <1>1, <1>2, PTL DEF ContextSpec

-----------------------------------------------------------------------------
\* push(), pop() and cancel() use the runtime only as its contract allows.
THEOREM Obedience == ContextSpec => ObeysContract
<1>1. ContextInit => RuntimeInit
  BY DEF ContextInit, Init
<1>2. IInv /\ [ContextNext]_cxvars => [RuntimeNext]_gvars
  <2> SUFFICES ASSUME IInv, [ContextNext]_cxvars
      PROVE  RuntimeNext \/ UNCHANGED gvars
    OBVIOUS
  <2> USE DEF RuntimeNext, RuntimeStep
  <2>1. ASSUME NEW g \in Goroutine, Sleeps(g) \/ PushParks(g) \/ PopParks(g)
        PROVE  RuntimeNext \/ UNCHANGED gvars
    BY <2>1 DEF Sleeps, PushParks, PopParks, Tries, Parks, Park
  <2>2. ASSUME NEW g \in Goroutine, WakeNext(g)
        PROVE  RuntimeNext \/ UNCHANGED gvars
    BY <2>2 DEF WakeNext, IInv, NextOK, Wake
  <2>3. ASSUME NEW g \in Goroutine, Expires(g) \/ Runtime(g) \/ TimeoutReturns(g)
        PROVE  RuntimeNext \/ UNCHANGED gvars
    BY <2>3 DEF Expires, Runtime, Schedule, Start, Suspend, Return, TimeoutReturns
  <2>4. ASSUME NEW g \in Goroutine, cancel(g)
        PROVE  RuntimeNext \/ UNCHANGED gvars
    BY <2>4 DEF cancel, CancelFirst, CancelAgain
  <2>5. ASSUME NEW g \in Goroutine, PushToReceiver(g) \/ PushToBuffer(g)
                                    \/ PopWakesSender(g) \/ PopReturns(g)
        PROVE  RuntimeNext \/ UNCHANGED gvars
    BY <2>5 DEF PushToReceiver, PushToBuffer, PopWakesSender, PopReturns
  <2>6. CASE UNCHANGED cxvars
    BY <2>6 DEF cxvars, vars
  <2>7. QED
    BY <2>1, <2>2, <2>3, <2>4, <2>5, <2>6
    DEF ContextNext, Pushes, Pops, push, pop
<1>3. QED
  BY <1>1, <1>2, Invariance, PTL DEF ContextSpec, ObeysContract

-----------------------------------------------------------------------------
(***************************************************************************)
(* Wake-ups.  A step makes one goroutine fewer woken at most, and the step *)
(* that uses up a wake-up takes its value or its place.                    *)
(***************************************************************************)
WokenIn(S) == {g \in S : Woken(g)}

LEMMA WokenCounts ==
  /\ IsFiniteSet(WokenIn(Receiver)) /\ IsFiniteSet(WokenIn(Receiver)')
  /\ IsFiniteSet(WokenIn(Sender)) /\ IsFiniteSet(WokenIn(Sender)')
  /\ WokenReceivers \in Nat /\ WokenReceivers' \in Nat
  /\ WokenSenders \in Nat /\ WokenSenders' \in Nat
<1>1. /\ WokenIn(Receiver) \in SUBSET Receiver /\ WokenIn(Receiver)' \in SUBSET Receiver
      /\ WokenIn(Sender) \in SUBSET Sender /\ WokenIn(Sender)' \in SUBSET Sender
  BY DEF WokenIn
<1>2. /\ IsFiniteSet(WokenIn(Receiver)) /\ IsFiniteSet(WokenIn(Receiver)')
      /\ IsFiniteSet(WokenIn(Sender)) /\ IsFiniteSet(WokenIn(Sender)')
  BY <1>1, FiniteAssumption, FS_Subset
<1>3. QED
  BY <1>2, FS_CardinalityType DEF WokenIn, WokenReceivers, WokenSenders

LEMMA Fewer ==
  ASSUME NEW S, IsFiniteSet(S), NEW T, IsFiniteSet(T), NEW x, S \ {x} \subseteq T
  PROVE  Cardinality(S) <= Cardinality(T) + 1
<1>1. Cardinality(S \ {x}) <= Cardinality(T)
  BY FS_Subset
<1>2. Cardinality(S) <= Cardinality(S \ {x}) + 1
  BY FS_RemoveElement, FS_CardinalityType
<1>3. QED
  BY <1>1, <1>2, FS_RemoveElement, FS_CardinalityType

LEMMA More ==
  ASSUME NEW S, IsFiniteSet(S), NEW T, IsFiniteSet(T), NEW x, x \notin S,
         S \cup {x} \subseteq T
  PROVE  Cardinality(S) + 1 <= Cardinality(T)
<1>1. Cardinality(S \cup {x}) <= Cardinality(T)
  BY FS_Subset
<1>2. Cardinality(S \cup {x}) = Cardinality(S) + 1 /\ Cardinality(S) \in Nat
  BY FS_AddElement, FS_CardinalityType
<1>3. QED
  BY <1>1, <1>2, FS_CardinalityType

\* The steps that do not concern the channel.
Elsewhere ==
  /\ UNCHANGED <<capacity, buffer, queues>>
  /\ \A g \in Goroutine : Woken(g) => Woken(g)'

LEMMA ElsewhereStep ==
  ASSUME IInv, NEW g \in Goroutine,
         \/ Sleeps(g) \/ Expires(g) \/ cancel(g) \/ WakeNext(g)
         \/ Runtime(g) \/ TimeoutReturns(g)
  PROVE  Elsewhere
<1> USE DEF Elsewhere, Woken, IInv, ContextTypeOK, TypeOK, cvars, queues
<1>1. CASE Sleeps(g) \/ Expires(g) \/ TimeoutReturns(g)
  BY <1>1 DEF Sleeps, Expires, TimeoutReturns
<1>2. CASE cancel(g)
  BY <1>2 DEF cancel, CancelFirst, CancelAgain, Cancels, Completes
<1>3. CASE WakeNext(g)
  BY <1>3 DEF WakeNext, Completes
<1>4. CASE Runtime(g)
  BY <1>4 DEF Runtime, Schedule, Start, Suspend, Return
<1>5. QED
  BY <1>1, <1>2, <1>3, <1>4

\* The numbers of woken goroutines, when x is woken no longer, or newly.
LEMMA FewerReceivers ==
  ASSUME NEW x, WokenIn(Receiver) \ {x} \subseteq WokenIn(Receiver)'
  PROVE  WokenReceivers <= WokenReceivers' + 1
  BY WokenCounts, Fewer DEF WokenReceivers, WokenIn

LEMMA MoreReceivers ==
  ASSUME NEW x, x \notin WokenIn(Receiver),
         WokenIn(Receiver) \cup {x} \subseteq WokenIn(Receiver)'
  PROVE  WokenReceivers + 1 <= WokenReceivers'
  BY WokenCounts, More DEF WokenReceivers, WokenIn

LEMMA SameReceivers ==
  ASSUME WokenIn(Receiver) \subseteq WokenIn(Receiver)'
  PROVE  WokenReceivers <= WokenReceivers'
  BY WokenCounts, FS_Subset DEF WokenReceivers, WokenIn

LEMMA FewerSenders ==
  ASSUME NEW x, WokenIn(Sender) \ {x} \subseteq WokenIn(Sender)'
  PROVE  WokenSenders <= WokenSenders' + 1
  BY WokenCounts, Fewer DEF WokenSenders, WokenIn

LEMMA MoreSenders ==
  ASSUME NEW x, x \notin WokenIn(Sender),
         WokenIn(Sender) \cup {x} \subseteq WokenIn(Sender)'
  PROVE  WokenSenders + 1 <= WokenSenders'
  BY WokenCounts, More DEF WokenSenders, WokenIn

LEMMA SameSenders ==
  ASSUME WokenIn(Sender) \subseteq WokenIn(Sender)'
  PROVE  WokenSenders <= WokenSenders'
  BY WokenCounts, FS_Subset DEF WokenSenders, WokenIn

LEMMA WakeUpStep == IInv /\ WakeUpsMatch /\ [ContextNext]_cxvars => WakeUpsMatch'
<1> SUFFICES ASSUME IInv, WakeUpsMatch, [ContextNext]_cxvars PROVE WakeUpsMatch'
  OBVIOUS
<1>1. /\ Len(buffer) \in Nat /\ Len(buffer') \in Nat
      /\ Limit \in Nat /\ Limit' = Limit
  <2>1. capacity' = capacity
    BY DEF ContextNext, Sleeps, Expires, cancel, CancelFirst, CancelAgain, Pushes, push,
       PushToReceiver, PushToBuffer, PushParks, Pops, pop, PopWakesSender, PopReturns,
       PopParks, WakeNext, Runtime, Schedule, Start, Suspend, Return, TimeoutReturns,
       cxvars, vars, cvars
  <2>2. buffer \in Seq(Value) /\ buffer' \in Seq(Value) /\ capacity \in Nat
    BY TypeStep, SizeAssumption DEF IInv, ContextTypeOK, TypeOK
  <2>3. QED
    BY <2>1, <2>2 DEF Limit
<1>2. PICK n \in Nat, n2 \in Nat, l \in Nat :
        n = Len(buffer) /\ n2 = Len(buffer') /\ l = Limit /\ l = Limit'
  BY <1>1
<1>3. PICK r \in Nat, r2 \in Nat : r = WokenReceivers /\ r2 = WokenReceivers'
  BY WokenCounts
<1>4. PICK s \in Nat, s2 \in Nat : s = WokenSenders /\ s2 = WokenSenders'
  BY WokenCounts
<1>5. /\ recv_waiters # <<>> => n <= r
      /\ send_waiters # <<>> => n + s >= l
      /\ n <= l \/ n <= r
  BY <1>2, <1>3, <1>4 DEF WakeUpsMatch, NobodySleepsBesideWork, BufferBounded
<1>6. SUFFICES /\ recv_waiters' # <<>> => n2 <= r2
               /\ send_waiters' # <<>> => n2 + s2 >= l
               /\ n2 <= l \/ n2 <= r2
  BY <1>2, <1>3, <1>4, <1>6 DEF WakeUpsMatch, NobodySleepsBesideWork, BufferBounded
<1> DEFINE Goal == /\ recv_waiters' # <<>> => n2 <= r2
                   /\ send_waiters' # <<>> => n2 + s2 >= l
                   /\ n2 <= l \/ n2 <= r2
<1>7. ASSUME Elsewhere PROVE Goal
  <2>1. /\ WokenIn(Receiver) \subseteq WokenIn(Receiver)'
        /\ WokenIn(Sender) \subseteq WokenIn(Sender)'
    BY <1>7, RolesAssumption DEF Elsewhere, WokenIn
  <2>2. r <= r2 /\ s <= s2
    BY <1>3, <1>4, <2>1, SameReceivers, SameSenders
  <2>3. n2 = n /\ recv_waiters' = recv_waiters /\ send_waiters' = send_waiters
    BY <1>2, <1>7 DEF Elsewhere, queues
  <2>4. QED
    BY <1>5, <2>2, <2>3
<1>8. ASSUME NEW g \in Goroutine, PushToReceiver(g) PROVE Goal
  <2>1. PICK h : h = Head(recv_waiters)
    OBVIOUS
  <2>2. /\ h \in Receiver /\ In(recv_waiters, h)
        /\ \A y : In(recv_waiters', y) <=> In(recv_waiters, y) /\ y # h
    BY <1>8, <2>1, PopProperties
    DEF PushToReceiver, IInv, ContextTypeOK, TypeOK, QueueOK
  <2>3. pc[h] = "waiting" /\ h # g /\ ~In(send_waiters, h) /\ ~Woken(h)
    BY <1>8, <2>2, RolesAssumption
    DEF PushToReceiver, Tries, IInv, ContextTypeOK, TypeOK, QueueOK, InQueue, In, Woken
  <2>4. pc' = [pc EXCEPT ![g] = "wake"] /\ send_waiters' = send_waiters
        /\ recv_waiters # <<>> /\ g \notin Receiver
    BY <1>8, RolesAssumption DEF PushToReceiver, WillWake
  <2>5. \A k \in Goroutine \ {g} : Woken(k) => Woken(k)'
    BY <2>2, <2>4 DEF Woken, IInv, ContextTypeOK, TypeOK
  <2>6. Woken(h)'
    BY <2>2, <2>3, <2>4, RolesAssumption DEF Woken, IInv, ContextTypeOK, TypeOK
  <2>7. r + 1 <= r2
    <3>1. h \notin WokenIn(Receiver)
      BY <2>3 DEF WokenIn
    <3>2. WokenIn(Receiver) \cup {h} \subseteq WokenIn(Receiver)'
      BY <2>2, <2>4, <2>5, <2>6, RolesAssumption DEF WokenIn
    <3>3. QED
      BY <1>3, <3>1, <3>2, MoreReceivers
  <2>8. s <= s2 + 1
    BY <1>4, <2>5, FewerSenders, RolesAssumption DEF WokenIn
  <2>9. n2 = n + 1
    BY <1>2, <1>8 DEF PushToReceiver, Store, IInv, ContextTypeOK, TypeOK
  <2>10. QED
    BY <1>5, <2>4, <2>7, <2>8, <2>9
<1>9. ASSUME NEW g \in Goroutine, PopWakesSender(g) PROVE Goal
  <2>1. PICK h : h = Head(send_waiters)
    OBVIOUS
  <2>2. /\ h \in Sender /\ In(send_waiters, h)
        /\ \A y : In(send_waiters', y) <=> In(send_waiters, y) /\ y # h
    BY <1>9, <2>1, PopProperties
    DEF PopWakesSender, IInv, ContextTypeOK, TypeOK, QueueOK
  <2>3. pc[h] = "waiting" /\ h # g /\ ~In(recv_waiters, h) /\ ~Woken(h)
    BY <1>9, <2>2, RolesAssumption
    DEF PopWakesSender, Tries, IInv, ContextTypeOK, TypeOK, QueueOK, InQueue, In, Woken
  <2>4. pc' = [pc EXCEPT ![g] = "wake"] /\ recv_waiters' = recv_waiters
        /\ send_waiters # <<>> /\ g \notin Sender
    BY <1>9, RolesAssumption DEF PopWakesSender, WillWake
  <2>5. \A k \in Goroutine \ {g} : Woken(k) => Woken(k)'
    BY <2>2, <2>4 DEF Woken, IInv, ContextTypeOK, TypeOK
  <2>6. Woken(h)'
    BY <2>2, <2>3, <2>4, RolesAssumption DEF Woken, IInv, ContextTypeOK, TypeOK
  <2>7. s + 1 <= s2
    <3>1. h \notin WokenIn(Sender)
      BY <2>3 DEF WokenIn
    <3>2. WokenIn(Sender) \cup {h} \subseteq WokenIn(Sender)'
      BY <2>2, <2>4, <2>5, <2>6, RolesAssumption DEF WokenIn
    <3>3. QED
      BY <1>4, <3>1, <3>2, MoreSenders
  <2>8. r <= r2 + 1
    BY <1>3, <2>5, FewerReceivers, RolesAssumption DEF WokenIn
  <2>9. n2 = n - 1
    BY <1>2, <1>9 DEF PopWakesSender, Take, IInv, ContextTypeOK, TypeOK
  <2>10. QED
    BY <1>5, <2>4, <2>7, <2>8, <2>9
<1>10. ASSUME NEW g \in Goroutine, PushToBuffer(g) \/ PushParks(g) PROVE Goal
  <2>1. g \in Sender /\ recv_waiters = <<>> /\ recv_waiters' = <<>>
    BY <1>10 DEF PushToBuffer, PushParks, queues
  <2>2. \A k \in Goroutine \ {g} : Woken(k) => Woken(k)'
    <3>1. CASE PushToBuffer(g)
      BY <3>1 DEF PushToBuffer, Completes, queues, Woken, IInv, ContextTypeOK, TypeOK
    <3>2. CASE PushParks(g)
      <4>1. \A y : In(send_waiters', y) <=> In(send_waiters, y) \/ y = g
        BY <3>2, PushProperties DEF PushParks, IInv, ContextTypeOK, TypeOK
      <4>2. QED
        BY <3>2, <4>1 DEF PushParks, Parks, Woken, IInv, ContextTypeOK, TypeOK
    <3>3. QED
      BY <1>10, <3>1, <3>2
  <2>3. r <= r2
    BY <1>3, <2>1, <2>2, SameReceivers, RolesAssumption DEF WokenIn
  <2>4. s <= s2 + 1
    BY <1>4, <2>2, FewerSenders, RolesAssumption DEF WokenIn
  <2>5. CASE PushToBuffer(g)
    <3>1. n2 = n + 1 /\ send_waiters' = send_waiters /\ n < l
      BY <1>2, <2>5, SizeAssumption
      DEF PushToBuffer, Store, queues, Room, Limit, IInv, ContextTypeOK, TypeOK
    <3>2. QED
      BY <1>5, <2>1, <2>3, <2>4, <3>1
  <2>6. CASE PushParks(g)
    <3>1. n2 = n /\ l <= n
      BY <1>2, <2>6, SizeAssumption
      DEF PushParks, Room, Limit, IInv, ContextTypeOK, TypeOK
    <3>2. QED
      BY <1>5, <2>1, <2>3, <3>1
  <2>7. QED
    BY <1>10, <2>5, <2>6
<1>11. ASSUME NEW g \in Goroutine, PopReturns(g) PROVE Goal
  <2>1. /\ send_waiters' = <<>> /\ recv_waiters' = recv_waiters /\ n2 = n - 1
    BY <1>2, <1>11 DEF PopReturns, Take, queues, IInv, ContextTypeOK, TypeOK
  <2>2. \A k \in Goroutine \ {g} : Woken(k) => Woken(k)'
    BY <1>11 DEF PopReturns, Completes, queues, Woken, IInv, ContextTypeOK, TypeOK
  <2>3. r <= r2 + 1
    BY <1>3, <2>2, FewerReceivers, RolesAssumption DEF WokenIn
  <2>4. QED
    BY <1>5, <2>1, <2>3
<1>12. ASSUME NEW g \in Goroutine, PopParks(g) PROVE Goal
  <2>1. g \in Receiver /\ n2 = 0 /\ n = 0 /\ send_waiters' = send_waiters
    BY <1>2, <1>12 DEF PopParks
  <2>2. \A y : In(recv_waiters', y) <=> In(recv_waiters, y) \/ y = g
    BY <1>12, PushProperties DEF PopParks, IInv, ContextTypeOK, TypeOK
  <2>3. \A k \in Goroutine \ {g} : Woken(k) => Woken(k)'
    BY <1>12, <2>2 DEF PopParks, Parks, Woken, IInv, ContextTypeOK, TypeOK
  <2>4. s <= s2
    BY <1>4, <2>1, <2>3, SameSenders, RolesAssumption DEF WokenIn
  <2>5. QED
    BY <1>5, <2>1, <2>4
<1>13. CASE UNCHANGED cxvars
  <2>1. Elsewhere
    BY <1>13 DEF cxvars, vars, cvars, queues, Elsewhere, Woken
  <2>2. QED
    BY <1>7, <2>1
<1>14. QED
  BY <1>7, <1>8, <1>9, <1>10, <1>11, <1>12, <1>13, ElsewhereStep
  DEF ContextNext, Pushes, Pops, push, pop

\* For every capacity and however goroutines overtake each other: nobody sleeps
\* beside a value or a place that no one was woken for, and the buffer exceeds
\* the capacity only by values whose receiver is on its way.
THEOREM WakeUpsCorrect == ContextSpec => []WakeUpsMatch
<1>1. ContextInit => WakeUpsMatch
  <2> SUFFICES ASSUME ContextInit PROVE WakeUpsMatch
    OBVIOUS
  <2>1. buffer = <<>> /\ send_waiters = <<>> /\ recv_waiters = <<>> /\ capacity \in Nat
    BY SizeAssumption DEF ContextInit, Init
  <2>2. QED
    BY <2>1 DEF WakeUpsMatch, NobodySleepsBesideWork, BufferBounded, Limit
<1>2. QED
  BY Invariance, WakeUpStep, <1>1, PTL DEF ContextSpec

=============================================================================

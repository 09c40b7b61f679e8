---------------------------- MODULE WaitGroupProofs ----------------------------
(***************************************************************************)
(* Proofs about WaitGroup: no waiter is forgotten, whatever the callers    *)
(* do; the runtime is used as its contract allows; and wait() spans a zero *)
(* of the counter, the group being used again too early excepted.          *)
(* Then about PrintTest, which composes the group with two channels: the   *)
(* printers alternate, the request is answered when both have reported,    *)
(* and the three goroutines together use the runtime as its contract       *)
(* allows.  The first part cites nothing of PrintTest.                     *)
(***************************************************************************)
EXTENDS PrintTest, SequenceTheorems, TLAPS

\* A goroutine on a list is blocked in wait(); one that is blocked there and
\* on no list has been pushed.
ListOK ==
  \A g \in Goroutine :
     /\ g \in waiting_gs => pc[g] = "waiting" /\ handle[g] = "registered"
     /\ \A h \in Goroutine : g \in to_wake[h] =>
          pc[h] = "wake" /\ pc[g] = "waiting" /\ handle[g] = "registered"
     /\ pc[g] = "waiting" => fiber[g] \in {"parking", "suspended"}
     /\ pc[g] = "waiting" /\ handle[g] = "registered" =>
          g \in waiting_gs \/ \E h \in Goroutine : g \in to_wake[h]

IInv == TypeOK /\ OneList /\ ListOK

\* Whoever has been woken, or is on the list an add() that saw zero is about to
\* take, has lived through that zero or came late.
ZeroOK ==
  /\ (\E h \in Goroutine : pc[h] = "swap") => waiting_gs \subseteq zeroed \cup late
  /\ \A h \in Goroutine : to_wake[h] \subseteq zeroed \cup late
  /\ \A g \in Goroutine :
       pc[g] = "waiting" /\ handle[g] # "registered" => g \in zeroed \cup late

-----------------------------------------------------------------------------
\* The group starts empty.
LEMMA Initially == Init => IInv /\ NobodyForgotten /\ ZeroOK
<1> SUFFICES ASSUME Init PROVE IInv /\ NobodyForgotten /\ ZeroOK
  OBVIOUS
<1>1. RuntimeTypeOK
  BY DEF Init, RuntimeInit, RuntimeTypeOK, FiberState, HandleState
<1>2. pc \in [Goroutine -> WaitGroupPC] /\ counter \in -1..MaxCounter
  BY DeltaAssumption DEF Init, WaitGroupPC
<1>3. TypeOK
  BY <1>1, <1>2 DEF Init, TypeOK
<1>4. OneList /\ ListOK /\ NobodyForgotten /\ ZeroOK
  BY DEF Init, OneList, ListOK, NobodyForgotten, ZeroOK
<1>5. QED
  BY <1>3, <1>4 DEF IInv

\* Every variable keeps its type.
LEMMA TypeStep == IInv /\ [Next]_vars => TypeOK'
<1> SUFFICES ASSUME IInv, [Next]_vars PROVE TypeOK'
  OBVIOUS
<1> USE DeltaAssumption
    DEF IInv, TypeOK, RuntimeTypeOK, FiberState, HandleState, WaitGroupPC,
        Moves, Used, Register, PushReady, gvars, wvars, history
<1>1. ASSUME NEW g \in Goroutine, NEW d \in Delta, Add(g, d)
     PROVE  TypeOK'
  BY <1>1 DEF Add
<1>2. ASSUME NEW g \in Goroutine, NEW d \in Delta, AddThrows(g, d)
     PROVE  TypeOK'
  BY <1>2 DEF AddThrows
<1>3. ASSUME NEW g \in Goroutine, NEW d \in Delta, AddToZero(g, d)
     PROVE  TypeOK'
  BY <1>3 DEF AddToZero
<1>4. ASSUME NEW g \in Goroutine, Wait(g)
     PROVE  TypeOK'
  BY <1>4 DEF Wait
<1>5. ASSUME NEW g \in Goroutine, Swap(g)
     PROVE  TypeOK'
  BY <1>5 DEF Swap
<1>6. ASSUME NEW g \in Goroutine, WakeOne(g)
     PROVE  TypeOK'
  BY <1>6 DEF WakeOne
<1>7. ASSUME NEW g \in Goroutine, AddReturns(g)
     PROVE  TypeOK'
  BY <1>7 DEF AddReturns
<1>8. ASSUME NEW g \in Goroutine, Enlist(g)
     PROVE  TypeOK'
  BY <1>8 DEF Enlist
<1>9. ASSUME NEW g \in Goroutine, EnlistZero(g)
     PROVE  TypeOK'
  BY <1>9 DEF EnlistZero
<1>10. ASSUME NEW g \in Goroutine, Schedule(g)
      PROVE  TypeOK'
  BY <1>10 DEF Schedule, Resume, Resumable
<1>11. ASSUME NEW g \in Goroutine, Start(g)
      PROVE  TypeOK'
  BY <1>11 DEF Start, Go
<1>12. ASSUME NEW g \in Goroutine, Suspend(g)
      PROVE  TypeOK'
  BY <1>12 DEF Suspend, Yield
<1>13. ASSUME NEW g \in Goroutine, Return(g)
      PROVE  TypeOK'
  BY <1>13 DEF Return, Finish
<1>14. CASE UNCHANGED vars
  BY <1>14 DEF vars
<1>15. QED
  BY <1>1, <1>2, <1>3, <1>4, <1>5, <1>6, <1>7, <1>8,
     <1>9, <1>10, <1>11, <1>12, <1>13, <1>14
  DEF Next, Proceed

\* Lists are disjoint, and their goroutines registered.
LEMMA ListStep == IInv /\ [Next]_vars => (OneList /\ ListOK)'
<1> SUFFICES ASSUME IInv, [Next]_vars PROVE (OneList /\ ListOK)'
  OBVIOUS
<1> USE DEF IInv, TypeOK, RuntimeTypeOK, OneList, ListOK, Moves, Running,
        Register, PushReady, gvars, wvars, history
<1>1. ASSUME NEW g \in Goroutine, NEW d \in Delta, Add(g, d)
     PROVE  (OneList /\ ListOK)'
  BY <1>1 DEF Add
<1>2. ASSUME NEW g \in Goroutine, NEW d \in Delta, AddThrows(g, d)
     PROVE  (OneList /\ ListOK)'
  BY <1>2 DEF AddThrows
<1>3. ASSUME NEW g \in Goroutine, NEW d \in Delta, AddToZero(g, d)
     PROVE  (OneList /\ ListOK)'
  BY <1>3 DEF AddToZero
<1>4. ASSUME NEW g \in Goroutine, Wait(g)
     PROVE  (OneList /\ ListOK)'
  BY <1>4 DEF Wait
<1>5. ASSUME NEW g \in Goroutine, Swap(g)
     PROVE  (OneList /\ ListOK)'
  BY <1>5 DEF Swap
<1>6. ASSUME NEW g \in Goroutine, WakeOne(g)
     PROVE  (OneList /\ ListOK)'
  BY <1>6 DEF WakeOne
<1>7. ASSUME NEW g \in Goroutine, AddReturns(g)
     PROVE  (OneList /\ ListOK)'
  BY <1>7 DEF AddReturns
<1>8. ASSUME NEW g \in Goroutine, Enlist(g)
     PROVE  (OneList /\ ListOK)'
  BY <1>8 DEF Enlist
<1>9. ASSUME NEW g \in Goroutine, EnlistZero(g)
     PROVE  (OneList /\ ListOK)'
  BY <1>9 DEF EnlistZero
<1>10. ASSUME NEW g \in Goroutine, Schedule(g)
      PROVE  (OneList /\ ListOK)'
  BY <1>10 DEF Schedule, Resume, Resumable
<1>11. ASSUME NEW g \in Goroutine, Start(g)
      PROVE  (OneList /\ ListOK)'
  BY <1>11 DEF Start, Go
<1>12. ASSUME NEW g \in Goroutine, Suspend(g)
      PROVE  (OneList /\ ListOK)'
  BY <1>12 DEF Suspend, Yield
<1>13. ASSUME NEW g \in Goroutine, Return(g)
      PROVE  (OneList /\ ListOK)'
  BY <1>13 DEF Return, Finish
<1>14. CASE UNCHANGED vars
  BY <1>14 DEF vars
<1>15. QED
  BY <1>1, <1>2, <1>3, <1>4, <1>5, <1>6, <1>7, <1>8,
     <1>9, <1>10, <1>11, <1>12, <1>13, <1>14
  DEF Next, Proceed

\* The invariant holds throughout.
LEMMA Invariance == Spec => []IInv
<1>1. IInv /\ [Next]_vars => IInv'
  BY TypeStep, ListStep DEF IInv
<1>2. QED
  BY Initially, <1>1, PTL DEF Spec

-----------------------------------------------------------------------------
\* Every variable of the wait group keeps its type.
THEOREM TypeCorrect == Spec => []TypeOK
  BY Invariance, PTL DEF IInv

\* No goroutine is on two lists, or on one without being registered.
THEOREM ListsCorrect == Spec => []OneList
  BY Invariance, PTL DEF IInv

\* The list is never left with a goroutine in it and nobody to take it.
THEOREM NobodyForgottenCorrect == Spec => []NobodyForgotten
<1>1. IInv /\ NobodyForgotten /\ [Next]_vars => NobodyForgotten'
  <2> SUFFICES ASSUME IInv, NobodyForgotten, [Next]_vars
      PROVE  NobodyForgotten'
    OBVIOUS
  <2> USE DEF IInv, TypeOK, NobodyForgotten, Moves, gvars, wvars, history
  <2>1. ASSUME NEW g \in Goroutine, NEW d \in Delta, Add(g, d)
       PROVE  NobodyForgotten'
    BY <2>1 DEF Add
  <2>2. ASSUME NEW g \in Goroutine, NEW d \in Delta, AddThrows(g, d)
       PROVE  NobodyForgotten'
    BY <2>2 DEF AddThrows
  <2>3. ASSUME NEW g \in Goroutine, NEW d \in Delta, AddToZero(g, d)
       PROVE  NobodyForgotten'
    BY <2>3 DEF AddToZero
  <2>4. ASSUME NEW g \in Goroutine, Wait(g)
       PROVE  NobodyForgotten'
    BY <2>4 DEF Wait
  <2>5. ASSUME NEW g \in Goroutine, Swap(g)
       PROVE  NobodyForgotten'
    BY <2>5 DEF Swap
  <2>6. ASSUME NEW g \in Goroutine, WakeOne(g)
       PROVE  NobodyForgotten'
    BY <2>6 DEF WakeOne
  <2>7. ASSUME NEW g \in Goroutine, AddReturns(g)
       PROVE  NobodyForgotten'
    BY <2>7 DEF AddReturns
  <2>8. ASSUME NEW g \in Goroutine, Enlist(g)
       PROVE  NobodyForgotten'
    BY <2>8 DEF Enlist
  <2>9. ASSUME NEW g \in Goroutine, EnlistZero(g)
       PROVE  NobodyForgotten'
    BY <2>9 DEF EnlistZero
  <2>10. ASSUME NEW g \in Goroutine, Schedule(g)
        PROVE  NobodyForgotten'
    BY <2>10 DEF Schedule, Resume, Resumable
  <2>11. ASSUME NEW g \in Goroutine, Start(g)
        PROVE  NobodyForgotten'
    BY <2>11 DEF Start, Go
  <2>12. ASSUME NEW g \in Goroutine, Suspend(g)
        PROVE  NobodyForgotten'
    BY <2>12 DEF Suspend, Yield
  <2>13. ASSUME NEW g \in Goroutine, Return(g)
        PROVE  NobodyForgotten'
    BY <2>13 DEF Return, Finish
  <2>14. CASE UNCHANGED vars
    BY <2>14 DEF vars
  <2>15. QED
    BY <2>1, <2>2, <2>3, <2>4, <2>5, <2>6, <2>7, <2>8,
       <2>9, <2>10, <2>11, <2>12, <2>13, <2>14
    DEF Next, Proceed
<1>2. QED
  BY Initially, Invariance, <1>1, PTL DEF Spec

\* Every step is one of the runtime's contract, or leaves the runtime alone.
LEMMA ContractStep == IInv /\ [Next]_vars => [RuntimeNext]_gvars
<1> SUFFICES ASSUME IInv, [Next]_vars
    PROVE  RuntimeNext \/ UNCHANGED gvars
  OBVIOUS
<1> USE DEF RuntimeNext, RuntimeStep
<1>1. ASSUME NEW g \in Goroutine, NEW d \in Delta, Add(g, d)
     PROVE  RuntimeNext \/ UNCHANGED gvars
  BY <1>1 DEF Add
<1>2. ASSUME NEW g \in Goroutine, NEW d \in Delta, AddThrows(g, d)
     PROVE  RuntimeNext \/ UNCHANGED gvars
  BY <1>2 DEF AddThrows
<1>3. ASSUME NEW g \in Goroutine, NEW d \in Delta, AddToZero(g, d)
     PROVE  RuntimeNext \/ UNCHANGED gvars
  BY <1>3 DEF AddToZero
<1>4. ASSUME NEW g \in Goroutine, Wait(g)
     PROVE  RuntimeNext \/ UNCHANGED gvars
  BY <1>4 DEF Wait
<1>5. ASSUME NEW g \in Goroutine, Swap(g)
     PROVE  RuntimeNext \/ UNCHANGED gvars
  BY <1>5 DEF Swap
<1>6. ASSUME NEW g \in Goroutine, WakeOne(g)
     PROVE  RuntimeNext \/ UNCHANGED gvars
  BY <1>6 DEF IInv, TypeOK, ListOK, WakeOne, Wake
<1>7. ASSUME NEW g \in Goroutine, AddReturns(g)
     PROVE  RuntimeNext \/ UNCHANGED gvars
  BY <1>7 DEF AddReturns
<1>8. ASSUME NEW g \in Goroutine, Enlist(g)
     PROVE  RuntimeNext \/ UNCHANGED gvars
  BY <1>8 DEF Enlist, Moves, Park
<1>9. ASSUME NEW g \in Goroutine, EnlistZero(g)
     PROVE  RuntimeNext \/ UNCHANGED gvars
  BY <1>9 DEF EnlistZero
<1>10. ASSUME NEW g \in Goroutine, Schedule(g)
      PROVE  RuntimeNext \/ UNCHANGED gvars
  BY <1>10 DEF Schedule
<1>11. ASSUME NEW g \in Goroutine, Start(g)
      PROVE  RuntimeNext \/ UNCHANGED gvars
  BY <1>11 DEF Start
<1>12. ASSUME NEW g \in Goroutine, Suspend(g)
      PROVE  RuntimeNext \/ UNCHANGED gvars
  BY <1>12 DEF Suspend
<1>13. ASSUME NEW g \in Goroutine, Return(g)
      PROVE  RuntimeNext \/ UNCHANGED gvars
  BY <1>13 DEF Return
<1>14. CASE UNCHANGED vars
  BY <1>14 DEF vars
<1>15. QED
  BY <1>1, <1>2, <1>3, <1>4, <1>5, <1>6, <1>7, <1>8,
     <1>9, <1>10, <1>11, <1>12, <1>13, <1>14
  DEF Next, Proceed

\* The group uses the runtime only as its contract allows.
THEOREM Obedience == Spec => ObeysContract
<1>1. Init => RuntimeInit
  BY DEF Init
<1>2. QED
  BY <1>1, ContractStep, Invariance, PTL DEF Spec, ObeysContract

\* wait() spans a zero of the counter, for every number of callers and whatever
\* they add, unless the group was used again before the list was taken.
THEOREM WaitCorrect == Spec => WaitSpansZero
<1>1. IInv /\ ZeroOK /\ [Next]_vars => ZeroOK'
  <2> SUFFICES ASSUME IInv, ZeroOK, [Next]_vars PROVE ZeroOK'
    OBVIOUS
  <2> USE DeltaAssumption
      DEF IInv, TypeOK, RuntimeTypeOK, OneList, ListOK, ZeroOK, InWait,
          Moves, Used, Register, PushReady, gvars, wvars, history
  <2>1. ASSUME NEW g \in Goroutine, NEW d \in Delta, Add(g, d)
       PROVE  ZeroOK'
    BY <2>1 DEF Add
  <2>2. ASSUME NEW g \in Goroutine, NEW d \in Delta, AddThrows(g, d)
       PROVE  ZeroOK'
    BY <2>2 DEF AddThrows
  <2>3. ASSUME NEW g \in Goroutine, NEW d \in Delta, AddToZero(g, d)
       PROVE  ZeroOK'
    BY <2>3 DEF AddToZero
  <2>4. ASSUME NEW g \in Goroutine, Wait(g)
       PROVE  ZeroOK'
    BY <2>4 DEF Wait
  <2>5. ASSUME NEW g \in Goroutine, Swap(g)
       PROVE  ZeroOK'
    BY <2>5 DEF Swap
  <2>6. ASSUME NEW g \in Goroutine, WakeOne(g)
       PROVE  ZeroOK'
    BY <2>6 DEF WakeOne
  <2>7. ASSUME NEW g \in Goroutine, AddReturns(g)
       PROVE  ZeroOK'
    BY <2>7 DEF AddReturns
  <2>8. ASSUME NEW g \in Goroutine, Enlist(g)
       PROVE  ZeroOK'
    BY <2>8 DEF Enlist
  <2>9. ASSUME NEW g \in Goroutine, EnlistZero(g)
       PROVE  ZeroOK'
    BY <2>9 DEF EnlistZero
  <2>10. ASSUME NEW g \in Goroutine, Schedule(g)
        PROVE  ZeroOK'
    BY <2>10 DEF Schedule, Resume, Resumable
  <2>11. ASSUME NEW g \in Goroutine, Start(g)
        PROVE  ZeroOK'
    BY <2>11 DEF Start, Go
  <2>12. ASSUME NEW g \in Goroutine, Suspend(g)
        PROVE  ZeroOK'
    BY <2>12 DEF Suspend, Yield
  <2>13. ASSUME NEW g \in Goroutine, Return(g)
        PROVE  ZeroOK'
    BY <2>13 DEF Return, Finish
  <2>14. CASE UNCHANGED vars
    BY <2>14 DEF vars
  <2>15. QED
    BY <2>1, <2>2, <2>3, <2>4, <2>5, <2>6, <2>7, <2>8,
       <2>9, <2>10, <2>11, <2>12, <2>13, <2>14
    DEF Next, Proceed
<1>2. IInv /\ ZeroOK /\ [Next]_vars =>
        [\A g \in Goroutine : InWait(g) /\ ~InWait(g)' =>
            g \in zeroed \/ g \in late \/ counter = 0]_vars
  <2> SUFFICES ASSUME IInv, ZeroOK, Next,
                      NEW k \in Goroutine, InWait(k), ~InWait(k)'
      PROVE  k \in zeroed \/ k \in late \/ counter = 0
    OBVIOUS
  <2> USE DEF IInv, TypeOK, ZeroOK, InWait, Moves, gvars, wvars, history
  <2>1. ASSUME NEW g \in Goroutine, NEW d \in Delta, Add(g, d)
       PROVE  k \in zeroed \/ k \in late \/ counter = 0
    BY <2>1 DEF Add
  <2>2. ASSUME NEW g \in Goroutine, NEW d \in Delta, AddThrows(g, d)
       PROVE  k \in zeroed \/ k \in late \/ counter = 0
    BY <2>2 DEF AddThrows
  <2>3. ASSUME NEW g \in Goroutine, NEW d \in Delta, AddToZero(g, d)
       PROVE  k \in zeroed \/ k \in late \/ counter = 0
    BY <2>3 DEF AddToZero
  <2>4. ASSUME NEW g \in Goroutine, Wait(g)
       PROVE  k \in zeroed \/ k \in late \/ counter = 0
    BY <2>4 DEF Wait
  <2>5. ASSUME NEW g \in Goroutine, Swap(g)
       PROVE  k \in zeroed \/ k \in late \/ counter = 0
    BY <2>5 DEF Swap
  <2>6. ASSUME NEW g \in Goroutine, WakeOne(g)
       PROVE  k \in zeroed \/ k \in late \/ counter = 0
    BY <2>6 DEF WakeOne
  <2>7. ASSUME NEW g \in Goroutine, AddReturns(g)
       PROVE  k \in zeroed \/ k \in late \/ counter = 0
    BY <2>7 DEF AddReturns
  <2>8. ASSUME NEW g \in Goroutine, Enlist(g)
       PROVE  k \in zeroed \/ k \in late \/ counter = 0
    BY <2>8 DEF Enlist
  <2>9. ASSUME NEW g \in Goroutine, EnlistZero(g)
       PROVE  k \in zeroed \/ k \in late \/ counter = 0
    BY <2>9 DEF EnlistZero
  <2>10. ASSUME NEW g \in Goroutine, Schedule(g)
        PROVE  k \in zeroed \/ k \in late \/ counter = 0
    BY <2>10 DEF Schedule, Resume, Resumable
  <2>11. ASSUME NEW g \in Goroutine, Start(g)
        PROVE  k \in zeroed \/ k \in late \/ counter = 0
    BY <2>11 DEF Start, Go
  <2>12. ASSUME NEW g \in Goroutine, Suspend(g)
        PROVE  k \in zeroed \/ k \in late \/ counter = 0
    BY <2>12 DEF Suspend, Yield
  <2>13. ASSUME NEW g \in Goroutine, Return(g)
        PROVE  k \in zeroed \/ k \in late \/ counter = 0
    BY <2>13 DEF Return, Finish
  <2>14. QED
    BY <2>1, <2>2, <2>3, <2>4, <2>5, <2>6, <2>7, <2>8,
       <2>9, <2>10, <2>11, <2>12, <2>13
    DEF Next, Proceed
<1>3. QED
  BY Initially, Invariance, <1>1, <1>2, PTL DEF Spec, WaitSpansZero

-----------------------------------------------------------------------------
(***************************************************************************)
(* PrintTest: the wait group, two channels and three goroutines.  The part *)
(* of the invariant that is about the wait group is IInv, as above.        *)
(***************************************************************************)

TypesOK ==
  /\ chan1!TypeOK /\ entered1 \in Seq(chan1!Value) /\ taken1 \in Seq(chan1!Value)
  /\ chan2!TypeOK /\ entered2 \in Seq(chan2!Value) /\ taken2 \in Seq(chan2!Value)
  /\ i \in [{A, B} -> Nat]
  /\ at \in [Goroutine -> {"add", "go", "wait", "waited", "loop", "pop",
                           "print", "push", "done", "end"}]
  /\ printed \in Seq(Nat)
  /\ answered \in BOOLEAN

\* Each goroutine is in its own code, and inside a call only while it makes it;
\* only the handler waits on the wait group.
CodeOK ==
  /\ at[Main] \in {"add", "go", "wait", "waited", "end"}
  /\ pc1[Main] = "call" /\ pc2[Main] = "call"
  /\ \A g \in {A, B} :
       /\ at[g] \in {"loop", "pop", "print", "push", "done", "end"}
       /\ ~InWait(g)
  /\ pc1[A] # "call" => at[A] = "pop"
  /\ pc2[A] # "call" => at[A] = "push"
  /\ pc2[B] # "call" => at[B] = "pop"
  /\ pc1[B] # "call" => at[B] = "push"

\* A call that has still to wake somebody has not returned, and it is the other
\* printer that it wakes.
WakesOK ==
  \A g \in {A, B} :
     /\ pc1[g] = "wake" => left1[g] > 0 /\ wake1[g] \in {A, B} \ {g}
     /\ pc2[g] = "wake" => left2[g] > 0 /\ wake2[g] \in {A, B} \ {g}

\* q is the queue of a channel on which g parks, and h the one who wakes it: a
\* goroutine in the queue, or taken out and not yet pushed, is blocked there.
Waits(q, pcs, g, h) ==
  /\ q = <<>> \/ q = <<g>>
  /\ q # <<>> => pcs[h] # "wake"
  /\ q # <<>> \/ pcs[h] = "wake" =>
       pcs[g] = "waiting" /\ handle[g] = "registered"

ParkedOK ==
  /\ Waits(receivers1, pc1, A, B) /\ Waits(senders1, pc1, B, A)
  /\ Waits(receivers2, pc2, B, A) /\ Waits(senders2, pc2, A, B)

\* The loops go round while i <= Last.
LoopOK ==
  /\ \A g \in {A, B} :
       /\ i[g] <= Last + 2
       /\ at[g] \in {"pop", "print", "push"} => i[g] <= Last
       /\ at[g] \in {"done", "end"} => i[g] > Last
  /\ at[A] = "pop" => i[A] > 1

\* To count steps.
One(p) == IF p THEN 1 ELSE 0

\* g is in a call and has already sent, or received, the signal of this round.
Sent(pcs, g) == at[g] = "push" /\ pcs[g] = "wake"
Received(pcs, g) ==
  at[g] \in {"print", "push"} \/ (at[g] = "pop" /\ pcs[g] = "wake")

\* Where the two printers are says how many signals each of them has sent and
\* received, and how many numbers are printed; no channel loses a signal.
SignalsOK ==
  /\ Len(entered1) = Len(taken1) + Len(buffer1)
  /\ Len(entered2) = Len(taken2) + Len(buffer2)
  /\ 2 * Len(entered2) = i[A] - 1 + 2 * One(Sent(pc2, A))
  /\ 2 * Len(entered1) = i[B] - 2 + 2 * One(Sent(pc1, B))
  /\ IF i[A] = 1 THEN Len(taken1) = 0
     ELSE 2 * Len(taken1) = i[A] - 3 + 2 * One(Received(pc1, A))
  /\ 2 * Len(taken2) = i[B] - 2 + 2 * One(Received(pc2, B))
  /\ 2 * Len(printed) = i[A] + i[B] - 3 + 2 * One(at[A] = "push")
                                        + 2 * One(at[B] = "push")

\* The counter is the number of printers that have not reported, once the
\* handler has added two; the handler is woken, and goes on, only at zero.
GroupOK ==
  /\ counter = IF at[Main] = "add" THEN 0
               ELSE 2 - One(at[A] = "end") - One(at[B] = "end")
  /\ at[Main] = "add" => fiber[A] = "new" /\ fiber[B] = "new"
  /\ \A g \in {A, B} : fiber[g] = "new" => at[g] = "loop"
  /\ fiber[Main] = "new" => at[Main] = "add"
  /\ at[Main] \in {"add", "go", "wait"} => pc[Main] = "idle"
  /\ \A g \in Goroutine :
       pc[g] \in {"swap", "wake"} => at[Main] # "add" /\ counter = 0
  /\ pc[Main] = "waiting" /\ handle[Main] = "ready" => counter = 0
  /\ at[Main] = "waited" /\ pc[Main] = "idle" => counter = 0
  /\ at[Main] = "end" => counter = 0
  /\ answered => at[Main] = "end"

PInv ==
  /\ IInv
  /\ TypesOK /\ CodeOK /\ WakesOK /\ ParkedOK
  /\ LoopOK /\ SignalsOK /\ GroupOK /\ NumbersInOrder

-----------------------------------------------------------------------------
\* The goroutines are three different ones.
LEMMA Three ==
  /\ A \in Goroutine /\ B \in Goroutine /\ Main \in Goroutine
  /\ A # B /\ Main # A /\ Main # B /\ Last \in Nat
  /\ \A g \in Goroutine : g \in {Main, A, B}
  /\ 2 \in Delta /\ -1 \in Delta
  BY PrintTestAssumption

\* A queue with one goroutine in it.
LEMMA Single ==
  \A x : /\ <<x>> # <<>> /\ Head(<<x>>) = x /\ Tail(<<x>>) = <<>>
        /\ Append(<<>>, x) = <<x>>
  OBVIOUS

LEMMA SingleType == \A x : <<>> \in Seq({x}) /\ <<x>> \in Seq({x})
  OBVIOUS

\* Before the request has arrived.
LEMMA PrintInitially == PrintInit => PInv
<1> SUFFICES ASSUME PrintInit PROVE PInv
  OBVIOUS
<1> USE Three
    DEF PrintInit, Init, chan1!Init, chan2!Init, RuntimeInit, chan1!RuntimeInit,
        chan2!RuntimeInit
<1>1. IInv
  BY Initially
<1>2. chan1!TypeOK
  BY DEF chan1!TypeOK, chan1!RuntimeTypeOK, chan1!FiberState,
         chan1!HandleState, chan1!ChannelPC
<1>3. chan2!TypeOK
  BY DEF chan2!TypeOK, chan2!RuntimeTypeOK, chan2!FiberState,
         chan2!HandleState, chan2!ChannelPC
<1>4. TypesOK
  <2>1. i \in [{A, B} -> Nat]
    OBVIOUS
  <2>2. at \in [Goroutine -> {"add", "go", "wait", "waited", "loop", "pop",
                              "print", "push", "done", "end"}]
    OBVIOUS
  <2>3. /\ \A S : <<>> \in Seq(S)
        /\ printed = <<>> /\ answered = FALSE
        /\ entered1 = <<>> /\ taken1 = <<>> /\ entered2 = <<>> /\ taken2 = <<>>
    OBVIOUS
  <2>4. QED
    BY ONLY <1>2, <1>3, <2>1, <2>2, <2>3 DEF TypesOK
<1>5. /\ at[Main] = "add" /\ at[A] = "loop" /\ at[B] = "loop"
      /\ i[A] = 1 /\ i[B] = 2
  OBVIOUS
<1>6. CodeOK /\ WakesOK /\ ParkedOK
  BY <1>5 DEF CodeOK, WakesOK, ParkedOK, Waits, InWait
<1>7. LoopOK /\ GroupOK
  BY <1>5 DEF LoopOK, GroupOK, One
<1>8. SignalsOK /\ NumbersInOrder
  BY <1>5 DEF SignalsOK, NumbersInOrder, One, Sent, Received
<1>9. QED
  BY <1>1, <1>4, <1>6, <1>7, <1>8 DEF PInv

-----------------------------------------------------------------------------
(***************************************************************************)
(* What the calls on the channels do.                                      *)
(***************************************************************************)

\* A step of A in pop(): it takes a signal and may have to wake B, parks, or
\* returns; the other channel is not affected.
LEMMA PopsA ==
  ASSUME PInv, PopsSignal(A)
  PROVE  /\ at[A] = "pop"
         /\ UNCHANGED <<i, wvars, vars2, printed, answered>>
         /\ chan1!TypeOK' /\ taken1' \in Seq(chan1!Value) /\ entered1' = entered1
         /\ fiber' \in [Goroutine -> FiberState]
         /\ handle' \in [Goroutine -> HandleState]
         /\ RuntimeNext \/ UNCHANGED gvars
         /\ Waits(receivers1, pc1, A, B)' /\ Waits(senders1, pc1, B, A)'
         /\ handle'[B] = handle[B] \/ pc1[B] = "waiting"
         /\ handle'[Main] = handle[Main] /\ fiber'[A] # "new"
         /\ \A h \in Goroutine : h # A => fiber'[h] = fiber[h]
         /\ pc1' = [pc1 EXCEPT ![A] = pc1'[A]]
         /\ wake1' = [wake1 EXCEPT ![A] = wake1'[A]]
         /\ left1' = [left1 EXCEPT ![A] = left1'[A]]
         /\ pc1'[A] = "wake" => left1'[A] > 0 /\ wake1'[A] = B
         /\ at' = IF pc1'[A] = "call" THEN [at EXCEPT ![A] = "print"] ELSE at
         /\ \/ /\ pc1[A] # "wake" /\ pc1'[A] \in {"wake", "call"}
               /\ Len(taken1') = Len(taken1) + 1
               /\ Len(buffer1') = Len(buffer1) - 1
            \/ /\ pc1[A] # "wake" /\ pc1'[A] = "waiting"
               /\ UNCHANGED <<taken1, buffer1>>
            \/ /\ pc1[A] = "wake" /\ pc1'[A] = "call"
               /\ UNCHANGED <<taken1, buffer1>>
<1> USE Three
    DEF Running, chan1!Running, chan1!Tries, chan1!WillWake, chan1!Completes, chan1!Parks,
        chan1!Register, chan1!PushReady, chan1!gvars, chan1!queues, chan1!hist,
        chan1!cvars
<1>1. /\ chan1!pop(A) \/ chan1!WakeNext(A)
      /\ at[A] = "pop"
      /\ at' = [at EXCEPT ![A] = IF left1'[A] < left1[A] THEN "print" ELSE @]
      /\ UNCHANGED <<i, wvars, vars2, printed, answered>>
  BY DEF PopsSignal, Call
<1>2. /\ buffer1 \in Seq(chan1!Value) /\ taken1 \in Seq(chan1!Value)
      /\ senders1 \in Seq({B}) /\ receivers1 \in Seq({A})
      /\ wake1 \in [Goroutine -> Goroutine \cup {NoGoroutine}]
      /\ left1 \in [Goroutine -> 0..Last]
      /\ pc1 \in [Goroutine -> {"call", "waiting", "again", "wake"}]
      /\ fiber \in [Goroutine -> FiberState]
      /\ handle \in [Goroutine -> HandleState]
      /\ at \in [Goroutine -> {"add", "go", "wait", "waited", "loop", "pop",
                                "print", "push", "done", "end"}]
  BY DEF PInv, TypesOK, IInv, TypeOK, RuntimeTypeOK, chan1!TypeOK, chan1!ChannelPC
<1>3. /\ receivers1 = <<>> \/ receivers1 = <<A>>
      /\ pc1[A] # "waiting" => receivers1 = <<>>
      /\ pc1[B] = "wake" => pc1[A] = "waiting"
      /\ senders1 = <<>> \/ senders1 = <<B>>
      /\ senders1 # <<>> => pc1[A] # "wake"
      /\ senders1 # <<>> \/ pc1[A] = "wake" =>
           pc1[B] = "waiting" /\ handle[B] = "registered"
  BY Single DEF PInv, ParkedOK, Waits
<1>4. ASSUME buffer1 # <<>>, chan1!Take(A)
      PROVE  /\ buffer1' \in Seq(chan1!Value) /\ taken1' \in Seq(chan1!Value)
             /\ Len(taken1') = Len(taken1) + 1
             /\ Len(buffer1') = Len(buffer1) - 1
  BY <1>2, <1>4 DEF chan1!Take
<1> DEFINE T == /\ senders1' \in Seq({B}) /\ receivers1' \in Seq({A})
                /\ wake1' \in [Goroutine -> Goroutine \cup {NoGoroutine}]
                /\ left1' \in [Goroutine -> 0..Last]
                /\ pc1' \in [Goroutine -> {"call", "waiting", "again", "wake"}]
                /\ fiber' \in [Goroutine -> FiberState]
                /\ handle' \in [Goroutine -> HandleState]
           W == Waits(receivers1, pc1, A, B)' /\ Waits(senders1, pc1, B, A)'
           R == RuntimeNext \/ UNCHANGED gvars
<1>5. ASSUME buffer1' \in Seq(chan1!Value), T PROVE chan1!TypeOK'
  BY <1>5 DEF PInv, TypesOK, chan1!TypeOK, chan1!RuntimeTypeOK, chan1!ChannelPC,
              chan1!FiberState, chan1!HandleState, FiberState, HandleState
<1>T. /\ pc1 \in [Goroutine -> {"call", "waiting", "again", "wake"}]
      /\ handle \in [Goroutine -> HandleState]
  BY <1>2
<1> HIDE DEF W, R
<1>6. CASE chan1!PopWakesSender(A)
  <2>1. T
    BY <1>6, <1>2, <1>1 DEF chan1!PopWakesSender
  <2>2. Head(senders1) = B /\ senders1' = <<>>
    BY <1>6, <1>3, Single DEF chan1!PopWakesSender
  <2>3. W
    BY <1>6, <2>2, <1>T, <1>3, Single DEF chan1!PopWakesSender, W, Waits
  <2>4. R
    BY <1>6, <1>1 DEF chan1!PopWakesSender, R, gvars
  <2>5. QED
    BY <2>1, <2>2, <2>3, <2>4, <1>1, <1>2, <1>4, <1>5, <1>6 DEF chan1!PopWakesSender, W, R
<1>7. CASE chan1!PopReturns(A)
  <2>1. T
    BY <1>7, <1>2, SMTT(30) DEF chan1!PopReturns
  <2>2. left1'[A] < left1[A] /\ at' = [at EXCEPT ![A] = "print"]
    <3>1. left1[A] \in Int /\ left1'[A] = left1[A] - 1
      BY <1>7, <1>2 DEF chan1!PopReturns
    <3>2. left1'[A] < left1[A]
      BY ONLY <3>1
    <3>3. at' = [at EXCEPT ![A] = IF left1'[A] < left1[A] THEN "print" ELSE @]
      BY ONLY <1>1
    <3>4. QED
      BY ONLY <3>2, <3>3
  <2>3. W
    BY <1>7, <2>2, <1>T, <1>3, Single DEF chan1!PopReturns, W, Waits
  <2>4. R
    BY <1>7, <1>1 DEF chan1!PopReturns, R, gvars
  <2>5. QED
    BY <2>1, <2>2, <2>3, <2>4, <1>1, <1>2, <1>4, <1>5, <1>7 DEF chan1!PopReturns, W, R
<1>8. CASE chan1!PopParks(A)
  <2>1. T
    BY <1>8, <1>2, <1>1 DEF chan1!PopParks, FiberState, HandleState
  <2>2. receivers1' = <<A>>
    BY <1>8, <1>3, Single DEF chan1!PopParks
  <2>3. W
    BY <1>8, <2>2, <1>T, <1>3, Single DEF chan1!PopParks, W, Waits
  <2>4. R
    BY <1>8, <1>1 DEF chan1!PopParks, R, gvars, RuntimeNext, RuntimeStep, Park, Register
  <2>5. QED
    BY <2>1, <2>2, <2>3, <2>4, <1>1, <1>2, <1>5, <1>8 DEF chan1!PopParks, W, R
<1>9. CASE chan1!WakeNext(A)
  <2>1. pc1[A] = "wake" /\ left1[A] > 0 /\ wake1[A] = B
    BY <1>9 DEF chan1!WakeNext, PInv, WakesOK
  <2>2. T
    BY <2>1, <1>9, <1>1, <1>2 DEF chan1!WakeNext, HandleState
  <2>3. left1'[A] < left1[A] /\ at' = [at EXCEPT ![A] = "print"]
    <3>1. left1[A] \in Int /\ left1'[A] = left1[A] - 1
      BY <2>1, <1>9, <1>2 DEF chan1!WakeNext
    <3>2. left1'[A] < left1[A]
      BY ONLY <3>1
    <3>3. at' = [at EXCEPT ![A] = IF left1'[A] < left1[A] THEN "print" ELSE @]
      BY ONLY <1>1
    <3>4. QED
      BY ONLY <3>2, <3>3
  <2>4. W
    BY <2>1, <1>9, <1>T, <1>3, Single DEF chan1!WakeNext, W, Waits
  <2>5. R
    BY <2>1, <1>9, <1>3 DEF chan1!WakeNext, R, RuntimeNext, RuntimeStep, Wake, PushReady
  <2>6. QED
    BY <2>1, <2>2, <2>3, <2>4, <2>5, <1>1, <1>2, <1>3, <1>5, <1>9 DEF chan1!WakeNext, W, R
<1>10. QED
  BY <1>1, <1>6, <1>7, <1>8, <1>9 DEF chan1!pop

\* A step of B in pop(): it takes a signal and may have to wake A, parks, or
\* returns; the other channel is not affected.
LEMMA PopsB ==
  ASSUME PInv, PopsSignal(B)
  PROVE  /\ at[B] = "pop"
         /\ UNCHANGED <<i, wvars, vars1, printed, answered>>
         /\ chan2!TypeOK' /\ taken2' \in Seq(chan2!Value) /\ entered2' = entered2
         /\ fiber' \in [Goroutine -> FiberState]
         /\ handle' \in [Goroutine -> HandleState]
         /\ RuntimeNext \/ UNCHANGED gvars
         /\ Waits(receivers2, pc2, B, A)' /\ Waits(senders2, pc2, A, B)'
         /\ handle'[A] = handle[A] \/ pc2[A] = "waiting"
         /\ handle'[Main] = handle[Main] /\ fiber'[B] # "new"
         /\ \A h \in Goroutine : h # B => fiber'[h] = fiber[h]
         /\ pc2' = [pc2 EXCEPT ![B] = pc2'[B]]
         /\ wake2' = [wake2 EXCEPT ![B] = wake2'[B]]
         /\ left2' = [left2 EXCEPT ![B] = left2'[B]]
         /\ pc2'[B] = "wake" => left2'[B] > 0 /\ wake2'[B] = A
         /\ at' = IF pc2'[B] = "call" THEN [at EXCEPT ![B] = "print"] ELSE at
         /\ \/ /\ pc2[B] # "wake" /\ pc2'[B] \in {"wake", "call"}
               /\ Len(taken2') = Len(taken2) + 1
               /\ Len(buffer2') = Len(buffer2) - 1
            \/ /\ pc2[B] # "wake" /\ pc2'[B] = "waiting"
               /\ UNCHANGED <<taken2, buffer2>>
            \/ /\ pc2[B] = "wake" /\ pc2'[B] = "call"
               /\ UNCHANGED <<taken2, buffer2>>
<1> USE Three
    DEF Running, chan2!Running, chan2!Tries, chan2!WillWake, chan2!Completes, chan2!Parks,
        chan2!Register, chan2!PushReady, chan2!gvars, chan2!queues, chan2!hist,
        chan2!cvars
<1>1. /\ chan2!pop(B) \/ chan2!WakeNext(B)
      /\ at[B] = "pop"
      /\ at' = [at EXCEPT ![B] = IF left2'[B] < left2[B] THEN "print" ELSE @]
      /\ UNCHANGED <<i, wvars, vars1, printed, answered>>
  BY DEF PopsSignal, Call
<1>2. /\ buffer2 \in Seq(chan2!Value) /\ taken2 \in Seq(chan2!Value)
      /\ senders2 \in Seq({A}) /\ receivers2 \in Seq({B})
      /\ wake2 \in [Goroutine -> Goroutine \cup {NoGoroutine}]
      /\ left2 \in [Goroutine -> 0..Last]
      /\ pc2 \in [Goroutine -> {"call", "waiting", "again", "wake"}]
      /\ fiber \in [Goroutine -> FiberState]
      /\ handle \in [Goroutine -> HandleState]
      /\ at \in [Goroutine -> {"add", "go", "wait", "waited", "loop", "pop",
                                "print", "push", "done", "end"}]
  BY DEF PInv, TypesOK, IInv, TypeOK, RuntimeTypeOK, chan2!TypeOK, chan2!ChannelPC
<1>3. /\ receivers2 = <<>> \/ receivers2 = <<B>>
      /\ pc2[B] # "waiting" => receivers2 = <<>>
      /\ pc2[A] = "wake" => pc2[B] = "waiting"
      /\ senders2 = <<>> \/ senders2 = <<A>>
      /\ senders2 # <<>> => pc2[B] # "wake"
      /\ senders2 # <<>> \/ pc2[B] = "wake" =>
           pc2[A] = "waiting" /\ handle[A] = "registered"
  BY Single DEF PInv, ParkedOK, Waits
<1>4. ASSUME buffer2 # <<>>, chan2!Take(B)
      PROVE  /\ buffer2' \in Seq(chan2!Value) /\ taken2' \in Seq(chan2!Value)
             /\ Len(taken2') = Len(taken2) + 1
             /\ Len(buffer2') = Len(buffer2) - 1
  BY <1>2, <1>4 DEF chan2!Take
<1> DEFINE T == /\ senders2' \in Seq({A}) /\ receivers2' \in Seq({B})
                /\ wake2' \in [Goroutine -> Goroutine \cup {NoGoroutine}]
                /\ left2' \in [Goroutine -> 0..Last]
                /\ pc2' \in [Goroutine -> {"call", "waiting", "again", "wake"}]
                /\ fiber' \in [Goroutine -> FiberState]
                /\ handle' \in [Goroutine -> HandleState]
           W == Waits(receivers2, pc2, B, A)' /\ Waits(senders2, pc2, A, B)'
           R == RuntimeNext \/ UNCHANGED gvars
<1>5. ASSUME buffer2' \in Seq(chan2!Value), T PROVE chan2!TypeOK'
  BY <1>5 DEF PInv, TypesOK, chan2!TypeOK, chan2!RuntimeTypeOK, chan2!ChannelPC,
              chan2!FiberState, chan2!HandleState, FiberState, HandleState
<1>T. /\ pc2 \in [Goroutine -> {"call", "waiting", "again", "wake"}]
      /\ handle \in [Goroutine -> HandleState]
  BY <1>2
<1> HIDE DEF W, R
<1>6. CASE chan2!PopWakesSender(B)
  <2>1. T
    BY <1>6, <1>2, <1>1 DEF chan2!PopWakesSender
  <2>2. Head(senders2) = A /\ senders2' = <<>>
    BY <1>6, <1>3, Single DEF chan2!PopWakesSender
  <2>3. W
    BY <1>6, <2>2, <1>T, <1>3, Single DEF chan2!PopWakesSender, W, Waits
  <2>4. R
    BY <1>6, <1>1 DEF chan2!PopWakesSender, R, gvars
  <2>5. QED
    BY <2>1, <2>2, <2>3, <2>4, <1>1, <1>2, <1>4, <1>5, <1>6 DEF chan2!PopWakesSender, W, R
<1>7. CASE chan2!PopReturns(B)
  <2>1. T
    BY <1>7, <1>2, SMTT(30) DEF chan2!PopReturns
  <2>2. left2'[B] < left2[B] /\ at' = [at EXCEPT ![B] = "print"]
    <3>1. left2[B] \in Int /\ left2'[B] = left2[B] - 1
      BY <1>7, <1>2 DEF chan2!PopReturns
    <3>2. left2'[B] < left2[B]
      BY ONLY <3>1
    <3>3. at' = [at EXCEPT ![B] = IF left2'[B] < left2[B] THEN "print" ELSE @]
      BY ONLY <1>1
    <3>4. QED
      BY ONLY <3>2, <3>3
  <2>3. W
    BY <1>7, <2>2, <1>T, <1>3, Single DEF chan2!PopReturns, W, Waits
  <2>4. R
    BY <1>7, <1>1 DEF chan2!PopReturns, R, gvars
  <2>5. QED
    BY <2>1, <2>2, <2>3, <2>4, <1>1, <1>2, <1>4, <1>5, <1>7 DEF chan2!PopReturns, W, R
<1>8. CASE chan2!PopParks(B)
  <2>1. T
    BY <1>8, <1>2, <1>1 DEF chan2!PopParks, FiberState, HandleState
  <2>2. receivers2' = <<B>>
    BY <1>8, <1>3, Single DEF chan2!PopParks
  <2>3. W
    BY <1>8, <2>2, <1>T, <1>3, Single DEF chan2!PopParks, W, Waits
  <2>4. R
    BY <1>8, <1>1 DEF chan2!PopParks, R, gvars, RuntimeNext, RuntimeStep, Park, Register
  <2>5. QED
    BY <2>1, <2>2, <2>3, <2>4, <1>1, <1>2, <1>5, <1>8 DEF chan2!PopParks, W, R
<1>9. CASE chan2!WakeNext(B)
  <2>1. pc2[B] = "wake" /\ left2[B] > 0 /\ wake2[B] = A
    BY <1>9 DEF chan2!WakeNext, PInv, WakesOK
  <2>2. T
    BY <2>1, <1>9, <1>1, <1>2 DEF chan2!WakeNext, HandleState
  <2>3. left2'[B] < left2[B] /\ at' = [at EXCEPT ![B] = "print"]
    <3>1. left2[B] \in Int /\ left2'[B] = left2[B] - 1
      BY <2>1, <1>9, <1>2 DEF chan2!WakeNext
    <3>2. left2'[B] < left2[B]
      BY ONLY <3>1
    <3>3. at' = [at EXCEPT ![B] = IF left2'[B] < left2[B] THEN "print" ELSE @]
      BY ONLY <1>1
    <3>4. QED
      BY ONLY <3>2, <3>3
  <2>4. W
    BY <2>1, <1>9, <1>T, <1>3, Single DEF chan2!WakeNext, W, Waits
  <2>5. R
    BY <2>1, <1>9, <1>3 DEF chan2!WakeNext, R, RuntimeNext, RuntimeStep, Wake, PushReady
  <2>6. QED
    BY <2>1, <2>2, <2>3, <2>4, <2>5, <1>1, <1>2, <1>3, <1>5, <1>9 DEF chan2!WakeNext, W, R
<1>10. QED
  BY <1>1, <1>6, <1>7, <1>8, <1>9 DEF chan2!pop

\* A step of A in push(): it stores a signal and may have to wake B, parks, or
\* returns to its loop; the other channel is not affected.
LEMMA PushesA ==
  ASSUME PInv, PushesSignal(A)
  PROVE  /\ at[A] = "push"
         /\ UNCHANGED <<wvars, vars1, printed, answered>>
         /\ chan2!TypeOK' /\ entered2' \in Seq(chan2!Value) /\ taken2' = taken2
         /\ fiber' \in [Goroutine -> FiberState]
         /\ handle' \in [Goroutine -> HandleState]
         /\ RuntimeNext \/ UNCHANGED gvars
         /\ Waits(senders2, pc2, A, B)' /\ Waits(receivers2, pc2, B, A)'
         /\ handle'[B] = handle[B] \/ pc2[B] = "waiting"
         /\ handle'[Main] = handle[Main] /\ fiber'[A] # "new"
         /\ \A h \in Goroutine : h # A => fiber'[h] = fiber[h]
         /\ pc2' = [pc2 EXCEPT ![A] = pc2'[A]]
         /\ wake2' = [wake2 EXCEPT ![A] = wake2'[A]]
         /\ left2' = [left2 EXCEPT ![A] = left2'[A]]
         /\ pc2'[A] = "wake" => left2'[A] > 0 /\ wake2'[A] = B
         /\ at' = IF pc2'[A] = "call" THEN [at EXCEPT ![A] = "loop"] ELSE at
         /\ i' = IF pc2'[A] = "call" THEN [i EXCEPT ![A] = @ + 2] ELSE i
         /\ \/ /\ pc2[A] # "wake" /\ pc2'[A] \in {"wake", "call"}
               /\ Len(entered2') = Len(entered2) + 1
               /\ Len(buffer2') = Len(buffer2) + 1
            \/ /\ pc2[A] # "wake" /\ pc2'[A] = "waiting"
               /\ UNCHANGED <<entered2, buffer2>>
            \/ /\ pc2[A] = "wake" /\ pc2'[A] = "call"
               /\ UNCHANGED <<entered2, buffer2>>
<1> USE Three
    DEF Running, chan2!Running, chan2!Tries, chan2!WillWake, chan2!Completes, chan2!Parks,
        chan2!Register, chan2!PushReady, chan2!gvars, chan2!queues, chan2!hist,
        chan2!cvars, chan2!Value
<1>1. /\ chan2!push(A) \/ chan2!WakeNext(A)
      /\ at[A] = "push"
      /\ at' = [at EXCEPT ![A] = IF left2'[A] < left2[A] THEN "loop" ELSE @]
      /\ i' = [i EXCEPT ![A] = IF at'[A] = "loop" THEN @ + 2 ELSE @]
      /\ UNCHANGED <<wvars, vars1, printed, answered>>
  BY DEF PushesSignal, Call
<1>2. /\ buffer2 \in Seq(chan2!Value) /\ entered2 \in Seq(chan2!Value)
      /\ senders2 \in Seq({A}) /\ receivers2 \in Seq({B})
      /\ wake2 \in [Goroutine -> Goroutine \cup {NoGoroutine}]
      /\ left2 \in [Goroutine -> 0..Last]
      /\ pc2 \in [Goroutine -> {"call", "waiting", "again", "wake"}]
      /\ fiber \in [Goroutine -> FiberState]
      /\ handle \in [Goroutine -> HandleState]
      /\ at \in [Goroutine -> {"add", "go", "wait", "waited", "loop", "pop",
                                "print", "push", "done", "end"}]
      /\ i \in [{A, B} -> Nat]
  BY DEF PInv, TypesOK, IInv, TypeOK, RuntimeTypeOK, chan2!TypeOK, chan2!ChannelPC
<1>3. /\ senders2 = <<>> \/ senders2 = <<A>>
      /\ pc2[A] # "waiting" => senders2 = <<>>
      /\ pc2[B] = "wake" => pc2[A] = "waiting"
      /\ receivers2 = <<>> \/ receivers2 = <<B>>
      /\ receivers2 # <<>> => pc2[A] # "wake"
      /\ receivers2 # <<>> \/ pc2[A] = "wake" =>
           pc2[B] = "waiting" /\ handle[B] = "registered"
  BY Single DEF PInv, ParkedOK, Waits
<1>4. ASSUME chan2!Store(A), left2[A] > 0
      PROVE  /\ buffer2' \in Seq(chan2!Value) /\ entered2' \in Seq(chan2!Value)
             /\ Len(entered2') = Len(entered2) + 1
             /\ Len(buffer2') = Len(buffer2) + 1
  <2>1. <<A, left2[A]>> \in chan2!Value
    BY <1>2, <1>4
  <2>2. QED
    BY <1>2, <1>4, <2>1 DEF chan2!Store
<1> DEFINE T == /\ senders2' \in Seq({A}) /\ receivers2' \in Seq({B})
                /\ wake2' \in [Goroutine -> Goroutine \cup {NoGoroutine}]
                /\ left2' \in [Goroutine -> 0..Last]
                /\ pc2' \in [Goroutine -> {"call", "waiting", "again", "wake"}]
                /\ fiber' \in [Goroutine -> FiberState]
                /\ handle' \in [Goroutine -> HandleState]
           W == Waits(senders2, pc2, A, B)' /\ Waits(receivers2, pc2, B, A)'
           R == RuntimeNext \/ UNCHANGED gvars
<1>5. ASSUME buffer2' \in Seq(chan2!Value), T PROVE chan2!TypeOK'
  BY <1>5 DEF PInv, TypesOK, chan2!TypeOK, chan2!RuntimeTypeOK, chan2!ChannelPC,
              chan2!FiberState, chan2!HandleState, FiberState, HandleState
<1>T. /\ pc2 \in [Goroutine -> {"call", "waiting", "again", "wake"}]
      /\ handle \in [Goroutine -> HandleState]
  BY <1>2
<1> HIDE DEF W, R
<1>6. CASE chan2!PushToReceiver(A)
  <2>1. T
    BY <1>6, <1>2, <1>1 DEF chan2!PushToReceiver
  <2>2. Head(receivers2) = B /\ receivers2' = <<>>
    BY <1>6, <1>3, Single DEF chan2!PushToReceiver
  <2>3. W
    BY <1>6, <2>2, <1>T, <1>3, Single DEF chan2!PushToReceiver, W, Waits
  <2>4. R
    BY <1>6, <1>1 DEF chan2!PushToReceiver, R, gvars
  <2>5. /\ chan2!Store(A) /\ fiber[A] = "running" /\ left2[A] > 0 /\ UNCHANGED left2
        /\ UNCHANGED <<gvars, taken2>> /\ pc2[A] # "wake"
        /\ pc2' = [pc2 EXCEPT ![A] = "wake"]
        /\ wake2' = [wake2 EXCEPT ![A] = B]
    BY <2>2, <1>6 DEF chan2!PushToReceiver, gvars
  <2>6. /\ chan2!TypeOK' /\ entered2' \in Seq(chan2!Value)
        /\ Len(entered2') = Len(entered2) + 1
        /\ Len(buffer2') = Len(buffer2) + 1
    BY <2>1, <2>5, <1>4, <1>5
  <2>7. at' = at /\ i' = i /\ pc2'[A] = "wake" /\ wake2'[A] = B
    BY <2>5, <1>1, <1>2
  <2>8. QED
    BY <2>1, <2>3, <2>4, <2>5, <2>6, <2>7, <1>1, <1>2 DEF W, R, gvars
<1>7. CASE chan2!PushToBuffer(A)
  <2>1. T
    BY <1>7, <1>2, SMTT(30) DEF chan2!PushToBuffer
  <2>2. left2'[A] < left2[A] /\ at' = [at EXCEPT ![A] = "loop"]
    <3>1. left2[A] \in Int /\ left2'[A] = left2[A] - 1
      BY <1>7, <1>2 DEF chan2!PushToBuffer
    <3>2. left2'[A] < left2[A]
      BY ONLY <3>1
    <3>3. at' = [at EXCEPT ![A] = IF left2'[A] < left2[A] THEN "loop" ELSE @]
      BY ONLY <1>1
    <3>4. QED
      BY ONLY <3>2, <3>3
  <2>3. W
    BY <1>7, <2>2, <1>T, <1>3, Single DEF chan2!PushToBuffer, W, Waits
  <2>4. R
    BY <1>7, <1>1 DEF chan2!PushToBuffer, R, gvars
  <2>5. QED
    BY <2>1, <2>2, <2>3, <2>4, <1>1, <1>2, <1>4, <1>5, <1>7 DEF chan2!PushToBuffer, W, R
<1>8. CASE chan2!PushParks(A)
  <2>1. T
    BY <1>8, <1>2, <1>1 DEF chan2!PushParks, FiberState, HandleState
  <2>2. senders2' = <<A>>
    BY <1>8, <1>3, Single DEF chan2!PushParks
  <2>3. W
    BY <1>8, <2>2, <1>T, <1>3, Single DEF chan2!PushParks, W, Waits
  <2>4. R
    BY <1>8, <1>1 DEF chan2!PushParks, R, gvars, RuntimeNext, RuntimeStep, Park, Register
  <2>5. QED
    BY <2>1, <2>2, <2>3, <2>4, <1>1, <1>2, <1>5, <1>8 DEF chan2!PushParks, W, R
<1>9. CASE chan2!WakeNext(A)
  <2>1. pc2[A] = "wake" /\ left2[A] > 0 /\ wake2[A] = B
    BY <1>9 DEF chan2!WakeNext, PInv, WakesOK
  <2>2. T
    BY <2>1, <1>9, <1>1, <1>2 DEF chan2!WakeNext, HandleState
  <2>3. left2'[A] < left2[A] /\ at' = [at EXCEPT ![A] = "loop"]
    <3>1. left2[A] \in Int /\ left2'[A] = left2[A] - 1
      BY <2>1, <1>9, <1>2 DEF chan2!WakeNext
    <3>2. left2'[A] < left2[A]
      BY ONLY <3>1
    <3>3. at' = [at EXCEPT ![A] = IF left2'[A] < left2[A] THEN "loop" ELSE @]
      BY ONLY <1>1
    <3>4. QED
      BY ONLY <3>2, <3>3
  <2>4. W
    BY <2>1, <1>9, <1>T, <1>3, Single DEF chan2!WakeNext, W, Waits
  <2>5. R
    BY <2>1, <1>9, <1>3 DEF chan2!WakeNext, R, RuntimeNext, RuntimeStep, Wake, PushReady
  <2>6. QED
    BY <2>1, <2>2, <2>3, <2>4, <2>5, <1>1, <1>2, <1>3, <1>5, <1>9 DEF chan2!WakeNext, W, R
<1>10. QED
  BY <1>1, <1>6, <1>7, <1>8, <1>9 DEF chan2!push

\* A step of B in push(): it stores a signal and may have to wake A, parks, or
\* returns to its loop; the other channel is not affected.
LEMMA PushesB ==
  ASSUME PInv, PushesSignal(B)
  PROVE  /\ at[B] = "push"
         /\ UNCHANGED <<wvars, vars2, printed, answered>>
         /\ chan1!TypeOK' /\ entered1' \in Seq(chan1!Value) /\ taken1' = taken1
         /\ fiber' \in [Goroutine -> FiberState]
         /\ handle' \in [Goroutine -> HandleState]
         /\ RuntimeNext \/ UNCHANGED gvars
         /\ Waits(senders1, pc1, B, A)' /\ Waits(receivers1, pc1, A, B)'
         /\ handle'[A] = handle[A] \/ pc1[A] = "waiting"
         /\ handle'[Main] = handle[Main] /\ fiber'[B] # "new"
         /\ \A h \in Goroutine : h # B => fiber'[h] = fiber[h]
         /\ pc1' = [pc1 EXCEPT ![B] = pc1'[B]]
         /\ wake1' = [wake1 EXCEPT ![B] = wake1'[B]]
         /\ left1' = [left1 EXCEPT ![B] = left1'[B]]
         /\ pc1'[B] = "wake" => left1'[B] > 0 /\ wake1'[B] = A
         /\ at' = IF pc1'[B] = "call" THEN [at EXCEPT ![B] = "loop"] ELSE at
         /\ i' = IF pc1'[B] = "call" THEN [i EXCEPT ![B] = @ + 2] ELSE i
         /\ \/ /\ pc1[B] # "wake" /\ pc1'[B] \in {"wake", "call"}
               /\ Len(entered1') = Len(entered1) + 1
               /\ Len(buffer1') = Len(buffer1) + 1
            \/ /\ pc1[B] # "wake" /\ pc1'[B] = "waiting"
               /\ UNCHANGED <<entered1, buffer1>>
            \/ /\ pc1[B] = "wake" /\ pc1'[B] = "call"
               /\ UNCHANGED <<entered1, buffer1>>
<1> USE Three
    DEF Running, chan1!Running, chan1!Tries, chan1!WillWake, chan1!Completes, chan1!Parks,
        chan1!Register, chan1!PushReady, chan1!gvars, chan1!queues, chan1!hist,
        chan1!cvars, chan1!Value
<1>1. /\ chan1!push(B) \/ chan1!WakeNext(B)
      /\ at[B] = "push"
      /\ at' = [at EXCEPT ![B] = IF left1'[B] < left1[B] THEN "loop" ELSE @]
      /\ i' = [i EXCEPT ![B] = IF at'[B] = "loop" THEN @ + 2 ELSE @]
      /\ UNCHANGED <<wvars, vars2, printed, answered>>
  BY DEF PushesSignal, Call
<1>2. /\ buffer1 \in Seq(chan1!Value) /\ entered1 \in Seq(chan1!Value)
      /\ senders1 \in Seq({B}) /\ receivers1 \in Seq({A})
      /\ wake1 \in [Goroutine -> Goroutine \cup {NoGoroutine}]
      /\ left1 \in [Goroutine -> 0..Last]
      /\ pc1 \in [Goroutine -> {"call", "waiting", "again", "wake"}]
      /\ fiber \in [Goroutine -> FiberState]
      /\ handle \in [Goroutine -> HandleState]
      /\ at \in [Goroutine -> {"add", "go", "wait", "waited", "loop", "pop",
                                "print", "push", "done", "end"}]
      /\ i \in [{A, B} -> Nat]
  BY DEF PInv, TypesOK, IInv, TypeOK, RuntimeTypeOK, chan1!TypeOK, chan1!ChannelPC
<1>3. /\ senders1 = <<>> \/ senders1 = <<B>>
      /\ pc1[B] # "waiting" => senders1 = <<>>
      /\ pc1[A] = "wake" => pc1[B] = "waiting"
      /\ receivers1 = <<>> \/ receivers1 = <<A>>
      /\ receivers1 # <<>> => pc1[B] # "wake"
      /\ receivers1 # <<>> \/ pc1[B] = "wake" =>
           pc1[A] = "waiting" /\ handle[A] = "registered"
  BY Single DEF PInv, ParkedOK, Waits
<1>4. ASSUME chan1!Store(B), left1[B] > 0
      PROVE  /\ buffer1' \in Seq(chan1!Value) /\ entered1' \in Seq(chan1!Value)
             /\ Len(entered1') = Len(entered1) + 1
             /\ Len(buffer1') = Len(buffer1) + 1
  <2>1. <<B, left1[B]>> \in chan1!Value
    BY <1>2, <1>4
  <2>2. QED
    BY <1>2, <1>4, <2>1 DEF chan1!Store
<1> DEFINE T == /\ senders1' \in Seq({B}) /\ receivers1' \in Seq({A})
                /\ wake1' \in [Goroutine -> Goroutine \cup {NoGoroutine}]
                /\ left1' \in [Goroutine -> 0..Last]
                /\ pc1' \in [Goroutine -> {"call", "waiting", "again", "wake"}]
                /\ fiber' \in [Goroutine -> FiberState]
                /\ handle' \in [Goroutine -> HandleState]
           W == Waits(senders1, pc1, B, A)' /\ Waits(receivers1, pc1, A, B)'
           R == RuntimeNext \/ UNCHANGED gvars
<1>5. ASSUME buffer1' \in Seq(chan1!Value), T PROVE chan1!TypeOK'
  BY <1>5 DEF PInv, TypesOK, chan1!TypeOK, chan1!RuntimeTypeOK, chan1!ChannelPC,
              chan1!FiberState, chan1!HandleState, FiberState, HandleState
<1>T. /\ pc1 \in [Goroutine -> {"call", "waiting", "again", "wake"}]
      /\ handle \in [Goroutine -> HandleState]
  BY <1>2
<1> HIDE DEF W, R
<1>6. CASE chan1!PushToReceiver(B)
  <2>1. T
    BY <1>6, <1>2, <1>1 DEF chan1!PushToReceiver
  <2>2. Head(receivers1) = A /\ receivers1' = <<>>
    BY <1>6, <1>3, Single DEF chan1!PushToReceiver
  <2>3. W
    BY <1>6, <2>2, <1>T, <1>3, Single DEF chan1!PushToReceiver, W, Waits
  <2>4. R
    BY <1>6, <1>1 DEF chan1!PushToReceiver, R, gvars
  <2>5. /\ chan1!Store(B) /\ fiber[B] = "running" /\ left1[B] > 0 /\ UNCHANGED left1
        /\ UNCHANGED <<gvars, taken1>> /\ pc1[B] # "wake"
        /\ pc1' = [pc1 EXCEPT ![B] = "wake"]
        /\ wake1' = [wake1 EXCEPT ![B] = A]
    BY <2>2, <1>6 DEF chan1!PushToReceiver, gvars
  <2>6. /\ chan1!TypeOK' /\ entered1' \in Seq(chan1!Value)
        /\ Len(entered1') = Len(entered1) + 1
        /\ Len(buffer1') = Len(buffer1) + 1
    BY <2>1, <2>5, <1>4, <1>5
  <2>7. at' = at /\ i' = i /\ pc1'[B] = "wake" /\ wake1'[B] = A
    BY <2>5, <1>1, <1>2
  <2>8. QED
    BY <2>1, <2>3, <2>4, <2>5, <2>6, <2>7, <1>1, <1>2 DEF W, R, gvars
<1>7. CASE chan1!PushToBuffer(B)
  <2>1. T
    BY <1>7, <1>2, SMTT(30) DEF chan1!PushToBuffer
  <2>2. left1'[B] < left1[B] /\ at' = [at EXCEPT ![B] = "loop"]
    <3>1. left1[B] \in Int /\ left1'[B] = left1[B] - 1
      BY <1>7, <1>2 DEF chan1!PushToBuffer
    <3>2. left1'[B] < left1[B]
      BY ONLY <3>1
    <3>3. at' = [at EXCEPT ![B] = IF left1'[B] < left1[B] THEN "loop" ELSE @]
      BY ONLY <1>1
    <3>4. QED
      BY ONLY <3>2, <3>3
  <2>3. W
    BY <1>7, <2>2, <1>T, <1>3, Single DEF chan1!PushToBuffer, W, Waits
  <2>4. R
    BY <1>7, <1>1 DEF chan1!PushToBuffer, R, gvars
  <2>5. QED
    BY <2>1, <2>2, <2>3, <2>4, <1>1, <1>2, <1>4, <1>5, <1>7 DEF chan1!PushToBuffer, W, R
<1>8. CASE chan1!PushParks(B)
  <2>1. T
    BY <1>8, <1>2, <1>1 DEF chan1!PushParks, FiberState, HandleState
  <2>2. senders1' = <<B>>
    BY <1>8, <1>3, Single DEF chan1!PushParks
  <2>3. W
    BY <1>8, <2>2, <1>T, <1>3, Single DEF chan1!PushParks, W, Waits
  <2>4. R
    BY <1>8, <1>1 DEF chan1!PushParks, R, gvars, RuntimeNext, RuntimeStep, Park, Register
  <2>5. QED
    BY <2>1, <2>2, <2>3, <2>4, <1>1, <1>2, <1>5, <1>8 DEF chan1!PushParks, W, R
<1>9. CASE chan1!WakeNext(B)
  <2>1. pc1[B] = "wake" /\ left1[B] > 0 /\ wake1[B] = A
    BY <1>9 DEF chan1!WakeNext, PInv, WakesOK
  <2>2. T
    BY <2>1, <1>9, <1>1, <1>2 DEF chan1!WakeNext, HandleState
  <2>3. left1'[B] < left1[B] /\ at' = [at EXCEPT ![B] = "loop"]
    <3>1. left1[B] \in Int /\ left1'[B] = left1[B] - 1
      BY <2>1, <1>9, <1>2 DEF chan1!WakeNext
    <3>2. left1'[B] < left1[B]
      BY ONLY <3>1
    <3>3. at' = [at EXCEPT ![B] = IF left1'[B] < left1[B] THEN "loop" ELSE @]
      BY ONLY <1>1
    <3>4. QED
      BY ONLY <3>2, <3>3
  <2>4. W
    BY <2>1, <1>9, <1>T, <1>3, Single DEF chan1!WakeNext, W, Waits
  <2>5. R
    BY <2>1, <1>9, <1>3 DEF chan1!WakeNext, R, RuntimeNext, RuntimeStep, Wake, PushReady
  <2>6. QED
    BY <2>1, <2>2, <2>3, <2>4, <2>5, <1>1, <1>2, <1>3, <1>5, <1>9 DEF chan1!WakeNext, W, R
<1>10. QED
  BY <1>1, <1>6, <1>7, <1>8, <1>9 DEF chan1!push

-----------------------------------------------------------------------------
(***************************************************************************)
(* The steps of the three goroutines.                                      *)
(***************************************************************************)

\* The types the steps below rely on.
LEMMA Types ==
  ASSUME PInv
  PROVE  /\ at \in [Goroutine -> {"add", "go", "wait", "waited", "loop", "pop",
                                  "print", "push", "done", "end"}]
         /\ i \in [{A, B} -> Nat] /\ printed \in Seq(Nat)
         /\ pc \in [Goroutine -> WaitGroupPC] /\ counter \in Int
         /\ pc1 \in [Goroutine -> {"call", "waiting", "again", "wake"}]
         /\ pc2 \in [Goroutine -> {"call", "waiting", "again", "wake"}]
         /\ fiber \in [Goroutine -> FiberState]
         /\ handle \in [Goroutine -> HandleState]
         /\ to_wake \in [Goroutine -> SUBSET Goroutine]
  BY DeltaAssumption
  DEF PInv, IInv, TypeOK, RuntimeTypeOK, TypesOK, chan1!TypeOK, chan2!TypeOK,
      chan1!ChannelPC, chan2!ChannelPC

\* The lengths are numbers.
LEMMA Lengths ==
  ASSUME PInv
  PROVE  /\ Len(entered1) \in Nat /\ Len(taken1) \in Nat /\ Len(buffer1) \in Nat
         /\ Len(entered2) \in Nat /\ Len(taken2) \in Nat /\ Len(buffer2) \in Nat
         /\ Len(printed) \in Nat /\ i[A] \in Nat /\ i[B] \in Nat
<1>1. /\ entered1 \in Seq(chan1!Value) /\ taken1 \in Seq(chan1!Value)
      /\ buffer1 \in Seq(chan1!Value)
      /\ entered2 \in Seq(chan2!Value) /\ taken2 \in Seq(chan2!Value)
      /\ buffer2 \in Seq(chan2!Value)
      /\ printed \in Seq(Nat) /\ i \in [{A, B} -> Nat]
  BY DEF PInv, TypesOK, chan1!TypeOK, chan2!TypeOK
<1>2. QED
  BY <1>1

\* A step that leaves the channels alone, and the pointers of those that are
\* blocked on them.
LEMMA KeepsChannels ==
  ASSUME PInv, UNCHANGED <<vars1, vars2>>, RuntimeTypeOK',
         \A g \in {A, B} :
            handle'[g] = handle[g] \/ (pc1[g] # "waiting" /\ pc2[g] # "waiting")
  PROVE  /\ chan1!TypeOK' /\ entered1' \in Seq(chan1!Value)
         /\ taken1' \in Seq(chan1!Value)
         /\ chan2!TypeOK' /\ entered2' \in Seq(chan2!Value)
         /\ taken2' \in Seq(chan2!Value)
         /\ WakesOK' /\ ParkedOK'
<1> USE DEF PInv, vars1, vars2
<1>1. chan1!TypeOK' /\ chan2!TypeOK'
  BY DEF TypesOK, chan1!TypeOK, chan2!TypeOK, chan1!RuntimeTypeOK,
         chan2!RuntimeTypeOK, RuntimeTypeOK, FiberState, HandleState,
         chan1!FiberState, chan1!HandleState, chan2!FiberState,
         chan2!HandleState
<1>2. /\ entered1' \in Seq(chan1!Value) /\ taken1' \in Seq(chan1!Value)
      /\ entered2' \in Seq(chan2!Value) /\ taken2' \in Seq(chan2!Value)
  BY DEF TypesOK
<1>3. WakesOK'
  BY DEF WakesOK
<1>4. ParkedOK'
  BY DEF ParkedOK, Waits
<1>5. QED
  BY <1>1, <1>2, <1>3, <1>4

\* A step in which no number is printed and no signal goes through a channel.
LEMMA KeepsNumbers ==
  ASSUME PInv,
         UNCHANGED <<entered1, taken1, buffer1, entered2, taken2, buffer2,
                     i, printed>>,
         at'[A] = at[A], at'[B] = at[B],
         \A g \in {A, B} : /\ pc1'[g] = "wake" <=> pc1[g] = "wake"
                           /\ pc2'[g] = "wake" <=> pc2[g] = "wake"
  PROVE  LoopOK' /\ SignalsOK' /\ NumbersInOrder'
<1>1. LoopOK'
  BY DEF PInv, LoopOK
<1>2. NumbersInOrder'
  BY DEF PInv, NumbersInOrder
<1>3. SignalsOK'
  BY DEF PInv, SignalsOK, One, Sent, Received
<1>4. QED
  BY <1>1, <1>2, <1>3

\* Every step of the wait group keeps its invariant and obeys the contract.
LEMMA GroupStep ==
  ASSUME PInv, [Next]_vars
  PROVE  IInv' /\ (RuntimeNext \/ UNCHANGED gvars)
  BY TypeStep, ListStep, ContractStep DEF PInv, IInv

\* The printers are not in wait(), so nobody wakes them from there.
LEMMA OnlyMainWaits ==
  ASSUME PInv, NEW g \in Goroutine, NEW h \in to_wake[g]
  PROVE  h = Main /\ pc[Main] = "waiting" /\ handle[Main] = "registered"
<1>1. h \in Goroutine /\ pc[h] = "waiting" /\ handle[h] = "registered"
  BY Types DEF PInv, IInv, ListOK
<1>2. QED
  BY <1>1, Three DEF PInv, CodeOK, InWait

\* What a step keeps, and that it is one of the contract.
PStep == PInv' /\ (RuntimeNext \/ UNCHANGED gvars)

\* A step in which the channels, and the places of the printers, stay as they
\* are.
LEMMA HandlerStep ==
  ASSUME PInv, [Next]_vars, UNCHANGED <<vars1, vars2, i, printed>>,
         at' \in [Goroutine -> {"add", "go", "wait", "waited", "loop", "pop",
                                "print", "push", "done", "end"}],
         at'[Main] \in {"add", "go", "wait", "waited", "end"},
         at'[A] = at[A], at'[B] = at[B],
         \A g \in {A, B} :
            /\ handle'[g] = handle[g] \/ (pc1[g] # "waiting" /\ pc2[g] # "waiting")
            /\ ~InWait(g)',
         answered' \in BOOLEAN,
         GroupOK'
  PROVE  PStep
<1>1. IInv' /\ (RuntimeNext \/ UNCHANGED gvars)
  BY GroupStep
<1>2. RuntimeTypeOK'
  BY <1>1 DEF IInv, TypeOK
<1>3. /\ chan1!TypeOK' /\ entered1' \in Seq(chan1!Value)
      /\ taken1' \in Seq(chan1!Value)
      /\ chan2!TypeOK' /\ entered2' \in Seq(chan2!Value)
      /\ taken2' \in Seq(chan2!Value)
      /\ WakesOK' /\ ParkedOK'
  BY <1>2, KeepsChannels
<1>4. UNCHANGED <<pc1, pc2, entered1, taken1, buffer1, entered2, taken2, buffer2,
                  i, printed>>
  BY DEF vars1, vars2
<1>5. LoopOK' /\ SignalsOK' /\ NumbersInOrder'
  BY <1>4, KeepsNumbers
<1>6. TypesOK'
  BY <1>3, <1>4, Types DEF TypesOK
<1>7. CodeOK'
  BY <1>4 DEF PInv, CodeOK
<1>8. QED
  BY <1>1, <1>3, <1>5, <1>6, <1>7 DEF PStep, PInv

LEMMA ArrivesStep == PInv /\ Arrives => PStep
<1> SUFFICES ASSUME PInv, Arrives PROVE PStep
  OBVIOUS
<1> USE Three, Types DEF Arrives
<1>1. [Next]_vars
  BY DEF Next
<1>2. /\ UNCHANGED <<vars1, vars2, wvars, i, at, printed, answered>>
      /\ fiber[Main] = "new"
      /\ fiber' = [fiber EXCEPT ![Main] = "suspended"]
      /\ handle' = [handle EXCEPT ![Main] = "ready"]
  BY DEF Start, Go, PushReady, locals
<1>3. GroupOK'
  BY <1>2 DEF PInv, GroupOK, One, wvars
<1>4. \A g \in {A, B} : ~InWait(g)' /\ handle'[g] = handle[g]
  BY <1>2 DEF PInv, CodeOK, InWait, wvars
<1>5. at'[Main] \in {"add", "go", "wait", "waited", "end"} /\ answered' \in BOOLEAN
  BY <1>2 DEF PInv, CodeOK, TypesOK
<1>6. QED
  BY <1>1, <1>2, <1>3, <1>4, <1>5, HandlerStep

LEMMA MainAddsStep == PInv /\ MainAdds => PStep
<1> SUFFICES ASSUME PInv, MainAdds PROVE PStep
  OBVIOUS
<1> USE Three, Types DEF MainAdds, Add, gvars, history
<1>1. [Next]_vars
  BY DEF Next
<1>2. /\ UNCHANGED <<vars1, vars2, fiber, handle, pc, i, printed, answered>>
      /\ at[Main] = "add" /\ at' = [at EXCEPT ![Main] = "go"]
      /\ fiber[Main] = "running"
      /\ counter' = counter + 2
  BY DEF Goes, Running
<1>3. GroupOK'
  BY <1>2 DEF PInv, GroupOK, One
<1>4. \A g \in {A, B} : ~InWait(g)' /\ handle'[g] = handle[g]
  BY <1>2 DEF PInv, CodeOK, InWait
<1>5. answered' \in BOOLEAN
  BY <1>2 DEF PInv, TypesOK
<1>6. QED
  BY <1>1, <1>2, <1>3, <1>4, <1>5, HandlerStep

LEMMA MainStartsStep ==
  ASSUME PInv, NEW g \in {A, B}, MainStarts(g)
  PROVE  PStep
<1> USE Three, Types DEF MainStarts
<1>1. [Next]_vars
  BY DEF Next
<1>2. /\ UNCHANGED <<vars1, vars2, wvars, i, printed, answered>>
      /\ at[Main] = "go"
      /\ at' = [at EXCEPT ![Main] = IF g = A THEN "go" ELSE "wait"]
      /\ fiber[Main] = "running" /\ fiber[g] = "new"
      /\ fiber' = [fiber EXCEPT ![g] = "suspended"]
      /\ handle' = [handle EXCEPT ![g] = "ready"]
  BY DEF Start, Go, PushReady, Goes, Running
<1>3. at[g] = "loop"
  BY <1>2 DEF PInv, GroupOK
<1>4. GroupOK'
  BY <1>2 DEF PInv, GroupOK, One, wvars
<1>5. \A h \in {A, B} :
        /\ ~InWait(h)'
        /\ handle'[h] = handle[h] \/ (pc1[h] # "waiting" /\ pc2[h] # "waiting")
  BY <1>2, <1>3 DEF PInv, CodeOK, InWait, wvars
<1>6. answered' \in BOOLEAN
  BY <1>2 DEF PInv, TypesOK
<1>7. QED
  BY <1>1, <1>2, <1>4, <1>5, <1>6, HandlerStep

LEMMA MainWaitsStep == PInv /\ MainWaits => PStep
<1> SUFFICES ASSUME PInv, MainWaits PROVE PStep
  OBVIOUS
<1> USE Three, Types DEF MainWaits, vars, wvars, gvars, history
<1>1. [Next]_vars
  BY DEF Next
<1>2. /\ UNCHANGED <<vars1, vars2, fiber, handle, counter, i, printed, answered>>
      /\ at[Main] = "wait" /\ at' = [at EXCEPT ![Main] = "waited"]
      /\ fiber[Main] = "running"
      /\ \/ pc' = [pc EXCEPT ![Main] = "enlist"]
         \/ counter = 0 /\ pc' = pc
  BY DEF Wait, Moves, Goes, Running
<1>3. GroupOK'
  BY <1>2 DEF PInv, GroupOK, One, WaitGroupPC
<1>4. \A g \in {A, B} : ~InWait(g)' /\ handle'[g] = handle[g]
  BY <1>2 DEF PInv, CodeOK, InWait
<1>5. answered' \in BOOLEAN
  BY <1>2 DEF PInv, TypesOK
<1>6. QED
  BY <1>1, <1>2, <1>3, <1>4, <1>5, HandlerStep

LEMMA MainAnswersStep == PInv /\ MainAnswers => PStep
<1> SUFFICES ASSUME PInv, MainAnswers PROVE PStep
  OBVIOUS
<1> USE Three, Types DEF MainAnswers, vars, wvars, gvars, history
<1>1. [Next]_vars
  OBVIOUS
<1>2. /\ UNCHANGED <<vars1, vars2, fiber, handle, counter, pc, i, printed>>
      /\ at[Main] = "waited" /\ at' = [at EXCEPT ![Main] = "end"]
      /\ fiber[Main] = "running" /\ pc[Main] = "idle"
      /\ answered' = TRUE
  BY DEF Goes, Running
<1>3. GroupOK'
  BY <1>2 DEF PInv, GroupOK, One
<1>4. \A g \in {A, B} : ~InWait(g)' /\ handle'[g] = handle[g]
  BY <1>2 DEF PInv, CodeOK, InWait
<1>5. QED
  BY <1>1, <1>2, <1>3, <1>4, HandlerStep

\* The rest of wait() and done(): the one goroutine it may wake is the handler.
LEMMA InWaitGroupStep ==
  ASSUME PInv, NEW g \in Goroutine, InWaitGroup(g)
  PROVE  PStep
<1> USE Three, Types DEF InWaitGroup, locals
<1>1. [Next]_vars
  BY DEF Next
<1>2. /\ UNCHANGED <<vars1, vars2, i, at, printed, answered>>
      /\ counter' = counter /\ pc' \in [Goroutine -> WaitGroupPC]
  <2>1. pc' \in [Goroutine -> WaitGroupPC]
    BY <1>1, GroupStep DEF IInv, TypeOK
  <2>2. QED
    BY <2>1 DEF Proceed, Swap, WakeOne, AddReturns, Enlist, EnlistZero
<1>3. answered' \in BOOLEAN /\ at'[Main] \in {"add", "go", "wait", "waited", "end"}
  BY <1>2 DEF PInv, TypesOK, CodeOK
<1> DEFINE G == /\ GroupOK'
                /\ \A h \in {A, B} : ~InWait(h)' /\ handle'[h] = handle[h]
<1>4. ASSUME Swap(g) PROVE G
  BY <1>2, <1>4 DEF Swap, Moves, PInv, CodeOK, GroupOK, One, InWait, gvars
<1>5. ASSUME WakeOne(g) PROVE G
  <2>1. /\ handle' = [handle EXCEPT ![Main] = "ready"]
        /\ pc[g] = "wake" /\ UNCHANGED <<pc, fiber>>
    BY <1>5, OnlyMainWaits DEF WakeOne, PushReady
  <2>2. QED
    BY <1>2, <2>1 DEF PInv, CodeOK, GroupOK, One, InWait
<1>6. ASSUME AddReturns(g) PROVE G
  BY <1>2, <1>6 DEF AddReturns, Moves, PInv, CodeOK, GroupOK, One, InWait, gvars
<1>7. ASSUME Enlist(g) \/ EnlistZero(g) PROVE g = Main
  BY <1>7 DEF Enlist, EnlistZero, Moves, PInv, CodeOK, InWait
<1>8. ASSUME Enlist(g) PROVE G
  BY <1>2, <1>7, <1>8
  DEF Enlist, Moves, Register, Running, PInv, CodeOK, GroupOK, One, InWait, gvars
<1>9. ASSUME EnlistZero(g) PROVE G
  BY <1>2, <1>7, <1>9
  DEF EnlistZero, Moves, PInv, CodeOK, GroupOK, One, InWait, gvars
<1>10. G
  BY <1>4, <1>5, <1>6, <1>8, <1>9 DEF Proceed
<1>11. QED
  BY <1>1, <1>2, <1>3, <1>10, HandlerStep

\* A goroutine leaves its worker, or is done.
LEMMA LeavesStep ==
  ASSUME PInv, NEW g \in Goroutine, Leaves(g) \/ Ends(g)
  PROVE  PStep
<1> USE Three, Types DEF Leaves, Ends, locals
<1>1. [Next]_vars
  BY DEF Next
<1>2. /\ UNCHANGED <<vars1, vars2, wvars, handle, i, at, printed, answered>>
      /\ fiber[g] # "new"
      /\ \/ fiber' = [fiber EXCEPT ![g] = "suspended"]
         \/ fiber' = [fiber EXCEPT ![g] = "finished"]
  BY DEF Suspend, Yield, Return, Finish, Running
<1>3. GroupOK'
  BY <1>2 DEF PInv, GroupOK, One, wvars
<1>4. \A h \in {A, B} : ~InWait(h)' /\ handle'[h] = handle[h]
  BY <1>2 DEF PInv, CodeOK, InWait, wvars
<1>5. answered' \in BOOLEAN /\ at'[Main] \in {"add", "go", "wait", "waited", "end"}
  BY <1>2 DEF PInv, TypesOK, CodeOK
<1>6. QED
  BY <1>1, <1>2, <1>3, <1>4, <1>5, HandlerStep

\* A goroutine is resumed, and goes on in the call it is blocked in.
LEMMA ResumesStep ==
  ASSUME PInv, NEW g \in Goroutine, Resumes(g)
  PROVE  PStep
<1> USE Three, Types DEF Resumes, locals
<1>1. [Next]_vars
  BY DEF Next
<1>2. IInv' /\ (RuntimeNext \/ UNCHANGED gvars) /\ RuntimeTypeOK'
  BY <1>1, GroupStep DEF IInv, TypeOK
<1>3. /\ UNCHANGED <<i, at, printed, answered, counter>>
      /\ handle[g] = "ready" /\ handle' = [handle EXCEPT ![g] = "none"]
      /\ fiber' = [fiber EXCEPT ![g] = IF fiber[g] = "suspended"
                                       THEN "running" ELSE @]
      /\ pc' = [pc EXCEPT ![g] = IF fiber[g] = "suspended" /\ @ = "waiting"
                                 THEN "idle" ELSE @]
  BY DEF Schedule, Resume, Resumable
<1>4. /\ UNCHANGED <<buffer1, senders1, receivers1, wake1, left1, entered1, taken1>>
      /\ pc1' = [pc1 EXCEPT ![g] = IF fiber[g] = "suspended" /\ @ = "waiting"
                                   THEN "again" ELSE @]
  BY DEF chan1!Schedule, chan1!Resumable, chan1!queues, chan1!hist
<1>5. /\ UNCHANGED <<buffer2, senders2, receivers2, wake2, left2, entered2, taken2>>
      /\ pc2' = [pc2 EXCEPT ![g] = IF fiber[g] = "suspended" /\ @ = "waiting"
                                   THEN "again" ELSE @]
  BY DEF chan2!Schedule, chan2!Resumable, chan2!queues, chan2!hist
<1>6. \A h \in Goroutine : /\ pc1'[h] = "wake" <=> pc1[h] = "wake"
                           /\ pc1'[h] = "call" <=> pc1[h] = "call"
                           /\ pc2'[h] = "wake" <=> pc2[h] = "wake"
                           /\ pc2'[h] = "call" <=> pc2[h] = "call"
  BY <1>4, <1>5
<1>7. LoopOK' /\ SignalsOK' /\ NumbersInOrder'
  BY <1>3, <1>4, <1>5, <1>6, KeepsNumbers
<1>8. TypesOK'
  <2>1. chan1!TypeOK'
    BY <1>2, <1>4
    DEF PInv, TypesOK, chan1!TypeOK, chan1!RuntimeTypeOK, RuntimeTypeOK,
        FiberState, HandleState, chan1!FiberState, chan1!HandleState,
        chan1!ChannelPC
  <2>2. chan2!TypeOK'
    BY <1>2, <1>5
    DEF PInv, TypesOK, chan2!TypeOK, chan2!RuntimeTypeOK, RuntimeTypeOK,
        FiberState, HandleState, chan2!FiberState, chan2!HandleState,
        chan2!ChannelPC
  <2>3. /\ entered1' \in Seq(chan1!Value) /\ taken1' \in Seq(chan1!Value)
        /\ entered2' \in Seq(chan2!Value) /\ taken2' \in Seq(chan2!Value)
        /\ answered' \in BOOLEAN
    BY <1>3, <1>4, <1>5 DEF PInv, TypesOK
  <2>4. QED
    BY <1>3, <2>1, <2>2, <2>3 DEF TypesOK
<1>9. CodeOK'
  BY <1>3, <1>6 DEF PInv, CodeOK, InWait
<1>10. WakesOK'
  BY <1>4, <1>5, <1>6 DEF PInv, WakesOK
<1>11. ParkedOK'
  <2>1. /\ Waits(receivers1, pc1, A, B) /\ Waits(senders1, pc1, B, A)
        /\ Waits(receivers2, pc2, B, A) /\ Waits(senders2, pc2, A, B)
    BY DEF PInv, ParkedOK
  <2>2. Waits(receivers1, pc1, A, B)' /\ Waits(senders1, pc1, B, A)'
    BY <1>3, <1>4, <2>1 DEF Waits
  <2>3. Waits(receivers2, pc2, B, A)' /\ Waits(senders2, pc2, A, B)'
    BY <1>3, <1>5, <2>1 DEF Waits
  <2>4. QED
    BY <2>2, <2>3 DEF ParkedOK
<1>12. GroupOK'
  BY <1>3 DEF PInv, GroupOK, One
<1>13. QED
  BY <1>2, <1>7, <1>8, <1>9, <1>10, <1>11, <1>12 DEF PStep, PInv

-----------------------------------------------------------------------------
\* The types, where a printer moves and the channels do not.
LEMMA PrinterTypes ==
  ASSUME PInv, UNCHANGED <<vars1, vars2, i, answered>>, RuntimeTypeOK',
         handle'[A] = handle[A], handle'[B] = handle[B],
         printed' \in Seq(Nat),
         at' \in [Goroutine -> {"add", "go", "wait", "waited", "loop", "pop",
                                "print", "push", "done", "end"}]
  PROVE  TypesOK' /\ WakesOK' /\ ParkedOK'
<1>1. /\ chan1!TypeOK' /\ entered1' \in Seq(chan1!Value)
      /\ taken1' \in Seq(chan1!Value)
      /\ chan2!TypeOK' /\ entered2' \in Seq(chan2!Value)
      /\ taken2' \in Seq(chan2!Value)
      /\ WakesOK' /\ ParkedOK'
  BY KeepsChannels
<1>2. answered' \in BOOLEAN /\ i' \in [{A, B} -> Nat]
  BY Types DEF PInv, TypesOK
<1>3. QED
  BY <1>1, <1>2 DEF TypesOK

LEMMA LoopTestsStep ==
  ASSUME PInv, NEW g \in {A, B}, LoopTests(g)
  PROVE  PStep
<1> USE Three, Types
<1>1. /\ UNCHANGED <<vars, vars1, vars2, i, printed, answered>>
      /\ fiber[g] = "running" /\ at[g] = "loop"
      /\ at' \in [Goroutine -> {"add", "go", "wait", "waited", "loop", "pop",
                                "print", "push", "done", "end"}]
      /\ \A h \in Goroutine : h # g => at'[h] = at[h]
      /\ \/ i[g] > Last /\ at'[g] = "done"
         \/ i[g] <= Last /\ g = A /\ i[A] = 1 /\ at'[g] = "print"
         \/ i[g] <= Last /\ ~(g = A /\ i[A] = 1) /\ at'[g] = "pop"
  BY Lengths DEF LoopTests, Goes, Running, Begins
<1>2. /\ UNCHANGED <<gvars, fiber, handle, counter, waiting_gs, to_wake, pc>>
      /\ UNCHANGED <<pc1, pc2, entered1, taken1, buffer1, entered2, taken2,
                     buffer2>>
  BY <1>1 DEF vars, wvars, gvars, vars1, vars2
<1>3. IInv' /\ RuntimeTypeOK'
  BY <1>1, GroupStep DEF IInv, TypeOK
<1>4. TypesOK' /\ WakesOK' /\ ParkedOK'
  <2>1. printed' \in Seq(Nat)
    BY <1>1
  <2>2. QED
    BY <1>1, <1>2, <1>3, <2>1, PrinterTypes
<1>5. pc1[g] = "call" /\ pc2[g] = "call"
  BY <1>1 DEF PInv, CodeOK
<1>6. CodeOK'
  BY <1>1, <1>2, <1>5 DEF PInv, CodeOK, InWait
<1>7. LoopOK'
  <2>1. i[A] # 0 \/ g # A
    <3>1. SignalsOK /\ Len(entered2) \in Nat /\ i[A] \in Nat
      BY Lengths DEF PInv
    <3>2. g = A => One(Sent(pc2, A)) = 0
      BY <1>1 DEF One, Sent
    <3>3. QED
      BY ONLY <3>1, <3>2 DEF SignalsOK
  <2>2. QED
    BY <1>1, <2>1, Lengths DEF PInv, LoopOK
<1>8. SignalsOK'
  BY <1>1, <1>2, <1>5, Lengths DEF PInv, SignalsOK, One, Sent, Received
<1>9. GroupOK'
  BY <1>1, <1>2 DEF PInv, GroupOK, One
<1>10. NumbersInOrder'
  BY <1>1 DEF PInv, NumbersInOrder
<1>11. QED
  BY <1>2, <1>3, <1>4, <1>6, <1>7, <1>8, <1>9, <1>10 DEF PStep, PInv

\* The number that is printed next is the next number: the signals of the other
\* printer, which it has received, are one for each number before.
LEMMA NextNumber ==
  ASSUME PInv, NEW g \in {A, B}, at[g] = "print"
  PROVE  i[g] = Len(printed) + 1
<1> DEFINE a == i[A]
           b == i[B]
           p == Len(printed)
           e1 == Len(entered1)
           t1 == Len(taken1)
           e2 == Len(entered2)
           t2 == Len(taken2)
           sA == One(Sent(pc2, A))
           rA == One(Received(pc1, A))
           pA == One(at[A] = "push")
           sB == One(Sent(pc1, B))
           rB == One(Received(pc2, B))
           pB == One(at[B] = "push")
<1>1. /\ a \in Nat /\ b \in Nat /\ p \in Nat
      /\ e1 \in Nat /\ t1 \in Nat /\ e2 \in Nat /\ t2 \in Nat
  BY Lengths
<1>2. /\ e1 >= t1 /\ e2 >= t2
      /\ 2 * e2 = a - 1 + 2 * sA
      /\ 2 * e1 = b - 2 + 2 * sB
      /\ a = 1 \/ 2 * t1 = a - 3 + 2 * rA
      /\ 2 * t2 = b - 2 + 2 * rB
      /\ 2 * p = a + b - 3 + 2 * pA + 2 * pB
  <2>1. SignalsOK
    BY DEF PInv
  <2>2. QED
    BY ONLY <1>1, <2>1 DEF SignalsOK
<1>3. /\ sA \in {0, 1} /\ rA \in {0, 1} /\ pA \in {0, 1}
      /\ sB \in {0, 1} /\ rB \in {0, 1} /\ pB \in {0, 1}
      /\ sA <= pA /\ pA <= rA /\ sB <= pB /\ pB <= rB
  BY DEF One, Sent, Received
<1>4. /\ g = A => pA = 0 /\ rA = 1
      /\ g = B => pB = 0 /\ rB = 1
  BY DEF One, Received
<1> HIDE DEF a, b, p, e1, t1, e2, t2, sA, rA, pA, sB, rB, pB
<1>5. ASSUME rA = 1, pA = 0 PROVE a = p + 1
  <2>1. sA = 0
    BY ONLY <1>3, <1>5
  <2>2. CASE pB = 0
    BY ONLY <1>1, <1>2, <1>3, <1>5, <2>1, <2>2
  <2>3. CASE pB = 1 /\ sB = 0
    BY ONLY <1>1, <1>2, <1>3, <1>5, <2>1, <2>3
  <2>4. CASE pB = 1 /\ sB = 1
    BY ONLY <1>1, <1>2, <1>3, <1>5, <2>1, <2>4
  <2>5. QED
    BY ONLY <1>3, <2>2, <2>3, <2>4
<1>6. ASSUME rB = 1, pB = 0 PROVE b = p + 1
  <2>1. sB = 0
    BY ONLY <1>3, <1>6
  <2>2. CASE pA = 0
    BY ONLY <1>1, <1>2, <1>3, <1>6, <2>1, <2>2
  <2>3. CASE pA = 1 /\ sA = 0
    BY ONLY <1>1, <1>2, <1>3, <1>6, <2>1, <2>3
  <2>4. CASE pA = 1 /\ sA = 1
    BY ONLY <1>1, <1>2, <1>3, <1>6, <2>1, <2>4
  <2>5. QED
    BY ONLY <1>3, <2>2, <2>3, <2>4
<1>7. QED
  BY <1>4, <1>5, <1>6 DEF a, b, p

LEMMA Extends ==
  ASSUME NEW s \in Seq(Nat), s = [n \in 1..Len(s) |-> n]
  PROVE  LET t == Append(s, Len(s) + 1)
         IN  t \in Seq(Nat) /\ Len(t) = Len(s) + 1 /\ t = [n \in 1..Len(t) |-> n]
<1> DEFINE t == Append(s, Len(s) + 1)
<1>1. /\ Len(s) \in Nat /\ t \in Seq(Nat) /\ Len(t) = Len(s) + 1
      /\ \A n \in 1..Len(t) : t[n] = IF n <= Len(s) THEN s[n] ELSE Len(s) + 1
  OBVIOUS
<1>2. \A n \in 1..Len(t) : t[n] = n
  BY <1>1
<1>3. t = [n \in 1..Len(t) |-> t[n]]
  BY <1>1
<1>4. QED
  BY <1>1, <1>2, <1>3

LEMMA PrintsStep ==
  ASSUME PInv, NEW g \in {A, B}, Prints(g)
  PROVE  PStep
<1> USE Three, Types
<1>1. /\ UNCHANGED <<vars, vars1, vars2, i, answered>>
      /\ fiber[g] = "running" /\ at[g] = "print"
      /\ at' = [at EXCEPT ![g] = "push"]
      /\ printed' = Append(printed, i[g])
  BY DEF Prints, Goes, Running
<1>2. /\ UNCHANGED <<gvars, fiber, handle, counter, waiting_gs, to_wake, pc>>
      /\ UNCHANGED <<pc1, pc2, entered1, taken1, buffer1, entered2, taken2,
                     buffer2>>
  BY <1>1 DEF vars, wvars, gvars, vars1, vars2
<1>3. IInv' /\ RuntimeTypeOK'
  BY <1>1, GroupStep DEF IInv, TypeOK
<1>4. printed' \in Seq(Nat) /\ Len(printed') = Len(printed) + 1 /\ NumbersInOrder'
  <2>1. printed = [n \in 1..Len(printed) |-> n]
    BY DEF PInv, NumbersInOrder
  <2>2. printed' = Append(printed, Len(printed) + 1)
    BY <1>1, NextNumber
  <2>3. QED
    BY <2>1, <2>2, Extends DEF NumbersInOrder
<1>5. TypesOK' /\ WakesOK' /\ ParkedOK'
  BY <1>1, <1>2, <1>3, <1>4, PrinterTypes
<1>6. pc1[g] = "call" /\ pc2[g] = "call"
  BY <1>1 DEF PInv, CodeOK
<1>7. CodeOK'
  BY <1>1, <1>2, <1>6 DEF PInv, CodeOK, InWait
<1>8. LoopOK'
  BY <1>1, Lengths DEF PInv, LoopOK
<1>9. SignalsOK'
  <2>1. /\ One(Sent(pc2, A))' = One(Sent(pc2, A))
        /\ One(Sent(pc1, B))' = One(Sent(pc1, B))
        /\ One(Received(pc1, A))' = One(Received(pc1, A))
        /\ One(Received(pc2, B))' = One(Received(pc2, B))
    BY <1>1, <1>2, <1>6 DEF One, Sent, Received
  <2> DEFINE n == i[A] + i[B] - 3
             p == Len(printed)
             pA == One(at[A] = "push")
             pB == One(at[B] = "push")
  <2>2. /\ \/ pA = 0 /\ pA' = 1 /\ pB' = pB
           \/ pB = 0 /\ pB' = 1 /\ pA' = pA
        /\ pA \in {0, 1} /\ pB \in {0, 1}
    BY <1>1 DEF One
  <2>3. p \in Nat /\ n \in Int /\ 2 * p = n + 2 * pA + 2 * pB /\ p' = p + 1
    <3>1. SignalsOK /\ p \in Nat /\ i[A] \in Nat /\ i[B] \in Nat
      BY Lengths DEF PInv
    <3>2. 2 * p = n + 2 * pA + 2 * pB
      BY ONLY <3>1 DEF SignalsOK
    <3>3. n \in Int /\ p' = p + 1
      BY ONLY <3>1, <1>4
    <3>4. QED
      BY ONLY <3>1, <3>2, <3>3
  <2>4. 2 * p' = n + 2 * pA' + 2 * pB'
    <3> HIDE DEF n, p, pA, pB
    <3>1. QED
      BY ONLY <2>2, <2>3
  <2>5. QED
    BY <1>1, <1>2, <2>1, <2>4 DEF PInv, SignalsOK
<1>10. GroupOK'
  BY <1>1, <1>2 DEF PInv, GroupOK, One
<1>11. QED
  BY <1>2, <1>3, <1>4, <1>5, <1>7, <1>8, <1>9, <1>10 DEF PStep, PInv

\* done(), which the handler's add(2) is always ahead of.
LEMMA DoneStep ==
  ASSUME PInv, NEW g \in {A, B}, Done(g)
  PROVE  PStep
<1> USE Three, Types
<1>1. /\ UNCHANGED <<vars1, vars2, i, printed, answered>>
      /\ fiber[g] = "running" /\ at[g] = "done"
      /\ at' = [at EXCEPT ![g] = "end"]
      /\ Add(g, -1) \/ AddToZero(g, -1)
  BY DEF Done, Goes, Running
<1>2. [Next]_vars
  BY <1>1 DEF Next
<1>3. IInv' /\ RuntimeTypeOK' /\ (RuntimeNext \/ UNCHANGED gvars)
  BY <1>2, GroupStep DEF IInv, TypeOK
<1>4. /\ UNCHANGED <<pc1, pc2, entered1, taken1, buffer1, entered2, taken2,
                     buffer2, fiber, handle>>
      /\ counter' = counter - 1
      /\ \/ pc' = pc
         \/ pc' = [pc EXCEPT ![g] = "swap"] /\ counter' = 0
  BY <1>1 DEF vars1, vars2, gvars, Add, AddToZero, Moves
<1>5. TypesOK' /\ WakesOK' /\ ParkedOK'
  <2>1. printed' \in Seq(Nat)
    BY <1>1
  <2>2. QED
    BY <1>1, <1>3, <1>4, <2>1, PrinterTypes
<1>6. pc1[g] = "call" /\ pc2[g] = "call"
  BY <1>1 DEF PInv, CodeOK
<1>7. CodeOK'
  BY <1>1, <1>4, <1>6 DEF PInv, CodeOK, InWait
<1>8. LoopOK'
  BY <1>1, Lengths DEF PInv, LoopOK
<1>9. SignalsOK'
  BY <1>1, <1>4, <1>6, Lengths DEF PInv, SignalsOK, One, Sent, Received
<1>10. GroupOK'
  BY <1>1, <1>4 DEF PInv, GroupOK, One
<1>11. NumbersInOrder'
  BY <1>1 DEF PInv, NumbersInOrder
<1>12. QED
  BY <1>3, <1>5, <1>7, <1>8, <1>9, <1>10, <1>11 DEF PStep, PInv

-----------------------------------------------------------------------------
\* A step of a printer in a channel does not concern the wait group.
LEMMA ChannelCall ==
  ASSUME PInv, UNCHANGED wvars,
         fiber' \in [Goroutine -> FiberState],
         handle' \in [Goroutine -> HandleState],
         fiber'[Main] = fiber[Main], handle'[Main] = handle[Main]
  PROVE  IInv' /\ RuntimeTypeOK'
<1> USE Three, Types
<1>1. \A g \in Goroutine :
        /\ g \in waiting_gs \/ pc[g] = "waiting" => g = Main
        /\ \A h \in Goroutine : g \in to_wake[h] => g = Main
  <2>1. \A g \in Goroutine : pc[g] = "waiting" => g = Main
    BY DEF PInv, CodeOK, InWait
  <2>2. \A g \in Goroutine : g \in waiting_gs => pc[g] = "waiting"
    BY DEF PInv, IInv, ListOK
  <2>3. QED
    BY <2>1, <2>2, OnlyMainWaits
<1>2. TypeOK' /\ RuntimeTypeOK'
  BY DEF PInv, IInv, TypeOK, RuntimeTypeOK, wvars
<1>3. OneList'
  BY <1>1 DEF PInv, IInv, OneList, wvars
<1>4. ListOK'
  BY <1>1 DEF PInv, IInv, ListOK, wvars
<1>5. QED
  BY <1>2, <1>3, <1>4 DEF IInv

LEMMA PopsAStep == PInv /\ PopsSignal(A) => PStep
<1> SUFFICES ASSUME PInv, PopsSignal(A) PROVE PStep
  OBVIOUS
<1> USE Three, Types
<1>1. /\ at[A] = "pop" /\ UNCHANGED <<i, vars2, printed, answered>> /\ UNCHANGED wvars
      /\ pc1' = [pc1 EXCEPT ![A] = pc1'[A]]
      /\ at' = IF pc1'[A] = "call" THEN [at EXCEPT ![A] = "print"] ELSE at
      /\ UNCHANGED <<pc2, wake2, left2, senders2, receivers2, entered2, taken2, buffer2>>
      /\ UNCHANGED <<counter, pc>> /\ handle'[Main] = handle[Main]
      /\ \A h \in Goroutine : h # A => fiber'[h] = fiber[h]
  BY PopsA DEF vars2, wvars
<1>2. IInv' /\ RuntimeTypeOK'
  BY PopsA, <1>1, ChannelCall
<1>3. TypesOK'
  <2>1. chan2!TypeOK'
    BY <1>1, <1>2
    DEF PInv, TypesOK, chan2!TypeOK, chan2!RuntimeTypeOK, RuntimeTypeOK, vars2,
        FiberState, HandleState, chan2!FiberState, chan2!HandleState
  <2>2. /\ chan1!TypeOK' /\ entered1' \in Seq(chan1!Value) /\ taken1' \in Seq(chan1!Value)
        /\ entered2' \in Seq(chan2!Value) /\ taken2' \in Seq(chan2!Value)
    BY PopsA, <1>1 DEF PInv, TypesOK
  <2>3. i' \in [{A, B} -> Nat] /\ printed' \in Seq(Nat) /\ answered' \in BOOLEAN
    BY <1>1 DEF PInv, TypesOK
  <2>4. at' \in [Goroutine -> {"add", "go", "wait", "waited", "loop", "pop",
                               "print", "push", "done", "end"}]
    BY <1>1
  <2>5. QED
    BY <2>1, <2>2, <2>3, <2>4 DEF TypesOK
<1>4. CodeOK'
  BY <1>1 DEF PInv, CodeOK, InWait
<1>5. WakesOK'
  <2>1. /\ pc1'[A] = "wake" => left1'[A] > 0 /\ wake1'[A] = B
        /\ left1' = [left1 EXCEPT ![A] = left1'[A]]
        /\ wake1' = [wake1 EXCEPT ![A] = wake1'[A]]
    BY PopsA
  <2>2. /\ pc1'[B] = pc1[B] /\ left1'[B] = left1[B] /\ wake1'[B] = wake1[B]
    BY <1>1, <2>1 DEF PInv, TypesOK, chan1!TypeOK
  <2>3. QED
    BY <1>1, <2>1, <2>2 DEF PInv, WakesOK
<1>6. ParkedOK'
  <2>1. pc2[A] = "call" /\ (pc1[B] = "waiting" => pc2[B] = "call")
    BY <1>1 DEF PInv, CodeOK
  <2>2. Waits(receivers2, pc2, B, A)' /\ Waits(senders2, pc2, A, B)'
    BY PopsA, <1>1, <2>1 DEF PInv, ParkedOK, Waits
  <2>3. Waits(receivers1, pc1, A, B)' /\ Waits(senders1, pc1, B, A)'
    BY PopsA
  <2>4. QED
    BY <2>2, <2>3 DEF ParkedOK
<1>7. LoopOK'
  BY <1>1, Lengths DEF PInv, LoopOK
<1>8. GroupOK'
  <2>1. fiber'[A] # "new"
    BY PopsA
  <2>2. fiber[A] # "new"
    BY <1>1 DEF PInv, GroupOK
  <2>3. QED
    BY <1>1, <2>1, <2>2 DEF PInv, GroupOK, One
<1>9. NumbersInOrder'
  BY <1>1 DEF PInv, NumbersInOrder
<1>10. SignalsOK'
  <2> DEFINE sA == One(Sent(pc2, A))
             rA == One(Received(pc1, A))
             pA == One(at[A] = "push")
             sB == One(Sent(pc1, B))
             rB == One(Received(pc2, B))
             pB == One(at[B] = "push")
             a == i[A]
             b == i[B]
             p == Len(printed)
             e1 == Len(entered1)
             t1 == Len(taken1)
             b1 == Len(buffer1)
             e2 == Len(entered2)
             t2 == Len(taken2)
             b2 == Len(buffer2)
  <2>1. /\ UNCHANGED <<p, sB, rB, pB>>
        /\ e2' = e2 /\ t2' = t2 /\ b2' = b2
        /\ e1' = e1 /\ b' = b
    BY PopsA, <1>1 DEF One, Sent, Received
  <2>2. /\ UNCHANGED <<a, sA, pA>>
        /\ \/ rA = 0 /\ rA' = 1 /\ t1' = t1 + 1 /\ b1' = b1 - 1
           \/ rA' = rA /\ t1' = t1 /\ b1' = b1
    BY PopsA, <1>1 DEF One, Sent, Received
  <2>3. /\ e1 = t1 + b1
        /\ e2 = t2 + b2
        /\ 2 * e2 = a - 1 + 2 * sA
        /\ 2 * e1 = b - 2 + 2 * sB
        /\ IF a = 1 THEN t1 = 0 ELSE 2 * t1 = a - 3 + 2 * rA
        /\ 2 * t2 = b - 2 + 2 * rB
        /\ 2 * p = a + b - 3 + 2 * pA + 2 * pB
    BY DEF PInv, SignalsOK
  <2>4. /\ a \in Nat /\ b \in Nat /\ p \in Nat
        /\ e1 \in Nat /\ t1 \in Nat /\ b1 \in Nat
        /\ e2 \in Nat /\ t2 \in Nat /\ b2 \in Nat
        /\ sA \in {0, 1} /\ rA \in {0, 1} /\ pA \in {0, 1}
        /\ sB \in {0, 1} /\ rB \in {0, 1} /\ pB \in {0, 1}
        /\ a > 1
    BY Lengths, <1>1 DEF One, PInv, LoopOK
  <2>5. /\ e1' = t1' + b1'
        /\ e2' = t2' + b2'
        /\ 2 * e2' = a' - 1 + 2 * sA'
        /\ 2 * e1' = b' - 2 + 2 * sB'
        /\ IF a' = 1 THEN t1' = 0 ELSE 2 * t1' = a' - 3 + 2 * rA'
        /\ 2 * t2' = b' - 2 + 2 * rB'
        /\ 2 * p' = a' + b' - 3 + 2 * pA' + 2 * pB'
    <3> HIDE DEF a, b, p, e1, t1, b1, e2, t2, b2, sA, rA, pA, sB, rB, pB
    <3>1. QED
      BY ONLY <2>1, <2>2, <2>3, <2>4
  <2>6. QED
    BY <2>5 DEF SignalsOK
<1>11. QED
  BY PopsA, <1>2, <1>3, <1>4, <1>5, <1>6, <1>7, <1>8, <1>9, <1>10 DEF PStep, PInv

LEMMA PopsBStep == PInv /\ PopsSignal(B) => PStep
<1> SUFFICES ASSUME PInv, PopsSignal(B) PROVE PStep
  OBVIOUS
<1> USE Three, Types
<1>1. /\ at[B] = "pop" /\ UNCHANGED <<i, vars1, printed, answered>> /\ UNCHANGED wvars
      /\ pc2' = [pc2 EXCEPT ![B] = pc2'[B]]
      /\ at' = IF pc2'[B] = "call" THEN [at EXCEPT ![B] = "print"] ELSE at
      /\ UNCHANGED <<pc1, wake1, left1, senders1, receivers1, entered1, taken1, buffer1>>
      /\ UNCHANGED <<counter, pc>> /\ handle'[Main] = handle[Main]
      /\ \A h \in Goroutine : h # B => fiber'[h] = fiber[h]
  BY PopsB DEF vars1, wvars
<1>2. IInv' /\ RuntimeTypeOK'
  BY PopsB, <1>1, ChannelCall
<1>3. TypesOK'
  <2>1. chan1!TypeOK'
    BY <1>1, <1>2
    DEF PInv, TypesOK, chan1!TypeOK, chan1!RuntimeTypeOK, RuntimeTypeOK, vars1,
        FiberState, HandleState, chan1!FiberState, chan1!HandleState
  <2>2. /\ chan2!TypeOK' /\ entered2' \in Seq(chan2!Value) /\ taken2' \in Seq(chan2!Value)
        /\ entered1' \in Seq(chan1!Value) /\ taken1' \in Seq(chan1!Value)
    BY PopsB, <1>1 DEF PInv, TypesOK
  <2>3. i' \in [{A, B} -> Nat] /\ printed' \in Seq(Nat) /\ answered' \in BOOLEAN
    BY <1>1 DEF PInv, TypesOK
  <2>4. at' \in [Goroutine -> {"add", "go", "wait", "waited", "loop", "pop",
                               "print", "push", "done", "end"}]
    BY <1>1
  <2>5. QED
    BY <2>1, <2>2, <2>3, <2>4 DEF TypesOK
<1>4. CodeOK'
  BY <1>1 DEF PInv, CodeOK, InWait
<1>5. WakesOK'
  <2>1. /\ pc2'[B] = "wake" => left2'[B] > 0 /\ wake2'[B] = A
        /\ left2' = [left2 EXCEPT ![B] = left2'[B]]
        /\ wake2' = [wake2 EXCEPT ![B] = wake2'[B]]
    BY PopsB
  <2>2. /\ pc2'[A] = pc2[A] /\ left2'[A] = left2[A] /\ wake2'[A] = wake2[A]
    BY <1>1, <2>1 DEF PInv, TypesOK, chan2!TypeOK
  <2>3. QED
    BY <1>1, <2>1, <2>2 DEF PInv, WakesOK
<1>6. ParkedOK'
  <2>1. pc1[B] = "call" /\ (pc2[A] = "waiting" => pc1[A] = "call")
    BY <1>1 DEF PInv, CodeOK
  <2>2. Waits(receivers1, pc1, A, B)' /\ Waits(senders1, pc1, B, A)'
    BY PopsB, <1>1, <2>1 DEF PInv, ParkedOK, Waits
  <2>3. Waits(receivers2, pc2, B, A)' /\ Waits(senders2, pc2, A, B)'
    BY PopsB
  <2>4. QED
    BY <2>2, <2>3 DEF ParkedOK
<1>7. LoopOK'
  BY <1>1, Lengths DEF PInv, LoopOK
<1>8. GroupOK'
  <2>1. fiber'[B] # "new"
    BY PopsB
  <2>2. fiber[B] # "new"
    BY <1>1 DEF PInv, GroupOK
  <2>3. QED
    BY <1>1, <2>1, <2>2 DEF PInv, GroupOK, One
<1>9. NumbersInOrder'
  BY <1>1 DEF PInv, NumbersInOrder
<1>10. SignalsOK'
  <2> DEFINE sA == One(Sent(pc2, A))
             rA == One(Received(pc1, A))
             pA == One(at[A] = "push")
             sB == One(Sent(pc1, B))
             rB == One(Received(pc2, B))
             pB == One(at[B] = "push")
             a == i[A]
             b == i[B]
             p == Len(printed)
             e1 == Len(entered1)
             t1 == Len(taken1)
             b1 == Len(buffer1)
             e2 == Len(entered2)
             t2 == Len(taken2)
             b2 == Len(buffer2)
  <2>1. /\ UNCHANGED <<p, sA, rA, pA>>
        /\ e1' = e1 /\ t1' = t1 /\ b1' = b1
        /\ e2' = e2 /\ a' = a
    BY PopsB, <1>1 DEF One, Sent, Received
  <2>2. /\ UNCHANGED <<b, sB, pB>>
        /\ \/ rB = 0 /\ rB' = 1 /\ t2' = t2 + 1 /\ b2' = b2 - 1
           \/ rB' = rB /\ t2' = t2 /\ b2' = b2
    BY PopsB, <1>1 DEF One, Sent, Received
  <2>3. /\ e1 = t1 + b1
        /\ e2 = t2 + b2
        /\ 2 * e2 = a - 1 + 2 * sA
        /\ 2 * e1 = b - 2 + 2 * sB
        /\ IF a = 1 THEN t1 = 0 ELSE 2 * t1 = a - 3 + 2 * rA
        /\ 2 * t2 = b - 2 + 2 * rB
        /\ 2 * p = a + b - 3 + 2 * pA + 2 * pB
    BY DEF PInv, SignalsOK
  <2>4. /\ a \in Nat /\ b \in Nat /\ p \in Nat
        /\ e1 \in Nat /\ t1 \in Nat /\ b1 \in Nat
        /\ e2 \in Nat /\ t2 \in Nat /\ b2 \in Nat
        /\ sA \in {0, 1} /\ rA \in {0, 1} /\ pA \in {0, 1}
        /\ sB \in {0, 1} /\ rB \in {0, 1} /\ pB \in {0, 1}
    BY Lengths DEF One
  <2>5. /\ e1' = t1' + b1'
        /\ e2' = t2' + b2'
        /\ 2 * e2' = a' - 1 + 2 * sA'
        /\ 2 * e1' = b' - 2 + 2 * sB'
        /\ IF a' = 1 THEN t1' = 0 ELSE 2 * t1' = a' - 3 + 2 * rA'
        /\ 2 * t2' = b' - 2 + 2 * rB'
        /\ 2 * p' = a' + b' - 3 + 2 * pA' + 2 * pB'
    <3> HIDE DEF a, b, p, e1, t1, b1, e2, t2, b2, sA, rA, pA, sB, rB, pB
    <3>1. QED
      BY ONLY <2>1, <2>2, <2>3, <2>4
  <2>6. QED
    BY <2>5 DEF SignalsOK
<1>11. QED
  BY PopsB, <1>2, <1>3, <1>4, <1>5, <1>6, <1>7, <1>8, <1>9, <1>10 DEF PStep, PInv

LEMMA PushesAStep == PInv /\ PushesSignal(A) => PStep
<1> SUFFICES ASSUME PInv, PushesSignal(A) PROVE PStep
  OBVIOUS
<1> USE Three, Types
<1>1. /\ at[A] = "push" /\ UNCHANGED <<vars1, printed, answered>> /\ UNCHANGED wvars
      /\ pc2' = [pc2 EXCEPT ![A] = pc2'[A]]
      /\ at' = IF pc2'[A] = "call" THEN [at EXCEPT ![A] = "loop"] ELSE at
      /\ i' = IF pc2'[A] = "call" THEN [i EXCEPT ![A] = @ + 2] ELSE i
      /\ UNCHANGED <<pc1, wake1, left1, senders1, receivers1, entered1, taken1, buffer1>>
      /\ UNCHANGED <<counter, pc>> /\ handle'[Main] = handle[Main]
      /\ \A h \in Goroutine : h # A => fiber'[h] = fiber[h]
  BY PushesA DEF vars1, wvars
<1>2. IInv' /\ RuntimeTypeOK'
  BY PushesA, <1>1, ChannelCall
<1>3. TypesOK'
  <2>1. chan1!TypeOK'
    BY <1>1, <1>2, SMTT(30)
    DEF PInv, TypesOK, chan1!TypeOK, chan1!RuntimeTypeOK, RuntimeTypeOK, vars1,
        FiberState, HandleState, chan1!FiberState, chan1!HandleState
  <2>2. /\ chan2!TypeOK' /\ entered2' \in Seq(chan2!Value) /\ taken2' \in Seq(chan2!Value)
        /\ entered1' \in Seq(chan1!Value) /\ taken1' \in Seq(chan1!Value)
    BY PushesA, <1>1 DEF PInv, TypesOK
  <2>3. i' \in [{A, B} -> Nat] /\ printed' \in Seq(Nat) /\ answered' \in BOOLEAN
    BY <1>1 DEF PInv, TypesOK
  <2>4. at' \in [Goroutine -> {"add", "go", "wait", "waited", "loop", "pop",
                               "print", "push", "done", "end"}]
    BY <1>1
  <2>5. QED
    BY <2>1, <2>2, <2>3, <2>4 DEF TypesOK
<1>4. CodeOK'
  BY <1>1 DEF PInv, CodeOK, InWait
<1>5. WakesOK'
  <2>1. /\ pc2'[A] = "wake" => left2'[A] > 0 /\ wake2'[A] = B
        /\ left2' = [left2 EXCEPT ![A] = left2'[A]]
        /\ wake2' = [wake2 EXCEPT ![A] = wake2'[A]]
    BY PushesA
  <2>2. /\ pc2'[B] = pc2[B] /\ left2'[B] = left2[B] /\ wake2'[B] = wake2[B]
    BY <1>1, <2>1 DEF PInv, TypesOK, chan2!TypeOK
  <2>3. QED
    BY <1>1, <2>1, <2>2 DEF PInv, WakesOK
<1>6. ParkedOK'
  <2>1. pc1[A] = "call" /\ (pc2[B] = "waiting" => pc1[B] = "call")
    BY <1>1 DEF PInv, CodeOK
  <2>2. Waits(receivers1, pc1, A, B)' /\ Waits(senders1, pc1, B, A)'
    BY PushesA, <1>1, <2>1 DEF PInv, ParkedOK, Waits
  <2>3. Waits(receivers2, pc2, B, A)' /\ Waits(senders2, pc2, A, B)'
    BY PushesA
  <2>4. QED
    BY <2>2, <2>3 DEF ParkedOK
<1>7. LoopOK'
  BY <1>1, Lengths DEF PInv, LoopOK
<1>8. GroupOK'
  <2>1. fiber'[A] # "new"
    BY PushesA
  <2>2. fiber[A] # "new"
    BY <1>1 DEF PInv, GroupOK
  <2>3. QED
    BY <1>1, <2>1, <2>2 DEF PInv, GroupOK, One
<1>9. NumbersInOrder'
  BY <1>1 DEF PInv, NumbersInOrder
<1>10. SignalsOK'
  <2> DEFINE sA == One(Sent(pc2, A))
             rA == One(Received(pc1, A))
             pA == One(at[A] = "push")
             sB == One(Sent(pc1, B))
             rB == One(Received(pc2, B))
             pB == One(at[B] = "push")
             a == i[A]
             b == i[B]
             p == Len(printed)
             e1 == Len(entered1)
             t1 == Len(taken1)
             b1 == Len(buffer1)
             e2 == Len(entered2)
             t2 == Len(taken2)
             b2 == Len(buffer2)
  <2>1. /\ UNCHANGED <<p, sB, rB, pB>>
        /\ e1' = e1 /\ t1' = t1 /\ b1' = b1
        /\ t2' = t2 /\ b' = b
    BY PushesA, <1>1 DEF One, Sent, Received
  <2>2. /\ pA = 1 /\ rA = 1
        /\ \/ /\ UNCHANGED <<a, pA, rA>>
              /\ \/ sA = 0 /\ sA' = 1 /\ e2' = e2 + 1 /\ b2' = b2 + 1
                 \/ sA' = sA /\ e2' = e2 /\ b2' = b2
           \/ /\ a' = a + 2 /\ pA' = 0 /\ rA' = 0 /\ sA' = 0
              /\ \/ sA = 0 /\ e2' = e2 + 1 /\ b2' = b2 + 1
                 \/ sA = 1 /\ e2' = e2 /\ b2' = b2
    BY PushesA, <1>1 DEF One, Sent, Received
  <2>3. /\ e1 = t1 + b1
        /\ e2 = t2 + b2
        /\ 2 * e2 = a - 1 + 2 * sA
        /\ 2 * e1 = b - 2 + 2 * sB
        /\ IF a = 1 THEN t1 = 0 ELSE 2 * t1 = a - 3 + 2 * rA
        /\ 2 * t2 = b - 2 + 2 * rB
        /\ 2 * p = a + b - 3 + 2 * pA + 2 * pB
    BY DEF PInv, SignalsOK
  <2>4. /\ a \in Nat /\ b \in Nat /\ p \in Nat
        /\ e1 \in Nat /\ t1 \in Nat /\ b1 \in Nat
        /\ e2 \in Nat /\ t2 \in Nat /\ b2 \in Nat
        /\ sA \in {0, 1} /\ rA \in {0, 1} /\ pA \in {0, 1}
        /\ sB \in {0, 1} /\ rB \in {0, 1} /\ pB \in {0, 1}
    BY Lengths DEF One
  <2>5. /\ e1' = t1' + b1'
        /\ e2' = t2' + b2'
        /\ 2 * e2' = a' - 1 + 2 * sA'
        /\ 2 * e1' = b' - 2 + 2 * sB'
        /\ IF a' = 1 THEN t1' = 0 ELSE 2 * t1' = a' - 3 + 2 * rA'
        /\ 2 * t2' = b' - 2 + 2 * rB'
        /\ 2 * p' = a' + b' - 3 + 2 * pA' + 2 * pB'
    <3> HIDE DEF a, b, p, e1, t1, b1, e2, t2, b2, sA, rA, pA, sB, rB, pB
    <3>1. CASE pA' = pA
      BY ONLY <2>1, <2>2, <2>3, <2>4, <3>1
    <3>2. CASE pA' = 0
      BY ONLY <2>1, <2>2, <2>3, <2>4, <3>2
    <3>3. QED
      BY ONLY <2>2, <3>1, <3>2
  <2>6. QED
    BY <2>5 DEF SignalsOK
<1>11. QED
  BY PushesA, <1>2, <1>3, <1>4, <1>5, <1>6, <1>7, <1>8, <1>9, <1>10 DEF PStep, PInv

LEMMA PushesBStep == PInv /\ PushesSignal(B) => PStep
<1> SUFFICES ASSUME PInv, PushesSignal(B) PROVE PStep
  OBVIOUS
<1> USE Three, Types
<1>1. /\ at[B] = "push" /\ UNCHANGED <<vars2, printed, answered>> /\ UNCHANGED wvars
      /\ pc1' = [pc1 EXCEPT ![B] = pc1'[B]]
      /\ at' = IF pc1'[B] = "call" THEN [at EXCEPT ![B] = "loop"] ELSE at
      /\ i' = IF pc1'[B] = "call" THEN [i EXCEPT ![B] = @ + 2] ELSE i
      /\ UNCHANGED <<pc2, wake2, left2, senders2, receivers2, entered2, taken2, buffer2>>
      /\ UNCHANGED <<counter, pc>> /\ handle'[Main] = handle[Main]
      /\ \A h \in Goroutine : h # B => fiber'[h] = fiber[h]
  BY PushesB DEF vars2, wvars
<1>2. IInv' /\ RuntimeTypeOK'
  BY PushesB, <1>1, ChannelCall
<1>3. TypesOK'
  <2>1. chan2!TypeOK'
    BY <1>1, <1>2, SMTT(30)
    DEF PInv, TypesOK, chan2!TypeOK, chan2!RuntimeTypeOK, RuntimeTypeOK, vars2,
        FiberState, HandleState, chan2!FiberState, chan2!HandleState
  <2>2. /\ chan1!TypeOK' /\ entered1' \in Seq(chan1!Value) /\ taken1' \in Seq(chan1!Value)
        /\ entered2' \in Seq(chan2!Value) /\ taken2' \in Seq(chan2!Value)
    BY PushesB, <1>1 DEF PInv, TypesOK
  <2>3. i' \in [{A, B} -> Nat] /\ printed' \in Seq(Nat) /\ answered' \in BOOLEAN
    BY <1>1 DEF PInv, TypesOK
  <2>4. at' \in [Goroutine -> {"add", "go", "wait", "waited", "loop", "pop",
                               "print", "push", "done", "end"}]
    BY <1>1
  <2>5. QED
    BY <2>1, <2>2, <2>3, <2>4 DEF TypesOK
<1>4. CodeOK'
  BY <1>1 DEF PInv, CodeOK, InWait
<1>5. WakesOK'
  <2>1. /\ pc1'[B] = "wake" => left1'[B] > 0 /\ wake1'[B] = A
        /\ left1' = [left1 EXCEPT ![B] = left1'[B]]
        /\ wake1' = [wake1 EXCEPT ![B] = wake1'[B]]
    BY PushesB
  <2>2. /\ pc1'[A] = pc1[A] /\ left1'[A] = left1[A] /\ wake1'[A] = wake1[A]
    BY <1>1, <2>1 DEF PInv, TypesOK, chan1!TypeOK
  <2>3. QED
    BY <1>1, <2>1, <2>2 DEF PInv, WakesOK
<1>6. ParkedOK'
  <2>1. pc2[B] = "call" /\ (pc1[A] = "waiting" => pc2[A] = "call")
    BY <1>1 DEF PInv, CodeOK
  <2>2. Waits(receivers2, pc2, B, A)' /\ Waits(senders2, pc2, A, B)'
    BY PushesB, <1>1, <2>1 DEF PInv, ParkedOK, Waits
  <2>3. Waits(receivers1, pc1, A, B)' /\ Waits(senders1, pc1, B, A)'
    BY PushesB
  <2>4. QED
    BY <2>2, <2>3 DEF ParkedOK
<1>7. LoopOK'
  BY <1>1, Lengths DEF PInv, LoopOK
<1>8. GroupOK'
  <2>1. fiber'[B] # "new"
    BY PushesB
  <2>2. fiber[B] # "new"
    BY <1>1 DEF PInv, GroupOK
  <2>3. QED
    BY <1>1, <2>1, <2>2 DEF PInv, GroupOK, One
<1>9. NumbersInOrder'
  BY <1>1 DEF PInv, NumbersInOrder
<1>10. SignalsOK'
  <2> DEFINE sA == One(Sent(pc2, A))
             rA == One(Received(pc1, A))
             pA == One(at[A] = "push")
             sB == One(Sent(pc1, B))
             rB == One(Received(pc2, B))
             pB == One(at[B] = "push")
             a == i[A]
             b == i[B]
             p == Len(printed)
             e1 == Len(entered1)
             t1 == Len(taken1)
             b1 == Len(buffer1)
             e2 == Len(entered2)
             t2 == Len(taken2)
             b2 == Len(buffer2)
  <2>1. /\ UNCHANGED <<p, sA, rA, pA>>
        /\ e2' = e2 /\ t2' = t2 /\ b2' = b2
        /\ t1' = t1 /\ a' = a
    BY PushesB, <1>1 DEF One, Sent, Received
  <2>2. /\ pB = 1 /\ rB = 1
        /\ \/ /\ UNCHANGED <<b, pB, rB>>
              /\ \/ sB = 0 /\ sB' = 1 /\ e1' = e1 + 1 /\ b1' = b1 + 1
                 \/ sB' = sB /\ e1' = e1 /\ b1' = b1
           \/ /\ b' = b + 2 /\ pB' = 0 /\ rB' = 0 /\ sB' = 0
              /\ \/ sB = 0 /\ e1' = e1 + 1 /\ b1' = b1 + 1
                 \/ sB = 1 /\ e1' = e1 /\ b1' = b1
    BY PushesB, <1>1 DEF One, Sent, Received
  <2>3. /\ e1 = t1 + b1
        /\ e2 = t2 + b2
        /\ 2 * e2 = a - 1 + 2 * sA
        /\ 2 * e1 = b - 2 + 2 * sB
        /\ IF a = 1 THEN t1 = 0 ELSE 2 * t1 = a - 3 + 2 * rA
        /\ 2 * t2 = b - 2 + 2 * rB
        /\ 2 * p = a + b - 3 + 2 * pA + 2 * pB
    BY DEF PInv, SignalsOK
  <2>4. /\ a \in Nat /\ b \in Nat /\ p \in Nat
        /\ e1 \in Nat /\ t1 \in Nat /\ b1 \in Nat
        /\ e2 \in Nat /\ t2 \in Nat /\ b2 \in Nat
        /\ sA \in {0, 1} /\ rA \in {0, 1} /\ pA \in {0, 1}
        /\ sB \in {0, 1} /\ rB \in {0, 1} /\ pB \in {0, 1}
    BY Lengths DEF One
  <2>5. /\ e1' = t1' + b1'
        /\ e2' = t2' + b2'
        /\ 2 * e2' = a' - 1 + 2 * sA'
        /\ 2 * e1' = b' - 2 + 2 * sB'
        /\ IF a' = 1 THEN t1' = 0 ELSE 2 * t1' = a' - 3 + 2 * rA'
        /\ 2 * t2' = b' - 2 + 2 * rB'
        /\ 2 * p' = a' + b' - 3 + 2 * pA' + 2 * pB'
    <3> HIDE DEF a, b, p, e1, t1, b1, e2, t2, b2, sA, rA, pA, sB, rB, pB
    <3>1. CASE pB' = pB
      BY ONLY <2>1, <2>2, <2>3, <2>4, <3>1
    <3>2. CASE pB' = 0
      BY ONLY <2>1, <2>2, <2>3, <2>4, <3>2
    <3>3. QED
      BY ONLY <2>2, <3>1, <3>2
  <2>6. QED
    BY <2>5 DEF SignalsOK
<1>11. QED
  BY PushesB, <1>2, <1>3, <1>4, <1>5, <1>6, <1>7, <1>8, <1>9, <1>10 DEF PStep, PInv

-----------------------------------------------------------------------------
LEMMA PrintStep == PInv /\ [PrintNext]_ptvars => PStep
<1> SUFFICES ASSUME PInv, [PrintNext]_ptvars PROVE PStep
  OBVIOUS
<1>1. ASSUME NEW g \in {A, B}, MainStarts(g) PROVE PStep
  BY <1>1, MainStartsStep
<1>2. ASSUME Handler PROVE PStep
  BY <1>1, <1>2, MainAddsStep, MainWaitsStep, MainAnswersStep DEF Handler
<1>3. ASSUME NEW g \in Goroutine, PopsSignal(g) PROVE PStep
  <2>1. (g = A /\ PopsSignal(A)) \/ (g = B /\ PopsSignal(B))
    BY <1>3 DEF PopsSignal
  <2>2. QED
    BY <2>1, PopsAStep, PopsBStep
<1>4. ASSUME NEW g \in Goroutine, PushesSignal(g) PROVE PStep
  <2>1. (g = A /\ PushesSignal(A)) \/ (g = B /\ PushesSignal(B))
    BY <1>4 DEF PushesSignal
  <2>2. QED
    BY <2>1, PushesAStep, PushesBStep
<1>5. ASSUME NEW g \in Goroutine, Printer(g) PROVE PStep
  <2>1. ASSUME LoopTests(g) \/ Prints(g) \/ Done(g) PROVE g \in {A, B}
    BY <2>1 DEF LoopTests, Prints, Done
  <2>2. QED
    BY <1>3, <1>4, <1>5, <2>1, LoopTestsStep, PrintsStep, DoneStep DEF Printer
<1>6. CASE UNCHANGED ptvars
  <2>1. /\ UNCHANGED <<vars, vars1, vars2, i, at, printed, answered>>
        /\ UNCHANGED <<fiber, handle, counter, pc>>
    BY <1>6 DEF ptvars, locals, vars, gvars, wvars
  <2>2. GroupOK'
    BY <2>1 DEF PInv, GroupOK
  <2>3. \A g \in {A, B} : ~InWait(g)' /\ handle'[g] = handle[g]
    BY <2>1 DEF PInv, CodeOK, InWait
  <2>4. answered' \in BOOLEAN /\ at'[Main] \in {"add", "go", "wait", "waited", "end"}
    BY <2>1 DEF PInv, TypesOK, CodeOK
  <2>5. QED
    BY <2>1, <2>2, <2>3, <2>4, Types, HandlerStep
<1>7. QED
  BY <1>2, <1>5, <1>6, ArrivesStep, InWaitGroupStep, ResumesStep, LeavesStep
  DEF PrintNext

LEMMA PrintInvariance == PrintSpec => []PInv
<1>1. PInv /\ [PrintNext]_ptvars => PInv'
  BY PrintStep DEF PStep
<1>2. QED
  BY PrintInitially, <1>1, PTL DEF PrintSpec

\* Whatever Last is, and wherever the goroutines are stopped, the numbers are
\* printed in order: no signal is lost, and none is ahead of its number.
THEOREM NumbersPrinted == PrintSpec => []NumbersInOrder
  BY PrintInvariance, PTL DEF PInv

\* The handler answers only when all numbers have been printed and both
\* printers have reported.
THEOREM AnswerIsLast == PrintSpec => []AnsweredAfterAll
<1>1. PInv => AnsweredAfterAll
  <2> SUFFICES ASSUME PInv, answered PROVE AnsweredAfterAll
    BY DEF AnsweredAfterAll
  <2> DEFINE a == i[A]
             b == i[B]
             p == Len(printed)
             e1 == Len(entered1)
             e2 == Len(entered2)
  <2>1. at[Main] = "end" /\ counter = 0
    BY DEF PInv, GroupOK
  <2>2. at[A] = "end" /\ at[B] = "end"
    BY <2>1 DEF PInv, GroupOK, One
  <2>3. /\ a \in Nat /\ b \in Nat /\ p \in Nat /\ e1 \in Nat /\ e2 \in Nat
        /\ Last \in Nat
    BY Lengths, Three
  <2>4. a > Last /\ b > Last /\ a <= Last + 2 /\ b <= Last + 2
    BY <2>2 DEF PInv, LoopOK
  <2>5. 2 * e2 = a - 1 /\ 2 * e1 = b - 2 /\ 2 * p = a + b - 3
    <3>1. SignalsOK
      BY DEF PInv
    <3>2. QED
      BY ONLY <2>2, <2>3, <2>4, <3>1 DEF SignalsOK, One, Sent, Received
  <2>6. p = Last
    <3> HIDE DEF a, b, p, e1, e2
    <3>1. QED
      BY ONLY <2>3, <2>4, <2>5
  <2>7. QED
    BY <2>2, <2>6 DEF AnsweredAfterAll
<1>2. QED
  BY PrintInvariance, <1>1, PTL

\* The wait group and the two channels, on the same goroutines, use the runtime
\* as its contract allows: no pointer is pushed that is not registered, and no
\* goroutine parks in one of them while it is blocked in another.
THEOREM PrintObedience == PrintSpec => ObeysContract
<1>1. PrintInit => RuntimeInit
  BY DEF PrintInit, Init
<1>2. PInv /\ [PrintNext]_ptvars => [RuntimeNext]_gvars
  BY PrintStep DEF PStep
<1>3. QED
  BY <1>1, <1>2, PrintInvariance, PTL DEF PrintSpec, ObeysContract

=============================================================================

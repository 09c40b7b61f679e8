------------------------------- MODULE PrintTest -------------------------------
(***************************************************************************)
(* GET /user/print_test (main.cpp): the goroutine of the request starts    *)
(* two goroutines, which print the odd and the even numbers in turn and    *)
(* signal each other on two channels, and waits for both on a wait group.  *)
(*                                                                         *)
(* The wait group is WaitGroup.tla, the channels are two instances of      *)
(* Channel.tla, and the three goroutines are on one runtime: fiber and     *)
(* handle are shared by all of them.                                       *)
(***************************************************************************)
EXTENDS WaitGroup, Sequences

CONSTANTS
  Main, A, B,   \* the goroutine of the request, and the two it starts
  Last,         \* the last number; 10 in main.cpp
  NoGoroutine

ASSUME PrintTestAssumption ==
  /\ Goroutine = {Main, A, B} /\ A # B /\ Main \notin {A, B}
  /\ Last \in Nat /\ {-1, 2} \subseteq Delta /\ MaxCounter >= 2

VARIABLES
  buffer1, senders1, receivers1, wake1, left1, pc1, entered1, taken1,  \* chan1
  buffer2, senders2, receivers2, wake2, left2, pc2, entered2, taken2,  \* chan2
  i,         \* the local i of A and B
  at,        \* where each goroutine is
  printed,   \* history: the numbers in the order they were printed
  answered   \* JSON() was called

vars1 == <<buffer1, senders1, receivers1, wake1, left1, pc1, entered1, taken1>>
vars2 == <<buffer2, senders2, receivers2, wake2, left2, pc2, entered2, taken2>>
locals == <<i, at, printed, answered>>
ptvars == <<vars, vars1, vars2, locals>>

chan1 == INSTANCE Channel WITH
  Sender <- {B}, Receiver <- {A}, Rounds <- Last, Capacities <- {0},
  capacity <- 0, buffer <- buffer1, send_waiters <- senders1,
  recv_waiters <- receivers1, g_to_wake <- wake1, left <- left1, pc <- pc1,
  entered <- entered1, taken <- taken1

chan2 == INSTANCE Channel WITH
  Sender <- {A}, Receiver <- {B}, Rounds <- Last, Capacities <- {0},
  capacity <- 0, buffer <- buffer2, send_waiters <- senders2,
  recv_waiters <- receivers2, g_to_wake <- wake2, left <- left2, pc <- pc2,
  entered <- entered2, taken <- taken2

PrintInit ==
  /\ Init /\ chan1!Init /\ chan2!Init
  /\ i = [g \in {A, B} |-> IF g = A THEN 1 ELSE 2]
  /\ at = [g \in Goroutine |-> IF g = Main THEN "add" ELSE "loop"]
  /\ printed = <<>>
  /\ answered = FALSE

Goes(g, from, to) == Running(g) /\ at[g] = from /\ at' = [at EXCEPT ![g] = to]

-----------------------------------------------------------------------------
\* The handler: wg->add(2), and the two calls of go().
MainAdds ==
  /\ Goes(Main, "add", "go") /\ Add(Main, 2)
  /\ UNCHANGED <<vars1, vars2, i, printed, answered>>

MainStarts(g) ==
  /\ Goes(Main, "go", IF g = A THEN "go" ELSE "wait")
  /\ g = B => fiber[A] # "new"
  /\ Start(g)
  /\ UNCHANGED <<vars1, vars2, i, printed, answered>>

\* Faulty: the handler does not wait.
MainWaits_not ==
  /\ Goes(Main, "wait", "waited") /\ UNCHANGED <<vars, vars1, vars2>>
  /\ UNCHANGED <<i, printed, answered>>

\* wg->wait(), the first test.
MainWaits ==
  /\ Goes(Main, "wait", "waited")
  /\ Wait(Main) \/ (counter = 0 /\ UNCHANGED vars)
  /\ UNCHANGED <<vars1, vars2, i, printed, answered>>

\* wait() has returned; ctx->JSON().
MainAnswers ==
  /\ Goes(Main, "waited", "end") /\ pc[Main] = "idle"
  /\ answered' = TRUE
  /\ UNCHANGED <<vars, vars1, vars2, i, printed>>

-----------------------------------------------------------------------------
\* Faulty: A does not wait for the signal either.
Begins_all(g) == g = A

\* if (i > 1): the first number is printed without a signal.
Begins(g) == g = A /\ i[g] = 1

\* The head of the loop of A and B.
LoopTests(g) ==
  /\ g \in {A, B}
  /\ Goes(g, "loop", CASE i[g] > Last -> "done"
                       [] i[g] <= Last /\ Begins(g) -> "print"
                       [] OTHER -> "pop")
  /\ UNCHANGED <<vars, vars1, vars2, i, printed, answered>>

\* A step inside a call on a channel, whose calls left to g are n; the call may
\* return.
Call(g, from, to, n) ==
  /\ at[g] = from
  /\ at' = [at EXCEPT ![g] = IF n' < n THEN to ELSE @]
  /\ UNCHANGED <<wvars, printed, answered>>

PopsSignal(g) ==
  /\ UNCHANGED i
  /\ \/ /\ g = A /\ (chan1!pop(A) \/ chan1!WakeNext(A)) /\ UNCHANGED vars2
        /\ Call(A, "pop", "print", left1[A])
     \/ /\ g = B /\ (chan2!pop(B) \/ chan2!WakeNext(B)) /\ UNCHANGED vars1
        /\ Call(B, "pop", "print", left2[B])

Prints(g) ==
  /\ g \in {A, B} /\ Goes(g, "print", "push")
  /\ printed' = Append(printed, i[g])
  /\ UNCHANGED <<vars, vars1, vars2, i, answered>>

PushesSignal(g) ==
  /\ \/ /\ g = A /\ (chan2!push(A) \/ chan2!WakeNext(A)) /\ UNCHANGED vars1
        /\ Call(A, "push", "loop", left2[A])
     \/ /\ g = B /\ (chan1!push(B) \/ chan1!WakeNext(B)) /\ UNCHANGED vars2
        /\ Call(B, "push", "loop", left1[B])
  /\ i' = [i EXCEPT ![g] = IF at'[g] = "loop" THEN @ + 2 ELSE @]

\* wg->done(), behind the loop.
Done(g) ==
  /\ g \in {A, B} /\ Goes(g, "done", "end")
  /\ Add(g, -1) \/ AddToZero(g, -1)
  /\ UNCHANGED <<vars1, vars2, i, printed, answered>>

\* The rest of wait() and done().
InWaitGroup(g) == Proceed(g) /\ UNCHANGED <<vars1, vars2, locals>>

-----------------------------------------------------------------------------
\* The runtime: a goroutine resumed goes on in whichever call it is.
Resumes(g) ==
  /\ Schedule(g) /\ chan1!Schedule(g) /\ chan2!Schedule(g)
  /\ UNCHANGED locals

Leaves(g) == Suspend(g) /\ UNCHANGED <<vars1, vars2, locals>>

Ends(g) == at[g] = "end" /\ Return(g) /\ UNCHANGED <<vars1, vars2, locals>>

\* The accept loop starts the goroutine of the request.
Arrives == Start(Main) /\ UNCHANGED <<vars1, vars2, locals>>

Handler ==
  MainAdds \/ (\E g \in {A, B} : MainStarts(g)) \/ MainWaits \/ MainAnswers

Printer(g) ==
  LoopTests(g) \/ PopsSignal(g) \/ Prints(g) \/ PushesSignal(g) \/ Done(g)

PrintNext ==
  \/ Arrives \/ Handler
  \/ \E g \in Goroutine :
       Printer(g) \/ InWaitGroup(g) \/ Resumes(g) \/ Leaves(g) \/ Ends(g)

\* The request has arrived; goroutines execute, and ready ones are scheduled.
PrintFairness ==
  /\ WF_ptvars(Arrives) /\ WF_ptvars(Handler)
  /\ \A g \in Goroutine :
       /\ WF_ptvars(Printer(g)) /\ WF_ptvars(InWaitGroup(g))
       /\ WF_ptvars(Resumes(g)) /\ WF_ptvars(Leaves(g))

PrintSpec == PrintInit /\ [][PrintNext]_ptvars /\ PrintFairness

-----------------------------------------------------------------------------
(***************************************************************************)
(* Properties.                                                             *)
(***************************************************************************)

\* Two goroutines on any workers, each stopped anywhere, print the numbers in
\* order: a signal is never ahead of what it announces.
NumbersInOrder == printed = [n \in 1..Len(printed) |-> n]

\* The wait group holds the response back until both have printed everything.
AnsweredAfterAll ==
  answered => Len(printed) = Last /\ at[A] = "end" /\ at[B] = "end"

\* The request is answered, unless a wake-up finds its goroutine still on its
\* worker.  The last signal of B is never received: that push() returns all the
\* same because capacity 0 is treated like 1.
RequestAnswered == <>(answered \/ \E g \in Goroutine : Lost(g))

=============================================================================

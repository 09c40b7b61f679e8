-------------------------------- MODULE Context --------------------------------
(***************************************************************************)
(* data_structure/context.h: a flag and a channel of capacity 1.           *)
(*                                                                         *)
(* cancel() sets the flag and, if it was not set before, pushes to the     *)
(* channel; goroutines wait for the cancellation with done()->pop().       *)
(* WithTimeout() starts a goroutine that sleeps and then cancels.          *)
(*                                                                         *)
(* Every step of the channel is that of Channel.tla.  Init chooses whether *)
(* the channel belongs to a Context, whose senders call cancel(), or is    *)
(* used by itself.                                                         *)
(***************************************************************************)
EXTENDS Channel

VARIABLES
  cancellers,  \* the goroutines that push with cancel(): all senders or none
  timeouts,    \* those of them that WithTimeout() has started
  sleeping,    \* the goroutines in sleep()
  done_flag,   \* done_flag_
  pushing      \* whose exchange of the flag has returned false, until push()
               \* returns

context == <<cancellers, timeouts, sleeping, done_flag, pushing>>
cxvars == <<vars, context>>

ContextTypeOK ==
  /\ TypeOK
  /\ cancellers \in {{}, Sender}
  /\ timeouts \subseteq cancellers
  /\ sleeping \subseteq timeouts
  /\ done_flag \in BOOLEAN
  /\ pushing \subseteq cancellers

ContextInit ==
  /\ Init
  /\ cancellers \in {{}, Sender}
  /\ cancellers # {} => capacity = 1
  /\ timeouts \in SUBSET cancellers
  /\ sleeping = {}
  /\ done_flag = FALSE
  /\ pushing = {}

-----------------------------------------------------------------------------
\* WithTimeout(): the goroutine it starts sleeps first.
Sleeps(g) ==
  /\ g \in timeouts
  /\ Running(g) /\ left[g] = Rounds /\ g \notin sleeping
  /\ sleeping' = sleeping \cup {g}
  /\ Register(g)
  /\ UNCHANGED <<cvars, cancellers, timeouts, done_flag, pushing>>

\* The scheduler's timer expires.
Expires(g) ==
  /\ g \in sleeping /\ pc[g] = "call" /\ Wake(g)
  /\ UNCHANGED <<cvars, context>>

\* At a call of cancel(): the only one of WithTimeout()'s goroutine, after its
\* sleep.
Cancels(g) ==
  /\ g \in cancellers \ pushing
  /\ Running(g) /\ pc[g] = "call" /\ left[g] > 0
  /\ g \in timeouts => g \in sleeping /\ left[g] = Rounds

\* Faulty: the flag is tested and not set.
CancelFirst_load(g) ==
  /\ Cancels(g) /\ ~done_flag
  /\ pushing' = pushing \cup {g}
  /\ UNCHANGED <<gvars, cvars, cancellers, timeouts, sleeping, done_flag>>

\* Faulty: nothing is pushed.
CancelFirst_silent(g) ==
  /\ Cancels(g) /\ ~done_flag
  /\ done_flag' = TRUE
  /\ Completes(g)
  /\ UNCHANGED <<gvars, capacity, buffer, queues, g_to_wake, hist, cancellers,
                 timeouts, sleeping, pushing>>

\* cancel(): exchange() returns false.
CancelFirst(g) ==
  /\ Cancels(g) /\ ~done_flag
  /\ done_flag' = TRUE
  /\ pushing' = pushing \cup {g}
  /\ UNCHANGED <<gvars, cvars, cancellers, timeouts, sleeping>>

\* cancel(): exchange() returns true; there is nothing to do.
CancelAgain(g) ==
  /\ Cancels(g) /\ done_flag
  /\ Completes(g)
  /\ UNCHANGED <<gvars, capacity, buffer, queues, g_to_wake, hist, context>>

\* A step inside push(): called directly, or by cancel().
Pushes(g) ==
  /\ g \in Sender
  /\ cancellers = {} \/ g \in pushing
  /\ push(g) \/ WakeNext(g)
  /\ pushing' = IF left'[g] < left[g] THEN pushing \ {g} ELSE pushing
  /\ UNCHANGED <<cancellers, timeouts, sleeping, done_flag>>

\* A step inside pop(), on the channel that done() has returned.
Pops(g) == g \in Receiver /\ (pop(g) \/ WakeNext(g)) /\ UNCHANGED context

\* The runtime, and the end of a goroutine.
Runtime(g) ==
  (Schedule(g) \/ Start(g) \/ Suspend(g) \/ Return(g)) /\ UNCHANGED context

\* The goroutine of WithTimeout() has no more to do.
TimeoutReturns(g) ==
  /\ g \in timeouts
  /\ pc[g] = "call" /\ left[g] = Rounds - 1 /\ Finish(g)
  /\ UNCHANGED <<cvars, context>>

cancel(g) == CancelFirst(g) \/ CancelAgain(g)

ContextNext ==
  \E g \in Goroutine :
     \/ Sleeps(g) \/ Expires(g) \/ cancel(g)
     \/ Pushes(g) \/ Pops(g) \/ Runtime(g) \/ TimeoutReturns(g)

\* Goroutines are started and execute their calls, those that are ready are
\* scheduled, and timers expire.
ContextFairness ==
  \A g \in Goroutine :
     /\ WF_cxvars(Pushes(g) \/ Pops(g)) /\ WF_cxvars(cancel(g))
     /\ WF_cxvars(Sleeps(g)) /\ WF_cxvars(Expires(g)) /\ WF_cxvars(Runtime(g))

ContextSpec == ContextInit /\ [][ContextNext]_cxvars /\ ContextFairness

-----------------------------------------------------------------------------
(***************************************************************************)
(* Properties.                                                             *)
(***************************************************************************)

\* However many goroutines cancel, and whenever the timeout strikes, there is
\* one signal: it is sent after the flag is set, so that whoever has received
\* it finds is_done() true, and there is room for it, so that cancel() never
\* blocks.
OneSignal ==
  cancellers # {} =>
    /\ Len(entered) <= 1
    /\ entered # <<>> => done_flag
    /\ send_waiters = <<>>

CancelsReturned ==
  \A g \in Sender : left[g] = IF g \in timeouts THEN Rounds - 1 ELSE 0

\* Nobody is stuck, unless a wake-up finds its goroutine still on its worker:
\* with as many pushes as pops every call of push() and pop() returns; a
\* cancelled Context lets cancel() return everywhere and one of those who wait
\* for it go on (the others wait in vain: there is no second signal).
CallsReturn ==
  <>(\/ IF cancellers = {} THEN AllDone ELSE CancelsReturned /\ Len(taken) = 1
     \/ \E g \in Goroutine : Lost(g))

=============================================================================

------------------------------ MODULE Goroutines ------------------------------
(***************************************************************************)
(* The contract between the scheduler and everything that parks or wakes a *)
(* goroutine (channels, mutexes, wait groups, timers, the netpoller).      *)
(*                                                                         *)
(* A goroutine blocks in two separate steps: it first stores a shared_ptr  *)
(* to itself in some wait structure, and only later calls                  *)
(* Goroutine::yield().  Between the two its fiber handle ctx_ is empty, so *)
(* a resume() that arrives in that window finds nothing to switch to and   *)
(* returns: the wake-up is spent for nothing.  The contract keeps this     *)
(* window, because the code has it.                                        *)
(*                                                                         *)
(* Scheduler.tla is shown to implement this module; the modules of the     *)
(* blocking primitives EXTEND it and use its steps.                        *)
(***************************************************************************)

CONSTANT Goroutine          \* the goroutines that may ever be created

VARIABLES
  fiber,    \* fiber[g]: what the worker that calls g->resume() finds in ctx_
  handle    \* handle[g]: where the one shared_ptr that can wake g is

gvars == <<fiber, handle>>

(***************************************************************************)
(* "new": not yet created.  "suspended": ctx_ holds the goroutine's stack. *)
(* "running": on a worker.  "parking": still on a worker, has stored its   *)
(* pointer in a wait structure and has not yet left the worker's stack.    *)
(***************************************************************************)
FiberState == {"new", "suspended", "running", "parking", "finished"}

\* "registered": in a wait structure.  "ready": on its way to a resume().
HandleState == {"none", "registered", "ready"}

RuntimeTypeOK ==
  /\ fiber \in [Goroutine -> FiberState]
  /\ handle \in [Goroutine -> HandleState]

-----------------------------------------------------------------------------
(***************************************************************************)
(* The effects, without the guards that make their use legal: a primitive  *)
(* that pushes a pointer it must not push still pushes it, and breaks the  *)
(* contract below.                                                         *)
(***************************************************************************)

\* Scheduler::push_ready(g): the pointer is on its way to a resume().
PushReady(g) == handle' = [handle EXCEPT ![g] = "ready"]

\* The running goroutine stores Goroutine::current() in a wait structure;
\* all it does next is call Goroutine::yield().
Register(g) ==
  /\ fiber' = [fiber EXCEPT ![g] = "parking"]
  /\ handle' = [handle EXCEPT ![g] = "registered"]

Running(g) == fiber[g] = "running"

\* runtime::go: make_shared<Goroutine>, then push_ready.
Go(g) ==
  /\ fiber[g] = "new"
  /\ fiber' = [fiber EXCEPT ![g] = "suspended"]
  /\ PushReady(g)

\* Goroutine::yield() has switched to the worker's stack and the worker has
\* stored the returned fiber in ctx_.
Yield(g) ==
  /\ fiber[g] = "parking"
  /\ fiber' = [fiber EXCEPT ![g] = "suspended"]
  /\ UNCHANGED handle

\* The test of Goroutine::resume(): a goroutine that is on a worker, or
\* finished, has an empty ctx_.
Resumable(g) == fiber[g] = "suspended"

\* A worker calls g->resume() and lets go of the pointer.
Resume(g) ==
  /\ handle[g] = "ready"
  /\ handle' = [handle EXCEPT ![g] = "none"]
  /\ fiber' = [fiber EXCEPT ![g] = IF Resumable(g) THEN "running" ELSE @]

\* The task returns; finished_ is set.
Finish(g) ==
  /\ Running(g)
  /\ fiber' = [fiber EXCEPT ![g] = "finished"]
  /\ UNCHANGED handle

-----------------------------------------------------------------------------
Park(g) == Running(g) /\ Register(g)

Wake(g) == handle[g] = "registered" /\ PushReady(g) /\ UNCHANGED fiber

RuntimeInit ==
  /\ fiber = [g \in Goroutine |-> "new"]
  /\ handle = [g \in Goroutine |-> "none"]

RuntimeStep(g) ==
  Go(g) \/ Park(g) \/ Yield(g) \/ Wake(g) \/ Resume(g) \/ Finish(g)

RuntimeNext == \E g \in Goroutine : RuntimeStep(g)

RuntimeSpec == RuntimeInit /\ [][RuntimeNext]_gvars

-----------------------------------------------------------------------------
\* g is blocked, or about to be, and no pointer to it is left anywhere.
Lost(g) == fiber[g] \in {"parking", "suspended"} /\ handle[g] = "none"

\* A goroutine whose code runs holds no pending pointer: it can be in no wait
\* structure and in no ready queue, so nothing can resume it a second time.
RunningUnreferenced ==
  \A g \in Goroutine :
     fiber[g] \in {"new", "running", "finished"} => handle[g] = "none"

=============================================================================

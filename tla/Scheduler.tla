------------------------------- MODULE Scheduler -------------------------------
(***************************************************************************)
(* src/runtime/scheduler.cpp and src/runtime/goroutine.cpp: the worker     *)
(* threads, the ready queue, the timer heap, and the switch into and out   *)
(* of a goroutine's fiber.                                                 *)
(*                                                                         *)
(* A step is a critical section of mutex_ or timer_mutex_, or the code     *)
(* between two accesses to shared state.  The code of a goroutine is any   *)
(* sequence of calls into the runtime.  Wait structures outside the        *)
(* scheduler (channels, mutexes, wait groups, netpoller contexts) are the  *)
(* set "parked".  cv_ is not modelled: wait_for gives up after 10ms, so a  *)
(* worker always gets back to its loop, notified or not.                   *)
(***************************************************************************)
EXTENDS Naturals, Sequences, Queues

CONSTANTS
  Goroutine,     \* goroutines
  Worker,        \* worker threads
  NoGoroutine,   \* a null Goroutine::Ptr
  NoWorker,      \* nobody holds timer_mutex_
  Delay,         \* the durations passed to sleep and add_timer
  MaxTime        \* bound on the steady clock

ASSUME NoGoroutineAssumption == NoGoroutine \notin Goroutine
ASSUME NoWorkerAssumption == NoWorker \notin Worker
ASSUME TimeAssumption == MaxTime \in Nat /\ Delay \subseteq Nat

VARIABLES
  ready_queue,   \* ready_queue_
  timers,        \* timers_: [at, g, owner]; g is null for a callback timer
  timer_mutex,   \* the worker in check_timers, or NoWorker
  asof,          \* the "now" read by that worker
  adding,        \* the timer each thread has made and not inserted yet
  now,           \* the steady clock
  stop,          \* stop_
  pc,            \* where each worker is in worker_loop
  held,          \* its local g
  current,       \* its t_current_g
  top,           \* TRUE while its t_top_ctx holds the worker's own stack
  created,       \* goroutines made by go
  ctx,           \* goroutines whose ctx_ is not empty
  finished,      \* goroutines with finished_ set
  yielding,      \* goroutines that have registered and must now yield
  parked,        \* goroutines stored in a wait structure elsewhere
  deadline,      \* history: until when each goroutine has slept last
  before         \* history: <<g, h>> if both slept at once, g less long, and
                 \* neither has been taken from the ready queue since

vars == <<ready_queue, timers, timer_mutex, asof, adding, now, stop, pc, held,
          current, top, created, ctx, finished, yielding, parked, deadline,
          before>>

slept  == <<deadline, before>>
heap   == <<timers, timer_mutex, asof, adding, slept>>
env    == <<now, stop>>
local  == <<held, current, top>>
fibers == <<created, ctx, finished, yielding>>

Timer == [at : Nat, g : Goroutine \cup {NoGoroutine}, owner : Goroutine]

NoTimer == [at |-> 0, g |-> NoGoroutine, owner |-> NoGoroutine]

WorkerPC == {"check", "expire", "wait", "resume", "switch", "run", "back",
             "exited"}

TypeOK ==
  /\ ready_queue \in Seq(Goroutine)
  /\ timers \subseteq Timer
  /\ timer_mutex \in Worker \cup {NoWorker}
  /\ asof \in Nat
  /\ adding \in [Worker -> Timer \cup {NoTimer}]
  /\ now \in Nat
  /\ stop \in BOOLEAN
  /\ pc \in [Worker -> WorkerPC]
  /\ held \in [Worker -> Goroutine \cup {NoGoroutine}]
  /\ current \in [Worker -> Goroutine \cup {NoGoroutine}]
  /\ top \in [Worker -> BOOLEAN]
  /\ created \subseteq Goroutine
  /\ ctx \subseteq Goroutine
  /\ finished \subseteq Goroutine
  /\ yielding \subseteq Goroutine
  /\ parked \subseteq Goroutine
  /\ deadline \in [Goroutine -> Nat]
  /\ before \subseteq Goroutine \X Goroutine

Init ==
  /\ ready_queue = <<>>
  /\ timers = {}
  /\ timer_mutex = NoWorker
  /\ asof = 0
  /\ adding = [w \in Worker |-> NoTimer]
  /\ now = 0
  /\ stop = FALSE
  /\ pc = [w \in Worker |-> "check"]
  /\ held = [w \in Worker |-> NoGoroutine]
  /\ current = [w \in Worker |-> NoGoroutine]
  /\ top = [w \in Worker |-> FALSE]
  /\ created = {}
  /\ ctx = {}
  /\ finished = {}
  /\ yielding = {}
  /\ parked = {}
  /\ deadline = [g \in Goroutine |-> 0]
  /\ before = {}

Moves(w, from, to) == pc[w] = from /\ pc' = [pc EXCEPT ![w] = to]

push_ready(g) == ready_queue' = Append(ready_queue, g)

-----------------------------------------------------------------------------
(***************************************************************************)
(* check_timers: under timer_mutex_, read the clock once and pop every     *)
(* timer that has expired, the earliest first.                             *)
(***************************************************************************)

\* Faulty: the clock is not read again.
LockTimers_stale(w) ==
  /\ Moves(w, "check", "expire")
  /\ timer_mutex = NoWorker
  /\ timer_mutex' = w
  /\ UNCHANGED <<ready_queue, timers, asof, adding, slept, env, local, fibers,
                 parked>>

LockTimers(w) ==
  /\ Moves(w, "check", "expire")
  /\ timer_mutex = NoWorker
  /\ timer_mutex' = w
  /\ asof' = now
  /\ UNCHANGED <<ready_queue, timers, adding, slept, env, local, fibers,
                 parked>>

\* Faulty: any expired timer, not the earliest.
Due_unordered(t) == t.at <= asof

\* Faulty: the earliest timer, a tick too soon.
Due_early(t) == t.at <= asof + 1 /\ \A u \in timers : t.at <= u.at

\* timers_.top() is due: the heap's order puts the earliest timer on top.
Due(t) == t.at <= asof /\ \A u \in timers : t.at <= u.at

\* Faulty: the timer is not popped.
ExpireSleep_nopop(w, t) ==
  /\ pc[w] = "expire"
  /\ t \in timers
  /\ Due(t)
  /\ t.g # NoGoroutine
  /\ push_ready(t.g)
  /\ UNCHANGED <<heap, env, pc, local, fibers, parked>>

\* The timer of runtime::sleep: the sleeper goes back to the ready queue.
ExpireSleep(w, t) ==
  /\ pc[w] = "expire"
  /\ t \in timers
  /\ Due(t)
  /\ t.g # NoGoroutine
  /\ timers' = timers \ {t}
  /\ push_ready(t.g)
  /\ UNCHANGED <<timer_mutex, asof, adding, slept, env, pc, local, fibers,
                 parked>>

\* A timer with a callback, run by the worker itself: it may take one parked
\* goroutine out of its wait structure and push it, or wake nobody.
ExpireCallback(w, t) ==
  /\ pc[w] = "expire"
  /\ t \in timers
  /\ Due(t)
  /\ t.g = NoGoroutine
  /\ timers' = timers \ {t}
  /\ \/ \E g \in parked : parked' = parked \ {g} /\ push_ready(g)
     \/ UNCHANGED <<parked, ready_queue>>
  /\ UNCHANGED <<timer_mutex, asof, adding, slept, env, pc, local, fibers>>

UnlockTimers(w) ==
  /\ Moves(w, "expire", "wait")
  /\ ~\E t \in timers : Due(t)
  /\ timer_mutex' = NoWorker
  /\ UNCHANGED <<ready_queue, timers, asof, adding, slept, env, local, fibers,
                 parked>>

-----------------------------------------------------------------------------
(***************************************************************************)
(* The rest of worker_loop: one critical section of mutex_.                *)
(***************************************************************************)

\* The history of a goroutine that is taken from the queue.
Forget(g) == before' = {p \in before : g \notin {p[1], p[2]}}

\* Faulty: the newest goroutine is taken first.
Pop_newest(w) ==
  /\ Moves(w, "wait", "resume")
  /\ ready_queue # <<>>
  /\ held' = [held EXCEPT ![w] = ready_queue[Len(ready_queue)]]
  /\ ready_queue' = SubSeq(ready_queue, 1, Len(ready_queue) - 1)
  /\ Forget(held'[w])
  /\ UNCHANGED <<timers, timer_mutex, asof, adding, deadline, env, current, top,
                 fibers, parked>>

Pop(w) ==
  /\ Moves(w, "wait", "resume")
  /\ ready_queue # <<>>
  /\ held' = [held EXCEPT ![w] = Head(ready_queue)]
  /\ ready_queue' = Tail(ready_queue)
  /\ Forget(Head(ready_queue))
  /\ UNCHANGED <<timers, timer_mutex, asof, adding, deadline, env, current, top,
                 fibers, parked>>

WaitTimeout(w) ==
  /\ Moves(w, "wait", "check")
  /\ ready_queue = <<>>
  /\ ~stop
  /\ UNCHANGED <<ready_queue, heap, env, local, fibers, parked>>

Exit(w) ==
  /\ Moves(w, "wait", "exited")
  /\ stop
  /\ ready_queue = <<>>
  /\ UNCHANGED <<ready_queue, heap, env, local, fibers, parked>>

-----------------------------------------------------------------------------
(***************************************************************************)
(* Goroutine::resume.  The test and the switch are separate steps: nothing *)
(* but the single pointer to g keeps two workers from passing the test.    *)
(***************************************************************************)

Resumable(g) == g \notin finished /\ g \in ctx

\* Faulty: t_current_g is not set before the switch.
ResumeTest_unset(w) ==
  /\ Resumable(held[w])
  /\ Moves(w, "resume", "switch")
  /\ UNCHANGED <<ready_queue, heap, env, local, fibers, parked>>

ResumeTest(w) ==
  /\ Resumable(held[w])
  /\ Moves(w, "resume", "switch")
  /\ current' = [current EXCEPT ![w] = held[w]]
  /\ UNCHANGED <<ready_queue, heap, env, held, top, fibers, parked>>

\* resume() does nothing and the worker lets go of the pointer.
ResumeDrop(w) ==
  /\ ~Resumable(held[w])
  /\ Moves(w, "resume", "check")
  /\ held' = [held EXCEPT ![w] = NoGoroutine]
  /\ UNCHANGED <<ready_queue, heap, env, current, top, fibers, parked>>

\* Faulty: ctx_ is left as it was.
Switch_keeps(w) ==
  /\ Moves(w, "switch", "run")
  /\ top' = [top EXCEPT ![w] = TRUE]
  /\ UNCHANGED <<ready_queue, heap, env, held, current, fibers, parked>>

\* std::move(ctx_).resume(): ctx_ is emptied and the goroutine's side stores
\* the worker's stack in the worker's t_top_ctx.
Switch(w) ==
  /\ Moves(w, "switch", "run")
  /\ ctx' = ctx \ {held[w]}
  /\ top' = [top EXCEPT ![w] = TRUE]
  /\ UNCHANGED <<ready_queue, heap, env, held, current, created, finished,
                 yielding, parked>>

\* Back on the worker's stack: ctx_ receives the returned fiber, which is
\* empty when the task has returned, and t_current_g is cleared.
Back(w) ==
  /\ Moves(w, "back", "check")
  /\ ctx' = IF held[w] \in finished THEN ctx ELSE ctx \cup {held[w]}
  /\ yielding' = yielding \ {held[w]}
  /\ current' = [current EXCEPT ![w] = NoGoroutine]
  /\ held' = [held EXCEPT ![w] = NoGoroutine]
  /\ UNCHANGED <<ready_queue, heap, env, top, created, finished, parked>>

-----------------------------------------------------------------------------
(***************************************************************************)
(* The code of a goroutine, on worker w.                                   *)
(***************************************************************************)

Executes(w) ==
  pc[w] = "run" /\ current[w] \notin yielding /\ adding[w] = NoTimer

\* runtime::go, called by a goroutine or by the accept loop of the main thread.
go(g) ==
  /\ g \notin created
  /\ created' = created \cup {g}
  /\ ctx' = ctx \cup {g}
  /\ push_ready(g)
  /\ UNCHANGED <<heap, env, pc, local, finished, yielding, parked>>

\* The first line of add_timer: the clock is read, no lock is held.
ReadClock(w, g, ms) ==
  /\ Executes(w)
  /\ now + ms <= MaxTime
  /\ adding' = [adding EXCEPT ![w] =
                  [at |-> now + ms, g |-> g, owner |-> current[w]]]
  /\ UNCHANGED <<ready_queue, timers, timer_mutex, asof, slept, env, pc, local,
                 fibers, parked>>

\* runtime::sleep calls add_timer(ms, Goroutine::current()).
sleep(w, ms) == ReadClock(w, current[w], ms)

\* add_timer(ms, nullptr, cb); at most one pending per goroutine (a bound).
add_timer(w, ms) ==
  /\ \A t \in timers : t.owner # current[w]
  /\ ReadClock(w, NoGoroutine, ms)

\* The rest of add_timer, under timer_mutex.  A sleeper must now yield.
Insert(w) ==
  /\ adding[w] # NoTimer
  /\ timer_mutex = NoWorker
  /\ timers' = timers \cup {adding[w]}
  /\ adding' = [adding EXCEPT ![w] = NoTimer]
  /\ IF adding[w].g = NoGoroutine
     THEN UNCHANGED <<yielding, slept>>
     ELSE /\ yielding' = yielding \cup {adding[w].g}
          /\ deadline' = [deadline EXCEPT ![adding[w].g] = adding[w].at]
          /\ before' = before \cup
               {p \in Goroutine \X Goroutine : \E t, u \in timers' :
                  t.g = p[1] /\ u.g = p[2] /\ t.at < u.at}
  /\ UNCHANGED <<ready_queue, timer_mutex, asof, env, pc, local, created, ctx,
                 finished, parked>>

\* Goroutine::current() is stored in a channel, mutex, wait group or netpoller
\* context; Goroutine::yield() comes next.
Park(w) ==
  /\ Executes(w)
  /\ parked' = parked \cup {current[w]}
  /\ yielding' = yielding \cup {current[w]}
  /\ UNCHANGED <<ready_queue, heap, env, pc, local, created, ctx, finished>>

\* A parked goroutine is taken out of its wait structure and pushed, by another
\* goroutine or by the netpoller's thread.
Wake(g) ==
  /\ g \in parked
  /\ parked' = parked \ {g}
  /\ push_ready(g)
  /\ UNCHANGED <<heap, env, pc, local, fibers>>

\* Goroutine::yield(): std::move(t_top_ctx).resume().
Yield(w) ==
  /\ current[w] \in yielding
  /\ top[w]
  /\ Moves(w, "run", "back")
  /\ top' = [top EXCEPT ![w] = FALSE]
  /\ UNCHANGED <<ready_queue, heap, env, held, current, fibers, parked>>

\* Faulty: finished_ is not set.
Finish_unset(w) ==
  /\ Executes(w)
  /\ top[w]
  /\ Moves(w, "run", "back")
  /\ current' = [current EXCEPT ![w] = NoGoroutine]
  /\ top' = [top EXCEPT ![w] = FALSE]
  /\ UNCHANGED <<ready_queue, heap, env, held, fibers, parked>>

\* The task returns: t_current_g is cleared, finished_ set, and the fiber
\* returns to the worker's stack.
Finish(w) ==
  /\ Executes(w)
  /\ top[w]
  /\ Moves(w, "run", "back")
  /\ finished' = finished \cup {held[w]}
  /\ current' = [current EXCEPT ![w] = NoGoroutine]
  /\ top' = [top EXCEPT ![w] = FALSE]
  /\ UNCHANGED <<ready_queue, heap, env, held, created, ctx, yielding, parked>>

-----------------------------------------------------------------------------
Tick ==
  /\ now < MaxTime
  /\ now' = now + 1
  /\ UNCHANGED <<ready_queue, heap, stop, pc, local, fibers, parked>>

\* ~Scheduler sets stop_ and then joins the workers.
Stop ==
  /\ ~stop
  /\ stop' = TRUE
  /\ UNCHANGED <<ready_queue, heap, now, pc, local, fibers, parked>>

CheckTimers(w) ==
  \/ LockTimers(w)
  \/ \E t \in timers : ExpireSleep(w, t) \/ ExpireCallback(w, t)
  \/ UnlockTimers(w)

resume(w) == ResumeTest(w) \/ ResumeDrop(w) \/ Switch(w) \/ Back(w)

worker_loop(w) ==
  CheckTimers(w) \/ Pop(w) \/ WaitTimeout(w) \/ Exit(w) \/ resume(w)

Blocks(w) == (\E ms \in Delay : sleep(w, ms)) \/ Park(w) \/ Finish(w)

Next ==
  \/ \E w \in Worker : worker_loop(w) \/ Blocks(w) \/ Insert(w) \/ Yield(w)
  \/ \E w \in Worker, ms \in Delay : add_timer(w, ms)
  \/ \E g \in Goroutine : go(g) \/ Wake(g)
  \/ Tick
  \/ Stop

(***************************************************************************)
(* Workers are operating-system threads, the clock advances, and the code  *)
(* of a goroutine blocks or returns after finitely many steps: nothing     *)
(* preempts it.  Nothing is assumed of go, Wake or Stop.                   *)
(***************************************************************************)
Fairness ==
  /\ \A w \in Worker : /\ WF_vars(worker_loop(w))
                       /\ WF_vars(Insert(w) \/ Yield(w))
                       /\ WF_vars(Blocks(w))
  /\ WF_vars(Tick)

Spec == Init /\ [][Next]_vars /\ Fairness

-----------------------------------------------------------------------------
(***************************************************************************)
(* Properties.                                                             *)
(***************************************************************************)
Queued(g) == In(ready_queue, g)
InTimers(g) == \E t \in timers : t.g = g
HeldBy(w, g) == pc[w] \in {"resume", "switch"} /\ held[w] = g
OnStack(w, g) == pc[w] \in {"run", "back"} /\ held[w] = g
Registered(g) == g \in parked \/ InTimers(g)
Ready(g) == Queued(g) \/ \E w \in Worker : HeldBy(w, g)
Runs(g) == g \notin yielding /\ \E w \in Worker : OnStack(w, g)

\* A goroutine's stack is never entered by two workers at once, though the
\* test in resume() and the switch are not atomic.
OneWorkerPerGoroutine ==
  \A v, w \in Worker, g \in Goroutine :
     OnStack(v, g) /\ (OnStack(w, g) \/ (pc[w] = "switch" /\ held[w] = g))
        => v = w

\* Goroutine::current() names the goroutine whose code the thread executes: it
\* is what channels, mutexes and timers store to find the goroutine again.
CurrentIsSelf ==
  \A w \in Worker : pc[w] = "run" => current[w] = held[w] /\ top[w]

\* runtime::sleep keeps its promise from end to end.  A goroutine does not run
\* again before its time.  Of two that are asleep at once, the one with the
\* earlier deadline is the first to be taken from the ready queue, whoever checks
\* the timers and takes them.  (Not so if it is inserted when the other has left
\* the heap: add_timer reads the clock before it has the lock.)
SleepersInOrder ==
  /\ [](\A g \in Goroutine : Runs(g) => deadline[g] <= now)
  /\ [][\A g, h \in Goroutine :
          Queued(h) /\ ~Queued(h)' => <<g, h>> \notin before]_vars

\* The detailed scheduler implements the contract that the blocking
\* primitives are built on: see Goroutines.tla.
fiberOf(g) ==
  IF g \notin created THEN "new"
  ELSE IF g \in finished THEN "finished"
  ELSE IF g \in ctx THEN "suspended"
  ELSE IF g \in yielding THEN "parking"
  ELSE "running"

handleOf(g) ==
  IF Registered(g) THEN "registered"
  ELSE IF Ready(g) THEN "ready"
  ELSE "none"

Contract == INSTANCE Goroutines WITH
  fiber <- [g \in Goroutine |-> fiberOf(g)],
  handle <- [g \in Goroutine |-> handleOf(g)]

ImplementsContract == Contract!RuntimeSpec

\* A goroutine whose code runs is in no wait structure, timer or queue: no
\* stale pointer to it can resume it a second time.
SingleReference == Contract!RunningUnreferenced

\* A goroutine's code is executed once: by one worker, and nothing is left that
\* could start it on another.
ExecutedOnce == OneWorkerPerGoroutine /\ SingleReference

AllExited == \A w \in Worker : pc[w] = "exited"

\* The FIFO queue, the timers and the workers' loop starve nobody: a goroutine
\* in the ready queue or asleep is run, unless the wake-up came while it was
\* still on its way to yield() and was spent by an empty resume().
BlockedGoroutineRuns ==
  \A g \in Goroutine :
     Queued(g) \/ InTimers(g) ~> Runs(g) \/ Contract!Lost(g) \/ AllExited

=============================================================================

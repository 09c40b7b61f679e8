------------------------------- MODULE Netpoller -------------------------------
(***************************************************************************)
(* src/runtime/netpoller.cpp and its callers: web_read (request.cpp),      *)
(* web_write (web_context.cpp) and wait_io (mysql_driver.cpp).             *)
(*                                                                         *)
(* Workers store the waiting goroutine in contexts_[fd] and register a     *)
(* one-shot event with kqueue; the thread of poll_loop takes the goroutine *)
(* out and pushes it.  watch_read_web holds mtx_ while it stores, watch    *)
(* holds lock_, and both look contexts_[fd] up again with no lock.         *)
(*                                                                         *)
(* An access to the map takes two steps, so that accesses can overlap.  An *)
(* overlap with an insertion is undefined behaviour: the model stops.      *)
(***************************************************************************)
EXTENDS Goroutines

CONSTANTS
  Fd,            \* the file descriptors
  NoFd,          \* not a descriptor
  NoGoroutine,   \* a null pointer
  Shareable      \* bound: descriptors that two goroutines may use at once

ASSUME NullAssumption == NoFd \notin Fd /\ NoGoroutine \notin Goroutine
ASSUME ShareableAssumption == Shareable \subseteq Fd

VARIABLES
  known,       \* the keys of contexts_, which are never erased
  waiting_g,   \* contexts_[fd]->waiting_g
  armed,       \* the events registered with kqueue: descriptor and filter
  file,        \* the descriptor each goroutine works on
  call,        \* the watch call each goroutine is in
  pc,          \* where each goroutine is in it
  event,       \* poll_loop: the event in hand
  g_to_wake,   \* poll_loop: the local of that name
  undefined,   \* undefined behaviour has happened
  shared       \* history: descriptors that two goroutines have used at once

marks == <<undefined, shared>>
nvars == <<known, waiting_g, armed, file, call, pc, event, g_to_wake, marks>>
poller == <<event, g_to_wake>>
vars == <<gvars, nvars>>

\* "readWeb": watch_read_web.  "read", "write": watch with that filter.
Calls == {"readWeb", "read", "write"}

Filter(c) == IF c = "write" THEN "write" ELSE "read"

Events == Fd \X {"read", "write"}

NoEvent == <<NoFd, "read">>

\* "store": inside the critical section.  "lookup": behind it.  "kevent": the
\* pointer found, the event not yet registered.  "yield": all done.  "unwatched":
\* all done, but kevent() has failed, and the caller yields all the same.
WatchPC == {"io", "store", "lookup", "kevent", "yield", "unwatched"}

\* The goroutine waits, or is about to.
Waits(g) == pc[g] \in {"yield", "unwatched"}

TypeOK ==
  /\ RuntimeTypeOK
  /\ known \subseteq Fd
  /\ waiting_g \in [Fd -> Goroutine \cup {NoGoroutine}]
  /\ armed \subseteq Events
  /\ file \in [Goroutine -> Fd \cup {NoFd}]
  /\ call \in [Goroutine -> Calls]
  /\ pc \in [Goroutine -> WatchPC]
  /\ event \in Events \cup {NoEvent}
  /\ g_to_wake \in Goroutine \cup {NoGoroutine}
  /\ undefined \in BOOLEAN
  /\ shared \subseteq Fd

Init ==
  /\ RuntimeInit
  /\ known = {}
  /\ waiting_g = [f \in Fd |-> NoGoroutine]
  /\ armed = {}
  /\ file = [g \in Goroutine |-> NoFd]
  /\ call = [g \in Goroutine |-> "read"]
  /\ pc = [g \in Goroutine |-> "io"]
  /\ event = NoEvent
  /\ g_to_wake = NoGoroutine
  /\ undefined = FALSE
  /\ shared = {}

-----------------------------------------------------------------------------
Web(g) == call[g] = "readWeb"

\* The lock a goroutine in the critical section holds is the one that its
\* function takes.
Free(web) == ~\E g \in Goroutine : pc[g] = "store" /\ Web(g) = web

Inserting(g) == pc[g] = "store" /\ file[g] \notin known

\* Accesses to the map, other than h's own.
Accessing(h) == {g \in Goroutine \ {h} : pc[g] \in {"store", "lookup"}}

\* An access of h that begins now overlaps another, and one of them inserts.
Overlap(h, inserts) ==
  \E g \in Accessing(h) : inserts \/ Inserting(g)

\* Nothing is said of what happens after undefined behaviour.
Defined == ~undefined

Moves(g, from, to) ==
  Defined /\ pc[g] = from /\ pc' = [pc EXCEPT ![g] = to]

\* read(), write() or the database client would block: the call takes its lock
\* and searches the map.
Blocks(g, c) ==
  /\ Running(g)
  /\ Moves(g, "io", "store")
  /\ Free(c = "readWeb")
  /\ call' = [call EXCEPT ![g] = c]
  /\ undefined' = Overlap(g, file[g] \notin known)
  /\ UNCHANGED <<gvars, known, waiting_g, armed, file, poller, shared>>

\* The new value of waiting_g; a goroutine stored there before is let go.
Replace(f, g) ==
  /\ waiting_g' = [waiting_g EXCEPT ![f] = g]
  /\ fiber' = [fiber EXCEPT ![g] = "parking"]
  /\ handle' = [h \in Goroutine |->
        IF h = g THEN "registered"
        ELSE IF h = waiting_g[f] THEN "none" ELSE handle[h]]

\* The critical section ends, and contexts_[fd] is searched once more.
Store(g) ==
  /\ Moves(g, "store", "lookup")
  /\ known' = known \cup {file[g]}
  /\ Replace(file[g], g)
  /\ UNCHANGED <<armed, file, call, poller, marks>>

Lookup(g) ==
  /\ Moves(g, "lookup", "kevent")
  /\ UNCHANGED <<gvars, known, waiting_g, armed, file, call, poller, marks>>

\* Faulty: the event is not enabled.
RegisterEvent_disabled(g) ==
  /\ Moves(g, "kevent", "yield")
  /\ UNCHANGED <<gvars, known, waiting_g, armed, file, call, poller, marks>>

\* Faulty: registered for reading whatever the caller waits for.
RegisterEvent_read(g) ==
  /\ Moves(g, "kevent", "yield")
  /\ armed' = armed \cup {<<file[g], "read">>}
  /\ UNCHANGED <<gvars, known, waiting_g, file, call, poller, marks>>

\* kevent(EV_ADD | EV_ENABLE | EV_ONESHOT).
RegisterEvent(g) ==
  /\ Moves(g, "kevent", "yield")
  /\ armed' = armed \cup {<<file[g], Filter(call[g])>>}
  /\ UNCHANGED <<gvars, known, waiting_g, file, call, poller, marks>>

\* kevent() fails.  watch_read_web ignores that, and watch prints it: the
\* goroutine stays in its context, and nothing is registered.
RegisterFails(g) ==
  /\ Moves(g, "kevent", "unwatched")
  /\ UNCHANGED <<gvars, known, waiting_g, armed, file, call, poller, marks>>

-----------------------------------------------------------------------------
(***************************************************************************)
(* poll_loop.                                                              *)
(***************************************************************************)

\* kevent returns an event; one-shot events are removed as they are returned.
EventArrives(e) ==
  /\ Defined
  /\ event = NoEvent
  /\ e \in armed
  /\ armed' = armed \ {e}
  /\ event' = e
  /\ UNCHANGED <<gvars, known, waiting_g, file, call, pc, g_to_wake,
                 marks>>

\* The critical section of mtx_.  It does not keep watch() away, which stores
\* under lock_.
TakeWaiter ==
  /\ Defined
  /\ event # NoEvent /\ g_to_wake = NoGoroutine
  /\ Free(TRUE)
  /\ undefined' = \E g \in Goroutine : pc[g] = "store" /\ file[g] = event[1]
  /\ g_to_wake' = waiting_g[event[1]]
  /\ waiting_g' = [waiting_g EXCEPT ![event[1]] = NoGoroutine]
  /\ event' = IF g_to_wake' = NoGoroutine THEN NoEvent ELSE event
  /\ UNCHANGED <<gvars, known, armed, file, call, pc, shared>>

\* Faulty: g_to_wake is pushed again for the next event.
WakeWaiter_again ==
  /\ Defined
  /\ g_to_wake # NoGoroutine
  /\ PushReady(g_to_wake)
  /\ UNCHANGED <<fiber, nvars>>

\* Faulty: push_ready is left out.
WakeWaiter_forgets ==
  /\ Defined
  /\ g_to_wake # NoGoroutine
  /\ g_to_wake' = NoGoroutine
  /\ event' = NoEvent
  /\ UNCHANGED <<gvars, known, waiting_g, armed, file, call, pc, marks>>

\* push_ready(g_to_wake), outside mtx_.
WakeWaiter ==
  /\ Defined
  /\ g_to_wake # NoGoroutine
  /\ PushReady(g_to_wake)
  /\ g_to_wake' = NoGoroutine
  /\ event' = NoEvent
  /\ UNCHANGED <<fiber, known, waiting_g, armed, file, call, pc, marks>>

-----------------------------------------------------------------------------
\* A goroutine begins to work on a descriptor: a new connection, or a goroutine
\* that the timeout middleware spawns, which shares that of its request.
Open(g, f) ==
  /\ Defined
  /\ Go(g)
  /\ f \in Shareable \/ \A h \in Goroutine : file[h] # f
  /\ file' = [file EXCEPT ![g] = f]
  /\ shared' = IF \E h \in Goroutine : file[h] = f THEN shared \cup {f} ELSE shared
  /\ UNCHANGED <<known, waiting_g, armed, call, pc, poller, undefined>>

\* close(): kqueue drops the events of a closed descriptor, contexts_ keeps its
\* entry.  The request goroutine closes though another may still use it.
Close(g) ==
  /\ Defined
  /\ pc[g] = "io"
  /\ Finish(g)
  /\ file' = [file EXCEPT ![g] = NoFd]
  /\ armed' = {e \in armed : e[1] # file[g]}
  /\ UNCHANGED <<known, waiting_g, call, pc, event, g_to_wake, marks>>

\* The runtime: a goroutine that is resumed tries its read or write again.
Schedule(g) ==
  /\ Defined
  /\ Resume(g)
  /\ pc' = [pc EXCEPT ![g] = IF Resumable(g) THEN "io" ELSE @]
  /\ UNCHANGED <<known, waiting_g, armed, file, call, poller, marks>>

Suspend(g) == Defined /\ Waits(g) /\ Yield(g) /\ UNCHANGED nvars

Watch(g) == Store(g) \/ Lookup(g) \/ RegisterEvent(g) \/ RegisterFails(g)

Poll == TakeWaiter \/ WakeWaiter

Next ==
  \/ \E g \in Goroutine :
       \/ \E c \in Calls : Blocks(g, c)
       \/ Watch(g) \/ Close(g) \/ Schedule(g) \/ Suspend(g)
       \/ \E f \in Fd : Open(g, f)
  \/ \E e \in Events : EventArrives(e)
  \/ Poll

\* Threads run.  Nothing is assumed of the peers: an event may never arrive.
Fairness ==
  /\ WF_vars(Poll)
  /\ \A g \in Goroutine : WF_vars(Watch(g) \/ Schedule(g) \/ Suspend(g))

Spec == Init /\ [][Next]_vars /\ Fairness

-----------------------------------------------------------------------------
(***************************************************************************)
(* Properties.                                                             *)
(***************************************************************************)

\* A goroutine that waits for I/O has an event registered that will find it,
\* unless poll_loop already holds one: no wake-up falls between the storing of
\* the goroutine and the registration, or on an entry that outlives its fd.
\* (Not so if kevent() has failed: the goroutine waits for an event that nobody
\* has registered.  And of two goroutines that share a descriptor, one can take
\* the other's event away.)
WaiterHasEvent ==
  \A f \in Fd \ shared :
     LET g == waiting_g[f]
     IN  g # NoGoroutine /\ pc[g] = "yield" =>
           event[1] = f \/ \E e \in armed : e[1] = f

\* watch() and poll_loop use the runtime as its contract allows: a goroutine is
\* pushed once for each time it waits, and none is dropped while it waits, until
\* two of them share a descriptor and one replaces the other in its context.
ObeysContract == RuntimeInit /\ [][RuntimeNext \/ shared # {}]_gvars

\* A goroutine that poll_loop finds in the context of an event runs again,
\* unless the wake-up finds it still on its worker, or another goroutine has
\* replaced it.
EventWakesWaiter ==
  \A g \in Goroutine :
     /\ event # NoEvent /\ g_to_wake = NoGoroutine
     /\ waiting_g[event[1]] = g /\ Waits(g)
     ~> pc[g] = "io" \/ Lost(g) \/ undefined

\* "Once woken, writing can go on" (the comment in web_write): a goroutine is
\* woken by an event of the kind it waits for, on a descriptor it has for
\* itself.
WokenMeansReady ==
  [][\A g \in Goroutine :
       g_to_wake' = g /\ g_to_wake # g /\ event[1] \notin shared =>
         event[2] = Filter(call[g])]_vars

=============================================================================

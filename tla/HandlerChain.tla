------------------------------ MODULE HandlerChain ------------------------------
(***************************************************************************)
(* One request on its way through the chain of handlers: the loop shared   *)
(* by nested calls of Next() (web_context.h), the middlewares of gee.h and *)
(* main.cpp, send_response, and the task around them (gee.cpp).            *)
(*                                                                         *)
(* The timeout middleware moves the rest of the chain to a goroutine of    *)
(* its own, which shares index_ and the response with the one that waits.  *)
(* Each thread of control is a stack of calls, innermost first.  index_ is *)
(* a plain int, so a step is one access to it: index_++ is a load and a    *)
(* store, and the loop reads it once for its test and once for the call.   *)
(* The channel between the two is taken to work (see Channel.tla).         *)
(***************************************************************************)
EXTENDS Integers, Sequences

CONSTANTS
  Middleware,   \* the kinds of handler in the chain, a subset of Kind
  MaxLen        \* bound on the length of the chain

\* "recovery", "logger", "auth", "timeout": the middlewares.  "plain" returns,
\* "answers" sends and may throw before or after it, "hangs" never returns.
Kind == {"recovery", "logger", "auth", "timeout", "plain", "answers", "hangs"}

ASSUME KindAssumption == Middleware \subseteq Kind /\ MaxLen \in Nat

Thread == {"task", "spawned"}

VARIABLES
  chain,       \* handlers_
  index,       \* index_
  loaded,      \* what each thread loaded in its index_++
  stack,       \* stack[t]: the calls thread t is in
  data,        \* state, message and body_buffer of res_: who has set them
  sent,        \* res_.is_sent
  responses,   \* the responses written: the data each was built from
  winner,      \* the buffer of winner_ch
  timer,       \* the timer of the timeout middleware
  closed,      \* the task has destroyed the WebContext and closed the socket
  crashed,     \* the process is gone
  first,       \* history: who has set the data of the response first
  entered,     \* history: how often each handler was entered
  aborted,     \* history: Abort() was called
  overtaken    \* history: the timeout middleware went on without waiting for
               \* the goroutine it started

response == <<data, sent, responses, first>>
race     == <<winner, timer>>
ends     == <<closed, crashed>>
history  == <<entered, aborted, overtaken>>
vars == <<chain, index, loaded, stack, response, race, ends, history>>

\* In the loop of Next(), "load" and "store": the two halves of index_++;
\* "test" and "call": the two other reads of index_.  "prepare", "send": at
\* JSON() and at its send_response().  "write": the test of is_sent has passed.
\* "abort": what follows the send in the middlewares that then abort, and the
\* close in the task.
Frame == [of : Kind \cup {"loop"} \cup Thread,
          at : {"enter", "load", "store", "test", "call", "wait", "prepare",
                "send", "write", "abort", "after"}]

\* Whose data is in the response; "none" is what its constructor leaves.
Author == Kind \cup Thread \cup {"none"}

TypeOK ==
  /\ chain \in Seq(Middleware)
  /\ index \in Nat \cup {-1}
  /\ loaded \in [Thread -> Nat \cup {-1}]
  /\ stack \in [Thread -> Seq(Frame)]
  /\ data \in Author /\ first \in Author
  /\ sent \in BOOLEAN
  /\ responses \in Seq(Author)
  /\ winner \in Seq({1, 2}) /\ Len(winner) <= 1
  /\ timer \in {"off", "armed", "fired"}
  /\ closed \in BOOLEAN
  /\ crashed \in BOOLEAN
  /\ entered \in [1..Len(chain) -> Nat]
  /\ aborted \in BOOLEAN
  /\ overtaken \in BOOLEAN

\* Chains begin with Recovery, which Engine's constructor installs; a chain has
\* at most one timeout (a bound).
Chains ==
  {c \in UNION {[1..n -> Middleware] : n \in 1..MaxLen} :
     /\ c[1] = "recovery"
     /\ \A i, j \in DOMAIN c : c[i] = "timeout" /\ c[j] = "timeout" => i = j}

Call(name) == [of |-> name, at |-> "enter"]

Init ==
  /\ chain \in Chains
  /\ index = -1
  /\ loaded = [t \in Thread |-> -1]
  /\ stack = [t \in Thread |-> IF t = "task" THEN <<Call(t)>> ELSE <<>>]
  /\ data = "none" /\ first = "none"
  /\ sent = FALSE
  /\ responses = <<>>
  /\ winner = <<>>
  /\ timer = "off"
  /\ closed = FALSE
  /\ crashed = FALSE
  /\ entered = [i \in 1..Len(chain) |-> 0]
  /\ aborted = FALSE
  /\ overtaken = FALSE

\* The innermost call of thread t is one of names, at the given place.  Nothing
\* is said of what a thread does to a context that is destroyed.
At(t, names, place) ==
  /\ ~closed /\ ~crashed
  /\ stack[t] # <<>>
  /\ Head(stack[t]).of \in names
  /\ Head(stack[t]).at = place

Moves(t, place) ==
  stack' = [stack EXCEPT ![t] = <<[Head(@) EXCEPT !.at = place]>> \o Tail(@)]

Pops(t) == stack' = [stack EXCEPT ![t] = Tail(@)]

-----------------------------------------------------------------------------
\* Next(), called by the task and by the handlers that pass the request on.
Next_(t) ==
  /\ At(t, {"task", "spawned", "recovery", "logger", "auth"}, "enter")
  /\ stack' = [stack EXCEPT ![t] =
       <<[of |-> "loop", at |-> "load"], [Head(@) EXCEPT !.at = "after"]>>
          \o Tail(@)]
  /\ UNCHANGED <<chain, index, loaded, response, race, ends, history>>

\* index_++, at the beginning of Next() and after each handler.
Loads(t) ==
  /\ At(t, {"loop"}, "load")
  /\ loaded' = [loaded EXCEPT ![t] = index]
  /\ Moves(t, "store")
  /\ UNCHANGED <<chain, index, response, race, ends, history>>

\* Faulty: only the first Next() advances, a nested one begins at its caller.
Advance_not(i) == IF i < 0 THEN 0 ELSE i

Advance(i) == i + 1

Stores(t) ==
  /\ At(t, {"loop"}, "store")
  /\ index' = Advance(loaded[t])
  /\ Moves(t, "test")
  /\ UNCHANGED <<chain, loaded, response, race, ends, history>>

LoopTests(t) ==
  /\ At(t, {"loop"}, "test")
  /\ IF index < Len(chain) THEN Moves(t, "call") ELSE Pops(t)
  /\ UNCHANGED <<chain, index, loaded, response, race, ends, history>>

\* handlers_[index_](this): undefined if index_ was moved past the end since
\* the test.
LoopCalls(t) ==
  /\ At(t, {"loop"}, "call")
  /\ IF index < Len(chain)
     THEN /\ stack' = [stack EXCEPT ![t] =
                <<Call(chain[index + 1]), [Head(@) EXCEPT !.at = "load"]>>
                   \o Tail(@)]
          /\ entered' = [entered EXCEPT ![index + 1] = @ + 1]
          /\ UNCHANGED crashed
     ELSE crashed' = TRUE /\ UNCHANGED <<stack, entered>>
  /\ UNCHANGED <<chain, index, loaded, response, race, closed, aborted, overtaken>>

\* A handler returns to the loop.
Returns(t) ==
  /\ At(t, Kind, "after") \/ At(t, {"plain"}, "enter")
  /\ Pops(t)
  /\ UNCHANGED <<chain, index, loaded, response, race, ends, history>>

\* A handler that sends; the auth middleware when it rejects.
Answers(t) ==
  /\ At(t, {"answers", "auth"}, "enter")
  /\ Moves(t, "prepare")
  /\ UNCHANGED <<chain, index, loaded, response, race, ends, history>>

\* An exception, for example of JSON() for a malformed fragment, goes to the
\* nearest Recovery of its thread, which sends.  In the spawned goroutine there
\* may be none: it leaves the fiber's function.
Throws(t) ==
  /\ At(t, {"answers"}, "enter") \/ At(t, {"answers"}, "after")
  /\ LET catching == {i \in DOMAIN stack[t] : stack[t][i].of = "recovery"}
     IN  IF catching = {}
         THEN crashed' = TRUE /\ UNCHANGED stack
         ELSE /\ \E i \in catching :
                   /\ \A j \in catching : i <= j
                   /\ stack' = [stack EXCEPT ![t] =
                        <<[of |-> "recovery", at |-> "prepare"]>>
                           \o SubSeq(@, i + 1, Len(@))]
              /\ UNCHANGED crashed
  /\ UNCHANGED <<chain, index, loaded, response, race, closed, history>>

-----------------------------------------------------------------------------
AfterSend(name) ==
  IF name \in {"auth", "timeout", "task"} THEN "abort" ELSE "after"

\* JSON(): set_raw_data, also when a response was sent before.
Prepares(t) ==
  /\ At(t, Kind \cup Thread, "prepare")
  /\ data' = Head(stack[t]).of
  /\ first' = IF first = "none" THEN data' ELSE first
  /\ Moves(t, "send")
  /\ UNCHANGED <<chain, index, loaded, sent, responses, race, ends, history>>

\* Faulty: no test of is_sent.
SendTests_never(t) ==
  /\ At(t, Kind \cup Thread, "send")
  /\ Moves(t, "write")
  /\ responses' = Append(responses, data)
  /\ UNCHANGED <<chain, index, loaded, data, sent, first, race, ends, history>>

\* send_response: the test of is_sent, the packet, and the write, in which the
\* goroutine may be suspended.
SendTests(t) ==
  /\ At(t, Kind \cup Thread, "send")
  /\ IF sent
     THEN Moves(t, AfterSend(Head(stack[t]).of)) /\ UNCHANGED responses
     ELSE Moves(t, "write") /\ responses' = Append(responses, data)
  /\ UNCHANGED <<chain, index, loaded, data, sent, first, race, ends, history>>

\* send_response: is_sent is set when the write is over, or has failed.
SendDone(t) ==
  /\ At(t, Kind \cup Thread, "write")
  /\ sent' = TRUE
  /\ Moves(t, AfterSend(Head(stack[t]).of))
  /\ UNCHANGED <<chain, index, loaded, data, responses, first, race, ends, history>>

\* Faulty: Abort() does not move index_.
AbortIndex_not == index

\* Abort() moves index_ to the end.
AbortIndex == Len(chain)

Aborts(t) ==
  /\ At(t, {"auth", "timeout"}, "abort")
  /\ index' = AbortIndex
  /\ aborted' = TRUE
  /\ Moves(t, "after")
  /\ UNCHANGED <<chain, loaded, response, race, ends, entered, overtaken>>

-----------------------------------------------------------------------------
(***************************************************************************)
(* The timeout middleware.                                                 *)
(***************************************************************************)

Spawns(t) ==
  /\ At(t, {"timeout"}, "enter")
  /\ stack' = [stack EXCEPT
       ![t] = <<[Head(@) EXCEPT !.at = "wait"]>> \o Tail(@),
       !["spawned"] = <<Call("spawned")>>]
  /\ timer' = "armed"
  /\ UNCHANGED <<chain, index, loaded, response, winner, ends, history>>

\* winner_ch->push(1), which touches the channel only; it waits for room.
SpawnedDone ==
  /\ ~crashed
  /\ stack["spawned"] = <<[of |-> "spawned", at |-> "after"]>>
  /\ winner = <<>>
  /\ winner' = <<1>>
  /\ Pops("spawned")
  /\ UNCHANGED <<chain, index, loaded, response, timer, ends, history>>

\* Faulty: the callback is lost.
TimerFires_lost ==
  /\ ~crashed
  /\ timer = "armed"
  /\ timer' = "fired"
  /\ UNCHANGED <<chain, index, loaded, stack, response, winner, ends, history>>

\* winner_ch->push(2), by a worker that is in no goroutine: a full channel
\* makes it call Goroutine::yield() with nothing to switch to.
TimerFires ==
  /\ ~crashed
  /\ timer = "armed"
  /\ timer' = "fired"
  /\ IF winner = <<>> THEN winner' = <<2>> /\ UNCHANGED crashed
     ELSE crashed' = TRUE /\ UNCHANGED winner
  /\ UNCHANGED <<chain, index, loaded, stack, response, closed, history>>

\* winner_ch->pop(), and the test of the result and of is_aborted().
Decides(t) ==
  /\ At(t, {"timeout"}, "wait")
  /\ winner # <<>>
  /\ winner' = <<>>
  /\ Moves(t, IF Head(winner) = 2 /\ index < Len(chain) THEN "prepare"
              ELSE "after")
  /\ overtaken' = (overtaken \/ Head(winner) = 2)
  /\ UNCHANGED <<chain, index, loaded, response, timer, ends, entered, aborted>>

-----------------------------------------------------------------------------
(***************************************************************************)
(* handle_http_task.                                                       *)
(***************************************************************************)

\* parse() returns false: nothing is sent.
Rejects ==
  /\ At("task", {"task"}, "enter")
  /\ Moves("task", "abort")
  /\ UNCHANGED <<chain, index, loaded, response, race, ends, history>>

\* Faulty: no default response.
Defaults_not ==
  /\ At("task", {"task"}, "after")
  /\ Moves("task", "abort")
  /\ UNCHANGED <<chain, index, loaded, response, race, ends, history>>

\* The default response, unless one was sent; also that of the catch clause,
\* for an exception before the chain is entered.
Defaults ==
  /\ At("task", {"task"}, "after") \/ At("task", {"task"}, "enter")
  /\ Moves("task", IF sent THEN "abort" ELSE "prepare")
  /\ UNCHANGED <<chain, index, loaded, response, race, ends, history>>

Closes ==
  /\ At("task", {"task"}, "abort")
  /\ Pops("task")
  /\ closed' = TRUE
  /\ UNCHANGED <<chain, index, loaded, response, race, crashed, history>>

Step(t) ==
  \/ Next_(t) \/ Loads(t) \/ Stores(t) \/ LoopTests(t) \/ LoopCalls(t)
  \/ Returns(t) \/ Answers(t) \/ Throws(t) \/ Prepares(t) \/ SendTests(t)
  \/ SendDone(t) \/ Aborts(t) \/ Spawns(t) \/ Decides(t)

Task == Step("task") \/ Rejects \/ Defaults \/ Closes

Next == Task \/ Step("spawned") \/ SpawnedDone \/ TimerFires

\* Goroutines are scheduled and the timer expires; a handler that hangs has no
\* step, so nothing is assumed of it.
Fairness ==
  /\ WF_vars(Task)
  /\ WF_vars(Step("spawned"))
  /\ WF_vars(SpawnedDone)
  /\ WF_vars(TimerFires)

Spec == Init /\ [][Next]_vars /\ Fairness

-----------------------------------------------------------------------------
(***************************************************************************)
(* Properties.                                                             *)
(***************************************************************************)

\* However calls of Next() are nested, moved to another goroutine, aborted or
\* thrown through, no handler is entered twice: until the timeout strikes, at
\* most one of the two goroutines is in the chain.
EachHandlerOnce == ~overtaken => \A i \in DOMAIN entered : entered[i] <= 1

\* "Keep the handlers that follow from running" (the comment in the auth
\* middleware): after Abort() no handler is entered, until the timeout strikes.
AbortStopsChain == [][aborted /\ ~overtaken => entered' = entered]_vars

\* A request that was parsed is answered exactly once, with the data of whoever
\* has answered first: the handler, the middleware, Recovery or the default.
\* What others set later, a Recovery after an exception behind the answer, does
\* not get out.  Unless the timeout strikes.
AnsweredOnce == closed /\ index >= 0 /\ ~overtaken => responses = <<first>>

\* The request is answered in the end, if a timeout guards the handlers that
\* may hang.  A crash of the process counts as an end: neither the timer's push on a
\* full channel nor an exception in the spawned goroutine refutes this.
Guarded ==
  \A i \in DOMAIN chain : chain[i] = "hangs" =>
     \E j \in 1..i : chain[j] = "timeout"

EventuallyAnswered ==
  Guarded ~> responses # <<>> \/ (closed /\ index = -1) \/ crashed

=============================================================================

# web-frame in TLA+

web-frame is a small C++ web framework: goroutines (boost fibers) on a pool of
worker threads, a kqueue netpoller, channels and locks for goroutines, an HTTP
router with middlewares, uploads that are streamed to disk, and a pool of
non-blocking MySQL connections. This directory models it, checks the models with
TLC on small instances and proves what matters most with TLAPS.

Paths below are relative to the repository: `src/runtime/scheduler.cpp` is the
scheduler, `include/data_structure/channel.h` the channel, and so on.

## The system

| Component | State | Operations | Correct if |
|---|---|---|---|
| goroutine, scheduler (`runtime/goroutine.cpp`, `scheduler.cpp`) | ready queue, timer heap, per goroutine `ctx_` and `finished_`, per thread `t_current_g` and `t_top_ctx` | `go`, `sleep`, `add_timer`, `push_ready`, `worker_loop`, `check_timers`, `resume`, `yield`, destructor | a stack is on one worker; `current()` is right after migration; sleepers run in the order of their deadlines; what is ready runs; a wake-up is not lost |
| `CoMutex` | `locked_`, queue of waiters | `lock`, `try_lock`, `unlock` | mutual exclusion through hand-overs; waiters get it |
| `WaitGroup` | counter, list of waiters | `add`, `done`, `wait` | `wait` returns after a zero, and does return |
| `Channel` | buffer, queues of senders and receivers | `push`, `pop` | FIFO, bounded, nobody sleeps beside work |
| `Context` (`data_structure/context.h`, `context.cpp`) | flag, channel of capacity 1 | `WithTimeout`, `cancel`, `done`, `is_done` | one signal, sent when the flag is set; `cancel` never blocks |
| `print_test` (`main.cpp`) | a wait group and two channels for three goroutines | the handler and the two goroutines it starts | numbers in order, answered after the last, answered at all |
| netpoller | `contexts_`, one-shot events in kqueue | `watch`, `watch_read_web`, `poll_loop` | who waits has an event, unless the kernel refused it; events wake the right goroutine; the map is protected |
| request task, handler chain (`gee.cpp`, `web_context.*`, `gee.h`, `main.cpp`) | `index_`, `handlers_`, `is_sent`, the timeout's channel and timer | `Next`, `Abort`, `send_response`, Recovery, Logger, Auth, Timeout | each handler once, one response, nothing after `Abort` |
| routing (`router.cpp`, `node.h`, `gee.h`) | tries, chains, groups | `Use`, `Group`, `GET`, `POST`, `get_route` | the most specific matching route, with its parameters and its chain |
| request parsing (`request.cpp`) | `raw_data_` and views into it, `query_params_`, `post_form_` | `parse` with the reading of header and body, the fields of the header, both parsers of forms | the same request however it is cut into reads; the limits hold |
| upload (`MultipartProcessor.h`, `io_task_pool.h`) | parser state, task queue, files | `feed`, `finish`, `addTask`, writer thread, destructor | files are what was sent; no task is lost, whenever the pool is destroyed |
| database (`db/core`, `db/orm`) | pool, connections | `acquire`, `release`, `execute_query`, `execute_update` | exclusive use, no leak, no statement in the middle of another |
| response text, models, SQL text, logging, manual tests, spinlock | none of their own, or a flag | formatting | not modelled, see below |

Everything that blocks a goroutine does so in the same way: it stores
`Goroutine::current()` in a wait structure, lets go of its lock and calls
`yield()`. Everything that wakes one takes the pointer out and calls
`push_ready()`. A worker that pops the pointer calls `resume()`, which does
*nothing* while the goroutine's `ctx_` is empty, that is, while it is still on
its worker. This is the central hazard of the code. It runs through all
primitives, and it is kept in all models. The other hard parts are the data races
between the two goroutines of the timeout middleware, the accesses to
`contexts_` outside its lock, the views into a buffer that may be reallocated, and
the parsers that must not depend on how the data is cut into pieces. `PROJECT.json` lists every hazard at its line.

## The modules

    Goroutines     what the blocking primitives may rely on (abstract)
      Scheduler    implements it          SchedulerProofs
      CoMutex      uses it, obeys it      CoMutexProofs
      WaitGroup    uses it, obeys it      WaitGroupProofs
      Channel      uses it, obeys it
        Context    a flag and a Channel   ChannelProofs
      PrintTest    a WaitGroup and two Channels on one runtime   WaitGroupProofs
      Netpoller    uses it, obeys it      NetpollerProofs
    HandlerChain   one request, with or without a timeout   RequestProofs
    Router         registration and look-up   RequestProofs
    Upload         streaming loop, MultipartProcessor, IOTaskPool
      Request      parse(), which calls it   RequestProofs
    ConnectionPool MySQLPool, MySQLDriver     ConnectionPoolProofs
    Queues         lemmas about FIFO queues

`MCx.tla` extends `x.tla` with the sets a configuration needs.

**Goroutines.** For each goroutine, `fiber` says what `resume()` would find and
`handle` where the one pointer to it is. Its steps are those of the code that
blocks and wakes: `Park` (store the pointer), `Yield` (the stack is left, `ctx_`
is set), `Wake` (`push_ready`), `Resume` (which may find `ctx_` empty and spend
the wake-up for nothing), `Go`, `Finish`. `Lost(g)` is the outcome of a spent
wake-up.

**Scheduler.** `pc[w]` is where worker `w` is in `worker_loop`; `held`, `current`
and `top` are its local `g`, `t_current_g` and `t_top_ctx`. A step is a critical
section of `mutex_` or `timer_mutex_` or the code between two accesses to shared
state; `resume()` is a test, a switch and the return. A goroutine's code is any
sequence of `go`, `sleep`, `add_timer`, `Park` and its end; a timer callback may
wake a parked goroutine. `add_timer` takes two steps, as in the code: the clock is read
with no lock held (`adding`), the timer enters the heap under `timer_mutex_`, and any
worker may check the heap in between. `deadline` and `before` are history: until when a
goroutine sleeps, and of which two in the heap together one has the earlier deadline.
`cv_` is left out: its `wait_for` gives up after 10ms.

**CoMutex, WaitGroup, Channel.** A step is one atomic access, one critical section
of the spinlock, or one `push_ready` behind it. They extend `Goroutines`, so a
wake-up may come at any moment between registering and yielding.
Users of `WaitGroup` add and take away what they like, also below zero, and also
before the `add` that gave zero has taken its list; `late` remembers who began to
wait in that moment. `Channel` names the values by sender and round and keeps
`entered` and `taken` as history.

**Context.** It extends `Channel`; its initial states choose whether the channel is used by
itself or belongs to a Context. Then the senders are those who call `cancel()`: the
exchange of the flag is a step, what follows is `push`. Some of them are the
goroutines that `WithTimeout()` starts, which sleep first. One run checks both uses.

**PrintTest.** The only place in the program where primitives are combined. The wait
group is `WaitGroup`, extended; the two channels are instances of `Channel`; `fiber`
and `handle` are shared by all three, so that one goroutine blocks in each of them.

**Netpoller.** An access to `contexts_` takes two steps, so that accesses overlap
as they can in the code; an overlap with an insertion is undefined behaviour and
sets `undefined`. Closing a descriptor drops its events and leaves its entry.
`kevent()` may refuse a registration: the caller, at `unwatched`, yields all the same.
The timeout middleware lets two goroutines use one descriptor: `shared` remembers
which descriptors that happened to, and the properties speak of the others.

**HandlerChain.** Each of the two threads of control is a stack of calls: the
task, the loop of `Next()`, the handlers. `index_` is a plain `int`, so `index_++` is a
load and a store, and the loop reads it once for the test and once for the
call. `overtaken` remembers that the timeout struck: from then on two goroutines are
in one chain. `Init` chooses any chain of the given kinds of handler behind Recovery.
After the process has crashed, or the context is destroyed, the model stops.

**Router.** A path is the sequence of its segments; a node of a trie is named by
the parts on the way to it, so its depth is the `height` of the code. `search` is a recursive
function over the nodes: `SearchNode` says what the search of a node comes to, given
that of the nodes below. `Results` has that for each child that fits, `FirstHit` is the first
that succeeds in the order of the three loops, and `Record` puts the parameter in on the
way back. `add_route` is `insert` with the pattern and the chain; `routes`, what was
registered in which order, is history for the properties.

**Request.** The client sends the units of `Wire`, chosen by a record that says which fields
the header has, how their names are written and what the body is. A read returns
any number of them up to the size of the array. What the header announces decides
between a body in memory and `Upload`. A form is a sequence of characters, encoded as a
browser does it and decoded as the code does it; the characters are those that the
encoding and the code tell apart, and one other. `moved` is set when `raw_data_` may
have been reallocated: the views of method and path dangle, and a test of the
method may go either way.

**Upload.** The body is a sequence of units the processor can tell apart, and a
read may end after any of them, also between the line break and the dashes of a
boundary. `disk` is what the writer thread has appended. The pool is static, and its
destructor (`Shutdown`) runs at any time, with uploads under way and tasks in the queue.
`late` marks a task that was added when the thread had ended: from there on the
destructor returns, the pool is no more, and what the code does with it is undefined;
the model leaves the task where it is.

**ConnectionPool.** The client library is external: an operation on a connection
is started, is pending while the goroutine waits for the socket, and completes,
possibly with a result that has to be stored.

## The runs

| Run | Bounds | What it shows |
|---|---|---|
| scheduler | 2 workers, 2 goroutines, delays 0 and 1, 2 ticks of the clock | one worker and one reference per stack, `current()` right, sleepers neither early nor in the wrong order; implements `Goroutines`; ready and sleeping goroutines run |
| comutex | 4 goroutines | mutual exclusion, `locked_` agrees with ownership; obeys the contract, hand-overs reach all who wait |
| waitgroup | 3 goroutines, updates -1, 1, 2, counter -1 to 2 | no waiter slips in after its list was taken; `wait` spans a zero; obeys the contract; zero wakes the waiters |
| channel | capacities 0, 1, 2; 2 senders, 2 receivers, 2 rounds; a Context with 2 goroutines that cancel, each after a timeout or not | one wake-up per value and place, FIFO, bounded; one signal of cancellation; obeys the contract; all calls return |
| channel_lost | capacity 0 | **violated**: `pop` misses the `push` that wakes it |
| print_test | the program's own 10 numbers | numbers in order, the answer after the last, and the answer comes |
| handlers | chains of up to 4 of 7 kinds | each handler once, one response with the data set first, nothing after `Abort`, until the timeout strikes; the request is answered although handlers hang |
| netpoller | 3 goroutines, 2 descriptors, one of them shared | who waits has an event, if `kevent()` took it; woken for the right one; contract |
| pool | 3 goroutines, 0 to 3 connections | exclusive use, no leak, returned idle, rows are those of one's own statement |
| router | 3 calls of `Use`, `Group`, `GET`, `POST`; paths of 2 segments, requests of 3 | look-up agrees with a definition without a trie; the chain is that of the last registration |
| request | forms of up to 2 fields, uploads of up to 2 parts, every kind of header, limits of 7 and 12 units, reads of up to 8 | forms as they were sent, limits kept, files are prefixes and complete in the end; the destructor, called at any time, waits for all tasks |
| upload_first | the same | **violated**: the first part is skipped if it comes in one piece |

Why the bounds are enough to make the interesting cases happen: two workers and
two goroutines give every race between two stacks, and a third goroutine adds
the one that overtakes a woken one. Two rounds of two senders and two receivers let
both queues of a channel fill while woken goroutines are on their way; capacity 0
is the special case of the code, 1 and 2 are full and half full beside it. A third
segment in a request reaches every branch of a wildcard or of a failing branch two
levels deep. Two parts with the same or different names, with data that looks like
the beginning of a boundary, reach every state of the parser.

In `request`, padding of 6 or 10 units makes headers longer than the limit of 7, which
are rejected, or accepted when the read that crosses the limit brings the end as
well; `Content-Length` is missing, right or too small; bodies are below, at and
above 12 units. Uploads of two parts have at most one unit of data in each. Not
in the bounds: a body that contains the text "Content-Length:", which the search
of `peek_content_length` would find when the header has none, and further requests on the
connection, which the server does not read.

Bounds are `MaxTime`, `Rounds`, `MaxCounter`, `MaxLen`, `MaxCalls`, `MaxData`,
`MaxParts`, the set `Requests`, `Shareable` in `Netpoller`, and in `Scheduler` one pending
callback timer for each goroutine. `MaxHeader`, `MaxBody` and `MaxRead` are the program's
constants in units.

Where a module has proofs, its type invariant, and what follows from the listed
properties (`MutualExclusion` from `LockedIffOwned`, `OneList`), is proved and not
checked a second time by a run; those of `Request` and `Router`, whose data have the most
structure, are both.

`CHECK_DEADLOCK FALSE` stands where the system may rest: all goroutines have
finished or wait for an event that need not come.

## What the code does that its comments deny

Two runs are violated: a comment of the code says one thing, and the model,
which does what the code does, another (`findings` in `PROJECT.json`). Other
places where the code falls short are escapes of the properties, so that what is
right beside them is still checked:

- `Lost` (Scheduler, CoMutex, WaitGroup, Channel, PrintTest, Netpoller): a goroutine
  that is pushed before it has yielded is resumed with an empty `ctx_` and never runs
  again. A sleeper with a short delay, a waiter of any primitive. channel_lost is
  one instance of it.
- CoMutex, `HandOverReachesAll` speaks of mutexes that somebody holds: `lock()` tests
  and queues in two steps, and an `unlock()` in between frees the mutex and leaves the
  goroutine in the queue until somebody else locks and unlocks.
- WaitGroup, `late` in `WaitSpansZero`: units added again before `add()` has swapped
  the list out. A goroutine that begins to wait in that moment is woken by the old
  zero.
- Context, `CallsReturn` promises an end of the wait to one goroutine only: `cancel()`
  pushes once, and of several goroutines in `done()->pop()` one goes on, whereas
  `context.h:21` likens it to Go's `<-ctx.Done()`, which lets all go on.
- HandlerChain, `overtaken`: after the timeout has struck, `Abort()` may fall between
  the load and the store of `index_++` and be undone, handlers may run twice, and the
  request may be answered twice.
- HandlerChain, `crashed`: the timer's callback pushes to a full `winner_ch` and yields
  on a worker that is in no goroutine; an exception leaves the spawned goroutine;
  `index_` moves past the end between the test of the loop and its call.
- Netpoller, `undefined`: `contexts_` is searched behind the critical section, and
  `watch` takes `lock_` where `watch_read_web` and the poll loop take `mtx_`.
- Netpoller, `shared`: one `waiting_g` for two goroutines on a descriptor. The first is
  replaced and never woken, or woken by the event of the other.
- Netpoller, `unwatched` in `WaiterHasEvent`: `kevent()` fails, `watch` prints that,
  `watch_read_web` does not look, and the goroutine yields with no event registered. It
  waits for ever, or until an old event of the descriptor finds it.
- Scheduler, `SleepersInOrder` is about sleepers in the heap together: between the clock
  and the lock of `add_timer` a later deadline may expire and leave the heap first.
- HandlerChain, what a crash means for `EventuallyAnswered`: it counts as an end.
- ConnectionPool, `aborted`: a statement that finds the pool empty ends the process
  with the assertion, where the comment promises that it waits.
- Request, `moved` in `ParsedAsSent`: the views of method and path are taken when the
  header is complete, and `raw_data_` may be reallocated for the body.
- Request, `Understood` in `ParsedAsSent`: two spellings of `Content-Length` are known,
  where `request.cpp:198` says that case is ignored, and one of `Content-Type`; a
  `Content-Length` that is too small cuts the form. The query is not decoded, the form
  is: `ParsedAsSent` says of both what the code does.
- Upload, `swallowed` and `failed` in `FilesAsSent`: the skipped first part of upload_first,
  and tasks dropped for a file that could not be opened. An upload that ends early
  because a read fails is accepted with what has come: its files are prefixes. And they
  are files that are empty when the upload begins: `io_task_pool.h:104` opens with
  `ios::app`, so a second upload of a name, or two at once, append to what is there.
- Upload, `late` in `NothingLeftBehind` and `TasksExecuted`: a task that is added when the
  writer thread has ended is not executed, and `addTask` does not say so.

## Fairness

Workers, the poll thread and the writer thread are operating-system threads:
weak fairness of their steps. The clock advances. Nothing preempts a goroutine,
but the code of the framework between two blocking calls is finite: weak
fairness of what a goroutine does inside a call of a primitive. `CoMutex` assumes
in addition that the holder unlocks, `Channel` and `Context` that each goroutine executes
its calls and that timers expire, `PrintTest` that the handler and its two goroutines
go on, which is their code. `Request` is fair to the writer thread and to `notify_one()` only: no client has
to send anything.
Nothing is assumed of the start of new calls, of peers (a read event may
never come), of shutdown or of handlers that hang. The blocking modules use
weak fairness of `Schedule`, a goroutine that is ready is resumed: this is what
`BlockedGoroutineRuns` shows of the scheduler.

## The proofs

The proofs hold for every number of goroutines, workers, connections, and for
queues of any length. They assume what the modules state as `ASSUME`: null
pointers are not goroutines, delays are natural numbers, and the like.

**SchedulerProofs.** The invariant says where the one pointer to a goroutine may be:
a goroutine that is ready is in the queue once or held by one worker; one
that is registered is in the wait structures or in one timer, and not ready; one
that runs is neither, except while it is on its way to `yield`. It has to speak of
all of them together: that two workers cannot switch to one stack
(`StackExclusion`) follows from there being one pointer, and that there is one
pointer (`ReferenceCorrect`) follows from a goroutine registering only while it
runs. `CurrentCorrect` adds that `t_current_g` and `t_top_ctx` belong to the
goroutine on the worker. `Implements` maps every step to a step of `Goroutines`
or to none, with this invariant. `SleepersOrder` follows two sleepers, `g` with the
earlier deadline and `h`, from the heap to a worker: both in the heap, or `h` alone
there and `g` in the ready queue, or both in the queue with `g` ahead (`Ahead`). A
sleeper is in one timer and in the queue once, and in one of them (`Slumber`); its timer
holds its deadline (`Deadlines`); and the clock `check_timers` has read is never ahead of
the real one (`ClockRead`), so nobody enters the queue early. The heap gives up the
earliest timer, the queue is a queue, and whoever checks and pops, `g` leaves first.

**CoMutexProofs.** The strengthening is about the goroutines in transit: `next_g` of
a goroutine in `unlock()` is registered, not queued, and nobody else's; a waiter
that is neither queued nor some `next_g` is ready. With it `locked_` is set exactly
while there is one owner.

**WaitGroupProofs.** Who is on the list, or in some `to_wake`, is waiting and
registered, and is there once. For `WaitCorrect`: whoever is on a list that an `add()`
is about to take, or has taken, or was pushed from one, has lived through a zero
or came late. The second part of the module is about `PrintTest`, for every last number.
Its invariant `PInv` says of each printer's place in its loop how many signals it has
sent and received (`LoopOK`); that no channel loses or makes up a signal (`SignalsOK`);
that a goroutine which is pushed was parked in that very channel (`WakesOK`, `ParkedOK`);
and that the counter is the number of printers that have not reported, with only the
handler ever in `wait()` (`GroupOK`). The sums of these leave one printer that may
print, and the number it prints is the next (`NumbersPrinted`); `wait()` can return only
when both have left their loops (`AnswerIsLast`); and a goroutine is in at most one
wait structure although there are three (`PrintObedience`).

**ConnectionPoolProofs.** The strengthening is the program point: a connection has an
operation pending only in the loop of one, and a result unread only before it is
stored. For the rows converted behind `release()`: from the start of a SELECT to the
end of the store nobody else's statement runs on the connection.

**ChannelProofs.** Who is in a queue of the channel waits, is registered and is there once;
a call that is about to wake somebody has him for itself. On this rest the order
(`OrderKept`: what was taken and what is in the buffer, one behind the other, is what
entered) and the contract. `WakeUpsCorrect` counts: while a receiver sleeps, each value in
the buffer has a woken receiver on its way to it, while a sender sleeps each free place has a
woken sender, and what exceeds the capacity has its receivers. It needs
lemmas about the cardinality of the set of the woken when one joins or leaves.
`SignalOnce` adds the flag: who has found it unset is the only one who may push.

**NetpollerProofs.** A context holds a goroutine that has stored itself there and was not
woken; an event that is registered, or in the hand of `poll_loop`, is the one its waiter
has asked for, and never both. Events are spoken of on descriptors that are not
shared; that a context holds a goroutine of its own descriptor holds of all. A refused
registration is a place of its own in `watch`, from which nothing is claimed but the
contract.

**RequestProofs.** The first part is about `Request` with `Upload`, for any set of
requests, any limits, any number of parts of any size, and reads that end anywhere. It
follows one connection (`Connected`), whose body, once sent, is fixed:

- `Layout` says where in the body each part's header, data and boundary stand, and that
  a boundary stands nowhere else. It is derived from the definition of the body as a
  concatenation, one part after the other.
- `Reached` is the invariant of the processor: at every moment the buffer is the piece of
  the body behind some place `c`, and `c` and the part `k` that is looked at are
  determined by its state. From it follows what a search in the buffer finds,
  wherever the read has cut the body: the boundary of part `k`, whole or
  in part, or none. Hence a line break and dashes that may be the beginning of a
  boundary stay in the buffer and nothing else does (`Safe`).
- `Delivered` is what was sent before `c`. `Handed` says that the data of the tasks
  handed over so far, taken together, are just that; `PoolOK` that the files are behind
  it by the tasks that wait, or by the ones that failed, and that when the thread has
  ended the queue holds late tasks only.
- `ParserInv` is about the rest of `parse`: what is held of the request is what the reads
  have brought, what is announced does not change, and the limits were tested at the
  last read.
- `FormsOK` is about the fields: `query_params_` is set with the header, and the body that
  is parsed is all of the form and nothing else (`BodyBehind`). It rests on what the
  encoding and the two parsers compute for every text: `DecodeEncode` (`url_decode`
  inverts the encoding: an escape is read at its `%` and skipped), `FormSplits`
  and `PairSplits` (no `&` and no `=` is left in an encoded text, so that a form falls into its
  fields and a field into key and value), and `LastStays` (of two fields
  with one key the last stays). Hence `FormParsed` and `QueryParsed`.

`UploadedFiles`, `RequestLimits`, `FormsAsSent`, `RequestTypes` and `WriterEmpties` follow.
What folds (the body, a form, the parsers) compute is proved by induction on their
length: `Induction` states it for sets of numbers and rests on the well-foundedness of
`<`, and `FoldSteps` unfolds a fold by one place. Assumed are `RequestAssumption` and
`LimitAssumption`: the sets of which a request's fields are members, and that
the limits are numbers and a read may bring something.

The second part is about `HandlerChain`. While the task waits in the timeout middleware it takes no
step, so one thread at a time moves `index_` and the response (`TimeoutOK`, `MovesAlone`).
That the timeout does not start a second goroutine needs `IndexOK`: `index_` only grows and
nothing behind it was entered, so the middleware is entered once. `AnswerOK` lists the
four situations of a response: none, set, being written, sent. Chains, stacks and
nesting have any length. All of it ends when the timeout strikes.

The third part is about `Router`, for any number of calls, any groups, and paths and requests
of any length. Its invariant `RouterInv` relates what the code keeps to what was registered:

- `TriesOK`: with a node a trie has all nodes on the way to it, each a child of the one
  before it (`Grown`); a node that a wildcard ends has a pattern; and the pattern of a node is the
  path registered last for it, or none (`Holds`). `InsertGrows` and `LastPathMoves` are
  the step of `add_route`.
- `RoutesOK`: what was registered has its node. `GroupsOK`, `ChainsOK`: each group and each chain
  begins with Recovery, and the chain of a path ends with the handler registered last for it.

The lookup is then argued without any step. `Candidates` are the routes that the search of a
node may find, `Right` says that a result is the best of them with its parameters.
`LeafRight` and `WildRight` are the ends of the search, `StepRight` is what a child contributes,
with `ParamGrows` for the parameter put in on the way back, and `NodeRight` the choice among
the children: since every child is tried until one succeeds, the first hit is the best
candidate. `SearchRight` goes from the deepest nodes up, by induction on the parts that are
left; `SearchUnfolds` shows, by the same induction, that the recursive function exists.
`MatchingIs` says that the candidates of the root are the routes that match. That a wildcard ends a
path is used twice: no node is below one, and `search()` may return it without a look at its pattern.
Hence `RoutesFound`, `ChainsFound` and `RouterTypes`. Assumed is `PathAssumption`: paths
are sequences of segments.

**Queues.** `PushProperties` and `PopProperties`: membership and absence of
duplicates under `push` and `pop`, cited by the proofs above.

Every invariant and every action property of a passing run is a theorem. Only model-checked
are liveness and everything under fairness, and `ENABLED`, which the provers do not treat:
`BlockedGoroutineRuns`, `HandOverReachesAll`, `ZeroWakesWaiters`, `CallsReturn`,
`RequestAnswered`, `EventuallyAnswered`, `EventWakesWaiter` and `TasksExecuted`.

## What is not modelled

The text of responses, JSON and SQL, the models and the logging keep no state that
other parts depend on. The spinlock is a step of the modules that use it. The accept
loop only calls `go`. `String`, which no code calls, `queueSize`, which only reads,
and made-up names of files without one are left out. The destructor of the connection
pool runs after everything else. Nothing is persisted that a restart would read
again, so there is no recovery to model.

## Plan

1. Done: every component with state of its own, and proofs for all of them.
2. The timeout middleware with the real `Channel` in place of `winner`, so that a lost
   wake-up of the waiting task is part of it.

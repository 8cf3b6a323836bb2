# Verification of the multi-reactor HTTP server

TLA+ models of the server under `src/src`, the TLC configurations that check
them and the TLAPS proofs about them. Paths below are relative to `src/src`
(`cpp/connection.cpp` is `src/src/cpp/connection.cpp`).

Run a model with `tlc -workers 2 -config X.cfg M`, a proof with `tlapm M.tla`.

## 1. The system

A main loop accepts clients and deals them to worker loops. Each loop has a
thread, an epoll set, a queue of tasks from other threads, and a time wheel. A
connection lives on one loop; everything that changes it runs there. On top,
an HTTP parser and a router turn the input buffer of a connection into
requests and answers.

| component | state | operations | talks to |
|---|---|---|---|
| `TimeWheel`, `TimerTask` | slots of `shared_ptr`, a map of `weak_ptr`, the hand, a timerfd | add, refresh, cancel, has; the read callback of the timerfd; a timer rings in its destructor | its loop (handed over with `RunInLoop`), the users' timer callbacks |
| `EventLoop` | `_quit`, the eventfd, the task queue and its mutex | `RunInLoop`, `QueueInLoop`, `RunTask`, `StartEventLoop`, `StopEventLoop` | every thread pushes tasks; its own thread runs handlers and tasks |
| `LoopThread` | the pointer to a loop that is local to the worker thread; mutex, condition | constructor (waits for the loop), `ThreadEntry`, `GetLoop`, destructor (stops and joins) | the loop it publishes |
| `LoopThreadPool` | count asked for, the threads, the next index | `SetThreadCount`, `Create`, `NextLoop` | `TcpServer` |
| `Channel`, `Poller` | events wanted; the map fd → Channel and the epoll set | enable/disable, `Update`, `Remove`, `HandleEvent`; `Poll` | loop and connection |
| `Connection` | status, both buffers, reading paused, idle closing, the fd, the callbacks | `HandleRead/Write/Error/Close/Any`, `Established`, `Send`, `Shutdown`, `SetInactiveClose`, `SwitchProtocol`, `Release` | its loop, its wheel, user callbacks, the server's removal |
| `Acceptor`, `TcpServer` | the table `_conns`, `_count_id`, options | accept, `NewConnection`, `RemoveConnection`, `RunAfter`, start, stop, destructor | pool, loops, connections |
| `Buffer` | an array, a reader and a writer offset | write, read, line, clear | connection, parser |
| `HttpContext` | stage of the parse, the request, head size, body left | `RecvHttpRequest` and its stages, `Clear` | `Buffer`, `HttpServer` |
| `HttpServer` | routes, base directory | `OnConnected`, `OnMessage`, `SendResponse`, `Route`, `FileHandler` | `TcpServer`, `Connection`, `HttpContext` |
| `HttpRequest`, `HttpResponse`, `Util`, `Any`, `Log`, `Socket` | records, pure functions, system calls | | |

Where it is hard:

* **Threads.** A task is pushed under a mutex and the loop woken up by a second
  step; the loop empties its eventfd, then swaps the queue. A `LoopThread` is
  stopped from outside while its loop leaves by itself.
* **Reentrancy.** Every user callback may call back into the connection or the
  wheel: it may send, shut down or set the idle closing in the middle of a
  handler, which then goes on with what it has.
* **Lifetime.** A timer rings when the *last* of several references dies. A
  descriptor's number is reused as soon as it is closed, on another thread
  than the one that still has the number in its hands.
* **Flow control.** Output above a high mark pauses reading, and only writing
  takes it up again; input that was already received has no event left.
* **Time.** A slow handler lets seconds pile up in the timerfd, and the wheel
  then turns several slots in one callback.
* **Incremental parsing.** A request arrives in pieces cut anywhere; size
  limits apply to what is complete and to what is not.

What makes each right is stated next to its module in section 3; the hazards,
each at its line, are listed in `PROJECT.json`.

## 2. Modules

| module | models | proofs |
|---|---|---|
| `TimerSpec` | what timers promise: ring once, exactly after their own period of silence | |
| `TimeWheel` | `timewheel.cpp`, with reference counts; implements `TimerSpec` | `TimeWheelProofs` |
| `EventLoop` | `eventloop.cpp` and the round of `StartEventLoop` | `LoopThreadProofs` |
| `LoopThread` | `loopthread.cpp`, EXTENDS `EventLoop` | `LoopThreadProofs` |
| `Demultiplexer` | what a Poller promises: a channel is told of its own file's events | |
| `Poller` | `poller.cpp` and `channel.cpp`'s masks over epoll and reused numbers; implements `Demultiplexer` | `PollerProofs` |
| `Connection` | `connection.cpp` with `channel.cpp`'s dispatch, one round of the loop and its timer | `ConnectionProofs` |
| `TcpServer` | `server.cpp`, `acceptor.cpp`, `LoopThreadPool.cpp`, the Pollers' maps, the kernel's descriptor numbers | `TcpServerProofs` |
| `ByteQueue` | what a buffer promises: a queue of bytes | |
| `Buffer` | `buffer.cpp`; implements `ByteQueue` | `BufferProofs` |
| `HttpContext` | `HttpContext.cpp` and the part of `OnMessage` that drives it | `HttpContextProofs` |
| `HttpCuts` | a stream in pieces is parsed as if it came at once: `HttpContext` implements itself | `HttpContextProofs` |
| `HttpStreams` | the client streams for TLC and the reference reading of a stream, by places in it | `HttpContextProofs` |
| `HttpServer` | `HttpServer.cpp`'s callbacks, EXTENDS `Connection` | `ConnectionProofs` |
| `UrlText` | the text functions of `util.cpp`: split, encode, decode, path check | `HttpExchangeProofs` |
| `HttpMessage` | `HttpRequest.cpp`, `HttpResponse.cpp`; routing, files and `SendResponse` of `HttpServer.cpp` | `HttpExchangeProofs` |
| `HttpExchange` | requests and answers with contents on one connection, from `ParseHttpLine` to the client | `HttpExchangeProofs` |
| `MCHttpExchange` | the file system, routes and requests for TLC | |

`Connection`, `EventLoop` and `TcpServer` look at the same program at three
distances: `EventLoop` has the threads' steps and no meaning of a task,
`Connection` one connection with each step of each handler, `TcpServer` many
connections on several threads with the steps that touch shared things. Facts
cross between them as follows. `EventLoop` shows that a queued task runs, once
and in order, and `TcpServer` takes a queue per loop for granted.
`Connection` shows that an end is reported to the server once
(`ReleasedOnce`), and `TcpServer`'s `Release` begins once. `TcpServer` shows
that the ids on one wheel are distinct (`TimersDistinct`) and `Connection`
that a connection cancels a timer before it adds one, which together are the
condition `MayAdd` that `TimeWheel` puts on its callers. `TcpServer` has a
Poller per loop in as much detail as threads can get in each other's way;
`Poller` shows, for one loop, that the choice of `epoll_ctl` operations copes
with entries that a former owner of a number has left, in whichever order
files are closed and channels removed. `HttpServer` knows of a request only
whether it is complete and whether it ends the connection; `HttpContext`
shows that completeness does not depend on how input is cut, and
`HttpExchange` what requests and answers contain.

### How state and actions correspond to the code

**TimeWheel.** `slots[i]` is the set of `TimerTask` objects that slot *i*
refers to. The code keeps one reference per refresh; how many there are in one
slot does not matter, as a slot is cleared as a whole. `taskMap` is the
`weak_ptr` map, `Locks` is `lock()`. `RunTimerTask` moves the hand and takes
the slot's vector over; the references then die one at a time
(`DropReference`, `DestroyCanceled`, `Fire`), in any order. In between
the ringing timer's callback may add, refresh and cancel. `EndFire` is the end
of the destructor, with `RemoveTimer`'s test that the map still leads to this
very object.

**EventLoop.** One action per step between which another thread may run. The
push and the write of `QueueInLoop` are two; the loop's own pushes from
inside callbacks are the same two. The queue's elements are tickets, so that
order and loss are visible; `RunInLoop` on the loop's own thread runs the
task as part of the caller and is no action. The eventfd saturates at `EfdMax`
as the kernel's does at 2^64-2.

**LoopThread.** EXTENDS `EventLoop`; the loop's steps are only taken while the
worker is in `looping`. Critical sections that only touch `_loop` are single
steps. The destructor's, in which it pushes the stop, is several, with the
mutex held. What the class expects from its callers is in the module's header.

**Connection.** The state is a record `conn`; each method that the code calls
from several places is an operator from record to record (`Release`,
`ShutdownInLoop`, `SendInLoop`, ...). A handler is cut where it calls a user
callback: `conn.calls` is the stack of callbacks being run, `Continue` is what
a method does after its callback has returned. `batch` is what `epoll_wait`
has reported and not yet been handled, the timer among it: `Poll` fills it
with what is true at that time, in any order, so that a handler may meet a
state later than the one reported. Users call from this connection's callbacks
and, while the loop is not in this connection's Channel (`Elsewhere`), from the
tasks, timers and handlers of others, which `RunInLoop` lets through at once: a
connection may be paused, shut down or released between the report of its input
and `HandleEvent`, where its Channel is entered. `rx`, `fin`, `rst` and `room`
are the kernel's and the peer's side. Spurious results (`EAGAIN`, `EINTR`) are
possible at each read and write.

**Poller.** A `Channel` is made for one file and a file's number leads to
other files later, so a channel is a pair of number and file. `watched[fd]` is
the kernel's table, emptied by a close; `channels[fd]` is `_channels`, which a
close does not empty. `Control` is `Update`: `epoll_ctl` fails where the
kernel's rule says so, and the map then stays. `UpdateRefused` is an `ADD` for
which the kernel has no room. `asked` is what each channel's callers last
wanted and serves as the abstract `interest`. `Poll` sets `_revents` for a whole
round; the handlers of one round may do every other action before the next
`HandleEvent`.

**TcpServer.** `queue[l]` are the tasks handed to loop `l`, `doing[l]` the
frames its thread is inside of. A connection's `Release` is three frames
(`unregister`, `close`, `notify`), because other threads may accept and reuse
the descriptor's number between them. `poller[l]` is the `_channels` map of
the loop's Poller, in which `RemoveEvent` leaves an entry alone when
`EPOLL_CTL_DEL` fails. `MakingFails` is an exception out of
`make_shared<Connection>` after the `Socket` member has the descriptor: the
member's destructor closes it, and the `catch` closes the number again one step
later (`CatchCloses`).

**Buffer.** Cells, reader and writer are the array and the offsets. The
refinement maps them to the unread bytes.

**HttpContext.** Bytes are symbols that stand for what the parser makes of a
text (a request line, a header field, a body byte), with `CR` and `LF` as they
are. Line, head and body limits count symbols as the code counts bytes.
`HttpCuts` maps the parser to the same parser with the whole stream in its
buffer: what has not arrived is added behind the buffer, a body of which only a
part is there counts as not begun, and waiting for more is no step.

**HttpServer.** `Connection` with one user. The user's actions `Send`,
`Shutdown`, `Consume` of the general model are replaced by what `OnMessage`
does; whether a request is complete is read from the client's stream. `done`
counts the units taken off the input, `answers` has the places in the stream of
the requests answered, so that order, loss and repetition are visible.

**HttpExchange.** A text is a sequence of bytes, so that decoding, splitting
and path checks are done by their definitions. Bodies are sizes, `Connection`
headers sets of tokens, places in the file system sequences of names. `Parsed`
is what a request leaves in the context, also when it is refused half-way: a
bad target leaves only the method, a bad parameter the ones before it. `Route`
is the set of responses the file handler or any user's handler may give.
`Respond` is the rest of `OnMessage`'s loop: header, `SendResponse`, and
either the end or `Clear`.

## 3. What the runs show

Every property has a comment in its module that says which behaviour of the
code it is about. `PROJECT.json` names for each a changed definition (kept in
the module, marked "Mutant") under which TLC finds it violated.

**`timewheel`** (TimeWheel.cfg). Two ids, three objects, three slots.
`TimerReachable`: a timer that would ring can still be found by its id, so a
cancel reaches it.
`ImplementsTimers`: the wheel implements `TimerSpec`, in which a timer rings
exactly after its own period of silence. `EventuallyRings`: a timer that
nobody refreshes for ever rings or is cancelled.
Bounds: `Timeouts` has the illegal 0 and capacity, and both legal ones. Three
objects allow one id to have an old canceled object and a new one in the wheel
while the other id has one, which is all that the objects of an id can do to
each other. `MaxExpirations` 2 makes the read callback turn more than once.
The proofs cover all values.

**`loopthread`** (LoopThread.cfg). A loop with its owner and two more users,
and its own callbacks. `CallsHitLiveLoop`: no call is in the middle of a loop
object that is gone, and no published pointer leads to one. `Joins`: neither
constructor nor destructor waits for ever, also when a callback has stopped the
loop before. `NoLostWakeup`, `InOrder`, `EveryTaskRuns`, `StopEnds` are
properties of module EventLoop, checked here where the loop also begins and
ends. Bounds: four pushes are enough for a push before, during and after each
of the steps read–swap–run of one round, and for a stop among them; `EfdMax` 2
lets the counter saturate with several writers.

**`connection`** (Connection.cfg). `OutputIsWatched`, `BackPressure`,
`ClosingHasOutput`, `ReleasedOnce`, `TimerMatchesSetting`, and for the steps
`StatuGoesForward` and `DropsNoOutput`. The last one allows two reasons to end a
connection with output left: a reset by the peer, and the one tick that takes the
last unit of the idle timer (`TimesOut`); that idle closing is on, as it is for
each connection of `HttpServer`, is no reason. `ShutdownEnds`, `PauseEnds` and
`ResetReleases` say that a connection does not stay in a state that only an
event can end. Bounds: data is counted in units. `LowWater` 1 and `HighWater`
3 have room for a level between, at and over each mark; `MaxOut` 4 is one
more than the high mark, `MaxIn` 2 one read into a buffer that is not empty;
`Timeout` 2 lets a refresh be told from an add, and `MaxTicks` 2 a timer run
out in one read of the timerfd. The state properties are proved for all values.

**`connection_idle`** (ConnectionIdle.cfg) expects a violation, see section 5.

**`poller`** (Poller.cfg). Two numbers with two files each, one event besides
hang-up. `InterestKept`: the kernel has for every open file what its channel
last asked for. `ImplementsDemultiplexer`: a channel is told only of its own
file. Bounds: a second file at a number makes every stale entry possible, a
second number keeps the others apart; the proofs cover all values.

**`server`** (TcpServer.cfg). Up to two workers, two descriptor numbers, three
ids. `OneOwner`: an accepted descriptor has exactly one owner until it is
closed. `PollersExact`: a Poller leads to the connection that has the number
now; both until something throws (section 5). `TimersDistinct`: no id is on a
wheel twice. `Registered`: the table has every live connection, and only those
and such whose removal is under way. `Served` and `Removed`: an accepted
client gets its connection or its end, and an ended connection leaves the
table (stated with `[]<>`, which says the same as `~>` here, as an ended connection
stays ended, and costs one liveness graph for all ids); all four also when callbacks and constructors throw. Bounds: two numbers
and three ids force a reuse while another connection is open, and let a
`RunAfter` draw an id between two connections, from another thread through the
queue or on the main thread at once (`RunAfterHere`). Where something throws only
`MaxIdsThrown`, two, are drawn: what an exception disturbs is the next
connection with the same number. `Room` is the condition that keeps every
queued `RunAfter` an id; it is a bound of the model.

**`server_socket`**, **`server_teardown`** expect violations, section 5.

**`buffer`** (Buffer.cfg). `ImplementsQueue`, `NoBloat`: the array does not
creep. Bounds: an array of two, writes of up to three and at most four unread
bytes reach each of the three ways `EnsureSpace` makes room, exactly full and
one over.

**`http_parser`** (HttpContext.cfg on module HttpStreams). `CutsDoNotMatter`:
what the parser has reported, of two messages one after the other, is what a
reference that reads the whole stream says, wherever the input was cut.
`ImplementsUncut` says the same of every step and without a reference of its
own: the parser of pieces implements the parser of the whole, limits and errors
included. `HoardsOneLine`: the buffer never waits with more than a line's limit,
and in a head not with more than the head has left. Bounds: limits of 5, 8 and 2 let a line, a head and a
body each meet its limit exactly and by one more.

**`http`** (HttpServer.cfg). `OneAnswerEach`: every request taken is answered
once and in order, none after an answer that closes, and only what lies behind
such an answer is dropped. `NothingStranded`: no complete request is left in
the buffer of a connection that reads on. `OutputBounded`: a client that sends
and does not read gets at most one response over the high mark.
`RequestsAnswered`. Bounds: three units with responses of up to two make two
answers pass the high mark of three with a request behind them.

**`http_exchange`** (HttpExchange.cfg on module MCHttpExchange).
`ClientStaysInStep`: each answer has the length its own request makes the
client expect, HEAD and statuses without body included. `CloseAgreed`: the
server shuts the connection with exactly the answer that says so, and for a
reason the client knows. `HandledAsMeant`: whatever spelling a client chooses,
the handler sees the path and parameters it meant and the file is the one the
path leads to inside the root; what means nothing is refused. The meaning is
written down beside each request in MCHttpExchange, not computed by the
functions under test. Bounds: two requests, as the context is cleared between
neighbours; the 81 kinds of request pair every method, version and `Connection`
header, three spellings of each path (with a link out of the root, `..` inside,
across and above it, an unreadable file, a name full of reserved characters),
parameters with every separator inside, escapes cut off at each place, and
faults in line and head.

Deadlock is not checked in any run: a wheel is destroyed, a loop stops, a
thread is joined, a server is left, a peer may be silent for ever, and the
models' counters (ids, posts, units) are used up.

### Fairness

* The loop's thread runs while it has a reason to (`Awake`: its eventfd is
  readable or it was told to quit) and user callbacks return: weak fairness of
  `Round`, `Handler`, `Return` and of `GoOn` in `TcpServer`. A callback that never
  returns stops the loop in the code too.
* A thread that has pushed a task goes on to the eventfd write: weak fairness
  of `WriteEventfd`.
* A write that is possible does not give `EAGAIN` or `EINTR` for ever: strong
  fairness of the write that transfers or fails (and, in `HttpServer`, of the
  read that does), because the transient results in between disable it.
* A loop gets to its queued tasks although handlers keep it busy: strong
  fairness of `QueuedTask` in `TcpServer`. Each round ends with `RunTask`, and
  `EveryTaskRuns` of `EventLoop` is the same statement where the round itself
  is modelled.
* A peer that has not reset the connection reads what it is sent
  (`WF(PeerReads)`). The code cannot force this; a peer that stops reading
  keeps a connection until the idle timer ends it.
* Time passes: the wheel's `Expire` and `ReadTimerfd`.
* Nothing makes users send, shut down or stop, clients send, or sockets ready.

`ShutdownEnds` and `PauseEnds` except behaviours in which users send again and
again: with ever new output neither need come true.

## 4. What is proved

For all values of the constants (all capacities, timeouts, marks, limits,
thread sets, streams, requests), from the named assumptions on the constants in
the modules. They are what a program always has: a timeout inside the wheel, a
descriptor at least, streams made of the symbols, requests as the request
line's regular expression lets them pass. For a model's bounds they say that
each is a natural number and that `MaxIdsThrown` is at most `MaxIds`.

* **TimeWheelProofs.** `Inv` is the type invariant with: the map leads to live
  objects only (`NoDeadEntry`), a live timer that is not canceled is the one its id leads to,
  and every reference lies at most its timer's period ahead of the hand (`NeverLate`). The
  distance is needed because what rings is decided by the furthest reference:
  the refinement maps a timer to the largest distance of its references
  (`Left`), and each action is shown to map to an action of `TimerSpec` or
  to a stutter (`Refinement`). `RunTimerTask` is the step that needs all of it:
  every distance shrinks by one, except in the cleared slot.
* **LoopThreadProofs.** First the loop by itself. `NoLostWakeup` is inductive
  beside the types. `InOrder` rests on `Tickets` (batch and queue hold
  consecutive numbers up to the last one pushed) and `BatchIsLocal` (between
  rounds there is no batch, so that a swap overwrites nothing). Then
  `LoopInside`: every step of worker, owner and users is one of `EventLoop` or
  none for it, so the two theorems carry over (`TasksInThread`). `CallsAreSafe`
  is `CallsHitLiveLoop`; it rests on who may be inside a call (`CallersHold`),
  on users holding a pointer only to a published loop that nobody has asked to
  stop (`HoldersAreServed`, `StopsAreOwners`), and on the destructor's mutex
  (`OwnerHasLock`).
* **PollerProofs.** The invariant says what a stale entry in the map may be: the
  channel of a closed file whose number is free or not yet watched. From it
  `RightOperation` and `ControlMeans` say what each `epoll_ctl` does to the file
  the caller means, and each action maps to one of `Demultiplexer` or a stutter.
* **ConnectionProofs.** `Sound` is the inductive invariant over the record
  `conn`: which callbacks may nest, what epoll knows, output watched, marks,
  a reason to linger, the end, the timer. The checked properties only speak of
  states between two rounds (`Idle`) where they must; `Sound` says what holds
  inside each callback, for instance that output may be watched for without
  being there only inside the callback that resumes reading. One lemma per
  method shows that it leads from a sound record to a sound one, so that each
  handler and each user call composes them. `Forward` proves the action
  property `StatuGoesForward` on the same invariant. `Draining` proves the
  action property `DropsNoOutput`: an end may be decided in one callback and
  carried out by another. `Drains` says of one method that it ends the
  connection only with its output gone, and the methods' lemmas compose; what is
  left are a failed write and a hang-up, for which there is a reset, and the tick
  that runs the idle timer out. It needs `HangUps`: what a round has reported as a
  hang-up was one. `HttpDraining` says the same of `HttpSpec`, where every
  connection has idle closing on.
* **ConnectionProofs, second part: HttpServer.** Every step of `HttpServer` is
  one of `Connection`'s methods or several at once (an answer sends and may shut
  down), so `Sound` is composed from the same lemmas. `HttpInv` adds what ties it
  to the client's stream. `Conserved`: what was taken, what is buffered and what
  the kernel holds are the stream. `ClosedAfter`: once an answer has closed, the
  connection is no longer `CONNECTED`, without which `OneAnswerEach` is not
  inductive. `AllTaken`: a complete request in the buffer of a connection that
  reads belongs to an `OnMessage` still running; between rounds there is none,
  which is `NothingStranded`. `OutputBounded` is inductive beside `Sound`: an
  answer is given only while reading is not paused, that is, with the output
  below the high mark.
* **TcpServerProofs.** The invariant has two halves. `Ledger` does not look at
  descriptors and holds whatever is thrown: types; the frames a thread is inside
  of belong to one connection of that loop, in the order of `Release`'s steps,
  and the connection's status is as far as they are (`Stacks`); a worker's queue
  holds one lambda for each accepted connection of that worker, the main queue
  removals only of connections that have ended (`Handed`); ids are drawn in
  order, and waiting `RunAfter` calls will find theirs (`Counted`); `Registered`
  and `TimersDistinct`. `Belongings` holds until the `catch` in `NewConnection`
  is reached, after which it fails as section 5 shows: owners and open
  descriptors correspond one to one (`Descriptors`), an entry in a Poller is of a
  connection that lives on the loop or is about to be taken out by that loop's
  thread (`Entries`), and a thread closes only what its connection still has
  (`Closings`). `OneOwner` and `PollersExact` follow. `OneSocketUntilCaught` and
  `ConfinedWhileItLives` say of two violations of section 5 that there is no
  other way to them than the one described there.
* **HttpContextProofs.** For any limits and any streams. `HoardsOneLine` and the
  types are inductive with `BodyFits`, which keeps the length of the body still to be read from passing
  below zero, as `head_size <= MAX_HEAD_SIZE` (in the types) does for what is left of the
  head: the code's subtractions are unsigned.
  `Unread` says of the buffer that it is exactly the end of what has been
  received, however the stream was cut, and `BodyTaken` that an unfinished body is
  what came just before it. From the two follows `ImplementsUncut`
  (`RestOfStream`, `FrontOfRest`): the buffer is the front of what the parser at
  once has before it. `EndStays` says that what arrives later does not move the
  end of a line that is there, `SameLine` that a line too long is too long in
  pieces and whole, with the same status, and `BodyIsFront` that the pieces of a
  body add up; then each action has a lemma that maps it. Lemmas say what each parsing function
  does to the request's fields (`LineIsParsed`, `FieldIsParsed`, `HeadIsEnded`),
  and `EndsOfLine` that `EndOfLine` is the first line feed.

  `Reference` is `CutsDoNotMatter`, for streams of any number of messages. The
  reference says where lines end and messages start by recursive functions on
  numbers (`End`, `Start`); `Induction` and `Iterated`, both from the least element
  of a set of numbers, give that such functions exist (`EndIs`, `StartIs`). The
  invariant is `Judged`. `Reported`: what has been reported are the requests of the
  first messages, each whole in what has been received. `ReadSoFar`: the parser is
  at the k-th line of the next message, all lines before it were good, and version,
  fields, lengths and body are what the stream has there; or it has given up with
  the status the line deserves. `Waits`: it waits only when no step is possible.
  `VerdictStays` and `DecidesIs` say that what can be told of a message does not
  change when more arrives; `LineIsJudged` ties `ReadLine`'s subtractions to the
  places of the stream. Then each action has a lemma.
* **HttpExchangeProofs.** For any requests, file system and routes. `InStep` (the
  requests not answered are those the client counts behind the answers on the
  wire) and `ContextFits` (the context is cleared between two requests, and what
  it knows is of the first one not answered) make `ClientStaysInStep`,
  `EndsTogether` and `WishesGranted` inductive. `RouteAnswers` says that only a
  user's handler ends a connection. `ReadAlone` says that the context is what a
  parser that knew nothing would have made of the present request. From it
  `Meaning` follows: any number of requests on one connection are handled as
  meant, if each of them would be alone (`SpelledAsMeant`, about the constant
  `Requests` only). `Agreement` adds from the same hypothesis the last part of
  `CloseAgreed`, that a connection ends only for a reason. For the requests of
  MCHttpExchange the hypothesis is what TLC evaluates with the first request of
  each behaviour; the theorem says that the later ones need no look of their own.
  Of what folds over bytes compute, decoding is proved for every text:
  `ByteMore` adds one byte in any spelling to a text that is decoded right
  (`LastPlace` puts its place behind all others), and `AnySpelling` is the
  induction. From it follow `RoundTrip`, that `UrlDecode` undoes `UrlEncode`, and
  `PathsAsMeant`: any spelling of a path is read as that path and accepted exactly
  when `ValidPath` accepts the path meant. What is left of `SpelledAsMeant` for TLC
  are the parameters of a query and where a path leads in the file system.
* **BufferProofs.** Types and `NoBloat` together are inductive. What carries
  the proof is `EnsureSpaceMeans`: whichever way room is made, the unread bytes
  are the same, the write fits behind the writer, and the array grows only when
  `reader < len`, so to less than the unread bytes and the write twice over.
  `WriteAppends`, `ReadTakes`, `LineTakes` and `ClearDrops` then say
  what each operation does to the unread bytes, which is what `Refinement` needs.

Only model-checked: all liveness (`EventuallyRings`, `Joins`, `EveryTaskRuns`,
`StopEnds`, `ShutdownEnds`, `PauseEnds`, `ResetReleases`, `Served`, `Removed`,
`RequestsAnswered`), which needs ENABLED and is out of the provers' reach; and
`SpelledAsMeant` as far as it is about parameters and files, which are folds over
the parts of given requests. Every other property of the runs that pass is a
theorem, `HandledAsMeant` and `CloseAgreed` under that hypothesis. Types are
proved, not checked, for `TimeWheel`, `Connection`, `Buffer`, `LoopThread` and
`HttpContext`.

## 5. Where the code and its documents disagree

* `connection_idle`: README.md says a connection is timed out only without
  messages. If the timerfd is reported before the socket, with several
  expirations piled up, the timer closes a connection whose message the same
  round has reported and not yet handled.
* `server_socket`: when the user's connected callback throws, the `catch` in
  `NewConnection` closes the descriptor, but the Connection stays in the table
  with a Socket on that number. The next accept gets the number, and two Sockets
  manage one descriptor, which socket.hpp sets out to exclude. Callbacks of the
  repository's own programs do not throw there. An exception while the
  Connection is made leads to a double close of the number instead.
* `server_teardown`: `~TcpServer` destroys `_conns` on the main thread before
  the pool joins the workers, so `~Connection` changes the Poller of a running
  worker. By the same order a `NewConnection` task still queued at a worker
  finds the table and its mutex destroyed.

## 6. What is not modelled

* `SwitchProtocol`: nothing in the repository calls it, and the callbacks of
  `Connection` have no identity. Called from inside the message callback it
  replaces the callable that is running.
* Exceptions out of user callbacks other than the connected one: they unwind
  the loop and end the process.
* `~Connection` of a connection that was never released, except in
  `TcpServer`'s teardown.
* Threads, epoll sets and descriptors of the library's own that cannot be
  created; a file system that changes while it is read.
* Pattern matching of routes (`std::regex`; a route is a set of paths), the
  spelling of header names and tokens, tables such as `StatusDesc` and
  `ExtMime`. A server without a static directory takes `Dispatcher` alone.
* An answer to a request line that matches no method: its method is unknown, so
  a client that sent HEAD gets a body; it ends the connection, which
  `ClientStaysInStep` allows.
* `Any`, `Log`, `Socket`'s other system calls, `main`, the echo server, the
  example site: no protocol of their own.

## 7. Plan

Done: all components with state or protocol of their own, see `PROJECT.json`
for what is left out of each; proofs of all safety and action properties of the
runs that pass.

Left: from `Connection` to `TcpServer`, that a connection's status and release, as
`Connection` has them, are those that `TcpServer` takes for granted, as a
refinement of what the two have in common.

---------------------------- MODULE TcpServer ----------------------------
(***************************************************************************)
(* The server around the loops: the acceptor and the connection table on   *)
(* the main loop, a pool of worker loops that new connections are dealt    *)
(* to, and the connections' way from accept to removal.  Each loop has its *)
(* thread and its task queue; a lambda handed to another loop waits in     *)
(* that queue, one handed to the thread's own loop runs at once.           *)
(*                                                                         *)
(* The kernel's descriptors are in the model because their numbers are     *)
(* reused: what a thread still does with a number after closing it may hit *)
(* another thread's connection.                                            *)
(***************************************************************************)
EXTENDS Naturals, Sequences, FiniteSets

CONSTANTS
  Main,        \* _mainloop and its thread
  MaxThreads,  \* bound: worker threads asked for
  Fd,          \* descriptors
  MaxIds,      \* bound: ids drawn from _count_id
  MaxAfters,   \* bound: RunAfter calls waiting on the main loop
  MaxIdsThrown \* bound: the same where something throws (0: nothing does)

ASSUME MainAssumption == Main \notin Nat
ASSUME FdAssumption == Fd # {}
ASSUME BoundAssumption ==
  /\ MaxThreads \in Nat /\ MaxIds \in Nat /\ MaxAfters \in Nat
  /\ MaxIdsThrown \in 0 .. MaxIds

VARIABLES
  main,        \* StartServer: config, running, left
  quit,        \* the main loop's _quit
  pool,        \* _thread_count, the number of _loops, _next_thread_idx
  inactive,    \* _enable_inactive_realse
  countId,     \* _count_id
  open,        \* client descriptors the kernel holds open
  queue,       \* the tasks each loop has been handed
  doing,       \* what each thread is inside of, innermost first
  conn,        \* the Connections, by id
  conns,       \* _conns
  poller,      \* the _channels map of each loop's Poller
  idle,        \* connections with an idle timer on their loop's wheel
  afters,      \* RunAfter timers on the main loop's wheel
  caught       \* history: the catch in NewConnection has been reached

vars == <<main, quit, pool, inactive, countId, open, queue, doing,
          conn, conns, poller, idle, afters, caught>>

Ids == 0 .. MaxIds - 1
NoConn == MaxIds                  \* in a Poller: no Channel
Workers == 0 .. pool.created - 1
AllLoops == 0 .. MaxThreads - 1 \cup {Main}
Loops == Workers \cup {Main}

Task == [kind : {"new", "remove"}, id : Ids] \cup [kind : {"after", "stop"}]
Frame == [at : {"connected", "handler", "unregister", "close", "notify", "catch"},
          id : Ids]

\* "none": no such id yet; "accepted": the lambda that makes it is queued.
Statu == {"none", "accepted", "CONNECTED", "DISCONNECTED", "destroyed"}

Connection == [statu : Statu,
               loop  : AllLoops,
               fd    : Fd,
               sock  : BOOLEAN]   \* its Socket holds fd

TypeOK ==
  /\ main \in {"config", "running", "left"}
  /\ quit \in BOOLEAN
  /\ pool \in [count : 0 .. MaxThreads, created : 0 .. MaxThreads, next : Nat]
  /\ pool.created > 0 => pool.count = pool.created /\ pool.next < pool.created
  /\ inactive \in BOOLEAN
  /\ countId \in 0 .. MaxIds
  /\ open \in SUBSET Fd
  /\ queue \in [AllLoops -> Seq(Task)]
  /\ doing \in [AllLoops -> Seq(Frame)]
  /\ conn \in [Ids -> Connection]
  /\ conns \in SUBSET Ids
  /\ poller \in [AllLoops -> [Fd -> Ids \cup {NoConn}]]
  /\ idle \in SUBSET Ids
  /\ afters \in SUBSET Ids
  /\ caught \in BOOLEAN

Init ==
  /\ main = "config"
  /\ quit = FALSE
  /\ pool = [count |-> 0, created |-> 0, next |-> 0]
  /\ inactive = FALSE
  /\ countId = 0
  /\ open = {}
  /\ queue = [l \in AllLoops |-> <<>>]
  /\ doing = [l \in AllLoops |-> <<>>]
  /\ conn = [id \in Ids |-> [statu |-> "none", loop |-> Main,
                             fd |-> CHOOSE fd \in Fd : TRUE, sock |-> FALSE]]
  /\ conns = {}
  /\ poller = [l \in AllLoops |-> [fd \in Fd |-> NoConn]]
  /\ idle = {}
  /\ afters = {}
  /\ caught = FALSE

-----------------------------------------------------------------------------
(* Configuration and the pool *)

\* SetThreadCount: refused once there are threads, allowed in a running server
\* that was started without any.
SetThreadCount(n) ==
  /\ main \in {"config", "running"}
  /\ doing[Main] = <<>>
  /\ pool.created = 0
  /\ pool' = [pool EXCEPT !.count = n]
  /\ UNCHANGED <<main, quit, inactive, countId, open, queue, doing, conn, conns,
                 poller, idle, afters, caught>>

\* Allowed at any time; connections there are already are left alone.
EnableInactiveRelease ==
  /\ inactive' = TRUE
  /\ UNCHANGED <<main, quit, pool, countId, open, queue, doing, conn, conns,
                 poller, idle, afters, caught>>

\* StartServer: Create the threads, then run the main loop.
StartServer ==
  /\ main = "config"
  /\ main' = "running"
  /\ pool' = [pool EXCEPT !.created = pool.count]
  /\ UNCHANGED <<quit, inactive, countId, open, queue, doing, conn, conns,
                 poller, idle, afters, caught>>

\* Mutant: the index does not wrap.
NextIdxUnwrapped == pool.next + 1

\* NextLoop, when there are workers.
NextIdx == (pool.next + 1) % pool.count

-----------------------------------------------------------------------------
(* The threads *)

\* The thread is in its loop, between two handlers or tasks.
Free(l) == doing[l] = <<>> /\ (l = Main => main = "running")

Pending(l, kind) == Free(l) /\ queue[l] # <<>> /\ Head(queue[l]).kind = kind

Inside(l, at) == doing[l] # <<>> /\ Head(doing[l]).at = at
Current(l) == Head(doing[l]).id

Enter(l, frames) == doing' = [doing EXCEPT ![l] = frames \o @]
Leave(l) == doing' = [doing EXCEPT ![l] = Tail(@)]

Queued(q, l, task) == [q EXCEPT ![l] = Append(@, task)]
Dequeued(l) == [queue EXCEPT ![l] = Tail(@)]

-----------------------------------------------------------------------------
(* Accepting *)

\* RunAfter calls the main loop has yet to draw an id for.
WaitingAfters ==
  Cardinality({i \in 1 .. Len(queue[Main]) : queue[Main][i].kind = "after"})

\* MaxIds bounds the model, not the counter: every such call keeps its id.
Drawn == countId + WaitingAfters
Room == Drawn < IF caught THEN MaxIdsThrown ELSE MaxIds
MayThrow == Drawn <= MaxIdsThrown

\* A client is there, and accept gives it a descriptor nobody uses.
MayAccept(fd) ==
  /\ Free(Main)
  /\ fd \notin open
  /\ Room

\* The lambda of NewConnection, up to the user's connected callback.
Establish(id, fd, l) ==
  /\ conn' = [conn EXCEPT ![id] = [statu |-> "CONNECTED", loop |-> l, fd |-> fd,
                                   sock |-> TRUE]]
  /\ conns' = conns \cup {id}
  /\ poller' = [poller EXCEPT ![l][fd] = id]
  /\ Enter(l, <<[at |-> "connected", id |-> id]>>)

\* No workers: the main loop serves the connection itself, at once.
AcceptHere(fd) ==
  /\ MayAccept(fd)
  /\ pool.count = 0
  /\ countId' = countId + 1
  /\ open' = open \cup {fd}
  /\ Establish(countId, fd, Main)
  /\ UNCHANGED <<main, quit, pool, inactive, queue, idle, afters, caught>>

\* Mutant: the connection is counted and nobody is told of it.
AcceptAndForget(fd) ==
  /\ MayAccept(fd)
  /\ pool.created > 0
  /\ countId' = countId + 1
  /\ open' = open \cup {fd}
  /\ pool' = [pool EXCEPT !.next = NextIdx]
  /\ conn' = [conn EXCEPT ![countId] = [statu |-> "accepted", loop |-> NextIdx,
                                        fd |-> fd, sock |-> FALSE]]
  /\ UNCHANGED <<main, quit, inactive, queue, doing, conns, poller, idle, afters, caught>>

AcceptAndHandOver(fd) ==
  /\ MayAccept(fd)
  /\ pool.created > 0
  /\ countId' = countId + 1
  /\ open' = open \cup {fd}
  /\ pool' = [pool EXCEPT !.next = NextIdx]
  /\ conn' = [conn EXCEPT ![countId] = [statu |-> "accepted", loop |-> NextIdx,
                                        fd |-> fd, sock |-> FALSE]]
  /\ queue' = Queued(queue, NextIdx, [kind |-> "new", id |-> countId])
  /\ UNCHANGED <<main, quit, inactive, doing, conns, poller, idle, afters, caught>>

\* Mutant: the descriptor nobody takes over is not closed.
AcceptAndLeak(fd) ==
  /\ MayAccept(fd)
  /\ pool.count > 0 /\ pool.created = 0
  /\ countId' = countId + 1
  /\ open' = open \cup {fd}
  /\ UNCHANGED <<main, quit, pool, inactive, queue, doing, conn, conns,
                 poller, idle, afters, caught>>

\* Workers asked for and none created: NextLoop has no loop to give, and the
\* descriptor is closed again.
AcceptAndClose(fd) ==
  /\ MayAccept(fd)
  /\ pool.count > 0 /\ pool.created = 0
  /\ countId' = countId + 1
  /\ open' = open
  /\ UNCHANGED <<main, quit, pool, inactive, queue, doing, conn, conns,
                 poller, idle, afters, caught>>

\* The worker runs the lambda.
NewConnection(l) ==
  /\ Pending(l, "new")
  /\ queue' = Dequeued(l)
  /\ LET id == Head(queue[l]).id IN Establish(id, conn[id].fd, l)
  /\ UNCHANGED <<main, quit, pool, inactive, countId, open, idle, afters, caught>>

\* Making the Connection throws when it already has its Socket, which closes
\* the descriptor; then the catch closes the number once more.
MakingFails(l) ==
  /\ MayThrow
  /\ Pending(l, "new")
  /\ queue' = Dequeued(l)
  /\ LET id == Head(queue[l]).id
     IN  /\ open' = open \ {conn[id].fd}
         /\ conn' = [conn EXCEPT ![id].statu = "destroyed"]
         /\ Enter(l, <<[at |-> "catch", id |-> id]>>)
  /\ caught' = TRUE
  /\ UNCHANGED <<main, quit, pool, inactive, countId, conns, poller, idle, afters>>

CatchCloses(l) ==
  /\ Inside(l, "catch")
  /\ Leave(l)
  /\ open' = open \ {conn[Current(l)].fd}
  /\ UNCHANGED <<main, quit, pool, inactive, countId, queue, conn, conns,
                 poller, idle, afters, caught>>

\* The same on the main loop, where nothing is accepted between the two closes.
MakingFailsHere(fd) ==
  /\ MayThrow
  /\ MayAccept(fd)
  /\ pool.count = 0
  /\ countId' = countId + 1
  /\ caught' = TRUE
  /\ UNCHANGED <<main, quit, pool, inactive, open, queue, doing, conn, conns,
                 poller, idle, afters>>

-----------------------------------------------------------------------------
(* The user's callbacks *)

\* Mutant: the lambda enters the connection in the table when all is done.
ConnectedReturnsAndRegisters(l) ==
  /\ Inside(l, "connected")
  /\ Leave(l)
  /\ idle' = IF inactive /\ conn[Current(l)].statu = "CONNECTED"
             THEN idle \cup {Current(l)} ELSE idle
  /\ conns' = conns \cup {Current(l)}
  /\ UNCHANGED <<main, quit, pool, inactive, countId, open, queue, conn, poller, afters, caught>>

\* The connected callback returns; the lambda goes on to SetInactiveClose.
ConnectedReturns(l) ==
  /\ Inside(l, "connected")
  /\ Leave(l)
  /\ idle' = IF inactive /\ conn[Current(l)].statu = "CONNECTED"
             THEN idle \cup {Current(l)} ELSE idle
  /\ UNCHANGED <<main, quit, pool, inactive, countId, open, queue, conn, conns,
                 poller, afters, caught>>

\* It throws: the catch closes the descriptor the lambda was made with.
ConnectedThrows(l) ==
  /\ MayThrow
  /\ Inside(l, "connected")
  /\ Leave(l)
  /\ open' = open \ {conn[Current(l)].fd}
  /\ caught' = TRUE
  /\ UNCHANGED <<main, quit, pool, inactive, countId, queue, conn, conns,
                 poller, idle, afters>>

\* A handler, a timer or a task some user queued works on a connection.
Serve(l, id) ==
  /\ Free(l)
  /\ conn[id].statu = "CONNECTED" /\ conn[id].loop = l
  /\ Enter(l, <<[at |-> "handler", id |-> id]>>)
  /\ UNCHANGED <<main, quit, pool, inactive, countId, open, queue, conn, conns,
                 poller, idle, afters, caught>>

HandlerReturns(l) ==
  /\ Inside(l, "handler")
  /\ Leave(l)
  /\ UNCHANGED <<main, quit, pool, inactive, countId, open, queue, conn, conns,
                 poller, idle, afters, caught>>

-----------------------------------------------------------------------------
(* Connection::Release, from any handler or callback *)

\* Mutant: the descriptor is closed while it is still in epoll.
ReleaseStepsCloseFirst == <<"close", "unregister", "notify">>

ReleaseSteps == <<"unregister", "close", "notify">>

Release(l) ==
  /\ Inside(l, "handler") \/ Inside(l, "connected")
  /\ conn[Current(l)].statu = "CONNECTED"
  /\ conn' = [conn EXCEPT ![Current(l)].statu = "DISCONNECTED"]
  /\ Enter(l, [i \in 1 .. 3 |-> [at |-> ReleaseSteps[i], id |-> Current(l)]])
  /\ UNCHANGED <<main, quit, pool, inactive, countId, open, queue, conns,
                 poller, idle, afters, caught>>

\* Poller::RemoveEvent: an entry of another Channel, or one whose descriptor
\* the kernel does not know any more, stays.
RemoveEvent(id) ==
  LET c == conn[id]
  IN  poller' = [poller EXCEPT ![c.loop][c.fd] =
                   IF @ = id /\ c.fd \in open THEN NoConn ELSE @]

\* CancelTask, and the Channel's Remove.
ReleaseUnregisters(l) ==
  /\ Inside(l, "unregister")
  /\ Leave(l)
  /\ RemoveEvent(Current(l))
  /\ idle' = idle \ {Current(l)}
  /\ UNCHANGED <<main, quit, pool, inactive, countId, open, queue, conn, conns, afters, caught>>

ReleaseCloses(l) ==
  /\ Inside(l, "close")
  /\ Leave(l)
  /\ open' = open \ {conn[Current(l)].fd}
  /\ conn' = [conn EXCEPT ![Current(l)].sock = FALSE]
  /\ UNCHANGED <<main, quit, pool, inactive, countId, queue, conns, poller, idle, afters, caught>>

\* Mutant: the close callback does not get to the server's own.
ReleaseTellsNobody(l) ==
  /\ Inside(l, "notify")
  /\ Leave(l)
  /\ UNCHANGED <<main, quit, pool, inactive, countId, open, queue, conn, conns,
                 poller, idle, afters, caught>>

\* RemoveConnection, after the user's close callback: the erase is handed to
\* the main loop, and done at once when this is it.
ReleaseNotifies(l) ==
  /\ Inside(l, "notify")
  /\ Leave(l)
  /\ IF l = Main
     THEN /\ conns' = conns \ {Current(l)}
          /\ UNCHANGED queue
     ELSE /\ queue' = Queued(queue, Main, [kind |-> "remove", id |-> Current(l)])
          /\ UNCHANGED conns
  /\ UNCHANGED <<main, quit, pool, inactive, countId, open, conn, poller, idle, afters, caught>>

EraseConnection ==
  /\ Pending(Main, "remove")
  /\ queue' = Dequeued(Main)
  /\ conns' = conns \ {Head(queue[Main]).id}
  /\ UNCHANGED <<main, quit, pool, inactive, countId, open, doing, conn, poller,
                 idle, afters, caught>>

-----------------------------------------------------------------------------
(* RunAfter and StopServer *)

\* From another thread, whether or not the main loop runs yet or still.
RunAfter ==
  /\ Room
  /\ WaitingAfters < MaxAfters
  /\ queue' = Queued(queue, Main, [kind |-> "after"])
  /\ UNCHANGED <<main, quit, pool, inactive, countId, open, doing, conn, conns,
                 poller, idle, afters, caught>>

\* Mutant: the id is looked at and not drawn.
RunAfterInLoopSameId ==
  /\ Pending(Main, "after")
  /\ queue' = Dequeued(Main)
  /\ afters' = afters \cup {countId}
  /\ UNCHANGED <<main, quit, pool, inactive, countId, open, doing, conn, conns,
                 poller, idle, caught>>

RunAfterInLoop ==
  /\ Pending(Main, "after")
  /\ queue' = Dequeued(Main)
  /\ countId' = countId + 1
  /\ afters' = afters \cup {countId}
  /\ UNCHANGED <<main, quit, pool, inactive, open, doing, conn, conns, poller, idle, caught>>

\* On the main loop's own thread, before StartServer, after it or from a
\* callback, RunInLoop draws the id at once.
RunAfterHere ==
  /\ doing[Main] # <<>> => Head(doing[Main]).at \in {"connected", "handler", "notify"}
  /\ Room
  /\ countId' = countId + 1
  /\ afters' = afters \cup {countId}
  /\ UNCHANGED <<main, quit, pool, inactive, open, queue, doing, conn, conns, poller,
                 idle, caught>>

AfterRings ==
  /\ Free(Main)
  /\ \E id \in afters : afters' = afters \ {id}
  /\ UNCHANGED <<main, quit, pool, inactive, countId, open, queue, doing, conn,
                 conns, poller, idle, caught>>

StopServer ==
  /\ main = "running"
  /\ \A i \in 1 .. Len(queue[Main]) : queue[Main][i].kind # "stop"
  /\ ~quit
  /\ queue' = Queued(queue, Main, [kind |-> "stop"])
  /\ UNCHANGED <<main, quit, pool, inactive, countId, open, doing, conn, conns,
                 poller, idle, afters, caught>>

Stop ==
  /\ Pending(Main, "stop")
  /\ queue' = Dequeued(Main)
  /\ quit' = TRUE
  /\ UNCHANGED <<main, pool, inactive, countId, open, doing, conn, conns, poller,
                 idle, afters, caught>>

\* The loop ends with its round; the tasks of the round may still run before.
LeaveLoop ==
  /\ Free(Main)
  /\ quit
  /\ main' = "left"
  /\ UNCHANGED <<quit, pool, inactive, countId, open, queue, doing, conn, conns,
                 poller, idle, afters, caught>>

-----------------------------------------------------------------------------
\* What the thread of loop l does.
LoopStep(l) ==
  \/ NewConnection(l)
  \/ MakingFails(l) \/ CatchCloses(l)
  \/ \E id \in Ids : Serve(l, id)
  \/ ConnectedReturns(l) \/ ConnectedThrows(l) \/ HandlerReturns(l)
  \/ Release(l)
  \/ ReleaseUnregisters(l) \/ ReleaseCloses(l) \/ ReleaseNotifies(l)

MainStep ==
  \/ \E fd \in Fd : \/ AcceptHere(fd)
                    \/ AcceptAndHandOver(fd)
                    \/ AcceptAndClose(fd)
                    \/ MakingFailsHere(fd)
  \/ EraseConnection
  \/ RunAfterInLoop \/ AfterRings
  \/ Stop \/ LeaveLoop

UserStep ==
  \/ \E n \in 0 .. MaxThreads : SetThreadCount(n)
  \/ EnableInactiveRelease
  \/ StartServer
  \/ RunAfter \/ RunAfterHere
  \/ StopServer

Next ==
  \/ \E l \in Loops : LoopStep(l)
  \/ MainStep
  \/ UserStep

Spec == Init /\ [][Next]_vars

\* A thread inside of something goes on.
GoOn(l) ==
  \/ ConnectedReturns(l) \/ ConnectedThrows(l) \/ HandlerReturns(l)
  \/ ReleaseUnregisters(l) \/ ReleaseCloses(l) \/ ReleaseNotifies(l)
  \/ CatchCloses(l)

QueuedTask(l) ==
  \/ NewConnection(l) \/ MakingFails(l)
  \/ l = Main /\ (EraseConnection \/ RunAfterInLoop \/ Stop)

\* The threads run, user callbacks return, and a loop gets to its queued
\* tasks, whatever events keep coming: each round ends with them.
Fairness ==
  \A l \in AllLoops : WF_vars(GoOn(l)) /\ SF_vars(QueuedTask(l))

FairSpec == Spec /\ Fairness

-----------------------------------------------------------------------------
(* The destructor: _conns goes before the pool is joined *)

\* A thread inside one of the connection's methods or a queued lambda refers
\* to it.
Held(id) ==
  \/ \E l \in Loops : \E i \in 1 .. Len(doing[l]) : doing[l][i].id = id
  \/ \E i \in 1 .. Len(queue[Main]) : queue[Main][i] = [kind |-> "remove", id |-> id]

\* The map lets go of one connection; the last reference runs ~Connection,
\* which cancels the timer, leaves the Poller and closes the socket.
DestroyEntry(id) ==
  /\ main = "left"
  /\ id \in conns
  /\ conns' = conns \ {id}
  /\ IF conn[id].statu = "CONNECTED" /\ ~Held(id)
     THEN /\ RemoveEvent(id)
          /\ open' = open \ {conn[id].fd}
          /\ conn' = [conn EXCEPT ![id].statu = "destroyed", ![id].sock = FALSE]
          /\ idle' = idle \ {id}
     ELSE UNCHANGED <<poller, open, conn, idle>>
  /\ UNCHANGED <<main, quit, pool, inactive, countId, queue, doing, afters, caught>>

TeardownNext == Next \/ \E id \in Ids : DestroyEntry(id)

TeardownSpec == Init /\ [][TeardownNext]_vars

-----------------------------------------------------------------------------
(* Properties *)

\* Every open descriptor has exactly one owner, the lambda that waits to make
\* its Connection or the Socket of one, and no owner has a closed one: none
\* leaks, and none is closed for somebody else, however closes on one thread
\* fall between accepts on another.  What an exception in NewConnection does
\* to it is the subject of OneSocketPerFd.
Owners(fd) == {id \in Ids : conn[id].fd = fd /\
                            (conn[id].statu = "accepted" \/ conn[id].sock)}
OneOwner ==
  ~caught => \A fd \in Fd :
               Cardinality(Owners(fd)) = IF fd \in open THEN 1 ELSE 0

\* A Poller leads from a descriptor to the connection that owns it now and
\* lives on that loop, so that an event never reaches one that is closed or
\* another's; and a live connection is in its loop's Poller.
PollersExact ==
  ~caught => \A id \in Ids, l \in Loops, fd \in Fd :
    /\ poller[l][fd] = id => conn[id].loop = l /\ conn[id].fd = fd /\ conn[id].sock
    /\ conn[id].statu = "CONNECTED" => poller[conn[id].loop][conn[id].fd] = id

\* The table holds a connection from its making to its removal: one that is
\* still there after its end has its removal under way, so that none stays.
RemovalUnderWay(id) ==
  \/ \E i \in 1 .. Len(doing[conn[id].loop]) :
       doing[conn[id].loop][i] = [at |-> "notify", id |-> id]
  \/ \E i \in 1 .. Len(queue[Main]) :
       queue[Main][i] = [kind |-> "remove", id |-> id]
Registered ==
  \A id \in Ids :
    /\ conn[id].statu = "CONNECTED" => id \in conns
    /\ id \in conns => conn[id].statu = "CONNECTED" \/ RemovalUnderWay(id)

\* The thread is about to cancel the connection's timer.
CancelUnderWay(id) ==
  \E i \in 1 .. Len(doing[conn[id].loop]) :
    doing[conn[id].loop][i] = [at |-> "unregister", id |-> id]

\* Connections and RunAfter timers may meet on the main loop's wheel; their
\* ids never do, and an id is not set twice: the wheel's own condition.
TimersDistinct ==
  /\ \A id \in afters : conn[id].statu = "none" /\ id < countId
  /\ \A id \in idle : conn[id].statu = "CONNECTED" \/ CancelUnderWay(id)

\* A client that was accepted gets its connection, even when the main loop
\* stops meanwhile: none stays "accepted".
Served == \A id \in Ids : []<>(conn[id].statu # "accepted")

\* A connection that has ended, which it does for good, leaves the table,
\* unless the main loop leaves.
Removed ==
  \A id \in Ids :
    []<>(conn[id].statu = "DISCONNECTED" => id \notin conns \/ main = "left")

\* What socket.hpp says of the class, that no two Sockets manage one
\* descriptor.
OneSocketPerFd ==
  \A a, b \in Ids :
    conn[a].sock /\ conn[b].sock /\ conn[a].fd = conn[b].fd => a = b

\* What the README says a reactor per thread avoids: no other thread takes a
\* connection's descriptor out of the Poller of a worker.
PollersConfined ==
  [][\A l \in Workers : poller[l] # poller'[l] => LoopStep(l)]_vars
=============================================================================

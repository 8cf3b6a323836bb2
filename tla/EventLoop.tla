---------------------------- MODULE EventLoop ----------------------------
(***************************************************************************)
(* One EventLoop: a thread that waits in epoll, dispatches the channels    *)
(* that are ready and then runs the tasks other threads (and its own       *)
(* callbacks) have queued.  A caller queues a task in two steps: it pushes *)
(* it under the mutex, then writes the eventfd that wakes epoll up.        *)
(*                                                                         *)
(* RunInLoop from a foreign thread is QueueInLoop; from the loop's own     *)
(* thread it runs at once, which is part of the callback that calls it.    *)
(***************************************************************************)
EXTENDS Naturals, Sequences

CONSTANTS
  Users,      \* threads other than the loop's own
  Loop,       \* the loop's own thread
  EfdMax,     \* the largest value an eventfd counts to
  MaxPosts    \* bound: tasks queued in a behaviour

ASSUME LoopAssumption == Loop \notin Users
ASSUME EfdMaxAssumption == EfdMax \in Nat \ {0}

VARIABLES
  pc,         \* where StartEventLoop is: poll, dispatch, run or stopped
  quit,       \* _quit
  eventfd,    \* the counter of _eventfd
  active,     \* the channels of this round that still have to be handled
  tasks,      \* _tasks
  batch,      \* the local vector RunTask swapped _tasks into
  running,    \* a callback or a task is executing
  writing,    \* threads in QueueInLoop between the push and the write
  total,      \* tasks pushed so far: the ticket of the last one
  ran         \* the ticket of the last task that was run

vars == <<pc, quit, eventfd, active, tasks, batch, running, writing, total, ran>>

Callers == Users \cup {Loop}

\* The wakeup channel, and some channel of a socket or of the timerfd.
Channels == {"eventfd", "io"}

Task == [ticket : Nat, kind : {"work", "stop"}]

TypeOK ==
  /\ pc \in {"poll", "dispatch", "run", "stopped"}
  /\ quit \in BOOLEAN
  /\ eventfd \in 0 .. EfdMax
  /\ active \in SUBSET Channels
  /\ tasks \in Seq(Task)
  /\ batch \in Seq(Task)
  /\ running \in BOOLEAN
  /\ writing \in SUBSET Callers
  /\ total \in Nat
  /\ ran \in Nat

Init ==
  /\ pc = "poll"
  /\ quit = FALSE
  /\ eventfd = 0
  /\ active = {}
  /\ tasks = <<>>
  /\ batch = <<>>
  /\ running = FALSE
  /\ writing = {}
  /\ total = 0
  /\ ran = 0

-----------------------------------------------------------------------------
(* QueueInLoop, by any thread *)

\* A thread calls when it is not inside a call; the loop's own thread only
\* from a callback it runs.
MayCall(c) == c \notin writing /\ (c = Loop => running)

\* Mutant: the loop's own thread pushes without waking the loop up.
QueueInLoopQuietly(c, kind) ==
  /\ MayCall(c)
  /\ total < MaxPosts
  /\ total' = total + 1
  /\ tasks' = Append(tasks, [ticket |-> total + 1, kind |-> kind])
  /\ writing' = IF c = Loop THEN writing ELSE writing \cup {c}
  /\ UNCHANGED <<pc, quit, eventfd, active, batch, running, ran>>

\* The push, under the mutex.
QueueInLoop(c, kind) ==
  /\ MayCall(c)
  /\ total < MaxPosts
  /\ total' = total + 1
  /\ tasks' = Append(tasks, [ticket |-> total + 1, kind |-> kind])
  /\ writing' = writing \cup {c}
  /\ UNCHANGED <<pc, quit, eventfd, active, batch, running, ran>>

\* The write: EAGAIN on a full counter is ignored, it is readable anyway.
WriteEventfd(c) ==
  /\ c \in writing
  /\ eventfd' = IF eventfd < EfdMax THEN eventfd + 1 ELSE eventfd
  /\ writing' = writing \ {c}
  /\ UNCHANGED <<pc, quit, active, tasks, batch, running, total, ran>>

\* StopEventLoop, called in the loop's own thread, takes effect at once.
StopInLoop ==
  /\ MayCall(Loop)
  /\ ~quit
  /\ quit' = TRUE
  /\ UNCHANGED <<pc, eventfd, active, tasks, batch, running, writing, total, ran>>

-----------------------------------------------------------------------------
(* StartEventLoop *)

\* epoll_wait blocks while nothing is ready.  It returns some of what is: its
\* array is bounded, so even a readable eventfd may be left to a later round.
Poll ==
  /\ pc = "poll"
  /\ ~quit
  /\ \E ready \in SUBSET Channels \ {{}} :
       /\ "eventfd" \in ready => eventfd > 0
       /\ active' = ready
  /\ pc' = "dispatch"
  /\ UNCHANGED <<quit, eventfd, tasks, batch, running, writing, total, ran>>

\* The read callback of the eventfd takes the whole count.
ReadEventfd ==
  /\ pc = "dispatch"
  /\ ~running
  /\ "eventfd" \in active
  /\ eventfd' = 0
  /\ active' = active \ {"eventfd"}
  /\ UNCHANGED <<pc, quit, tasks, batch, running, writing, total, ran>>

\* HandleEvent of another channel: its callbacks start.
HandleEvent ==
  /\ pc = "dispatch"
  /\ ~running
  /\ "io" \in active
  /\ active' = active \ {"io"}
  /\ running' = TRUE
  /\ UNCHANGED <<pc, quit, eventfd, tasks, batch, writing, total, ran>>

\* Mutant: the queue is copied and not emptied.
CopyTasks ==
  /\ pc = "dispatch"
  /\ ~running
  /\ active = {}
  /\ batch' = tasks
  /\ tasks' = tasks
  /\ pc' = "run"
  /\ UNCHANGED <<quit, eventfd, active, running, writing, total, ran>>

\* RunTask takes the queue over in one swap, under the mutex.
SwapTasks ==
  /\ pc = "dispatch"
  /\ ~running
  /\ active = {}
  /\ batch' = tasks
  /\ tasks' = <<>>
  /\ pc' = "run"
  /\ UNCHANGED <<quit, eventfd, active, running, writing, total, ran>>

\* Mutant: every task sets _quit anew, and takes an earlier stop back.
StartTaskResettingQuit ==
  /\ pc = "run"
  /\ ~running
  /\ batch # <<>>
  /\ batch' = Tail(batch)
  /\ ran' = Head(batch).ticket
  /\ quit' = (Head(batch).kind = "stop")
  /\ running' = TRUE
  /\ UNCHANGED <<pc, eventfd, active, tasks, writing, total>>

\* The next task starts; the one StopEventLoop queued sets _quit.
StartTask ==
  /\ pc = "run"
  /\ ~running
  /\ batch # <<>>
  /\ batch' = Tail(batch)
  /\ ran' = Head(batch).ticket
  /\ quit' = (quit \/ Head(batch).kind = "stop")
  /\ running' = TRUE
  /\ UNCHANGED <<pc, eventfd, active, tasks, writing, total>>

\* The callback or the task returns.
Return ==
  /\ running
  /\ Loop \notin writing
  /\ running' = FALSE
  /\ UNCHANGED <<pc, quit, eventfd, active, tasks, batch, writing, total, ran>>

EndRound ==
  /\ pc = "run"
  /\ ~running
  /\ batch = <<>>
  /\ pc' = "poll"
  /\ UNCHANGED <<quit, eventfd, active, tasks, batch, running, writing, total, ran>>

\* The loop condition is only looked at between two rounds.
Exit ==
  /\ pc = "poll"
  /\ quit
  /\ pc' = "stopped"
  /\ UNCHANGED <<quit, eventfd, active, tasks, batch, running, writing, total, ran>>

-----------------------------------------------------------------------------
Round ==
  \/ Poll
  \/ ReadEventfd
  \/ HandleEvent
  \/ SwapTasks
  \/ StartTask
  \/ Return
  \/ EndRound
  \/ Exit

Next ==
  \/ \E c \in Callers : WriteEventfd(c) \/ QueueInLoop(c, "work")
  \/ \E u \in Users : QueueInLoop(u, "stop")
  \/ StopInLoop
  \/ Round

Spec == Init /\ [][Next]_vars

\* Nothing makes a socket ready: the loop sleeps until the eventfd is readable.
Awake == pc = "poll" => quit \/ eventfd > 0

\* The loop's thread runs while it has a reason to, its callbacks return, and
\* a thread that pushed a task goes on to the write.
Fairness ==
  /\ WF_vars(Awake /\ Round)
  /\ \A c \in Callers : WF_vars(WriteEventfd(c))

FairSpec == Spec /\ Fairness

-----------------------------------------------------------------------------
(* Properties *)

\* A queued task is never left to a loop that sleeps: when tasks wait, the
\* eventfd is readable, or a thread is about to write it, or this round has
\* yet to take the queue over.
NoLostWakeup ==
  tasks # <<>> => eventfd > 0 \/ writing # {} \/ pc = "dispatch"

\* The tasks still to run are exactly those after the last one that ran, in
\* the order they were pushed: none is lost, run twice or overtaken, however
\* pushes fall between the swap and the end of the round.  A queued stop thus
\* never cuts off what was queued before it.
Waiting == batch \o tasks
InOrder ==
  /\ Len(Waiting) = total - ran
  /\ \A i \in 1 .. Len(Waiting) : Waiting[i].ticket = ran + i

\* Every queued task is run, unless the loop stops first: tasks a callback
\* queues while RunTask empties the queue do not wait for the next socket
\* event.
EveryTaskRuns ==
  \A k \in 1 .. MaxPosts : total >= k ~> (ran >= k \/ pc = "stopped")

\* A stop that was asked for ends the loop, whatever else is queued.
StopEnds ==
  (quit \/ \E i \in 1 .. Len(Waiting) : Waiting[i].kind = "stop") ~> pc = "stopped"
=============================================================================

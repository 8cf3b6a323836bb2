-------------------------- MODULE LoopThreadProofs --------------------------
(***************************************************************************)
(* First about an EventLoop: no lost wakeup and no lost, repeated or       *)
(* overtaken task, for every number of threads and of posts and every      *)
(* eventfd limit.  Then about the LoopThread around it: no call meets a    *)
(* loop that is gone, for every number of users of the loop; and what was  *)
(* shown of an EventLoop holds of the one inside a LoopThread.             *)
(***************************************************************************)
EXTENDS LoopThread, SequenceTheorems, TLAPS

-----------------------------------------------------------------------------
(* The loop, whatever the threads around it do *)

\* InOrder, stated of the two vectors apart.
Tickets ==
  /\ \A i \in 1 .. Len(batch) : batch[i].ticket = ran + i
  /\ \A i \in 1 .. Len(tasks) : tasks[i].ticket = ran + Len(batch) + i
  /\ total = ran + Len(batch) + Len(tasks)

\* Between two rounds, and while channels are dispatched, RunTask's local
\* vector does not exist: the swap never overwrites tasks.
BatchIsLocal == batch # <<>> => pc = "run"

Inv ==
  /\ TypeOK
  /\ NoLostWakeup
  /\ Tickets
  /\ BatchIsLocal

LEMMA InitInv == Init => Inv
<1>. SUFFICES ASSUME Init PROVE Inv
  OBVIOUS
<1>1. TypeOK
  <2>1. <<>> \in Seq(Task) /\ 0 \in 0 .. EfdMax
    BY EmptySeq, EfdMaxAssumption
  <2> QED BY <2>1 DEF Init, TypeOK
<1>2. NoLostWakeup /\ BatchIsLocal
  BY DEF Init, NoLostWakeup, BatchIsLocal
<1>3. Tickets
  <2>1. tasks = <<>> /\ batch = <<>> /\ Len(tasks) = 0 /\ Len(batch) = 0
        /\ ran = 0 /\ total = 0
    BY DEF Init
  <2> QED BY <2>1 DEF Tickets
<1> QED BY <1>1, <1>2, <1>3 DEF Inv

\* Appending to a sequence: its length and its elements.
LEMMA Appended ==
  ASSUME NEW S, NEW s \in Seq(S), NEW x \in S
  PROVE  /\ Append(s, x) \in Seq(S)
         /\ Len(Append(s, x)) = Len(s) + 1
         /\ \A i \in 1 .. Len(s) : Append(s, x)[i] = s[i]
         /\ Append(s, x)[Len(s) + 1] = x
OBVIOUS

LEMMA QueueInLoopInv ==
  ASSUME Inv, NEW c \in Callers, NEW kind \in {"work", "stop"}, QueueInLoop(c, kind)
  PROVE  Inv'
<1>. DEFINE t == [ticket |-> total + 1, kind |-> kind]
<1>. USE DEF QueueInLoop
<1>1. t \in Task /\ t.ticket = total + 1
  BY DEF Inv, TypeOK, Task
<1>2. /\ tasks' \in Seq(Task)
      /\ Len(tasks') = Len(tasks) + 1
      /\ \A i \in 1 .. Len(tasks) : tasks'[i] = tasks[i]
      /\ tasks'[Len(tasks) + 1] = t
  <2>. HIDE DEF t
  <2> QED BY <1>1, Appended DEF Inv, TypeOK, t
<1>3. TypeOK'
  BY <1>2 DEF Inv, TypeOK
<1>4. NoLostWakeup'
  BY DEF NoLostWakeup
<1>5. Len(tasks) \in Nat /\ Len(batch) \in Nat /\ ran \in Nat /\ total \in Nat
  BY DEF Inv, TypeOK
<1>6. Tickets'
  <2>0. total' = total + 1 /\ ran' = ran /\ batch' = batch
        /\ total = ran + Len(batch) + Len(tasks)
    BY DEF Inv, Tickets
  <2>1. total' = ran' + Len(batch') + Len(tasks')
    <3>. HIDE DEF QueueInLoop, t
    <3> QED BY <1>2, <1>5, <2>0
  <2>2. ASSUME NEW i \in 1 .. Len(tasks')
        PROVE  tasks'[i].ticket = ran' + Len(batch') + i
    <3>. HIDE DEF t
    <3>1. CASE i \in 1 .. Len(tasks)
      BY <1>2, <3>1 DEF Inv, Tickets
    <3>2. CASE i = Len(tasks) + 1
      BY <1>1, <1>2, <1>5, <3>2 DEF Inv, Tickets
    <3> QED BY <1>2, <1>5, <3>1, <3>2
  <2> QED BY <2>1, <2>2 DEF Inv, Tickets
<1>7. BatchIsLocal'
  BY DEF Inv, BatchIsLocal
<1> QED BY <1>3, <1>4, <1>6, <1>7 DEF Inv

LEMMA SwapTasksInv ==
  ASSUME Inv, SwapTasks
  PROVE  Inv'
<1>. USE DEF SwapTasks
<1>1. batch = <<>> /\ Len(batch) = 0
  BY DEF Inv, BatchIsLocal
<1>2. TypeOK' /\ BatchIsLocal' /\ NoLostWakeup'
  BY DEF Inv, TypeOK, BatchIsLocal, NoLostWakeup
<1>3. Tickets'
  BY <1>1 DEF Inv, TypeOK, Tickets
<1> QED BY <1>2, <1>3 DEF Inv

LEMMA StartTaskInv ==
  ASSUME Inv, StartTask
  PROVE  Inv'
<1>. USE DEF StartTask
<1>1. /\ batch' \in Seq(Task)
      /\ Len(batch') = Len(batch) - 1
      /\ \A i \in 1 .. Len(batch') : batch'[i] = batch[i + 1]
      /\ Head(batch) = batch[1] /\ Head(batch) \in Task
      /\ Len(batch) \in Nat \ {0}
  BY DEF Inv, TypeOK
<1>2. ran' = ran + 1
  BY <1>1 DEF Inv, TypeOK, Tickets
<1>3. TypeOK'
  BY <1>1, <1>2 DEF Inv, TypeOK
<1>4. Tickets'
  <2>1. /\ Len(tasks) \in Nat /\ Len(batch) \in Nat \ {0} /\ ran \in Nat
        /\ tasks' = tasks /\ total' = total
        /\ total = ran + Len(batch) + Len(tasks)
    BY <1>1 DEF Inv, TypeOK, Tickets
  <2>2. total' = ran' + Len(batch') + Len(tasks')
    <3>. HIDE DEF StartTask
    <3> QED BY <1>1, <1>2, <2>1
  <2>3. ASSUME NEW i \in 1 .. Len(tasks')
        PROVE  tasks'[i].ticket = ran' + Len(batch') + i
    <3>1. tasks[i].ticket = ran + Len(batch) + i
      BY <2>1 DEF Inv, Tickets
    <3>. HIDE DEF StartTask
    <3> QED BY <1>1, <1>2, <2>1, <3>1
  <2>4. ASSUME NEW i \in 1 .. Len(batch')
        PROVE  batch'[i].ticket = ran' + i
    <3>1. batch'[i] = batch[i + 1] /\ i + 1 \in 1 .. Len(batch)
      BY <1>1
    <3>2. batch[i + 1].ticket = ran + (i + 1)
      BY <3>1 DEF Inv, Tickets
    <3>. HIDE DEF StartTask
    <3> QED BY <1>2, <2>1, <3>1, <3>2
  <2> QED BY <2>2, <2>3, <2>4 DEF Tickets
<1>5. NoLostWakeup' /\ BatchIsLocal'
  BY DEF Inv, NoLostWakeup, BatchIsLocal
<1> QED BY <1>3, <1>4, <1>5 DEF Inv

\* Every step keeps the invariant.
LEMMA NextInv == Inv /\ [Next]_vars => Inv'
<1>. SUFFICES ASSUME Inv, [Next]_vars PROVE Inv'
  OBVIOUS
<1>. USE DEF Inv, TypeOK, NoLostWakeup, Tickets, BatchIsLocal
<1>1. ASSUME NEW c \in Callers, WriteEventfd(c) PROVE Inv'
  BY <1>1, EfdMaxAssumption DEF WriteEventfd
<1>2. ASSUME NEW c \in Callers, NEW kind \in {"work", "stop"}, QueueInLoop(c, kind)
      PROVE  Inv'
  BY <1>2, QueueInLoopInv
<1>3. CASE StopInLoop
  BY <1>3 DEF StopInLoop
<1>4. CASE Poll
  BY <1>4 DEF Poll
<1>5. CASE ReadEventfd
  BY <1>5, EfdMaxAssumption DEF ReadEventfd
<1>6. CASE HandleEvent
  BY <1>6 DEF HandleEvent
<1>7. CASE SwapTasks
  BY <1>7, SwapTasksInv
<1>8. CASE StartTask
  BY <1>8, StartTaskInv
<1>9. CASE Return
  BY <1>9 DEF Return
<1>10. CASE EndRound
  BY <1>10 DEF EndRound
<1>11. CASE Exit
  BY <1>11 DEF Exit
<1>12. CASE UNCHANGED vars
  BY <1>12 DEF vars
<1> QED
  BY <1>1, <1>2, <1>3, <1>4, <1>5, <1>6, <1>7, <1>8, <1>9, <1>10, <1>11, <1>12
  DEF Next, Round, Callers

\* What the two vectors hold, one after the other, is what InOrder says.
LEMMA TicketsInOrder == TypeOK /\ Tickets => InOrder
<1>. SUFFICES ASSUME TypeOK, Tickets PROVE InOrder
  OBVIOUS
<1>1. Len(batch) \in Nat /\ Len(tasks) \in Nat /\ ran \in Nat
  BY DEF TypeOK
<1>2. /\ Len(Waiting) = Len(batch) + Len(tasks)
      /\ \A i \in 1 .. Len(Waiting) :
           Waiting[i] = IF i <= Len(batch) THEN batch[i] ELSE tasks[i - Len(batch)]
  BY ConcatProperties DEF Waiting, TypeOK
<1>3. ASSUME NEW i \in 1 .. Len(Waiting) PROVE Waiting[i].ticket = ran + i
  <2>1. CASE i <= Len(batch)
    BY <1>1, <1>2, <2>1 DEF Tickets
  <2>2. CASE ~(i <= Len(batch))
    <3>1. i - Len(batch) \in 1 .. Len(tasks)
      BY <1>1, <1>2, <2>2
    <3>2. tasks[i - Len(batch)].ticket = ran + Len(batch) + (i - Len(batch))
      BY <3>1 DEF Tickets
    <3> QED BY <1>1, <1>2, <2>2, <3>2
  <2> QED BY <2>1, <2>2
<1> QED BY <1>1, <1>2, <1>3 DEF InOrder, Tickets

\* Inv is an invariant of the loop, whatever the threads around it do.
THEOREM Invariance == Spec => []Inv
<1>1. Init => Inv
  BY InitInv
<1>2. Inv /\ [Next]_vars => Inv'
  BY NextInv
<1> QED BY <1>1, <1>2, PTL DEF Spec

\* The loop's state is well typed in every behaviour.
THEOREM TypeCorrect == Spec => []TypeOK
BY Invariance, PTL DEF Inv

\* Queued tasks never wait behind a sleeping loop: QueueInLoop's push and
\* write, and the loop's read and swap, can interleave in any way.
THEOREM Wakeup == Spec => []NoLostWakeup
BY Invariance, PTL DEF Inv

\* Tasks run in the order they were pushed, each exactly once.
THEOREM Order == Spec => []InOrder
<1>1. Inv => InOrder
  BY TicketsInOrder DEF Inv
<1> QED BY <1>1, Invariance, PTL

-----------------------------------------------------------------------------
(* The thread around the loop *)

\* The loop's thread is inside a callback whenever it is inside a call, and
\* callbacks are only run in the middle of a round.
CallsInsideRounds ==
  /\ Loop \in writing => running
  /\ running => pc \in {"dispatch", "run"}

\* The loop object is there from before its first round to after its last,
\* and published in between.
RoundsInsideLife ==
  /\ worker \in {"start", "built"} => pc = "poll"
  /\ worker \in {"left", "cleared", "gone"} => pc = "stopped"
  /\ pc = "stopped" => quit
  /\ published <=> worker \in {"looping", "left"}

\* The destructor holds the mutex from its look at _loop to the end of its
\* call, so that the worker cannot clear _loop meanwhile.
OwnerHasLock ==
  /\ owner \in {"locked", "stopping"} => mutex = Owner
  /\ owner = "stopping" => published

\* Only the destructor queues a stop.
StopsAreOwners ==
  \/ owner \in {"stopping", "joining", "joined"}
  \/ /\ \A i \in 1 .. Len(tasks) : tasks[i].kind = "work"
     /\ \A i \in 1 .. Len(batch) : batch[i].kind = "work"

\* Users have a pointer only between constructor and destructor, to a loop
\* nobody has asked to stop.
HoldersAreServed == holds # {} => owner = "ready" /\ published /\ ~quit

\* Whoever is inside a call has a pointer or is the destructor.
CallersHold ==
  \A u \in Users : u \in writing => u \in holds \/ (u = Owner /\ owner = "stopping")

ThreadInv ==
  /\ ThreadTypeOK
  /\ CallsInsideRounds
  /\ RoundsInsideLife
  /\ OwnerHasLock
  /\ StopsAreOwners
  /\ HoldersAreServed
  /\ CallersHold

-----------------------------------------------------------------------------
(* The loop in the thread *)

LEMMA ThreadInitIsInit == ThreadInit => Init
BY DEF ThreadInit

\* Every step of worker, owner and users is one of the loop, or none for it.
LEMMA ThreadStepIsLoopStep == [ThreadNext]_allVars => [Next]_vars
<1>. SUFFICES ASSUME [ThreadNext]_allVars PROVE [Next]_vars
  OBVIOUS
<1>. USE DEF Next, Callers
<1>1. CASE WorkerStep
  BY <1>1 DEF WorkerStep, BuildLoop, PublishLoop, LeaveLoop, ClearLoop, DestroyLoop, vars
<1>2. CASE RunLoop
  BY <1>2 DEF RunLoop, CallbackCall
<1>3. CASE Construct \/ BeginDestroy
  BY <1>3 DEF Construct, BeginDestroy, vars
<1>4. CASE DestructorStep
  BY <1>4, OwnerAssumption
  DEF DestructorStep, LockToStop, PushStop, WriteStop, AlreadyLeft, Join, vars
<1>5. ASSUME NEW u \in Users, GetLoop(u) \/ UserCall(u) PROVE [Next]_vars
  BY <1>5 DEF GetLoop, UserCall, vars
<1>6. CASE UNCHANGED allVars
  BY <1>6 DEF allVars, vars
<1> QED BY <1>1, <1>2, <1>3, <1>4, <1>5, <1>6 DEF ThreadNext

\* An EventLoop inside a LoopThread behaves as module EventLoop says of one
\* among any threads: the steps of construction and destruction do not touch
\* it, and every call on it is one of QueueInLoop's.
THEOREM LoopInside == ThreadSpec => Spec
<1>1. ThreadInit => Init
  BY ThreadInitIsInit
<1>2. [ThreadNext]_allVars => [Next]_vars
  BY ThreadStepIsLoopStep
<1> QED BY <1>1, <1>2, PTL DEF ThreadSpec, Spec

-----------------------------------------------------------------------------
(* The invariant of the thread around it *)

LEMMA InitThreadInv == ThreadInit => ThreadInv
<1>. SUFFICES ASSUME ThreadInit PROVE ThreadInv
  OBVIOUS
<1>. USE DEF ThreadInit
<1>1. TypeOK
  BY InitInv DEF Inv
<1>2. ThreadTypeOK
  BY <1>1 DEF ThreadTypeOK
<1>3. CallsInsideRounds /\ RoundsInsideLife /\ OwnerHasLock /\ HoldersAreServed /\ CallersHold
  BY DEF Init, CallsInsideRounds, RoundsInsideLife, OwnerHasLock, HoldersAreServed, CallersHold
<1>4. StopsAreOwners
  <2>1. tasks = <<>> /\ batch = <<>>
    BY DEF Init
  <2> QED BY <2>1 DEF StopsAreOwners
<1> QED BY <1>2, <1>3, <1>4 DEF ThreadInv

\* The worker outside its loop.
LEMMA WorkerKeeps ==
  ASSUME ThreadInv, TypeOK', WorkerStep
  PROVE  ThreadInv'
<1>. USE DEF WorkerStep, BuildLoop, PublishLoop, LeaveLoop, ClearLoop, DestroyLoop, vars
<1>1. ThreadTypeOK'
  BY DEF ThreadInv, ThreadTypeOK
<1>2. CallsInsideRounds' /\ CallersHold' /\ StopsAreOwners'
  BY DEF ThreadInv, CallsInsideRounds, CallersHold, StopsAreOwners
<1>3. RoundsInsideLife'
  BY DEF ThreadInv, RoundsInsideLife
<1>4. OwnerHasLock'
  BY OwnerAssumption DEF ThreadInv, OwnerHasLock, RoundsInsideLife, Free
<1>5. HoldersAreServed'
  BY DEF ThreadInv, HoldersAreServed, RoundsInsideLife
<1> QED BY <1>1, <1>2, <1>3, <1>4, <1>5 DEF ThreadInv

\* A call of any thread leaves the round where it is.
LEMMA CallKeepsStops ==
  ASSUME TypeOK, StopsAreOwners, NEW c \in Callers, QueueInLoop(c, "work"), owner' = owner
  PROVE  StopsAreOwners'
<1>. DEFINE t == [ticket |-> total + 1, kind |-> "work"]
<1>1. t \in Task /\ t.kind = "work"
  BY DEF TypeOK, Task
<1>2. tasks' = Append(tasks, t) /\ batch' = batch /\ tasks \in Seq(Task)
  BY DEF QueueInLoop, TypeOK
<1>. HIDE DEF t
<1>3. /\ Len(tasks') = Len(tasks) + 1 /\ Len(tasks) \in Nat
      /\ \A i \in 1 .. Len(tasks) : tasks'[i] = tasks[i]
      /\ tasks'[Len(tasks) + 1] = t
  BY <1>1, <1>2, Appended
<1>4. CASE owner \in {"stopping", "joining", "joined"}
  BY <1>4 DEF StopsAreOwners
<1>5. CASE owner \notin {"stopping", "joining", "joined"}
  <2>1. ASSUME NEW i \in 1 .. Len(tasks') PROVE tasks'[i].kind = "work"
    <3>1. CASE i \in 1 .. Len(tasks)
      BY <1>3, <1>5, <3>1 DEF StopsAreOwners
    <3>2. CASE i = Len(tasks) + 1
      BY <1>1, <1>3, <3>2
    <3> QED BY <1>3, <3>1, <3>2
  <2> QED BY <1>2, <1>5, <2>1 DEF StopsAreOwners
<1> QED BY <1>4, <1>5

\* A task or the swap takes nothing from a queue without stops but work.
LEMMA RoundKeepsStops ==
  ASSUME TypeOK, StopsAreOwners, Round, owner' = owner
  PROVE  StopsAreOwners'
<1>. SUFFICES ASSUME owner \notin {"stopping", "joining", "joined"}
              PROVE  StopsAreOwners'
  BY DEF StopsAreOwners
<1>1. CASE SwapTasks
  <2>1. batch' = tasks /\ tasks' = <<>>
    BY <1>1 DEF SwapTasks
  <2> QED BY <2>1 DEF StopsAreOwners
<1>2. CASE StartTask
  <2>1. /\ Len(batch') = Len(batch) - 1 /\ Len(batch) \in Nat \ {0}
        /\ \A i \in 1 .. Len(batch') : batch'[i] = batch[i + 1]
        /\ tasks' = tasks
    BY <1>2 DEF StartTask, TypeOK
  <2>2. ASSUME NEW i \in 1 .. Len(batch') PROVE batch'[i].kind = "work"
    <3>1. i + 1 \in 1 .. Len(batch)
      BY <2>1
    <3> QED BY <2>1, <3>1 DEF StopsAreOwners
  <2> QED BY <2>1, <2>2 DEF StopsAreOwners
<1>3. CASE Poll \/ ReadEventfd \/ HandleEvent \/ Return \/ EndRound \/ Exit
  <2>1. batch' = batch /\ tasks' = tasks
    BY <1>3 DEF Poll, ReadEventfd, HandleEvent, Return, EndRound, Exit
  <2> QED BY <2>1 DEF StopsAreOwners
<1> QED BY <1>1, <1>2, <1>3 DEF Round

\* A round sets _quit only when somebody has queued a stop, and then nobody
\* holds the pointer.
LEMMA RoundKeeps ==
  ASSUME ThreadInv, TypeOK', worker = "looping", Round, UNCHANGED threadVars
  PROVE  ThreadInv'
<1>. USE DEF threadVars
<1>1. ThreadTypeOK'
  BY DEF ThreadInv, ThreadTypeOK
<1>2. CallsInsideRounds'
  BY DEF ThreadInv, CallsInsideRounds, Round, Poll, ReadEventfd, HandleEvent,
         SwapTasks, StartTask, Return, EndRound, Exit
<1>3. RoundsInsideLife'
  BY DEF ThreadInv, RoundsInsideLife, CallsInsideRounds, Round, Poll, ReadEventfd,
         HandleEvent, SwapTasks, StartTask, Return, EndRound, Exit
<1>4. OwnerHasLock'
  BY DEF ThreadInv, OwnerHasLock
<1>5. StopsAreOwners'
  BY RoundKeepsStops DEF ThreadInv, ThreadTypeOK
<1>6. CallersHold'
  BY DEF ThreadInv, CallersHold, Round, Poll, ReadEventfd, HandleEvent,
         SwapTasks, StartTask, Return, EndRound, Exit
<1>7. HoldersAreServed'
  <2>1. CASE StartTask
    <3>1. batch # <<>> => Head(batch) = batch[1] /\ 1 \in 1 .. Len(batch)
      BY DEF ThreadInv, ThreadTypeOK, TypeOK
    <3>2. holds # {} => Head(batch).kind = "work"
      BY <2>1, <3>1 DEF StartTask, ThreadInv, HoldersAreServed, StopsAreOwners
    <3> QED BY <2>1, <3>2 DEF StartTask, ThreadInv, HoldersAreServed
  <2>2. CASE Poll \/ ReadEventfd \/ HandleEvent \/ SwapTasks \/ Return \/ EndRound \/ Exit
    <3>1. quit' = quit
      BY <2>2 DEF Poll, ReadEventfd, HandleEvent, SwapTasks, Return, EndRound, Exit
    <3> QED BY <3>1 DEF ThreadInv, HoldersAreServed
  <2> QED BY <2>1, <2>2 DEF Round
<1> QED BY <1>1, <1>2, <1>3, <1>4, <1>5, <1>6, <1>7 DEF ThreadInv

\* Calls: from callbacks, and from users with a pointer.
LEMMA CallKeeps ==
  ASSUME ThreadInv, TypeOK', NEW c \in Callers, UNCHANGED threadVars,
         QueueInLoop(c, "work") \/ WriteEventfd(c),
         c # Loop => c \in holds
  PROVE  ThreadInv'
<1>. USE DEF threadVars
<1>1. ThreadTypeOK'
  BY DEF ThreadInv, ThreadTypeOK
<1>2. CallsInsideRounds'
  BY DEF ThreadInv, CallsInsideRounds, QueueInLoop, WriteEventfd, MayCall
<1>3. RoundsInsideLife' /\ OwnerHasLock' /\ HoldersAreServed'
  BY DEF ThreadInv, RoundsInsideLife, OwnerHasLock, HoldersAreServed, QueueInLoop, WriteEventfd
<1>4. StopsAreOwners'
  <2>1. CASE QueueInLoop(c, "work")
    BY <2>1, CallKeepsStops DEF ThreadInv, ThreadTypeOK
  <2>2. CASE WriteEventfd(c)
    BY <2>2 DEF WriteEventfd, ThreadInv, StopsAreOwners
  <2> QED BY <2>1, <2>2
<1>5. CallersHold'
  BY LoopAssumption DEF ThreadInv, CallersHold, QueueInLoop, WriteEventfd
<1> QED BY <1>1, <1>2, <1>3, <1>4, <1>5 DEF ThreadInv

\* A callback stops the loop, when nobody else uses it.
LEMMA StopInLoopKeeps ==
  ASSUME ThreadInv, TypeOK', holds = {}, StopInLoop, UNCHANGED threadVars
  PROVE  ThreadInv'
BY DEF StopInLoop, MayCall, threadVars, ThreadInv, ThreadTypeOK, CallsInsideRounds,
       RoundsInsideLife, OwnerHasLock, StopsAreOwners, HoldersAreServed, CallersHold

\* The constructor returns, the destructor begins: nobody holds a pointer.
LEMMA OwnerKeeps ==
  ASSUME ThreadInv, TypeOK', Construct \/ BeginDestroy
  PROVE  ThreadInv'
<1>. USE DEF Construct, BeginDestroy, vars
<1>1. ThreadTypeOK' /\ CallsInsideRounds' /\ RoundsInsideLife' /\ OwnerHasLock'
  BY DEF ThreadInv, ThreadTypeOK, CallsInsideRounds, RoundsInsideLife, OwnerHasLock
<1>2. StopsAreOwners' /\ HoldersAreServed' /\ CallersHold'
  BY DEF ThreadInv, StopsAreOwners, HoldersAreServed, CallersHold
<1> QED BY <1>1, <1>2 DEF ThreadInv

\* The destructor's call is made with the mutex held and ends before it is
\* released.
LEMMA DestructorKeeps ==
  ASSUME ThreadInv, TypeOK', DestructorStep
  PROVE  ThreadInv'
<1>. USE DEF DestructorStep, LockToStop, PushStop, WriteStop, AlreadyLeft, Join,
             QueueInLoop, WriteEventfd, MayCall, vars
<1>1. ThreadTypeOK'
  BY DEF ThreadInv, ThreadTypeOK
<1>2. CallsInsideRounds'
  BY OwnerAssumption, LoopAssumption DEF ThreadInv, CallsInsideRounds
<1>3. RoundsInsideLife'
  BY DEF ThreadInv, RoundsInsideLife
<1>4. OwnerHasLock' /\ HoldersAreServed' /\ CallersHold'
  BY DEF ThreadInv, OwnerHasLock, HoldersAreServed, CallersHold
<1>5. StopsAreOwners'
  BY DEF ThreadInv, StopsAreOwners
<1> QED BY <1>1, <1>2, <1>3, <1>4, <1>5 DEF ThreadInv

LEMMA ThreadNextInv == ThreadInv /\ TypeOK' /\ [ThreadNext]_allVars => ThreadInv'
<1>. SUFFICES ASSUME ThreadInv, TypeOK', [ThreadNext]_allVars PROVE ThreadInv'
  OBVIOUS
<1>1. CASE WorkerStep
  BY <1>1, WorkerKeeps
<1>2. CASE RunLoop
  <2>1. CASE Round
    BY <1>2, <2>1, RoundKeeps DEF RunLoop
  <2>2. CASE QueueInLoop(Loop, "work") \/ WriteEventfd(Loop)
    BY <1>2, <2>2, CallKeeps DEF RunLoop, Callers
  <2>3. CASE holds = {} /\ StopInLoop
    BY <1>2, <2>3, StopInLoopKeeps DEF RunLoop
  <2> QED BY <1>2, <2>1, <2>2, <2>3 DEF RunLoop, CallbackCall
<1>3. CASE Construct \/ BeginDestroy
  BY <1>3, OwnerKeeps
<1>4. CASE DestructorStep
  BY <1>4, DestructorKeeps
<1>5. ASSUME NEW u \in Users, GetLoop(u) PROVE ThreadInv'
  <2>. USE <1>5 DEF GetLoop, vars
  <2>1. ThreadTypeOK' /\ CallsInsideRounds' /\ RoundsInsideLife' /\ OwnerHasLock'
    BY DEF ThreadInv, ThreadTypeOK, CallsInsideRounds, RoundsInsideLife, OwnerHasLock
  <2>2. StopsAreOwners' /\ HoldersAreServed' /\ CallersHold'
    BY DEF ThreadInv, StopsAreOwners, HoldersAreServed, CallersHold
  <2> QED BY <2>1, <2>2 DEF ThreadInv
<1>6. ASSUME NEW u \in Users, UserCall(u) PROVE ThreadInv'
  BY <1>6, CallKeeps DEF UserCall, Callers
<1>7. CASE UNCHANGED allVars
  BY <1>7 DEF allVars, vars, threadVars, ThreadInv, ThreadTypeOK, CallsInsideRounds,
              RoundsInsideLife, OwnerHasLock, StopsAreOwners, HoldersAreServed, CallersHold
<1> QED BY <1>1, <1>2, <1>3, <1>4, <1>5, <1>6, <1>7 DEF ThreadNext

-----------------------------------------------------------------------------
(* The theorems *)

\* The invariant of worker, owner and users together.
THEOREM ThreadInvariance == ThreadSpec => []ThreadInv
<1>1. ThreadInit => ThreadInv
  BY InitThreadInv
<1>2. ThreadSpec => []TypeOK
  BY LoopInside, TypeCorrect, PTL
<1>3. ThreadInv /\ TypeOK' /\ [ThreadNext]_allVars => ThreadInv'
  BY ThreadNextInv
<1> QED BY <1>1, <1>2, <1>3, PTL DEF ThreadSpec

\* No call runs on a loop that is gone, whenever the worker leaves the loop
\* and however many users there are.
THEOREM CallsAreSafe == ThreadSpec => []CallsHitLiveLoop
<1>1. ThreadInv => CallsHitLiveLoop
  <2>. SUFFICES ASSUME ThreadInv PROVE CallsHitLiveLoop
    OBVIOUS
  <2>1. ASSUME NEW c \in writing PROVE Alive
    <3>1. CASE c = Loop
      BY <2>1, <3>1 DEF ThreadInv, ThreadTypeOK, CallsInsideRounds, RoundsInsideLife, Alive
    <3>2. CASE c \in Users
      BY <2>1, <3>2 DEF ThreadInv, CallersHold, HoldersAreServed, OwnerHasLock,
                        RoundsInsideLife, Alive
    <3> QED BY <2>1, <3>1, <3>2 DEF ThreadInv, ThreadTypeOK, TypeOK, Callers
  <2> QED BY <2>1 DEF CallsHitLiveLoop, ThreadInv, RoundsInsideLife
<1> QED BY <1>1, ThreadInvariance, PTL

\* Inside a LoopThread, too, no task waits behind a sleeping loop, the
\* destructor's stop included, and tasks run in order.
THEOREM TasksInThread == ThreadSpec => [](NoLostWakeup /\ InOrder)
BY LoopInside, Wakeup, Order, PTL
=============================================================================

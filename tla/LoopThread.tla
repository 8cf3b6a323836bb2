---------------------------- MODULE LoopThread ----------------------------
(***************************************************************************)
(* A LoopThread: an EventLoop that is a local variable of a worker thread, *)
(* published to its owner through the pointer _loop, and stopped and       *)
(* joined by the owner's destructor.  _mutex guards _loop; the critical    *)
(* sections that only read or write _loop are single steps, the one in     *)
(* which the destructor asks the loop to stop is several.                  *)
(*                                                                         *)
(* What the class leaves to its callers: the users of the loop have left   *)
(* their last call, and use it no more, before the destructor begins or a  *)
(* callback stops the loop from inside; and the destructor is not run by   *)
(* the worker itself (it terminates the program there).                    *)
(***************************************************************************)
EXTENDS EventLoop

CONSTANT Owner   \* the thread that constructs and destroys the LoopThread

ASSUME OwnerAssumption == Owner \in Users /\ Owner # "free"

VARIABLES
  worker,     \* the worker thread, in ThreadEntry
  owner,      \* the owner, in the constructor or the destructor
  mutex,      \* the holder of _mutex between two steps, or Free
  published,  \* _loop # nullptr
  holds       \* users that got a pointer to the loop from GetLoop

Free == "free"

threadVars == <<worker, owner, mutex, published, holds>>
allVars == <<vars, threadVars>>

ThreadTypeOK ==
  /\ TypeOK
  /\ worker \in {"start", "built", "looping", "left", "cleared", "gone"}
  /\ owner \in {"waiting", "ready", "locking", "locked", "stopping", "joining", "joined"}
  /\ mutex \in {Free, Owner}
  /\ published \in BOOLEAN
  /\ holds \in SUBSET Users

ThreadInit ==
  /\ Init
  /\ worker = "start"
  /\ owner = "waiting"
  /\ mutex = Free
  /\ published = FALSE
  /\ holds = {}

\* The EventLoop object exists: built, and not yet out of scope.
Alive == worker \in {"built", "looping", "left", "cleared"}

-----------------------------------------------------------------------------
(* ThreadEntry *)

BuildLoop ==
  /\ worker = "start"
  /\ worker' = "built"
  /\ UNCHANGED <<vars, owner, mutex, published, holds>>

PublishLoop ==
  /\ worker = "built"
  /\ mutex = Free
  /\ published' = TRUE
  /\ worker' = "looping"
  /\ UNCHANGED <<vars, owner, mutex, holds>>

\* MaxPosts bounds the model, not the queue: room is kept for the stop.
Room == total < MaxPosts - 1

\* What the callbacks that users put on the loop may do to it.  None is there
\* before the constructor has returned.
CallbackCall ==
  /\ owner # "waiting"
  /\ \/ Room /\ QueueInLoop(Loop, "work")
     \/ holds = {} /\ StopInLoop

RunLoop ==
  /\ worker = "looping"
  /\ Round \/ WriteEventfd(Loop) \/ CallbackCall
  /\ UNCHANGED threadVars

LeaveLoop ==
  /\ worker = "looping"
  /\ pc = "stopped"
  /\ worker' = "left"
  /\ UNCHANGED <<vars, owner, mutex, published, holds>>

ClearLoop ==
  /\ worker = "left"
  /\ mutex = Free
  /\ published' = FALSE
  /\ worker' = "cleared"
  /\ UNCHANGED <<vars, owner, mutex, holds>>

\* The EventLoop goes out of scope and the thread ends.
DestroyLoop ==
  /\ worker = "cleared"
  /\ worker' = "gone"
  /\ UNCHANGED <<vars, owner, mutex, published, holds>>

-----------------------------------------------------------------------------
(* The owner *)

\* The constructor's wait on _cond ends.
Construct ==
  /\ owner = "waiting"
  /\ mutex = Free
  /\ published
  /\ owner' = "ready"
  /\ UNCHANGED <<vars, worker, mutex, published, holds>>

BeginDestroy ==
  /\ owner = "ready"
  /\ writing \cap Users = {}
  /\ holds' = {}
  /\ owner' = "locking"
  /\ UNCHANGED <<vars, worker, mutex, published>>

\* Mutant: the destructor looks at _loop without the lock.
LookToStop ==
  /\ owner = "locking"
  /\ mutex = Free
  /\ owner' = "locked"
  /\ UNCHANGED <<vars, worker, mutex, published, holds>>

LockToStop ==
  /\ owner = "locking"
  /\ mutex = Free
  /\ mutex' = Owner
  /\ owner' = "locked"
  /\ UNCHANGED <<vars, worker, published, holds>>

\* StopEventLoop, when the loop is still published: push and write.
PushStop ==
  /\ owner = "locked"
  /\ published
  /\ QueueInLoop(Owner, "stop")
  /\ owner' = "stopping"
  /\ UNCHANGED <<worker, mutex, published, holds>>

\* Mutant: the destructor joins with the lock held.
WriteStopHoldingLock ==
  /\ owner = "stopping"
  /\ WriteEventfd(Owner)
  /\ owner' = "joining"
  /\ UNCHANGED <<worker, mutex, published, holds>>

WriteStop ==
  /\ owner = "stopping"
  /\ WriteEventfd(Owner)
  /\ mutex' = Free
  /\ owner' = "joining"
  /\ UNCHANGED <<worker, published, holds>>

AlreadyLeft ==
  /\ owner = "locked"
  /\ ~published
  /\ mutex' = Free
  /\ owner' = "joining"
  /\ UNCHANGED <<vars, worker, published, holds>>

Join ==
  /\ owner = "joining"
  /\ worker = "gone"
  /\ owner' = "joined"
  /\ UNCHANGED <<vars, worker, mutex, published, holds>>

-----------------------------------------------------------------------------
(* The other users of the loop *)

\* A user gets the pointer while the loop is published; by the contract above
\* not from a loop a callback has stopped.
GetLoop(u) ==
  /\ owner = "ready"
  /\ mutex = Free
  /\ published
  /\ ~quit
  /\ holds' = holds \cup {u}
  /\ UNCHANGED <<vars, worker, owner, mutex, published>>

UserCall(u) ==
  /\ u \in holds
  /\ \/ Room /\ QueueInLoop(u, "work")
     \/ WriteEventfd(u)
  /\ UNCHANGED threadVars

-----------------------------------------------------------------------------
WorkerStep ==
  \/ BuildLoop
  \/ PublishLoop
  \/ LeaveLoop
  \/ ClearLoop
  \/ DestroyLoop

DestructorStep ==
  \/ LockToStop
  \/ PushStop
  \/ WriteStop
  \/ AlreadyLeft
  \/ Join

ThreadNext ==
  \/ WorkerStep
  \/ RunLoop
  \/ Construct
  \/ BeginDestroy
  \/ DestructorStep
  \/ \E u \in Users : GetLoop(u) \/ UserCall(u)

ThreadSpec ==
  /\ ThreadInit
  /\ [][ThreadNext]_allVars
  /\ WF_allVars(WorkerStep)
  /\ WF_allVars(worker = "looping" /\ Awake /\ Round /\ UNCHANGED threadVars)
  /\ WF_allVars(worker = "looping" /\ WriteEventfd(Loop) /\ UNCHANGED threadVars)
  /\ \A u \in Users : WF_allVars(WriteEventfd(u) /\ UNCHANGED threadVars)
  /\ WF_allVars(Construct)
  /\ WF_allVars(DestructorStep)

-----------------------------------------------------------------------------
(* Properties *)

\* No call runs on a loop that is gone: while any thread is between the push
\* and the write of its call, the destructor's stop included, the EventLoop
\* object exists; and whoever reads a pointer to it under the mutex reads one
\* to an object that goes on existing until the mutex is released.
CallsHitLiveLoop ==
  /\ writing # {} => Alive
  /\ published => worker \in {"looping", "left"}

\* The constructor returns, and the destructor joins the worker: neither
\* waits for ever, whether or not the loop has already left by itself.
Joins ==
  /\ <>(owner # "waiting")
  /\ owner = "locking" ~> owner = "joined"
=============================================================================

---------------------------- MODULE TimeWheel ----------------------------
(***************************************************************************)
(* The time wheel of one event loop: a circular array of Cap slots, each   *)
(* holding shared_ptrs to TimerTask objects, a map from timer ids to       *)
(* weak_ptrs, and a hand that a timerfd moves one slot per second.  A      *)
(* refresh pushes one more reference into a later slot, and a timer rings  *)
(* in the destructor of its object, when the last reference dies.          *)
(*                                                                         *)
(* Everything here runs in the loop's own thread: the public operations    *)
(* are handed over with RunInLoop, so they take place between two handlers *)
(* or inside the callback of a ringing timer, never elsewhere.             *)
(***************************************************************************)
EXTENDS Integers, FiniteSets

CONSTANTS
  Id,             \* timer ids
  Obj,            \* identities of TimerTask objects
  Cap,            \* _capacity: 60 in the code
  Timeouts,       \* the timeouts callers pass, legal or not
  MaxExpirations  \* bound: seconds the loop may fall behind its timerfd

None == "none"

ASSUME CapAssumption == Cap \in Nat /\ Cap > 1
ASSUME TimeoutsAssumption == Timeouts \subseteq Nat
ASSUME NoneAssumption == None \notin Obj /\ None \notin Id

VARIABLES
  open,           \* the wheel has not been destroyed
  timerfd,        \* expirations the kernel counted since the last read
  todo,           \* turns the current read callback still has to make
  tick,           \* _tick
  slots,          \* _slots, each as the set of objects it refers to
  taskMap,        \* _task_map: the object a weak_ptr was made from, or None
  timer,          \* _id, _timeout and _canceled of every object
  expired,        \* the references of the slot that is being cleared
  firing          \* the object whose destructor runs its _task_cb, or None

vars == <<open, timerfd, todo, tick, slots, taskMap, timer, expired, firing>>

Index == 0 .. Cap - 1

\* What an identity holds while no TimerTask has it.
Freed == [id |-> None, timeout |-> 0, canceled |-> TRUE]

TypeOK ==
  /\ open \in BOOLEAN
  /\ timerfd \in Nat
  /\ todo \in Nat
  /\ tick \in Index
  /\ slots \in [Index -> SUBSET Obj]
  /\ taskMap \in [Id -> Obj \cup {None}]
  /\ timer \in [Obj -> [id : Id \cup {None}, timeout : Nat, canceled : BOOLEAN]]
  /\ expired \in SUBSET Obj
  /\ firing \in Obj \cup {None}

Init ==
  /\ open = TRUE
  /\ timerfd = 0
  /\ todo = 0
  /\ tick = 0
  /\ slots = [i \in Index |-> {}]
  /\ taskMap = [id \in Id |-> None]
  /\ timer = [o \in Obj |-> Freed]
  /\ expired = {}
  /\ firing = None

-----------------------------------------------------------------------------
(* shared_ptr and weak_ptr *)

\* use_count() > 0: some slot, or the vector being cleared, refers to the object.
InWheel(o) == \E i \in Index : o \in slots[i]
Live(o) == InWheel(o) \/ o \in expired

\* lock() on the entry of an id: the object when it is alive.
Locks(id, o) == taskMap[id] = o /\ o # None /\ Live(o)

\* new TimerTask: an identity nothing refers to, not even an expired weak_ptr.
Fresh(o) ==
  /\ ~Live(o)
  /\ o # firing
  /\ \A id \in Id : taskMap[id] # o

\* The thread is between two handlers, or inside the callback of a timer.
Idle == todo = 0 /\ expired = {} /\ firing = None
MayCall == open /\ (Idle \/ firing # None)

-----------------------------------------------------------------------------
(* The operations, as the loop's thread executes them *)

SlotAfter(t) == (tick + t) % Cap

\* Mutant: a timeout of a whole turn or more is accepted.
LegalTimeoutUnbounded(t) == t # 0

LegalTimeout(t) == t # 0 /\ t < Cap

\* What the clients keep to: a live, uncancelled timer is not added again.
\* Connection cancels first; TcpServer draws a new id for each RunAfter.
MayAdd(id) == \A o \in Obj : Live(o) /\ timer[o].id = id => timer[o].canceled

AddTask(id, t, o) ==
  /\ MayCall
  /\ MayAdd(id)
  /\ LegalTimeout(t)
  /\ Fresh(o)
  /\ timer' = [timer EXCEPT ![o] = [id |-> id, timeout |-> t, canceled |-> FALSE]]
  /\ taskMap' = [taskMap EXCEPT ![id] = o]
  /\ slots' = [slots EXCEPT ![SlotAfter(t)] = @ \cup {o}]
  /\ UNCHANGED <<open, timerfd, todo, tick, expired, firing>>

RefreshTask(id) ==
  /\ MayCall
  /\ taskMap[id] # None
  /\ IF Live(taskMap[id])
     THEN /\ slots' = [slots EXCEPT ![SlotAfter(timer[taskMap[id]].timeout)]
                                      = @ \cup {taskMap[id]}]
          /\ UNCHANGED taskMap
     ELSE /\ taskMap' = [taskMap EXCEPT ![id] = None]
          /\ UNCHANGED slots
  /\ UNCHANGED <<open, timerfd, todo, tick, timer, expired, firing>>

CancelTask(id) ==
  /\ MayCall
  /\ \E o \in Obj :
       /\ Locks(id, o)
       /\ timer' = [timer EXCEPT ![o].canceled = TRUE]
  /\ UNCHANGED <<open, timerfd, todo, tick, slots, taskMap, expired, firing>>

HasTimer(id) == taskMap[id] # None

-----------------------------------------------------------------------------
(* The timerfd, its read callback and the turn of the wheel *)

\* The kernel counts one more second.
Expire ==
  /\ open
  /\ timerfd < MaxExpirations
  /\ timerfd' = timerfd + 1
  /\ UNCHANGED <<open, todo, tick, slots, taskMap, timer, expired, firing>>

\* Mutant: the count is read and no turn is made for it.
ReadTimerfdOnly ==
  /\ open
  /\ Idle
  /\ timerfd > 0
  /\ todo' = 0
  /\ timerfd' = 0
  /\ UNCHANGED <<open, tick, slots, taskMap, timer, expired, firing>>

\* The read returns the whole count and clears it: one turn for each.
ReadTimerfd ==
  /\ open
  /\ Idle
  /\ timerfd > 0
  /\ todo' = timerfd
  /\ timerfd' = 0
  /\ UNCHANGED <<open, tick, slots, taskMap, timer, expired, firing>>

\* RunTimerTaskInLoop up to the clear: the slot is emptied by a swap first.
RunTimerTask ==
  /\ todo > 0
  /\ expired = {}
  /\ firing = None
  /\ todo' = todo - 1
  /\ tick' = (tick + 1) % Cap
  /\ expired' = slots[(tick + 1) % Cap]
  /\ slots' = [slots EXCEPT ![(tick + 1) % Cap] = {}]
  /\ UNCHANGED <<open, timerfd, taskMap, timer, firing>>

\* Mutant: the entry goes without a look at what it refers to by now.
RemoveTimerUnchecked(o) == taskMap' = [taskMap EXCEPT ![timer[o].id] = None]

\* RemoveTimer, run at the end of o's destructor: the entry of o's id goes
\* unless it has been taken over by an object that is alive.
RemoveTimer(o) ==
  taskMap' = [taskMap EXCEPT ![timer[o].id] =
                IF @ # None /\ (@ = o \/ ~Live(@)) THEN None ELSE @]

\* clear() drops a reference to an object that another slot still holds.
DropReference(o) ==
  /\ firing = None
  /\ o \in expired
  /\ InWheel(o)
  /\ expired' = expired \ {o}
  /\ UNCHANGED <<open, timerfd, todo, tick, slots, taskMap, timer, firing>>

\* clear() drops the last reference to a cancelled object: no callback.
DestroyCanceled(o) ==
  /\ firing = None
  /\ o \in expired
  /\ ~InWheel(o)
  /\ timer[o].canceled
  /\ expired' = expired \ {o}
  /\ RemoveTimer(o)
  /\ timer' = [timer EXCEPT ![o] = Freed]
  /\ UNCHANGED <<open, timerfd, todo, tick, slots, firing>>

\* clear() drops the last reference to a timer: its destructor calls back.
Fire(o) ==
  /\ firing = None
  /\ o \in expired
  /\ ~InWheel(o)
  /\ ~timer[o].canceled
  /\ expired' = expired \ {o}
  /\ firing' = o
  /\ UNCHANGED <<open, timerfd, todo, tick, slots, taskMap, timer>>

\* The callback returns, and the destructor ends with _rels_cb.
EndFire ==
  /\ firing # None
  /\ RemoveTimer(firing)
  /\ timer' = [timer EXCEPT ![firing] = Freed]
  /\ firing' = None
  /\ UNCHANGED <<open, timerfd, todo, tick, slots, expired>>

\* ~TimeWheel cancels whatever the slots hold before it empties them, so the
\* destructors run no callback.
Destroy ==
  /\ open
  /\ Idle
  /\ open' = FALSE
  /\ timer' = [o \in Obj |-> Freed]
  /\ slots' = [i \in Index |-> {}]
  /\ taskMap' = [id \in Id |-> None]
  /\ UNCHANGED <<timerfd, todo, tick, expired, firing>>

-----------------------------------------------------------------------------
Call ==
  \/ \E id \in Id, t \in Timeouts, o \in Obj : AddTask(id, t, o)
  \/ \E id \in Id : RefreshTask(id) \/ CancelTask(id)

Turn ==
  \/ ReadTimerfd
  \/ RunTimerTask
  \/ \E o \in Obj : DropReference(o) \/ DestroyCanceled(o) \/ Fire(o)
  \/ EndFire

Next == Call \/ Turn \/ Expire \/ Destroy

Spec == Init /\ [][Next]_vars

\* Seconds pass, and the loop serves its timerfd: its handlers return.
FairSpec == Spec /\ WF_vars(Expire) /\ WF_vars(Turn)

-----------------------------------------------------------------------------
(* Properties *)

\* The distances from the hand a reference may be put at.
Due == 1 .. Cap - 1

\* A timer that has not been cancelled is the one its id leads to: a refresh
\* or a cancel through _task_map always reaches the timer that would ring,
\* whatever cancelled objects of the same id still sit in the slots.
TimerReachable ==
  \A o \in Obj : Live(o) /\ ~timer[o].canceled => taskMap[timer[o].id] = o

\* HasTimer never answers for a timer that is gone: an entry of _task_map
\* leads to an object that is alive or whose destructor is running.
NoDeadEntry ==
  \A id \in Id : HasTimer(id) => Live(taskMap[id]) \/ taskMap[id] = firing

\* The hand reaches every reference within the period of its timer: none sits
\* in the slot under the hand, where it would wait a whole turn too long.
NeverLate ==
  \A i \in Index : \A o \in slots[i] :
    \E d \in 1 .. timer[o].timeout : d \in Due /\ i = SlotAfter(d)

-----------------------------------------------------------------------------
(* The inductive invariant behind them *)

\* The entry of an id was made from a timer of that id.
OwnEntry == \A id \in Id : HasTimer(id) => timer[taskMap[id]].id = id

\* What the wheel holds are timers, with timeouts shorter than a whole turn.
LiveTimers ==
  \A o \in Obj : Live(o) => timer[o].id \in Id /\ timer[o].timeout \in Due

\* The timer that rings has left the wheel for good.
FiringLeft == firing # None => ~Live(firing) /\ timer[firing].id \in Id

Inv ==
  /\ TypeOK
  /\ OwnEntry
  /\ LiveTimers
  /\ FiringLeft
  /\ TimerReachable
  /\ NoDeadEntry
  /\ NeverLate

-----------------------------------------------------------------------------
(* The abstract timer each id stands for *)

\* The slots, counted from the hand, that refer to o.
Distances(o) == {d \in Due : o \in slots[SlotAfter(d)]}

Furthest(S) == IF S = {} THEN 0 ELSE CHOOSE d \in S : \A e \in S : e <= d

LastDistance(o) == Furthest(Distances(o))

Running(id) == HasTimer(id) /\ Live(taskMap[id]) /\ ~timer[taskMap[id]].canceled

Left(id) == IF Running(id) THEN LastDistance(taskMap[id]) ELSE -1
Period(id) == IF Running(id) THEN timer[taskMap[id]].timeout ELSE 0

Ringing == IF firing = None THEN {} ELSE {timer[firing].id}

Abstract == INSTANCE TimerSpec WITH
  MaxPeriod <- Cap - 1,
  left <- [id \in Id |-> Left(id)],
  period <- [id \in Id |-> Period(id)],
  ringing <- Ringing

\* The wheel implements the timers of TimerSpec: the callback of an id runs
\* exactly when its period has gone by since it was added or last refreshed,
\* once, and never after a cancel or while the wheel is destroyed.
ImplementsTimers == Abstract!Spec

\* A timer nobody refreshes for ever gets out of the wheel: it rings, or it
\* is cancelled, however far the loop falls behind its timerfd.
EventuallyRings ==
  \A id \in Id :
    \/ (open /\ Running(id)) ~> (~Running(id) \/ ~open)
    \/ []<><<RefreshTask(id)>>_vars
=============================================================================

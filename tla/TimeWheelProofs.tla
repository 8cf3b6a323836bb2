------------------------- MODULE TimeWheelProofs -------------------------
(***************************************************************************)
(* The invariants of the time wheel, for every number of ids, objects and  *)
(* slots and every set of timeouts.                                        *)
(***************************************************************************)
EXTENDS TimeWheel, TLAPS, WellFoundedInduction

-----------------------------------------------------------------------------
(* Arithmetic of the hand *)

\* Adding to an index goes once round the wheel at most.
LEMMA ModOnce ==
  ASSUME NEW a \in Index, NEW d \in 0 .. Cap
  PROVE  (a + d) % Cap = IF a + d < Cap THEN a + d ELSE a + d - Cap
BY CapAssumption DEF Index

\* A slot at distance d is at distance d - 1 once the hand has moved.
LEMMA TurnShortens ==
  ASSUME tick \in Index, NEW d \in Due
  PROVE  SlotAfter(d) = (((tick + 1) % Cap) + (d - 1)) % Cap
<1>. d \in 1 .. Cap - 1 /\ d - 1 \in 0 .. Cap /\ d \in 0 .. Cap /\ 1 \in 0 .. Cap
  BY CapAssumption DEF Due
<1>0. 0 \in Index
  BY CapAssumption DEF Index
<1>1. CASE tick + 1 < Cap
  <2>1. (tick + 1) % Cap = tick + 1 /\ tick + 1 \in Index
    BY <1>1, CapAssumption, ModOnce DEF Index
  <2>2. ((tick + 1) + (d - 1)) % Cap = (tick + d) % Cap
    BY CapAssumption DEF Index
  <2> QED BY <2>1, <2>2 DEF SlotAfter
<1>2. CASE tick + 1 = Cap
  <2>1. (tick + 1) % Cap = 0
    BY <1>2, CapAssumption, ModOnce DEF Index
  <2>2. SlotAfter(d) = d - 1
    BY <1>2, CapAssumption, ModOnce DEF Index, SlotAfter
  <2>3. (0 + (d - 1)) % Cap = d - 1
    BY <1>0, CapAssumption, ModOnce
  <2> QED BY <2>1, <2>2, <2>3
<1> QED BY <1>1, <1>2, CapAssumption DEF Index

-----------------------------------------------------------------------------
(* The inductive invariant *)

LEMMA InitInv == Init => Inv
BY CapAssumption, NoneAssumption
DEF Init, Inv, TypeOK, OwnEntry, LiveTimers, FiringLeft, TimerReachable,
    NoDeadEntry, NeverLate, HasTimer, Live, InWheel, Index, Freed

LEMMA AddTaskInv ==
  ASSUME Inv, NEW id \in Id, NEW t \in Timeouts, NEW o \in Obj, AddTask(id, t, o)
  PROVE  Inv'
<1>. USE DEF AddTask
<1>1. t \in Due /\ t \in Nat /\ SlotAfter(t) \in Index /\ o # None
  BY CapAssumption, TimeoutsAssumption, NoneAssumption
  DEF Inv, TypeOK, LegalTimeout, Due, SlotAfter, Index
<1>2. TypeOK'
  BY <1>1 DEF Inv, TypeOK
<1>3. \A x \in Obj : Live(x)' <=> x = o \/ Live(x)
  BY <1>1 DEF Inv, TypeOK, Live, InWheel
<1>4. /\ timer'[o] = [id |-> id, timeout |-> t, canceled |-> FALSE]
      /\ \A x \in Obj \ {o} : timer'[x] = timer[x]
  BY DEF Inv, TypeOK
<1>5. taskMap'[id] = o /\ \A i \in Id \ {id} : taskMap'[i] = taskMap[i]
  BY DEF Inv, TypeOK
<1>6. OwnEntry'
  BY <1>4, <1>5 DEF Inv, TypeOK, OwnEntry, HasTimer, Fresh
<1>7. LiveTimers'
  BY <1>1, <1>3, <1>4 DEF Inv, LiveTimers
<1>8. FiringLeft'
  BY <1>3, <1>4 DEF Inv, TypeOK, FiringLeft, Fresh
<1>9. TimerReachable'
  BY <1>3, <1>4, <1>5 DEF Inv, TypeOK, TimerReachable, MayAdd, LiveTimers
<1>10. NoDeadEntry'
  BY <1>3, <1>5 DEF Inv, TypeOK, NoDeadEntry, HasTimer
<1>11. NeverLate'
  <2>1. SUFFICES ASSUME NEW i \in Index, NEW x \in slots'[i]
                 PROVE  \E d \in 1 .. timer'[x].timeout : d \in Due /\ i = SlotAfter(d)'
    BY DEF NeverLate
  <2>2. CASE x \in slots[i]
    <3>1. x # o /\ x \in Obj
      BY <2>2 DEF Inv, TypeOK, Fresh, Live, InWheel
    <3> QED BY <2>2, <3>1, <1>4 DEF Inv, NeverLate, SlotAfter
  <2>3. CASE x = o /\ i = SlotAfter(t)
    BY <2>3, <1>1, <1>4 DEF SlotAfter, Due
  <2> QED BY <2>1, <2>2, <2>3 DEF Inv, TypeOK
<1> QED BY <1>2, <1>6, <1>7, <1>8, <1>9, <1>10, <1>11 DEF Inv

LEMMA RefreshTaskInv ==
  ASSUME Inv, NEW id \in Id, RefreshTask(id)
  PROVE  Inv'
<1>. DEFINE o == taskMap[id]
<1>. USE DEF RefreshTask
<1>1. CASE Live(o)
  <2>1. o \in Obj /\ timer[o].timeout \in Due
    BY <1>1 DEF Inv, TypeOK, LiveTimers
  <2>2. SlotAfter(timer[o].timeout) \in Index
    BY <2>1, CapAssumption DEF Inv, TypeOK, Due, SlotAfter, Index
  <2>3. TypeOK'
    BY <1>1, <2>1, <2>2 DEF Inv, TypeOK
  <2>4. \A x \in Obj : Live(x)' <=> Live(x)
    BY <1>1, <2>1, <2>2 DEF Inv, TypeOK, Live, InWheel
  <2>5. NeverLate'
    <3>1. SUFFICES ASSUME NEW i \in Index, NEW x \in slots'[i]
                   PROVE  \E d \in 1 .. timer'[x].timeout : d \in Due /\ i = SlotAfter(d)'
      BY DEF NeverLate
    <3>2. CASE x \in slots[i]
      BY <3>2 DEF Inv, NeverLate, SlotAfter
    <3>3. CASE x = o /\ i = SlotAfter(timer[o].timeout)
      BY <3>3, <2>1 DEF SlotAfter, Due
    <3> QED BY <1>1, <3>2, <3>3 DEF Inv, TypeOK
  <2> QED
    BY <1>1, <2>3, <2>4, <2>5
    DEF Inv, OwnEntry, LiveTimers, FiringLeft, TimerReachable, NoDeadEntry, HasTimer, TypeOK
<1>2. CASE ~Live(o)
  <2>1. TypeOK'
    BY <1>2 DEF Inv, TypeOK
  <2>2. taskMap'[id] = None /\ \A i \in Id \ {id} : taskMap'[i] = taskMap[i]
    BY <1>2 DEF Inv, TypeOK
  <2>3. \A x \in Obj : Live(x)' <=> Live(x)
    BY <1>2 DEF Live, InWheel
  <2>4. TimerReachable'
    BY <1>2, <2>2, <2>3 DEF Inv, TypeOK, LiveTimers, TimerReachable
  <2>5. NeverLate'
    BY <1>2 DEF Inv, NeverLate, SlotAfter
  <2> QED
    BY <1>2, <2>1, <2>2, <2>3, <2>4, <2>5
    DEF Inv, OwnEntry, LiveTimers, FiringLeft, NoDeadEntry, HasTimer, TypeOK
<1> QED BY <1>1, <1>2

LEMMA CancelTaskInv ==
  ASSUME Inv, NEW id \in Id, CancelTask(id)
  PROVE  Inv'
<1>1. PICK o \in Obj : Locks(id, o) /\ timer' = [timer EXCEPT ![o].canceled = TRUE]
  BY DEF CancelTask
<1>2. \A x \in Obj : /\ timer'[x].id = timer[x].id
                     /\ timer'[x].timeout = timer[x].timeout
                     /\ timer[x].canceled => timer'[x].canceled
  BY <1>1 DEF Inv, TypeOK
<1>3. TypeOK'
  BY <1>1 DEF Inv, TypeOK, CancelTask
<1>4. \A x \in Obj : Live(x)' <=> Live(x)
  BY DEF CancelTask, Live, InWheel
<1>5. OwnEntry' /\ LiveTimers' /\ FiringLeft' /\ NoDeadEntry'
  BY <1>2, <1>4
  DEF CancelTask, Inv, TypeOK, OwnEntry, LiveTimers, FiringLeft, NoDeadEntry, HasTimer
<1>6. TimerReachable'
  BY <1>2, <1>3, <1>4 DEF CancelTask, Inv, TypeOK, TimerReachable
<1>7. NeverLate'
  BY <1>2 DEF CancelTask, Inv, TypeOK, NeverLate, SlotAfter
<1> QED BY <1>3, <1>5, <1>6, <1>7 DEF Inv

LEMMA RunTimerTaskInv ==
  ASSUME Inv, RunTimerTask
  PROVE  Inv'
<1>. USE DEF RunTimerTask
<1>1. tick' \in Index /\ tick' = (tick + 1) % Cap
  BY CapAssumption DEF Inv, TypeOK, Index
<1>2. TypeOK'
  BY <1>1 DEF Inv, TypeOK
<1>3. \A o \in Obj : Live(o)' <=> Live(o)
  BY <1>1 DEF Inv, TypeOK, Live, InWheel
<1>4. OwnEntry' /\ LiveTimers' /\ FiringLeft' /\ TimerReachable' /\ NoDeadEntry'
  BY <1>3
  DEF Inv, TypeOK, OwnEntry, LiveTimers, FiringLeft, TimerReachable, NoDeadEntry, HasTimer
<1>5. NeverLate'
  <2>1. SUFFICES ASSUME NEW i \in Index, NEW o \in slots'[i]
                 PROVE  \E d \in 1 .. timer'[o].timeout : d \in Due /\ i = SlotAfter(d)'
    BY DEF NeverLate
  <2>2. i # tick' /\ o \in slots[i]
    BY <1>1, <2>1 DEF Inv, TypeOK
  <2>3. PICK d \in 1 .. timer[o].timeout : d \in Due /\ i = SlotAfter(d)
    BY <2>2 DEF Inv, NeverLate
  <2>4. i = (tick' + (d - 1)) % Cap
    BY <1>1, <2>3, TurnShortens DEF Inv, TypeOK
  <2>5. d # 1
    <3>1. (tick' + 0) % Cap = tick'
      BY <1>1, CapAssumption, ModOnce DEF Index
    <3> QED BY <2>2, <2>4, <3>1
  <2>6. timer[o].timeout \in Nat
    BY <2>2 DEF Inv, TypeOK
  <2>7. d - 1 \in 1 .. timer'[o].timeout /\ d - 1 \in Due
    BY <2>3, <2>5, <2>6, CapAssumption DEF Due
  <2> QED BY <2>4, <2>7 DEF SlotAfter
<1> QED BY <1>2, <1>4, <1>5 DEF Inv

LEMMA DropReferenceInv ==
  ASSUME Inv, NEW o \in Obj, DropReference(o)
  PROVE  Inv'
<1>. USE DEF DropReference
<1>1. TypeOK'
  BY DEF Inv, TypeOK
<1>2. \A x \in Obj : Live(x)' <=> Live(x)
  BY DEF Live, InWheel
<1>3. NeverLate'
  BY DEF Inv, NeverLate, SlotAfter
<1> QED
  BY <1>1, <1>2, <1>3
  DEF Inv, TypeOK, OwnEntry, LiveTimers, FiringLeft, TimerReachable, NoDeadEntry, HasTimer

LEMMA DestroyCanceledInv ==
  ASSUME Inv, NEW o \in Obj, DestroyCanceled(o)
  PROVE  Inv'
<1>. USE DEF DestroyCanceled, RemoveTimer
<1>1. timer[o].id \in Id
  BY DEF Inv, LiveTimers, Live
<1>2. TypeOK'
  BY <1>1 DEF Inv, TypeOK, Freed
<1>3. \A x \in Obj : Live(x)' <=> Live(x) /\ x # o
  BY DEF Live, InWheel
<1>4. \A x \in Obj \ {o} : timer'[x] = timer[x]
  BY DEF Inv, TypeOK
<1>5. \A id \in Id : \/ taskMap'[id] = taskMap[id] /\ (id # timer[o].id \/ (taskMap[id] # o /\ (taskMap[id] # None => Live(taskMap[id]))))
                     \/ taskMap'[id] = None /\ id = timer[o].id /\ (taskMap[id] = o \/ ~Live(taskMap[id]))
  BY DEF Inv, TypeOK
<1>6. OwnEntry'
  BY <1>4, <1>5 DEF Inv, TypeOK, OwnEntry, HasTimer
<1>7. LiveTimers' /\ FiringLeft'
  BY <1>3, <1>4 DEF Inv, TypeOK, LiveTimers, FiringLeft
<1>8. TimerReachable'
  BY <1>3, <1>4, <1>5 DEF Inv, TypeOK, LiveTimers, TimerReachable
<1>9. NoDeadEntry'
  BY <1>3, <1>5 DEF Inv, TypeOK, OwnEntry, NoDeadEntry, HasTimer
<1>10. NeverLate'
  BY <1>4 DEF Inv, TypeOK, NeverLate, SlotAfter, InWheel
<1> QED BY <1>2, <1>6, <1>7, <1>8, <1>9, <1>10 DEF Inv

LEMMA FireInv ==
  ASSUME Inv, NEW o \in Obj, Fire(o)
  PROVE  Inv'
<1>. USE DEF Fire
<1>1. TypeOK'
  BY DEF Inv, TypeOK
<1>2. \A x \in Obj : Live(x)' <=> Live(x) /\ x # o
  BY DEF Live, InWheel
<1>3. timer[o].id \in Id
  BY DEF Inv, LiveTimers, Live
<1>4. OwnEntry' /\ LiveTimers' /\ FiringLeft' /\ TimerReachable'
  BY <1>2, <1>3
  DEF Inv, TypeOK, OwnEntry, LiveTimers, FiringLeft, TimerReachable, HasTimer
<1>5. NoDeadEntry'
  BY <1>2 DEF Inv, TypeOK, NoDeadEntry, HasTimer
<1>6. NeverLate'
  BY DEF Inv, NeverLate, SlotAfter
<1> QED BY <1>1, <1>4, <1>5, <1>6 DEF Inv

LEMMA EndFireInv ==
  ASSUME Inv, EndFire
  PROVE  Inv'
<1>. DEFINE o == firing
<1>. USE DEF EndFire, RemoveTimer
<1>1. timer[o].id \in Id /\ ~Live(o) /\ o \in Obj
  BY DEF Inv, TypeOK, FiringLeft
<1>2. TypeOK'
  BY <1>1 DEF Inv, TypeOK, Freed
<1>3. \A x \in Obj : Live(x)' <=> Live(x)
  BY DEF Live, InWheel
<1>4. \A x \in Obj \ {o} : timer'[x] = timer[x]
  BY DEF Inv, TypeOK
<1>5. \A id \in Id : \/ taskMap'[id] = taskMap[id] /\ (id # timer[o].id \/ (taskMap[id] # o /\ (taskMap[id] # None => Live(taskMap[id]))))
                     \/ taskMap'[id] = None /\ id = timer[o].id /\ (taskMap[id] = o \/ ~Live(taskMap[id]))
  BY DEF Inv, TypeOK
<1>6. OwnEntry'
  BY <1>4, <1>5 DEF Inv, TypeOK, OwnEntry, HasTimer
<1>7. LiveTimers' /\ FiringLeft'
  BY <1>1, <1>3, <1>4 DEF Inv, TypeOK, LiveTimers, FiringLeft
<1>8. TimerReachable'
  BY <1>1, <1>3, <1>4, <1>5 DEF Inv, TypeOK, LiveTimers, TimerReachable
<1>9. NoDeadEntry'
  BY <1>3, <1>5 DEF Inv, TypeOK, OwnEntry, NoDeadEntry, HasTimer
<1>10. NeverLate'
  BY <1>1, <1>4 DEF Inv, TypeOK, NeverLate, SlotAfter, Live, InWheel
<1> QED BY <1>2, <1>6, <1>7, <1>8, <1>9, <1>10 DEF Inv

LEMMA DestroyInv ==
  ASSUME Inv, Destroy
  PROVE  Inv'
BY DEF Inv, TypeOK, OwnEntry, LiveTimers, FiringLeft, TimerReachable, NoDeadEntry,
       NeverLate, HasTimer, Destroy, Idle, Live, InWheel, Freed, Index

-----------------------------------------------------------------------------
(* The theorems *)

\* Inv is an invariant of the wheel: it holds at the start and no operation,
\* turn or destruction disturbs it.
THEOREM Invariance == Spec => []Inv
<1>1. Init => Inv
  BY InitInv
<1>2. Inv /\ [Next]_vars => Inv'
  <2>. SUFFICES ASSUME Inv, [Next]_vars PROVE Inv'
    OBVIOUS
  <2>1. CASE Call
    BY <2>1, AddTaskInv, RefreshTaskInv, CancelTaskInv DEF Call
  <2>2. CASE ReadTimerfd
    BY <2>2 DEF Inv, TypeOK, OwnEntry, LiveTimers, FiringLeft, TimerReachable,
       NoDeadEntry, NeverLate, HasTimer, ReadTimerfd, Live, InWheel, SlotAfter
  <2>3. CASE Turn /\ ~ReadTimerfd
    BY <2>3, RunTimerTaskInv, DropReferenceInv, DestroyCanceledInv, FireInv, EndFireInv
    DEF Turn
  <2>4. CASE Expire
    BY <2>4 DEF Inv, TypeOK, OwnEntry, LiveTimers, FiringLeft, TimerReachable,
       NoDeadEntry, NeverLate, HasTimer, Expire, Live, InWheel, SlotAfter
  <2>5. CASE Destroy
    BY <2>5, DestroyInv
  <2>6. CASE UNCHANGED vars
    BY <2>6 DEF Inv, TypeOK, OwnEntry, LiveTimers, FiringLeft, TimerReachable,
       NoDeadEntry, NeverLate, HasTimer, vars, Live, InWheel, SlotAfter
  <2> QED BY <2>1, <2>2, <2>3, <2>4, <2>5, <2>6 DEF Next
<1> QED BY <1>1, <1>2, PTL DEF Spec

\* Every operation and every turn of the wheel keeps its state well typed.
THEOREM TypeCorrect == Spec => []TypeOK
BY Invariance, PTL DEF Inv

\* A refresh or a cancel always reaches the timer that would ring, however
\* many cancelled timers of the same id wait in the slots.
THEOREM Reachability == Spec => []TimerReachable
BY Invariance, PTL DEF Inv

\* HasTimer never answers for a timer that is gone.
THEOREM MapIsClean == Spec => []NoDeadEntry
BY Invariance, PTL DEF Inv

\* No timer waits longer than its timeout, whatever the size of the wheel.
THEOREM Punctuality == Spec => []NeverLate
BY Invariance, PTL DEF Inv

-----------------------------------------------------------------------------
(* Refinement of TimerSpec *)

\* Two distances from the hand that lead to the same slot are the same.
LEMMA SlotAfterInjective ==
  ASSUME tick \in Index, NEW d \in Due, NEW e \in Due, SlotAfter(d) = SlotAfter(e)
  PROVE  d = e
<1>1. \A x \in Due : SlotAfter(x) = IF tick + x < Cap THEN tick + x ELSE tick + x - Cap
  <2>. TAKE x \in Due
  <2>1. x \in 0 .. Cap
    BY CapAssumption DEF Due
  <2> QED BY <2>1, ModOnce DEF SlotAfter
<1>2. (IF tick + d < Cap THEN tick + d ELSE tick + d - Cap)
        = (IF tick + e < Cap THEN tick + e ELSE tick + e - Cap)
  BY <1>1
<1>3. tick \in 0 .. Cap - 1 /\ d \in 1 .. Cap - 1 /\ e \in 1 .. Cap - 1
  BY DEF Index, Due
<1>4. CASE tick + d < Cap
  BY <1>2, <1>3, <1>4, CapAssumption
<1>5. CASE ~(tick + d < Cap)
  BY <1>2, <1>3, <1>5, CapAssumption
<1> QED BY <1>4, <1>5

\* A nonempty set of distances has a largest member.
LEMMA FurthestExists ==
  ASSUME NEW S \in SUBSET Due, S # {}
  PROVE  \E d \in S : \A e \in S : e <= d
<1>. DEFINE T == {n \in Nat : Cap - n \in S}
<1>1. T # {} /\ T \subseteq Nat
  <2>1. PICK d \in S : TRUE
    OBVIOUS
  <2>2. Cap - d \in T
    BY CapAssumption DEF Due
  <2> QED BY <2>2
<1>2. PICK n \in T : \A m \in T : ~ (<<m, n>> \in OpToRel(<, Nat))
  <2>. HIDE DEF T
  <2> QED BY <1>1, WFMin, NatLessThanWellFounded
<1>3. \A m \in T : n <= m
  <2>. TAKE m \in T
  <2>1. n \in Nat /\ m \in Nat
    OBVIOUS
  <2>2. ~ (m < n)
    BY <1>2, <2>1 DEF OpToRel
  <2> QED BY <2>1, <2>2
<1>4. \A e \in S : e <= Cap - n
  <2>. TAKE e \in S
  <2>1. e \in Int /\ Cap - e \in Nat /\ Cap - (Cap - e) = e
    BY CapAssumption DEF Due
  <2>2. Cap - e \in T /\ n \in Nat
    BY <2>1
  <2>3. n <= Cap - e
    BY <1>3, <2>2
  <2> QED BY <2>1, <2>2, <2>3, CapAssumption
<1> QED BY <1>4

\* What Furthest means.
LEMMA FurthestMeaning ==
  ASSUME NEW S \in SUBSET Due
  PROVE  /\ S = {} => Furthest(S) = 0
         /\ S # {} => Furthest(S) \in S /\ \A e \in S : e <= Furthest(S)
BY FurthestExists DEF Furthest

\* The largest member of a set is its furthest.
LEMMA FurthestIs ==
  ASSUME NEW S \in SUBSET Due, NEW d \in S, \A e \in S : e <= d
  PROVE  Furthest(S) = d
<1>1. Furthest(S) \in S /\ d <= Furthest(S) /\ Furthest(S) <= d
  BY FurthestMeaning
<1>2. S \subseteq 1 .. Cap - 1
  BY DEF Due
<1>3. Furthest(S) \in 1 .. Cap - 1 /\ d \in 1 .. Cap - 1
  BY <1>1, <1>2
<1> QED BY <1>1, <1>3, CapAssumption

\* A timer in the wheel is at some distance from the hand, none beyond its timeout.
LEMMA InWheelMeansDistance ==
  ASSUME Inv, NEW o \in Obj
  PROVE  /\ InWheel(o) <=> Distances(o) # {}
         /\ \A d \in Distances(o) : d <= timer[o].timeout
         /\ LastDistance(o) \in 0 .. Cap - 1
<1>1. ASSUME NEW d \in Distances(o)
      PROVE  SlotAfter(d) \in Index /\ o \in slots[SlotAfter(d)] /\ d \in Due
  BY <1>1, CapAssumption DEF Distances, Inv, TypeOK, Due, SlotAfter, Index
<1>2. ASSUME NEW i \in Index, o \in slots[i]
      PROVE  \E d \in Distances(o) : d <= timer[o].timeout /\ i = SlotAfter(d)
  BY <1>2 DEF Inv, NeverLate, Distances, TypeOK, Due
<1>3. \A d \in Distances(o) : d <= timer[o].timeout
  <2>. TAKE d \in Distances(o)
  <2>1. SlotAfter(d) \in Index /\ o \in slots[SlotAfter(d)] /\ d \in Due
    BY <1>1
  <2>2. PICK e \in Distances(o) : e <= timer[o].timeout /\ SlotAfter(d) = SlotAfter(e)
    BY <2>1, <1>2
  <2>3. d = e
    BY <2>1, <2>2, SlotAfterInjective DEF Inv, TypeOK, Distances
  <2> QED BY <2>2, <2>3
<1>4. InWheel(o) <=> Distances(o) # {}
  BY <1>1, <1>2 DEF InWheel
<1>5. LastDistance(o) \in 0 .. Cap - 1
  <2>1. Distances(o) \in SUBSET Due
    BY DEF Distances
  <2> QED BY <2>1, FurthestMeaning, CapAssumption DEF LastDistance, Due
<1> QED BY <1>3, <1>4, <1>5

\* The abstract state is a function of what these agree on.
LEMMA SameLeft ==
  ASSUME NEW id \in Id, Running(id)' <=> Running(id),
         Running(id) => /\ taskMap'[id] = taskMap[id]
                        /\ Distances(taskMap[id])' = Distances(taskMap[id])
                        /\ timer'[taskMap[id]] = timer[taskMap[id]]
  PROVE  Left(id)' = Left(id) /\ Period(id)' = Period(id)
<1>1. CASE ~Running(id)
  BY <1>1 DEF Left, Period
<1>2. CASE Running(id)
  <2>1. LastDistance(taskMap[id])' = LastDistance(taskMap[id])
    BY <1>2 DEF LastDistance
  <2>2. Left(id)' = LastDistance(taskMap[id])'
    BY <1>2 DEF Left
  <2>3. Left(id) = LastDistance(taskMap[id])
    BY <1>2 DEF Left
  <2>4. Period(id)' = Period(id)
    BY <1>2 DEF Period
  <2> QED BY <2>1, <2>2, <2>3, <2>4
<1> QED BY <1>1, <1>2

LEMMA AddTaskRefines ==
  ASSUME Inv, Inv', NEW id \in Id, NEW t \in Timeouts, NEW o \in Obj, AddTask(id, t, o)
  PROVE  Abstract!Next
<1>. USE DEF AddTask
<1>1. t \in Due /\ t \in Nat /\ SlotAfter(t) \in Index /\ o # None
  BY CapAssumption, TimeoutsAssumption, NoneAssumption
  DEF Inv, TypeOK, LegalTimeout, Due, SlotAfter, Index
<1>2. ~Running(id)
  BY DEF Inv, TypeOK, OwnEntry, Running, HasTimer, MayAdd
<1>3. /\ taskMap'[id] = o
      /\ timer'[o] = [id |-> id, timeout |-> t, canceled |-> FALSE]
      /\ \A x \in Id \ {id} : taskMap'[x] = taskMap[x]
      /\ \A x \in Obj \ {o} : timer'[x] = timer[x]
      /\ o \in slots'[SlotAfter(t)]
      /\ \A x \in Obj \ {o} : \A i \in Index : x \in slots'[i] <=> x \in slots[i]
      /\ \A i \in Index : o \in slots'[i] => i = SlotAfter(t)
  BY <1>1 DEF Inv, TypeOK, Fresh, Live, InWheel
<1>4. \A d \in Due : SlotAfter(d)' = SlotAfter(d) /\ SlotAfter(d) \in Index
  BY CapAssumption DEF SlotAfter, Inv, TypeOK, Index, Due
<1>5. Left(id)' = t /\ Period(id)' = t
  <2>1. Running(id)'
    BY <1>1, <1>3 DEF Running, HasTimer, Live, InWheel
  <2>2. \A d \in Due : o \in slots'[SlotAfter(d)] <=> d = t
    BY <1>1, <1>3, <1>4, SlotAfterInjective DEF Inv, TypeOK
  <2>3. Distances(o)' = {t}
    BY <1>1, <1>4, <2>2 DEF Distances
  <2>4. LastDistance(o)' = t
    BY <2>3, <1>1, FurthestIs DEF LastDistance, Due
  <2> QED BY <2>1, <2>4, <1>3 DEF Left, Period
<1>6. \A x \in Id \ {id} : Left(x)' = Left(x) /\ Period(x)' = Period(x)
  <2>. TAKE x \in Id \ {id}
  <2>1. taskMap[x] # o
    BY DEF Fresh
  <2>2. Running(x)' <=> Running(x)
    BY <1>3, <2>1 DEF Running, HasTimer, Live, InWheel, Inv, TypeOK
  <2>3. Running(x) => taskMap[x] \in Obj \ {o}
    BY <2>1 DEF Running, HasTimer, Inv, TypeOK
  <2>4. \A y \in Obj \ {o} : Distances(y)' = Distances(y)
    BY <1>3, <1>4 DEF Distances
  <2>5. taskMap'[x] = taskMap[x]
    BY <1>3
  <2> QED BY <1>3, <2>2, <2>3, <2>4, <2>5, SameLeft
<1>7. UNCHANGED Ringing
  <2>1. firing # None => firing \in Obj \ {o}
    BY DEF Fresh, Inv, TypeOK
  <2>2. firing' = firing
    BY <1>3
  <2>3. firing # None => timer'[firing] = timer[firing]
    BY <1>3, <2>1
  <2> QED BY <2>2, <2>3 DEF Ringing
<1>8. Left(id) = -1
  BY <1>2 DEF Left
<1>9. [x \in Id |-> Left(x)]' = [[x \in Id |-> Left(x)] EXCEPT ![id] = t]
  BY <1>5, <1>6
<1>10. [x \in Id |-> Period(x)]' = [[x \in Id |-> Period(x)] EXCEPT ![id] = t]
  BY <1>5, <1>6
<1>11. Abstract!Add(id, t)
  BY <1>7, <1>8, <1>9, <1>10 DEF Abstract!Add, Abstract!Running, Abstract!Off
<1> QED BY <1>1, <1>11 DEF Abstract!Next, Due

LEMMA RefreshTaskRefines ==
  ASSUME Inv, Inv', NEW id \in Id, RefreshTask(id)
  PROVE  Abstract!Next \/ UNCHANGED Abstract!vars
<1>. DEFINE o == taskMap[id]
<1>. USE DEF RefreshTask
<1>1. UNCHANGED Ringing
  BY DEF Ringing
<1>2. CASE ~Live(o)
  <2>1. \A x \in Id : Running(x)' <=> Running(x)
    BY <1>2 DEF Running, HasTimer, Live, InWheel, Inv, TypeOK
  <2>2. \A x \in Obj : Distances(x)' = Distances(x)
    BY <1>2 DEF Distances, SlotAfter
  <2>3. \A x \in Id : Running(x) => taskMap'[x] = taskMap[x] /\ taskMap[x] \in Obj
    BY <1>2 DEF Running, HasTimer, Inv, TypeOK
  <2>4. \A x \in Id : Left(x)' = Left(x) /\ Period(x)' = Period(x)
    BY <2>1, <2>2, <2>3, SameLeft
  <2> QED BY <1>1, <2>4 DEF Abstract!vars
<1>3. CASE Live(o)
  <2>1. /\ o \in Obj /\ timer[o].timeout \in Due /\ timer[o].id = id
        /\ SlotAfter(timer[o].timeout) \in Index
    BY <1>3, CapAssumption DEF Inv, TypeOK, LiveTimers, OwnEntry, HasTimer, Due, SlotAfter, Index
  <2>2. \A d \in Due : SlotAfter(d)' = SlotAfter(d) /\ SlotAfter(d) \in Index
    BY CapAssumption DEF SlotAfter, Inv, TypeOK, Index, Due
  <2>3. /\ \A x \in Obj \ {o} : \A i \in Index : x \in slots'[i] <=> x \in slots[i]
        /\ \A i \in Index : o \in slots'[i] <=> o \in slots[i] \/ i = SlotAfter(timer[o].timeout)
    BY <1>3, <2>1 DEF Inv, TypeOK
  <2>4. \A x \in Obj : Live(x)' <=> Live(x)
    BY <1>3, <2>1, <2>3 DEF Live, InWheel
  <2>5. \A x \in Id : Running(x)' <=> Running(x)
    BY <1>3, <2>4 DEF Running, HasTimer, Inv, TypeOK
  <2>6. \A x \in Obj \ {o} : Distances(x)' = Distances(x)
    BY <2>2, <2>3 DEF Distances
  <2>7. \A x \in Id \ {id} : Running(x) => taskMap[x] \in Obj \ {o}
    BY <2>1 DEF Running, HasTimer, Inv, TypeOK, OwnEntry
  <2>8. \A x \in Id \ {id} : Left(x)' = Left(x) /\ Period(x)' = Period(x)
    BY <1>3, <2>5, <2>6, <2>7, SameLeft
  <2>9. Period(id)' = Period(id)
    BY <1>3, <2>5 DEF Period
  <2>10. CASE Running(id)
    <3>1. Distances(o)' \in SUBSET Due /\ timer[o].timeout \in Distances(o)'
      BY <1>3, <2>1, <2>2, <2>3 DEF Distances
    <3>2. \A d \in Distances(o)' : d <= timer[o].timeout
      BY <1>3, <2>1, InWheelMeansDistance, <2>2, <2>3, SlotAfterInjective
      DEF Distances, Inv, TypeOK, Due
    <3>3. Furthest(Distances(o)') = timer[o].timeout
      BY <3>1, <3>2, FurthestIs
    <3>4. Left(id)' = Period(id)
      BY <1>3, <3>3, <2>5, <2>10 DEF Left, LastDistance, Period
    <3>5. Left(id) # -1
      BY <2>1, <2>10, InWheelMeansDistance, CapAssumption DEF Left
    <3>6. [x \in Id |-> Left(x)]' = [[x \in Id |-> Left(x)] EXCEPT ![id] = Period(id)]
      BY <2>8, <3>4
    <3>7. [x \in Id |-> Period(x)]' = [x \in Id |-> Period(x)]
      BY <2>8, <2>9
    <3>8. Abstract!Refresh(id)
      BY <1>1, <3>5, <3>6, <3>7 DEF Abstract!Refresh, Abstract!Running, Abstract!Off
    <3> QED BY <3>8 DEF Abstract!Next
  <2>11. CASE ~Running(id)
    <3>1. Left(id)' = Left(id)
      BY <2>5, <2>11 DEF Left
    <3> QED BY <1>1, <2>8, <2>9, <3>1 DEF Abstract!vars
  <2> QED BY <2>10, <2>11
<1> QED BY <1>2, <1>3

LEMMA CancelTaskRefines ==
  ASSUME Inv, Inv', NEW id \in Id, CancelTask(id)
  PROVE  Abstract!Next \/ UNCHANGED Abstract!vars
<1>1. PICK o \in Obj : Locks(id, o) /\ timer' = [timer EXCEPT ![o].canceled = TRUE]
  BY DEF CancelTask
<1>. USE DEF CancelTask
<1>2. /\ taskMap[id] = o /\ timer[o].id = id
      /\ timer'[o].canceled
      /\ \A x \in Obj : timer'[x].timeout = timer[x].timeout /\ timer'[x].id = timer[x].id
      /\ \A x \in Obj \ {o} : timer'[x] = timer[x]
  BY <1>1 DEF Inv, TypeOK, Locks, OwnEntry, HasTimer
<1>3. UNCHANGED Ringing
  BY <1>2 DEF Ringing, Inv, TypeOK
<1>4. \A x \in Obj : Distances(x)' = Distances(x)
  BY DEF Distances, SlotAfter
<1>5. \A x \in Id \ {id} : Running(x) => taskMap[x] \in Obj \ {o}
  BY <1>2 DEF Running, HasTimer, Inv, TypeOK, OwnEntry
<1>6. \A x \in Id \ {id} : Running(x)' <=> Running(x)
  BY <1>2 DEF Running, HasTimer, Live, InWheel, Inv, TypeOK, OwnEntry
<1>7. \A x \in Id \ {id} : Left(x)' = Left(x) /\ Period(x)' = Period(x)
  BY <1>2, <1>4, <1>5, <1>6, SameLeft
<1>8. ~Running(id)'
  BY <1>2 DEF Running
<1>9. Left(id)' = -1 /\ Period(id)' = 0
  BY <1>8 DEF Left, Period
<1>10. CASE Running(id)
  <2>1. Left(id) # -1
    BY <1>2, <1>10, InWheelMeansDistance, CapAssumption DEF Left
  <2>2. [x \in Id |-> Left(x)]' = [[x \in Id |-> Left(x)] EXCEPT ![id] = -1]
    BY <1>7, <1>9
  <2>3. [x \in Id |-> Period(x)]' = [[x \in Id |-> Period(x)] EXCEPT ![id] = 0]
    BY <1>7, <1>9
  <2>4. Abstract!Cancel(id)
    BY <1>3, <2>1, <2>2, <2>3 DEF Abstract!Cancel, Abstract!Running, Abstract!Off
  <2> QED BY <2>4 DEF Abstract!Next
<1>11. CASE ~Running(id)
  <2>1. Left(id) = -1 /\ Period(id) = 0
    BY <1>11 DEF Left, Period
  <2> QED BY <1>3, <1>7, <1>9, <2>1 DEF Abstract!vars
<1> QED BY <1>10, <1>11

LEMMA RunTimerTaskRefines ==
  ASSUME Inv, Inv', RunTimerTask
  PROVE  Abstract!Next
<1>. USE DEF RunTimerTask
<1>1. tick' \in Index /\ tick' = (tick + 1) % Cap
  BY CapAssumption DEF Inv, TypeOK, Index
<1>2. Ringing = {} /\ Ringing' = {}
  BY DEF Ringing
<1>3. \A o \in Obj : Live(o)' <=> Live(o)
  BY <1>1 DEF Inv, TypeOK, Live, InWheel
<1>4. \A id \in Id : Running(id)' <=> Running(id)
  BY <1>3 DEF Running, HasTimer, Inv, TypeOK
<1>5. \A id \in Id : Period(id)' = Period(id)
  BY <1>4 DEF Period
<1>6. ASSUME NEW id \in Id, Running(id)
      PROVE  Left(id) \in Due /\ Left(id)' = Left(id) - 1
  <2>. DEFINE o == taskMap[id]
  <2>. DEFINE D == Distances(o)
  <2>1. o \in Obj /\ Live(o)
    BY <1>6 DEF Running, HasTimer, Inv, TypeOK
  <2>2. D # {} /\ D \in SUBSET Due
    BY <2>1, InWheelMeansDistance DEF Live, Distances
  <2>3. Left(id) = Furthest(D) /\ Furthest(D) \in D /\ \A e \in D : e <= Furthest(D)
    BY <1>6, <2>2, FurthestMeaning DEF Left, LastDistance
  <2>4. Left(id)' = Furthest(Distances(o)')
    BY <1>4, <1>6 DEF Left, LastDistance
  <2>5. ASSUME NEW d \in Due
        PROVE  o \in slots'[SlotAfter(d)'] <=> d + 1 \in D
    <3>1. CASE d + 1 \in Due
      <4>1. SlotAfter(d)' = SlotAfter(d + 1)
        <5>1. SlotAfter(d + 1) = (((tick + 1) % Cap) + ((d + 1) - 1)) % Cap
          BY <3>1, TurnShortens DEF Inv, TypeOK
        <5>2. (d + 1) - 1 = d
          BY CapAssumption DEF Due
        <5> QED BY <1>1, <5>1, <5>2 DEF SlotAfter
      <4>2. SlotAfter(d + 1) \in Index
        BY <3>1, CapAssumption DEF SlotAfter, Inv, TypeOK, Index, Due
      <4>3. SlotAfter(d)' # tick'
        <5>1. tick' + d >= 0 /\ tick' \in 0 .. Cap - 1 /\ d \in 0 .. Cap /\ d \in 1 .. Cap - 1
          BY <1>1, <2>5, CapAssumption DEF Due, Index
        <5>2. (tick' + d) % Cap = IF tick' + d < Cap THEN tick' + d ELSE tick' + d - Cap
          BY <1>1, <5>1, ModOnce
        <5>3. (tick' + d) % Cap # tick'
          BY <5>1, <5>2, CapAssumption
        <5> QED BY <5>3 DEF SlotAfter
      <4> QED BY <1>1, <3>1, <4>1, <4>2, <4>3 DEF Distances, Inv, TypeOK
    <3>2. CASE d + 1 \notin Due
      <4>1. d = Cap - 1
        BY <2>5, <3>2, CapAssumption DEF Due
      <4>2. SlotAfter(d)' = tick
        <5>1. tick \in 0 .. Cap - 1 /\ Cap - 1 \in 0 .. Cap /\ 1 \in 0 .. Cap
          BY CapAssumption DEF Inv, TypeOK, Index
        <5>2. tick' = IF tick + 1 < Cap THEN tick + 1 ELSE tick + 1 - Cap
          BY <1>1, <5>1, ModOnce DEF Index
        <5>3. (tick' + (Cap - 1)) % Cap
                = IF tick' + (Cap - 1) < Cap THEN tick' + (Cap - 1) ELSE tick' + (Cap - 1) - Cap
          BY <1>1, <5>1, ModOnce
        <5>4. (tick' + (Cap - 1)) % Cap = tick
          BY <5>1, <5>2, <5>3, CapAssumption
        <5> QED BY <4>1, <5>4 DEF SlotAfter
      <4>3. o \notin slots[tick]
        <5>1. SUFFICES ASSUME o \in slots[tick] PROVE FALSE
          OBVIOUS
        <5>2. PICK e \in Due : tick = SlotAfter(e)
          BY <5>1 DEF Inv, TypeOK, NeverLate
        <5>3. tick \in 0 .. Cap - 1 /\ e \in 1 .. Cap - 1 /\ e \in 0 .. Cap
          BY <5>2, CapAssumption DEF Inv, TypeOK, Index, Due
        <5>4. (tick + e) % Cap = IF tick + e < Cap THEN tick + e ELSE tick + e - Cap
          BY <5>3, ModOnce DEF Index
        <5> QED BY <5>2, <5>3, <5>4, CapAssumption DEF SlotAfter
      <4>4. o \notin slots'[tick]
        BY <1>1, <4>3 DEF Inv, TypeOK
      <4> QED BY <2>2, <3>2, <4>2, <4>4
    <3> QED BY <3>1, <3>2
  <2>6. Distances(o)' = {d \in Due : d + 1 \in D}
    BY <2>5 DEF Distances
  <2>7. Furthest({d \in Due : d + 1 \in D}) = Furthest(D) - 1
    <3>. DEFINE E == {d \in Due : d + 1 \in D}
    <3>. HIDE DEF D
    <3>1. Furthest(D) \in 1 .. Cap - 1 /\ \A d \in D : d \in 1 .. Cap - 1
      BY <2>2, <2>3 DEF Due
    <3>2. CASE Furthest(D) = 1
      <4>1. E = {}
        BY <2>3, <3>1, <3>2, CapAssumption DEF Due
      <4> QED BY <3>2, <4>1, FurthestMeaning
    <3>3. CASE Furthest(D) # 1
      <4>1. Furthest(D) - 1 \in E
        BY <2>3, <3>1, <3>3, CapAssumption DEF Due
      <4>2. \A d \in E : d <= Furthest(D) - 1
        BY <2>3, <3>1, CapAssumption DEF Due
      <4>3. E \in SUBSET Due
        OBVIOUS
      <4> HIDE DEF E
      <4>4. Furthest(E) = Furthest(D) - 1
        BY <4>1, <4>2, <4>3, FurthestIs
      <4> QED BY <4>4 DEF E
    <3> QED BY <3>2, <3>3
  <2> QED BY <2>2, <2>3, <2>4, <2>6, <2>7
<1>7. \A id \in Id : ~Running(id) => Left(id) = -1 /\ Left(id)' = -1
  BY <1>4 DEF Left
<1>8. \A id \in Id : Left(id) # 0
  BY <1>6, <1>7, CapAssumption DEF Due
<1>9. \A id \in Id : Left(id)' = IF Left(id) # -1 THEN Left(id) - 1 ELSE -1
  BY <1>6, <1>7, CapAssumption DEF Due
<1>10. [id \in Id |-> Left(id)]' = [id \in Id |-> IF Left(id) # -1 THEN Left(id) - 1 ELSE -1]
  BY <1>9
<1>11. [id \in Id |-> Period(id)]' = [id \in Id |-> Period(id)]
  BY <1>5
<1>12. Abstract!Tick
  BY <1>2, <1>8, <1>10, <1>11 DEF Abstract!Tick, Abstract!Running, Abstract!Off
<1> QED BY <1>12 DEF Abstract!Next

LEMMA DropReferenceRefines ==
  ASSUME Inv, NEW o \in Obj, DropReference(o)
  PROVE  UNCHANGED Abstract!vars
<1>. USE DEF DropReference
<1>1. UNCHANGED Ringing
  BY DEF Ringing
<1>2. \A x \in Obj : Live(x)' <=> Live(x)
  BY DEF Live, InWheel
<1>3. \A id \in Id : Running(id)' <=> Running(id)
  BY <1>2 DEF Running, HasTimer, Inv, TypeOK
<1>4. \A x \in Obj : Distances(x)' = Distances(x)
  BY DEF Distances, SlotAfter
<1>5. \A id \in Id : Running(id) => taskMap[id] \in Obj
  BY DEF Running, HasTimer, Inv, TypeOK
<1>6. \A id \in Id : Left(id)' = Left(id) /\ Period(id)' = Period(id)
  BY <1>3, <1>4, <1>5, SameLeft
<1> QED BY <1>1, <1>6 DEF Abstract!vars

LEMMA DestroyCanceledRefines ==
  ASSUME Inv, Inv', NEW o \in Obj, DestroyCanceled(o)
  PROVE  UNCHANGED Abstract!vars
<1>. USE DEF DestroyCanceled, RemoveTimer
<1>1. UNCHANGED Ringing
  BY DEF Ringing
<1>2. \A x \in Obj : Live(x)' <=> Live(x) /\ x # o
  BY DEF Live, InWheel
<1>3. \A x \in Obj \ {o} : timer'[x] = timer[x]
  BY DEF Inv, TypeOK
<1>4. \A id \in Id : Running(id) =>
         taskMap[id] \in Obj \ {o} /\ taskMap'[id] = taskMap[id]
  BY DEF Running, HasTimer, Inv, TypeOK
<1>5. \A id \in Id : ~Running(id) => ~Running(id)'
  BY <1>2, <1>3 DEF Running, HasTimer, Inv, TypeOK
<1>6. \A id \in Id : Running(id)' <=> Running(id)
  BY <1>2, <1>3, <1>4, <1>5 DEF Running, HasTimer
<1>7. \A x \in Obj : Distances(x)' = Distances(x)
  BY DEF Distances, SlotAfter
<1>8. \A id \in Id : Left(id)' = Left(id) /\ Period(id)' = Period(id)
  BY <1>3, <1>4, <1>6, <1>7, SameLeft
<1> QED BY <1>1, <1>8 DEF Abstract!vars

LEMMA FireRefines ==
  ASSUME Inv, Inv', NEW o \in Obj, Fire(o)
  PROVE  Abstract!Next
<1>. DEFINE id == timer[o].id
<1>. USE DEF Fire
<1>1. id \in Id /\ taskMap[id] = o /\ o # None
  BY NoneAssumption DEF Inv, LiveTimers, TimerReachable, Live
<1>2. Running(id) /\ Left(id) = 0
  <2>1. Running(id)
    BY <1>1 DEF Running, HasTimer, Live
  <2>2. Distances(o) = {}
    BY InWheelMeansDistance
  <2> QED BY <1>1, <2>1, <2>2, FurthestMeaning DEF Left, LastDistance
<1>3. Ringing = {} /\ Ringing' = {id}
  BY <1>1 DEF Ringing
<1>4. \A x \in Obj : Live(x)' <=> Live(x) /\ x # o
  BY DEF Live, InWheel
<1>5. ~Running(id)'
  BY <1>1, <1>4 DEF Running
<1>6. Left(id)' = -1 /\ Period(id)' = 0
  BY <1>5 DEF Left, Period
<1>7. \A x \in Id \ {id} : Running(x) => taskMap[x] \in Obj \ {o}
  BY <1>1 DEF Running, HasTimer, Inv, TypeOK, OwnEntry
<1>8. \A x \in Id \ {id} : Running(x)' <=> Running(x)
  BY <1>4, <1>7 DEF Running, HasTimer, Inv, TypeOK
<1>9. \A x \in Obj : Distances(x)' = Distances(x)
  BY DEF Distances, SlotAfter
<1>10. \A x \in Id \ {id} : Left(x)' = Left(x) /\ Period(x)' = Period(x)
  BY <1>7, <1>8, <1>9, SameLeft
<1>11. [x \in Id |-> Left(x)]' = [[x \in Id |-> Left(x)] EXCEPT ![id] = -1]
  BY <1>1, <1>6, <1>10
<1>12. [x \in Id |-> Period(x)]' = [[x \in Id |-> Period(x)] EXCEPT ![id] = 0]
  BY <1>1, <1>6, <1>10
<1>13. Abstract!Ring(id)
  BY <1>1, <1>2, <1>3, <1>11, <1>12 DEF Abstract!Ring, Abstract!Off
<1> QED BY <1>1, <1>13 DEF Abstract!Next

LEMMA EndFireRefines ==
  ASSUME Inv, Inv', EndFire
  PROVE  Abstract!Next
<1>. USE DEF EndFire, RemoveTimer
<1>1. Ringing # {} /\ Ringing' = {}
  BY DEF Ringing
<1>2. \A x \in Obj : Live(x)' <=> Live(x)
  BY DEF Live, InWheel
<1>3. ~Live(firing) /\ firing \in Obj /\ \A x \in Obj \ {firing} : timer'[x] = timer[x]
  BY DEF Inv, TypeOK, FiringLeft
<1>4. \A id \in Id : Running(id) =>
         taskMap[id] \in Obj \ {firing} /\ taskMap'[id] = taskMap[id]
  BY <1>3 DEF Running, HasTimer, Inv, TypeOK
<1>5. \A id \in Id : ~Running(id) => ~Running(id)'
  BY <1>2, <1>3 DEF Running, HasTimer, Inv, TypeOK
<1>6. \A id \in Id : Running(id)' <=> Running(id)
  BY <1>2, <1>3, <1>4, <1>5 DEF Running, HasTimer
<1>7. \A x \in Obj : Distances(x)' = Distances(x)
  BY DEF Distances, SlotAfter
<1>8. \A id \in Id : Left(id)' = Left(id) /\ Period(id)' = Period(id)
  BY <1>3, <1>4, <1>6, <1>7, SameLeft
<1>9. Abstract!Silence
  BY <1>1, <1>8 DEF Abstract!Silence
<1> QED BY <1>9 DEF Abstract!Next

LEMMA DestroyRefines ==
  ASSUME Inv, Destroy
  PROVE  Abstract!Next
<1>1. Ringing = {} /\ Ringing' = {}
  BY DEF Destroy, Idle, Ringing
<1>2. \A id \in Id : ~Running(id)'
  BY DEF Destroy, Running, HasTimer
<1>3. \A id \in Id : Left(id)' = -1 /\ Period(id)' = 0
  BY <1>2 DEF Left, Period
<1>4. Abstract!Drop
  BY <1>1, <1>3 DEF Abstract!Drop, Abstract!Off
<1> QED BY <1>4 DEF Abstract!Next

\* Steps that touch neither the wheel nor its timers are stutters.
LEMMA OtherStepsRefine ==
  ASSUME Inv, UNCHANGED <<tick, slots, taskMap, timer, expired, firing>>
  PROVE  UNCHANGED Abstract!vars
<1>1. UNCHANGED Ringing
  BY DEF Ringing
<1>2. \A id \in Id : Running(id)' <=> Running(id)
  BY DEF Running, HasTimer, Live, InWheel
<1>3. \A x \in Obj : Distances(x)' = Distances(x)
  BY DEF Distances, SlotAfter
<1>4. \A id \in Id : Running(id) => taskMap[id] \in Obj
  BY DEF Running, HasTimer, Inv, TypeOK
<1>5. \A id \in Id : Left(id)' = Left(id) /\ Period(id)' = Period(id)
  BY <1>2, <1>3, <1>4, SameLeft
<1> QED BY <1>1, <1>5 DEF Abstract!vars

\* The wheel implements the abstract timers: a callback runs exactly when its
\* period has gone by since the timer was added or last refreshed, once, and
\* never after a cancel or in the destructor of the wheel.
THEOREM Refinement == Spec => ImplementsTimers
<1>1. Init => Abstract!Init
  <2>. SUFFICES ASSUME Init PROVE Abstract!Init
    OBVIOUS
  <2>1. Ringing = {}
    BY DEF Init, Ringing
  <2>2. \A id \in Id : ~Running(id)
    BY DEF Init, Running, HasTimer
  <2>3. \A id \in Id : Left(id) = -1 /\ Period(id) = 0
    BY <2>2 DEF Left, Period
  <2> QED BY <2>1, <2>3 DEF Abstract!Init, Abstract!Off
<1>2. Inv /\ Inv' /\ [Next]_vars => [Abstract!Next]_(Abstract!vars)
  <2>. SUFFICES ASSUME Inv, Inv', [Next]_vars
                PROVE  Abstract!Next \/ UNCHANGED Abstract!vars
    OBVIOUS
  <2>1. CASE Call
    BY <2>1, AddTaskRefines, RefreshTaskRefines, CancelTaskRefines DEF Call
  <2>2. CASE ReadTimerfd
    BY <2>2, OtherStepsRefine DEF ReadTimerfd
  <2>3. CASE Turn /\ ~ReadTimerfd
    BY <2>3, RunTimerTaskRefines, DropReferenceRefines, DestroyCanceledRefines,
       FireRefines, EndFireRefines DEF Turn
  <2>4. CASE Expire
    BY <2>4, OtherStepsRefine DEF Expire
  <2>5. CASE Destroy
    BY <2>5, DestroyRefines
  <2>6. CASE UNCHANGED vars
    BY <2>6, OtherStepsRefine DEF vars
  <2> QED BY <2>1, <2>2, <2>3, <2>4, <2>5, <2>6 DEF Next
<1> QED BY <1>1, <1>2, Invariance, PTL DEF Spec, ImplementsTimers, Abstract!Spec
=============================================================================

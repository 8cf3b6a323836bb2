---------------------------- MODULE TimerSpec ----------------------------
(***************************************************************************)
(* What the time wheel promises its clients, with no wheel, slot or        *)
(* reference count in sight: a timer id rings exactly when it has been     *)
(* left alone for its own period, counted in ticks, and it rings once.     *)
(***************************************************************************)
EXTENDS Integers

CONSTANTS
  Id,           \* timer ids (connection ids, or ids drawn by RunAfter)
  MaxPeriod     \* the longest period a client may ask for

VARIABLES
  left,         \* ticks before the timer of an id rings, or Off
  period,       \* the period the running timer was set with, 0 when Off
  ringing       \* the ids whose callback is running: none or one

vars == <<left, period, ringing>>

Off == -1

TypeOK ==
  /\ left \in [Id -> Off .. MaxPeriod]
  /\ period \in [Id -> 0 .. MaxPeriod]
  /\ ringing \in {{}} \cup {{id} : id \in Id}

Init ==
  /\ left = [id \in Id |-> Off]
  /\ period = [id \in Id |-> 0]
  /\ ringing = {}

Running(id) == left[id] # Off

Add(id, t) ==
  /\ ~Running(id)
  /\ left' = [left EXCEPT ![id] = t]
  /\ period' = [period EXCEPT ![id] = t]
  /\ UNCHANGED ringing

Refresh(id) ==
  /\ Running(id)
  /\ left' = [left EXCEPT ![id] = period[id]]
  /\ UNCHANGED <<period, ringing>>

Cancel(id) ==
  /\ Running(id)
  /\ left' = [left EXCEPT ![id] = Off]
  /\ period' = [period EXCEPT ![id] = 0]
  /\ UNCHANGED ringing

\* Time passes only when no timer is due and no callback is running.
Tick ==
  /\ ringing = {}
  /\ \A id \in Id : left[id] # 0
  /\ left' = [id \in Id |-> IF Running(id) THEN left[id] - 1 ELSE Off]
  /\ UNCHANGED <<period, ringing>>

Ring(id) ==
  /\ ringing = {}
  /\ left[id] = 0
  /\ left' = [left EXCEPT ![id] = Off]
  /\ period' = [period EXCEPT ![id] = 0]
  /\ ringing' = {id}

Silence ==
  /\ ringing # {}
  /\ ringing' = {}
  /\ UNCHANGED <<left, period>>

\* The wheel is destroyed: every timer is dropped and none of them rings.
Drop ==
  /\ ringing = {}
  /\ left' = [id \in Id |-> Off]
  /\ period' = [id \in Id |-> 0]
  /\ UNCHANGED ringing

Next ==
  \/ \E id \in Id, t \in 1 .. MaxPeriod : Add(id, t)
  \/ \E id \in Id : Refresh(id) \/ Cancel(id) \/ Ring(id)
  \/ Tick
  \/ Silence
  \/ Drop

Spec == Init /\ [][Next]_vars
=============================================================================

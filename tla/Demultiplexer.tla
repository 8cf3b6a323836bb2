------------------------- MODULE Demultiplexer -------------------------
(***************************************************************************)
(* What a Poller promises its loop, with no descriptor number, map or      *)
(* kernel table in sight: a channel says which events of its own file it   *)
(* is interested in, and is told of those, never of another file's.        *)
(***************************************************************************)
EXTENDS Naturals

CONSTANTS
  Chan,     \* channels, each made for one file
  Event     \* what a channel may ask for: readable, writable

VARIABLES
  life,      \* the file of each channel
  interest,  \* what is watched for a channel
  told,      \* what a channel has been told and has not handled yet
  refusals   \* times the kernel refused to watch a file

vars == <<life, interest, told, refusals>>

\* Hang-up and error are reported to whoever is watched at all.
Always == "hup"
Reportable == Event \cup {Always}
Unwatched == {}

TypeOK ==
  /\ life \in [Chan -> {"unborn", "open", "closed"}]
  /\ interest \in [Chan -> SUBSET Reportable]
  /\ told \in [Chan -> SUBSET Reportable]
  /\ refusals \in Nat

Init ==
  /\ life = [c \in Chan |-> "unborn"]
  /\ interest = [c \in Chan |-> Unwatched]
  /\ told = [c \in Chan |-> {}]
  /\ refusals = 0

Open(c) ==
  /\ life[c] = "unborn"
  /\ life' = [life EXCEPT ![c] = "open"]
  /\ UNCHANGED <<interest, told, refusals>>

\* A channel says what it is interested in, for the first time or anew.
Watch(c) ==
  /\ life[c] = "open"
  /\ \E mask \in SUBSET Event : interest' = [interest EXCEPT ![c] = mask \cup {Always}]
  /\ UNCHANGED <<life, told, refusals>>

\* The kernel may refuse to watch one more file.
Refuse(c) ==
  /\ life[c] = "open"
  /\ interest[c] = Unwatched
  /\ refusals' = refusals + 1
  /\ UNCHANGED <<life, interest, told>>

Unwatch(c) ==
  /\ life[c] = "open"
  /\ interest' = [interest EXCEPT ![c] = Unwatched]
  /\ UNCHANGED <<life, told, refusals>>

\* A closed file is not watched any more, whoever closed it.
Close(c) ==
  /\ life[c] = "open"
  /\ life' = [life EXCEPT ![c] = "closed"]
  /\ interest' = [interest EXCEPT ![c] = Unwatched]
  /\ UNCHANGED <<told, refusals>>

\* A wait tells some watched channels of events they asked for.
Tell ==
  /\ \A c \in Chan : told[c] = {}
  /\ told' \in [Chan -> SUBSET Reportable]
  /\ \A c \in Chan : told'[c] \subseteq interest[c]
  /\ UNCHANGED <<life, interest, refusals>>

Handle(c) ==
  /\ told[c] # {}
  /\ told' = [told EXCEPT ![c] = {}]
  /\ UNCHANGED <<life, interest, refusals>>

Next ==
  \/ \E c \in Chan : \/ Open(c) \/ Watch(c) \/ Refuse(c) \/ Unwatch(c)
                     \/ Close(c) \/ Handle(c)
  \/ Tell

Spec == Init /\ [][Next]_vars
=============================================================================

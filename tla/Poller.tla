---------------------------- MODULE Poller ----------------------------
(***************************************************************************)
(* A Poller and its Channels over the kernel's epoll.  Both the kernel and *)
(* the Poller's map go by descriptor numbers, and a number leads to one    *)
(* file after another: the kernel forgets a file when it is closed, the    *)
(* map does not.                                                           *)
(*                                                                         *)
(* What the classes leave to their callers: a channel is only updated      *)
(* while its file is open.  It may be removed at any time, also when its   *)
(* file was closed before (the catch in TcpServer::NewConnection) and its  *)
(* number has gone to another file since.                                  *)
(***************************************************************************)
EXTENDS Naturals

CONSTANTS
  Fd,          \* descriptor numbers
  File,        \* tells the files that get one number after another
  NoChan,      \* the map has no entry
  Event,       \* EPOLLIN, EPOLLOUT
  MaxRefusals  \* bound: EPOLL_CTL_ADD calls the kernel refuses

\* One Channel is made for each file at a number; _socket_fd is the number.
Chan == Fd \X File
FdOf(c) == c[1]

ASSUME ChanAssumption == NoChan \notin Chan
ASSUME RefusalAssumption == MaxRefusals \in Nat

VARIABLES
  life,        \* the file a Channel was made for
  watched,     \* the kernel: what the file at a number is watched for
  channels,    \* _channels
  events,      \* _events
  revents,     \* _revents, of the Channels in the round's active list
  asked,       \* history: what each Channel's callers last asked to watch
  refusals     \* history: refused EPOLL_CTL_ADDs

vars == <<life, watched, channels, events, revents, asked, refusals>>

D == INSTANCE Demultiplexer WITH interest <- asked, told <- revents

Reportable == D!Reportable
Unwatched == D!Unwatched

PollerTypeOK ==
  /\ life \in [Chan -> {"unborn", "open", "closed"}]
  /\ watched \in [Fd -> SUBSET Reportable]
  /\ channels \in [Fd -> Chan \cup {NoChan}]
  /\ events \in [Chan -> SUBSET Event]
  /\ revents \in [Chan -> SUBSET Reportable]
  /\ asked \in [Chan -> SUBSET Reportable]
  /\ refusals \in Nat

Init ==
  /\ life = [c \in Chan |-> "unborn"]
  /\ watched = [fd \in Fd |-> Unwatched]
  /\ channels = [fd \in Fd |-> NoChan]
  /\ events = [c \in Chan |-> {}]
  /\ revents = [c \in Chan |-> {}]
  /\ asked = [c \in Chan |-> Unwatched]
  /\ refusals = 0

-----------------------------------------------------------------------------
(* Descriptors, in the hands of Sockets *)

\* A file gets a number nobody has, and a Channel is made for it.
Open(c) ==
  /\ life[c] = "unborn"
  /\ \A d \in Chan : life[d] = "open" => FdOf(d) # FdOf(c)
  /\ life' = [life EXCEPT ![c] = "open"]
  /\ UNCHANGED <<watched, channels, events, revents, asked, refusals>>

Close(c) ==
  /\ life[c] = "open"
  /\ life' = [life EXCEPT ![c] = "closed"]
  /\ watched' = [watched EXCEPT ![FdOf(c)] = Unwatched]
  /\ asked' = [asked EXCEPT ![c] = Unwatched]
  /\ UNCHANGED <<channels, events, revents, refusals>>

-----------------------------------------------------------------------------
(* Channel *)

\* EnableRead, EnableWrite, DisableRead, DisableWrite, DisableAll.
SetEvents(c) ==
  /\ life[c] # "unborn"
  /\ \E mask \in SUBSET Event : events' = [events EXCEPT ![c] = mask]
  /\ UNCHANGED <<life, watched, channels, revents, asked, refusals>>

\* The events are taken before the callbacks run, which may do all of the
\* other actions.
HandleEvent(c) ==
  /\ revents[c] # {}
  /\ revents' = [revents EXCEPT ![c] = {}]
  /\ UNCHANGED <<life, watched, channels, events, asked, refusals>>

-----------------------------------------------------------------------------
(* Poller *)

\* Mutant: any entry at the number will do.
HasNumber(c) == channels[FdOf(c)] # NoChan

HasChannel(c) == channels[FdOf(c)] = c

\* epoll_ctl succeeds: ADD at a number that is not watched, MOD and DEL at one
\* that is.
Succeeds(c, op) ==
  LET fd == FdOf(c)
  IN  IF op = "ADD" THEN watched[fd] = Unwatched ELSE watched[fd] # Unwatched

Mask(c, op) == IF op = "DEL" THEN Unwatched ELSE events[c] \cup {D!Always}

\* Update: the map follows the kernel, and is left alone when epoll_ctl fails.
Control(c, op) ==
  IF Succeeds(c, op)
  THEN /\ watched' = [watched EXCEPT ![FdOf(c)] = Mask(c, op)]
       /\ channels' = [channels EXCEPT ![FdOf(c)] = IF op = "DEL" THEN NoChan ELSE c]
  ELSE UNCHANGED <<watched, channels>>

UpdateEvent(c) ==
  /\ life[c] = "open"
  /\ Control(c, IF HasChannel(c) THEN "MOD" ELSE "ADD")
  /\ asked' = [asked EXCEPT ![c] = events[c] \cup {D!Always}]
  /\ UNCHANGED <<life, events, revents, refusals>>

\* The kernel has no room for another watch.
UpdateRefused(c) ==
  /\ life[c] = "open"
  /\ ~HasChannel(c)
  /\ Succeeds(c, "ADD")
  /\ refusals < MaxRefusals
  /\ refusals' = refusals + 1
  /\ UNCHANGED <<life, watched, channels, events, revents, asked>>

\* Mutant: the number is taken out of epoll, whoever has it.
RemoveNumber(c) ==
  /\ life[c] # "unborn"
  /\ Control(c, "DEL")
  /\ asked' = [asked EXCEPT ![c] = Unwatched]
  /\ UNCHANGED <<life, events, revents, refusals>>

RemoveEvent(c) ==
  /\ life[c] # "unborn"
  /\ HasChannel(c)
  /\ Control(c, "DEL")
  /\ asked' = [asked EXCEPT ![c] = Unwatched]
  /\ UNCHANGED <<life, events, revents, refusals>>

\* epoll_wait reports some of what is ready, and each report goes to the
\* Channel the map has for the number.
Poll ==
  /\ \A c \in Chan : revents[c] = {}
  /\ \E report \in [Fd -> SUBSET Reportable] :
       /\ \A fd \in Fd : report[fd] \subseteq watched[fd]
       /\ revents' = [c \in Chan |-> IF HasChannel(c) THEN report[FdOf(c)] ELSE {}]
  /\ UNCHANGED <<life, watched, channels, events, asked, refusals>>

-----------------------------------------------------------------------------
Next ==
  \/ \E c \in Chan : \/ Open(c) \/ Close(c)
                     \/ SetEvents(c) \/ HandleEvent(c)
                     \/ UpdateEvent(c) \/ UpdateRefused(c)
                     \/ RemoveEvent(c)
  \/ Poll

Spec == Init /\ [][Next]_vars

-----------------------------------------------------------------------------
(* Properties *)

\* However numbers are reused, the kernel has for every open file what its
\* Channel was last asked to watch: the choice between EPOLL_CTL_ADD and
\* EPOLL_CTL_MOD is right whatever entry the number's former owner has left in
\* the map, and no removal hits the file of another Channel.
InterestKept ==
  \A c \in Chan : life[c] = "open" => watched[FdOf(c)] = asked[c]

\* A Channel is only told of what was asked for it, and what it is told
\* happened to its own file, also when others were removed, closed and
\* replaced under the same number since the last wait.
ImplementsDemultiplexer == D!Spec
=============================================================================

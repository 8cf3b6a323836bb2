--------------------------- MODULE PollerProofs ---------------------------
(***************************************************************************)
(* The Poller keeps every open file watched for what was asked, and        *)
(* implements the Demultiplexer, for all sets of descriptor numbers, files *)
(* and events.                                                             *)
(***************************************************************************)
EXTENDS Poller, TLAPS

\* Two files with one number are not open at a time.
OneFile ==
  \A c, d \in Chan : life[c] = "open" /\ life[d] = "open" /\ FdOf(c) = FdOf(d) => c = d

\* The map has a Channel at no number but its own, and none before its time.
OwnNumber ==
  \A fd \in Fd : channels[fd] \in Chan =>
    FdOf(channels[fd]) = fd /\ life[channels[fd]] # "unborn"

\* What the kernel watches is an open file, and the map leads to its Channel.
WatchedIsMapped ==
  \A fd \in Fd : watched[fd] # {} =>
    channels[fd] \in Chan /\ life[channels[fd]] = "open"

\* An open file the map leads to is watched.
MappedIsWatched ==
  \A c \in Chan : life[c] = "open" /\ HasChannel(c) => watched[FdOf(c)] # {}

\* Nothing is asked for a file that is not open.
AskedIsOpen == \A c \in Chan : asked[c] # {} => life[c] = "open"

Inv ==
  /\ PollerTypeOK
  /\ OneFile
  /\ OwnNumber
  /\ WatchedIsMapped
  /\ MappedIsWatched
  /\ AskedIsOpen
  /\ InterestKept

-----------------------------------------------------------------------------
\* A Channel is made for a number, and is not the map's empty entry.
LEMMA ChanNumber == NoChan \notin Chan /\ \A c \in Chan : FdOf(c) \in Fd
BY ChanAssumption DEF Chan, FdOf

\* The choice between ADD and MOD is right.
LEMMA RightOperation ==
  ASSUME Inv, NEW c \in Chan, life[c] = "open"
  PROVE  HasChannel(c) <=> watched[FdOf(c)] # {}
<1>1. FdOf(c) \in Fd
  BY ChanNumber
<1>2. watched[FdOf(c)] # {} => HasChannel(c)
  BY <1>1 DEF Inv, WatchedIsMapped, OwnNumber, OneFile, HasChannel
<1> QED
  BY <1>2 DEF Inv, MappedIsWatched

\* Where the map has a Channel, its number is watched for no more than was
\* asked for it.
LEMMA MapIsRight ==
  ASSUME Inv, NEW c \in Chan, HasChannel(c)
  PROVE  watched[FdOf(c)] = asked[c]
<1>1. FdOf(c) \in Fd
  BY ChanNumber
<1>2. CASE life[c] = "open"
  BY <1>2 DEF Inv, InterestKept
<1>3. CASE life[c] # "open"
  <2>1. watched[FdOf(c)] = {}
    BY <1>1, <1>3 DEF Inv, WatchedIsMapped, HasChannel
  <2>2. asked[c] = {}
    BY <1>3 DEF Inv, AskedIsOpen
  <2> QED
    BY <2>1, <2>2
<1> QED
  BY <1>2, <1>3

\* epoll_ctl for a Channel changes its own number at most, and what it leaves
\* there is known by whether it succeeds.
LEMMA ControlMeans ==
  ASSUME Inv, NEW c \in Chan, NEW op \in {"ADD", "MOD", "DEL"}, Control(c, op)
  PROVE  /\ watched' \in [Fd -> SUBSET Reportable]
         /\ channels' \in [Fd -> Chan \cup {NoChan}]
         /\ \A fd \in Fd : fd # FdOf(c) => /\ watched'[fd] = watched[fd]
                                          /\ channels'[fd] = channels[fd]
         /\ IF Succeeds(c, op)
            THEN /\ watched'[FdOf(c)] = Mask(c, op)
                 /\ channels'[FdOf(c)] = IF op = "DEL" THEN NoChan ELSE c
            ELSE watched' = watched /\ channels' = channels
<1>1. FdOf(c) \in Fd
  BY ChanNumber
<1>2. Mask(c, op) \in SUBSET Reportable
  BY DEF Mask, Inv, PollerTypeOK, Reportable, D!Reportable, Unwatched, D!Unwatched
<1> QED
  BY <1>1, <1>2 DEF Control, Inv, PollerTypeOK

-----------------------------------------------------------------------------
LEMMA InitInv == Init => Inv
BY ChanNumber DEF Init, Inv, PollerTypeOK, OneFile, OwnNumber, WatchedIsMapped,
                  MappedIsWatched, AskedIsOpen, InterestKept, Unwatched, D!Unwatched

LEMMA OpenInv ==
  ASSUME Inv, NEW c \in Chan, Open(c)
  PROVE  Inv'
<1>1. PollerTypeOK'
  BY DEF Inv, PollerTypeOK, Open
<1>2. OneFile' /\ OwnNumber' /\ WatchedIsMapped' /\ AskedIsOpen'
  BY DEF Inv, PollerTypeOK, Open, OneFile, OwnNumber, WatchedIsMapped, AskedIsOpen
<1>3. ~HasChannel(c)
  BY ChanNumber DEF Inv, OwnNumber, Open, HasChannel
<1>4. watched[FdOf(c)] = {}
  BY ChanNumber DEF Inv, WatchedIsMapped, OwnNumber, Open
<1>5. MappedIsWatched'
  BY <1>3 DEF Inv, PollerTypeOK, MappedIsWatched, Open, HasChannel
<1>6. InterestKept'
  BY <1>4 DEF Inv, PollerTypeOK, InterestKept, AskedIsOpen, Open
<1> QED
  BY <1>1, <1>2, <1>5, <1>6 DEF Inv

LEMMA CloseInv ==
  ASSUME Inv, NEW c \in Chan, Close(c)
  PROVE  Inv'
<1>1. FdOf(c) \in Fd
  BY ChanNumber
<1>2. PollerTypeOK'
  BY <1>1 DEF Inv, PollerTypeOK, Close, Unwatched, D!Unwatched
<1>3. OneFile' /\ OwnNumber'
  BY DEF Inv, PollerTypeOK, Close, OneFile, OwnNumber
<1>4. \A d \in Chan : life'[d] = "open" => life[d] = "open" /\ FdOf(d) # FdOf(c)
  BY DEF Inv, PollerTypeOK, Close, OneFile
<1>5. WatchedIsMapped'
  BY <1>1 DEF Inv, PollerTypeOK, Close, WatchedIsMapped, OwnNumber, Unwatched, D!Unwatched
<1>6. MappedIsWatched' /\ InterestKept'
  BY <1>1, <1>4, ChanNumber
  DEF Inv, PollerTypeOK, Close, MappedIsWatched, InterestKept, HasChannel
<1>7. AskedIsOpen'
  BY DEF Inv, PollerTypeOK, Close, AskedIsOpen, Unwatched, D!Unwatched
<1> QED
  BY <1>2, <1>3, <1>5, <1>6, <1>7 DEF Inv

\* What the actions of the Channel and the wait leave alone is all that the
\* invariant is about.
LEMMA QuietInv ==
  ASSUME Inv, PollerTypeOK', UNCHANGED <<life, watched, channels, asked>>
  PROVE  Inv'
BY DEF Inv, OneFile, OwnNumber, WatchedIsMapped, MappedIsWatched, AskedIsOpen,
       InterestKept, HasChannel

LEMMA UpdateEventInv ==
  ASSUME Inv, NEW c \in Chan, UpdateEvent(c)
  PROVE  Inv' /\ watched'[FdOf(c)] = asked'[c]
<1>. DEFINE op == IF HasChannel(c) THEN "MOD" ELSE "ADD"
<1>1. FdOf(c) \in Fd /\ life[c] = "open" /\ life' = life
  BY ChanNumber DEF UpdateEvent
<1>2. Succeeds(c, op) /\ op # "DEL" /\ op \in {"ADD", "MOD", "DEL"}
  BY <1>1, RightOperation DEF Succeeds, Unwatched, D!Unwatched
<1>3. Control(c, op)
  BY DEF UpdateEvent
<1>4. /\ watched' \in [Fd -> SUBSET Reportable]
      /\ channels' \in [Fd -> Chan \cup {NoChan}]
      /\ \A fd \in Fd : fd # FdOf(c) => /\ watched'[fd] = watched[fd]
                                       /\ channels'[fd] = channels[fd]
      /\ watched'[FdOf(c)] = events[c] \cup {D!Always}
      /\ channels'[FdOf(c)] = c
  <2>. HIDE DEF op
  <2> QED
    BY <1>2, <1>3, ControlMeans DEF Mask
<1>5. /\ asked' \in [Chan -> SUBSET Reportable]
      /\ asked'[c] = events[c] \cup {D!Always}
      /\ \A d \in Chan : d # c => asked'[d] = asked[d]
  BY DEF UpdateEvent, Inv, PollerTypeOK, Reportable, D!Reportable
<1>6. PollerTypeOK'
  BY <1>4, <1>5 DEF Inv, PollerTypeOK, UpdateEvent
<1>7. OneFile'
  BY <1>1 DEF Inv, OneFile
<1>8. OwnNumber' /\ WatchedIsMapped'
  BY <1>1, <1>4 DEF Inv, OwnNumber, WatchedIsMapped
<1>9. MappedIsWatched' /\ InterestKept'
  BY <1>1, <1>4, <1>5, ChanNumber
  DEF Inv, MappedIsWatched, InterestKept, OneFile, HasChannel
<1>10. AskedIsOpen'
  BY <1>1, <1>5 DEF Inv, AskedIsOpen
<1> QED
  BY <1>4, <1>5, <1>6, <1>7, <1>8, <1>9, <1>10 DEF Inv

LEMMA RemoveEventInv ==
  ASSUME Inv, NEW c \in Chan, RemoveEvent(c)
  PROVE  Inv'
<1>1. FdOf(c) \in Fd /\ life' = life /\ HasChannel(c)
  BY ChanNumber DEF RemoveEvent
<1>2. /\ asked' \in [Chan -> SUBSET Reportable]
      /\ asked'[c] = {}
      /\ \A d \in Chan : d # c => asked'[d] = asked[d]
  BY DEF RemoveEvent, Inv, PollerTypeOK, Unwatched, D!Unwatched
<1>3. /\ watched' \in [Fd -> SUBSET Reportable]
      /\ channels' \in [Fd -> Chan \cup {NoChan}]
      /\ \A fd \in Fd : fd # FdOf(c) => /\ watched'[fd] = watched[fd]
                                       /\ channels'[fd] = channels[fd]
      /\ watched'[FdOf(c)] = {}
      /\ channels'[FdOf(c)] = IF watched[FdOf(c)] # {} THEN NoChan ELSE c
  BY <1>1, ControlMeans
  DEF RemoveEvent, Succeeds, Mask, Unwatched, D!Unwatched, HasChannel
<1>4. PollerTypeOK'
  BY <1>2, <1>3 DEF Inv, PollerTypeOK, RemoveEvent
<1>5. OneFile' /\ AskedIsOpen'
  BY <1>1, <1>2 DEF Inv, OneFile, AskedIsOpen
<1>6. OwnNumber' /\ WatchedIsMapped'
  BY <1>1, <1>3, ChanNumber DEF Inv, OwnNumber, WatchedIsMapped, HasChannel
<1>7. MappedIsWatched'
  BY <1>1, <1>3, ChanNumber DEF Inv, MappedIsWatched, HasChannel
<1>8. \A d \in Chan : d # c /\ life[d] = "open" /\ FdOf(d) = FdOf(c) => watched[FdOf(d)] = {}
  BY <1>1, RightOperation DEF HasChannel
<1>9. InterestKept'
  BY <1>1, <1>2, <1>3, <1>8, ChanNumber DEF Inv, InterestKept
<1> QED
  BY <1>4, <1>5, <1>6, <1>7, <1>9 DEF Inv

LEMMA PollTypes ==
  ASSUME Inv, Poll
  PROVE  PollerTypeOK'
<1>1. PICK report \in [Fd -> SUBSET Reportable] :
        revents' = [c \in Chan |-> IF HasChannel(c) THEN report[FdOf(c)] ELSE {}]
  BY DEF Poll
<1>2. revents' \in [Chan -> SUBSET Reportable]
  BY <1>1, ChanNumber
<1> QED
  BY <1>2 DEF Inv, PollerTypeOK, Poll

LEMMA NextInv == Inv /\ [Next]_vars => Inv'
<1>. SUFFICES ASSUME Inv, [Next]_vars PROVE Inv'
  OBVIOUS
<1>1. ASSUME NEW c \in Chan, SetEvents(c) PROVE Inv'
  <2>1. PollerTypeOK'
    BY <1>1 DEF SetEvents, Inv, PollerTypeOK
  <2> QED
    BY <1>1, <2>1, QuietInv DEF SetEvents
<1>2. ASSUME NEW c \in Chan, HandleEvent(c) PROVE Inv'
  <2>1. PollerTypeOK'
    BY <1>2 DEF HandleEvent, Inv, PollerTypeOK
  <2> QED
    BY <1>2, <2>1, QuietInv DEF HandleEvent
<1>3. ASSUME NEW c \in Chan, UpdateRefused(c) PROVE Inv'
  <2>1. PollerTypeOK'
    BY <1>3 DEF UpdateRefused, Inv, PollerTypeOK
  <2> QED
    BY <1>3, <2>1, QuietInv DEF UpdateRefused
<1>4. CASE Poll
  BY <1>4, PollTypes, QuietInv DEF Poll
<1>5. CASE UNCHANGED vars
  <2>1. PollerTypeOK'
    BY <1>5 DEF vars, Inv, PollerTypeOK
  <2> QED
    BY <1>5, <2>1, QuietInv DEF vars
<1> QED
  BY <1>1, <1>2, <1>3, <1>4, <1>5, OpenInv, CloseInv, UpdateEventInv, RemoveEventInv
  DEF Next

\* The inductive invariant.
THEOREM Invariance == Spec => []Inv
BY InitInv, NextInv, PTL DEF Spec

\* The state keeps its types: the masks the kernel is given, the map and the
\* events a Channel is handed.
THEOREM TypeCorrect == Spec => []PollerTypeOK
<1>1. Inv => PollerTypeOK
  BY DEF Inv
<1> QED
  BY <1>1, Invariance, PTL

\* What a Channel's callers last asked of UpdateEvent and RemoveEvent is what
\* the kernel has for its file.
THEOREM Interest == Spec => []InterestKept
<1>1. Inv => InterestKept
  BY DEF Inv
<1> QED
  BY <1>1, Invariance, PTL

-----------------------------------------------------------------------------
(* Refinement: life and told are the Poller's own, interest is asked *)

LEMMA InitImplements == Init => D!Init
BY DEF Init, D!Init, Unwatched

LEMMA UpdateImplements ==
  ASSUME Inv, NEW c \in Chan, UpdateEvent(c)
  PROVE  D!Watch(c)
BY DEF UpdateEvent, D!Watch, Inv, PollerTypeOK

\* A Channel whose file was closed under it has asked for nothing: removing it
\* changes nothing that is asked.
LEMMA RemoveImplements ==
  ASSUME Inv, NEW c \in Chan, RemoveEvent(c)
  PROVE  D!Unwatch(c) \/ UNCHANGED D!vars
<1>1. CASE life[c] = "open"
  BY <1>1 DEF RemoveEvent, D!Unwatch, Unwatched
<1>2. CASE life[c] # "open"
  <2>1. asked[c] = {}
    BY <1>2 DEF Inv, AskedIsOpen
  <2>2. asked' = asked
    BY <2>1 DEF RemoveEvent, Inv, PollerTypeOK, Unwatched, D!Unwatched
  <2> QED
    BY <2>2 DEF RemoveEvent, D!vars
<1> QED
  BY <1>1, <1>2

LEMMA RefusedImplements ==
  ASSUME Inv, NEW c \in Chan, UpdateRefused(c)
  PROVE  D!Refuse(c)
<1>1. FdOf(c) \in Fd
  BY ChanNumber
<1>2. asked[c] = D!Unwatched
  BY DEF UpdateRefused, Succeeds, Unwatched, Inv, InterestKept
<1> QED
  BY <1>2 DEF UpdateRefused, D!Refuse

\* What the map hands a Channel was reported for a number that is watched for
\* what this very Channel has asked.
LEMMA PollImplements ==
  ASSUME Inv, Poll
  PROVE  D!Tell
<1>1. PICK report \in [Fd -> SUBSET Reportable] :
        /\ \A fd \in Fd : report[fd] \subseteq watched[fd]
        /\ revents' = [c \in Chan |-> IF HasChannel(c) THEN report[FdOf(c)] ELSE {}]
  BY DEF Poll
<1>2. revents' \in [Chan -> SUBSET D!Reportable]
  BY PollTypes DEF PollerTypeOK, Reportable
<1>3. ASSUME NEW c \in Chan PROVE revents'[c] \subseteq asked[c]
  BY <1>1, ChanNumber, MapIsRight
<1> QED
  BY <1>2, <1>3 DEF Poll, D!Tell

LEMMA StepImplements == Inv /\ [Next]_vars => [D!Next]_D!vars
<1>. SUFFICES ASSUME Inv, [Next]_vars PROVE [D!Next]_D!vars
  OBVIOUS
<1>1. ASSUME NEW c \in Chan, Open(c) PROVE D!Open(c)
  BY <1>1 DEF Open, D!Open
<1>2. ASSUME NEW c \in Chan, Close(c) PROVE D!Close(c)
  BY <1>2 DEF Close, D!Close, Unwatched
<1>3. ASSUME NEW c \in Chan, SetEvents(c) PROVE UNCHANGED D!vars
  BY <1>3 DEF SetEvents, D!vars
<1>4. ASSUME NEW c \in Chan, HandleEvent(c) PROVE D!Handle(c)
  BY <1>4 DEF HandleEvent, D!Handle
<1>5. CASE UNCHANGED vars
  BY <1>5 DEF vars, D!vars
<1>6. CASE Poll
  BY <1>6, PollImplements DEF D!Next
<1>7. ASSUME NEW c \in Chan, UpdateEvent(c) \/ UpdateRefused(c) \/ RemoveEvent(c)
      PROVE  [D!Next]_D!vars
  BY <1>7, UpdateImplements, RefusedImplements, RemoveImplements DEF D!Next
<1> QED
  BY <1>1, <1>2, <1>3, <1>4, <1>5, <1>6, <1>7 DEF Next, D!Next

\* Numbers, the map and the kernel's table are invisible to the Channels.
THEOREM Refinement == Spec => ImplementsDemultiplexer
<1>1. Spec => D!Init /\ [][D!Next]_D!vars
  BY InitImplements, StepImplements, Invariance, PTL DEF Spec
<1> QED
  BY <1>1 DEF ImplementsDemultiplexer, D!Spec
=============================================================================

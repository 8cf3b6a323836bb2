---------------------------- MODULE Connection ----------------------------
(***************************************************************************)
(* One TCP connection inside its event loop: the handlers its Channel      *)
(* calls, the operations its users call, and the user callbacks in which   *)
(* handlers and operations nest.                                           *)
(*                                                                         *)
(* A method is an operator from the connection's state to its next state.  *)
(* Where the code calls a user callback, the operator pushes a frame onto  *)
(* "calls" instead; the frame says what the method still has to do when    *)
(* the callback returns.  While a frame is there, the callback may call    *)
(* Send, Shutdown and SetInactiveClose, which the loop's own thread runs   *)
(* at once, inside the method that is waiting.                             *)
(*                                                                         *)
(* Sizes are counted in units that only matter against the water marks.    *)
(* The idle timer is the one TimerSpec describes: it loses one unit per    *)
(* tick, goes back to Timeout on a refresh and closes the connection when  *)
(* it runs out.                                                            *)
(***************************************************************************)
EXTENDS Naturals, Sequences

CONSTANTS
  HighWater,  \* OUTPUT_HIGH_WATER
  LowWater,   \* OUTPUT_LOW_WATER
  Timeout,    \* seconds given to SetInactiveClose
  MaxOut,     \* bound: bytes in the output buffer
  MaxIn,      \* bound: bytes received and not yet consumed
  MaxTicks    \* bound: seconds the loop may fall behind its timerfd

ASSUME WaterAssumption ==
  /\ HighWater \in Nat /\ LowWater \in Nat
  /\ LowWater < HighWater
ASSUME TimeoutAssumption == Timeout \in Nat \ {0}
ASSUME BoundAssumption == MaxOut \in Nat /\ MaxIn \in Nat /\ MaxTicks \in Nat

VARIABLES
  conn,       \* the Connection, its Channel, its timer and its place in epoll
  batch,      \* callbacks still to be made in this round of the loop
  rx,         \* bytes the kernel holds for reading
  fin,        \* the peer has shut its side down
  rst,        \* the peer has reset the connection
  room        \* the kernel's send buffer takes at least one byte

vars == <<conn, batch, rx, fin, rst, room>>

Statu == {"CONNECTING", "CONNECTED", "DISCONNECTING", "DISCONNECTED"}
Events == {"IN", "OUT"}

\* What a method waits for: its user callback, named for what comes after it.
Frames == {"connected", "read", "resume", "any", "shutdown", "release", "close"}

Conn == [statu    : Statu,           \* _statu
         events   : SUBSET Events,   \* the Channel's _events
         added    : BOOLEAN,         \* the Channel is in epoll,
         mask     : SUBSET Events,   \* with these events
         in       : Nat,             \* bytes in _In_buffer
         out      : Nat,             \* bytes in _Out_buffer
         paused   : BOOLEAN,         \* _read_paused
         inactive : BOOLEAN,         \* _enable_inactive_close
         left     : 0 .. Timeout,    \* ticks left of the idle timer, 0: none
         fd       : BOOLEAN,         \* the Socket is open
         removals : Nat,             \* calls of _server_close_callback
         calls    : Seq(Frames)]     \* user callbacks running, innermost first

\* "channel" is where HandleEvent begins.
Callbacks == {"tick", "channel", "read", "write", "event", "close"}

TypeOK ==
  /\ conn \in Conn
  /\ batch \in Seq(Callbacks)
  /\ rx \in Nat
  /\ fin \in BOOLEAN
  /\ rst \in BOOLEAN
  /\ room \in BOOLEAN

Fresh == [statu |-> "CONNECTING", events |-> {}, added |-> FALSE, mask |-> {},
          in |-> 0, out |-> 0, paused |-> FALSE, inactive |-> FALSE, left |-> 0,
          fd |-> TRUE, removals |-> 0, calls |-> <<>>]

Init ==
  /\ conn = Fresh
  /\ batch = <<>>
  /\ rx = 0
  /\ fin = FALSE
  /\ rst = FALSE
  /\ room = TRUE

-----------------------------------------------------------------------------
(* The Channel and the Poller *)

EnableRead(c)   == [c EXCEPT !.events = @ \cup {"IN"}]
EnableWrite(c)  == [c EXCEPT !.events = @ \cup {"OUT"}]
DisableRead(c)  == [c EXCEPT !.events = @ \ {"IN"}]
DisableWrite(c) == [c EXCEPT !.events = @ \ {"OUT"}]

\* UpdateEvent: EPOLL_CTL_ADD or EPOLL_CTL_MOD with the current events.
Update(c) == [c EXCEPT !.added = TRUE, !.mask = c.events]

\* DisableAll and Remove.
Unregister(c) == [c EXCEPT !.events = {}, !.added = FALSE, !.mask = {}]

Call(f, c) == [c EXCEPT !.calls = <<f>> \o @]

-----------------------------------------------------------------------------
(* The methods *)

\* Mutant: every path that gets here releases, however many have before.
ReleaseAgain(c) ==
  Call("close",
       Unregister([c EXCEPT !.statu = "DISCONNECTED", !.paused = FALSE,
                            !.left = 0, !.fd = FALSE]))

\* Release: the resources go, then the user's close callback runs.
Release(c) ==
  IF c.statu = "DISCONNECTED" THEN c
  ELSE Call("close",
            Unregister([c EXCEPT !.statu = "DISCONNECTED", !.paused = FALSE,
                                 !.left = 0, !.fd = FALSE]))

\* ... and after it, or after it has thrown, the server's own close callback.
AfterClose(c) == [c EXCEPT !.removals = @ + 1]

\* Mutant: a connection is established whatever became of it meanwhile.
EstablishedAnyway(c) ==
  Call("connected", Update(EnableRead([c EXCEPT !.statu = "CONNECTED"])))

EstablishedInLoop(c) ==
  IF c.statu # "CONNECTING" THEN c
  ELSE Call("connected", Update(EnableRead([c EXCEPT !.statu = "CONNECTED"])))

\* Mutant: a shutdown closes at once.
AfterShutdownAtOnce(c) == Release(c)

\* Mutant: a shutdown with nothing to write waits for an event all the same.
AfterShutdownWaits(c) == Update(EnableWrite(c))

AfterShutdown(c) ==
  IF c.out = 0 THEN Release(c) ELSE Update(EnableWrite(c))

ShutdownInLoop(c) ==
  IF c.statu \in {"DISCONNECTING", "DISCONNECTED"} THEN c
  ELSE LET d == Update(DisableRead([c EXCEPT !.statu = "DISCONNECTING"]))
       IN  IF d.in > 0 THEN Call("shutdown", d) ELSE AfterShutdown(d)

\* Mutant: the write event is not asked for.
SendInLoopUnwatched(c, n) ==
  IF c.statu \in {"CONNECTING", "DISCONNECTED"} THEN c
  ELSE LET d == [c EXCEPT !.out = @ + n]
       IN  Update(IF ~d.paused /\ d.out >= HighWater
                  THEN DisableRead([d EXCEPT !.paused = TRUE])
                  ELSE d)

SendInLoop(c, n) ==
  IF c.statu \in {"CONNECTING", "DISCONNECTED"} THEN c
  ELSE LET d == [c EXCEPT !.out = @ + n]
           e == IF ~d.paused /\ d.out >= HighWater
                THEN DisableRead([d EXCEPT !.paused = TRUE])
                ELSE d
       IN  Update(EnableWrite(e))

HandleClose(c) ==
  IF c.statu = "DISCONNECTED" THEN c
  ELSE IF c.in > 0 THEN Call("release", c) ELSE Release(c)

\* Mutant: the write event is given up on the length read before the callback.
AfterWriteStale(c) ==
  LET d == Update(DisableWrite(c))
  IN  IF d.statu = "DISCONNECTING" THEN Release(d) ELSE d

\* Mutant: the last byte of a closing connection does not close it.
AfterWriteLingers(c) == IF c.out > 0 THEN c ELSE Update(DisableWrite(c))

\* HandleWrite once the bytes are gone: the end of it, and before that the
\* resumption of reading, which hands waiting input to the user again.
AfterWrite(c) ==
  IF c.out > 0 THEN c
  ELSE LET d == Update(DisableWrite(c))
       IN  IF d.statu = "DISCONNECTING" THEN Release(d) ELSE d

AfterResume(c) == IF c.statu = "DISCONNECTED" THEN c ELSE AfterWrite(c)

\* Mutant: output at the low mark itself does not resume reading.
ResumesBelow(c) == c.statu = "CONNECTED" /\ c.paused /\ c.out < LowWater

Resumes(c) == c.statu = "CONNECTED" /\ c.paused /\ c.out <= LowWater

ResumeRead(c) ==
  IF ~Resumes(c) THEN AfterWrite(c)
  ELSE LET d == Update(EnableRead([c EXCEPT !.paused = FALSE]))
       IN  IF d.in > 0 THEN Call("resume", d) ELSE AfterWrite(d)

\* HandleWrite when the send fails: the user sees the input, then Release.
WriteFailed(c) == IF c.in > 0 THEN Call("release", c) ELSE Release(c)

RefreshTask(c) == [c EXCEPT !.left = IF @ > 0 THEN Timeout ELSE 0]

HandleAny(c) ==
  IF c.statu = "DISCONNECTED" THEN c
  ELSE Call("any", IF c.inactive THEN RefreshTask(c) ELSE c)

\* Mutant: idle closing is switched off, its timer is not cancelled.
SetInactiveCloseKeepsTimer(c, enable) ==
  IF c.statu = "DISCONNECTED" THEN c
  ELSE [c EXCEPT !.inactive = enable, !.left = IF enable THEN Timeout ELSE @]

SetInactiveCloseInLoop(c, enable) ==
  IF c.statu = "DISCONNECTED" THEN c
  ELSE [c EXCEPT !.inactive = enable,
                 !.left = IF enable THEN Timeout ELSE IF c.inactive THEN 0 ELSE @]

\* One turn of the time wheel, as this connection's timer sees it.
Tick(c) ==
  IF c.left = 1 THEN HandleClose([c EXCEPT !.left = 0])
  ELSE [c EXCEPT !.left = IF @ = 0 THEN 0 ELSE @ - 1]

\* Mutant: a method that hands the last input to the user forgets to release.
ContinueAfterRelease(f, c) ==
  CASE f = "shutdown" -> AfterShutdown(c)
    [] f = "resume"   -> AfterResume(c)
    [] f = "close"    -> AfterClose(c)
    [] OTHER          -> c

\* What the method that called the user does next.
Continue(f, c) ==
  CASE f = "shutdown" -> AfterShutdown(c)
    [] f = "release"  -> Release(c)
    [] f = "resume"   -> AfterResume(c)
    [] f = "close"    -> AfterClose(c)
    [] OTHER          -> c

-----------------------------------------------------------------------------
(* The loop *)

InCallback == conn.calls # <<>>
Idle == ~InCallback /\ batch = <<>>

If(b, cb) == IF b THEN <<cb>> ELSE <<>>

Readable == "IN" \in conn.mask /\ (rx > 0 \/ fin \/ rst)
Writable == "OUT" \in conn.mask /\ (room \/ rst)

\* HandleEvent: reads, then writes, then the event callback, then the error or
\* hang-up, which epoll reports whatever the mask.
ChannelReady == conn.added /\ (Readable \/ Writable \/ rst)
ChannelCalls ==
  IF ChannelReady
  THEN <<"channel">> \o If(Readable, "read") \o If(Writable, "write")
         \o <<"event">> \o If(rst, "close")
  ELSE <<>>

\* epoll_wait reports the connection and, in any order, the timerfd with the
\* seconds that have gone by.
Poll ==
  /\ Idle
  /\ \E k \in 0 .. MaxTicks :
       LET ticks == [i \in 1 .. k |-> "tick"]
       IN  /\ ChannelReady \/ k > 0
           /\ batch' \in {ticks \o ChannelCalls, ChannelCalls \o ticks}
  /\ UNCHANGED <<conn, rx, fin, rst, room>>

Callback(cb) ==
  /\ ~InCallback
  /\ batch # <<>>
  /\ Head(batch) = cb
  /\ batch' = Tail(batch)

HandleEvent ==
  /\ Callback("channel")
  /\ UNCHANGED <<conn, rx, fin, rst, room>>

Reads == conn.statu = "CONNECTED" /\ ~conn.paused

\* Also what epoll had reported before somebody else's handler paused or
\* closed the connection.
HandleReadIgnored ==
  /\ Callback("read")
  /\ ~Reads
  /\ UNCHANGED <<conn, rx, fin, rst, room>>

HandleReadData ==
  /\ Callback("read")
  /\ Reads
  /\ \E n \in 1 .. rx :
       /\ conn' = Call("read", [conn EXCEPT !.in = @ + n])
       /\ rx' = rx - n
  /\ UNCHANGED <<fin, rst, room>>

\* End of stream, or an error: both shut the connection down.
HandleReadEnd ==
  /\ Callback("read")
  /\ Reads
  /\ rx = 0
  /\ fin \/ rst
  /\ conn' = ShutdownInLoop(conn)
  /\ UNCHANGED <<rx, fin, rst, room>>

\* EINTR or EAGAIN: the next round tries again.
HandleReadAgain ==
  /\ Callback("read")
  /\ Reads
  /\ UNCHANGED <<conn, rx, fin, rst, room>>

Writes == conn.statu \in {"CONNECTED", "DISCONNECTING"}

HandleWriteIgnored ==
  /\ Callback("write")
  /\ ~Writes
  /\ UNCHANGED <<conn, rx, fin, rst, room>>

\* Output waits whenever the event is reported (OutputIsWatched), so that the
\* code's test for it never fails.
HandleWriteData ==
  /\ Callback("write")
  /\ Writes
  /\ conn.out > 0
  /\ room /\ ~rst
  /\ \E n \in 1 .. conn.out : conn' = ResumeRead([conn EXCEPT !.out = @ - n])
  /\ room' \in BOOLEAN
  /\ UNCHANGED <<rx, fin, rst>>

HandleWriteFails ==
  /\ Callback("write")
  /\ Writes
  /\ conn.out > 0
  /\ rst
  /\ conn' = WriteFailed(conn)
  /\ UNCHANGED <<rx, fin, rst, room>>

HandleWriteAgain ==
  /\ Callback("write")
  /\ Writes
  /\ conn.out > 0
  /\ UNCHANGED <<conn, rx, fin, rst, room>>

HandleEventCallback ==
  /\ Callback("event")
  /\ conn' = HandleAny(conn)
  /\ UNCHANGED <<rx, fin, rst, room>>

HandleHangUp ==
  /\ Callback("close")
  /\ conn' = HandleClose(conn)
  /\ UNCHANGED <<rx, fin, rst, room>>

RunTimerTask ==
  /\ Callback("tick")
  /\ conn' = Tick(conn)
  /\ UNCHANGED <<rx, fin, rst, room>>

-----------------------------------------------------------------------------
(* Users: callbacks of this connection, and of other connections and timers *)
(* on the loop; and other threads, whose calls the loop runs as tasks.      *)

\* The loop is not in this connection's Channel: it runs tasks, or in the
\* middle of a round the handlers of others.
Elsewhere ==
  /\ ~InCallback
  /\ batch # <<>> => Head(batch) \in {"tick", "channel"}

MayCall == InCallback \/ Elsewhere

Established ==
  /\ Elsewhere
  /\ conn' = EstablishedInLoop(conn)
  /\ UNCHANGED <<batch, rx, fin, rst, room>>

Send ==
  /\ MayCall
  /\ \E n \in 1 .. 2 :
       /\ conn.out + n <= MaxOut
       /\ conn' = SendInLoop(conn, n)
  /\ UNCHANGED <<batch, rx, fin, rst, room>>

Shutdown ==
  /\ MayCall
  /\ conn' = ShutdownInLoop(conn)
  /\ UNCHANGED <<batch, rx, fin, rst, room>>

SetInactiveClose ==
  /\ MayCall
  /\ \E enable \in BOOLEAN : conn' = SetInactiveCloseInLoop(conn, enable)
  /\ UNCHANGED <<batch, rx, fin, rst, room>>

\* A message callback takes some of the input out of the buffer.
Consume ==
  /\ InCallback
  /\ Head(conn.calls) \in {"read", "resume", "shutdown", "release"}
  /\ \E n \in 1 .. conn.in : conn' = [conn EXCEPT !.in = @ - n]
  /\ UNCHANGED <<batch, rx, fin, rst, room>>

Return ==
  /\ InCallback
  /\ conn' = Continue(Head(conn.calls), [conn EXCEPT !.calls = Tail(@)])
  /\ UNCHANGED <<batch, rx, fin, rst, room>>

-----------------------------------------------------------------------------
(* The peer *)

PeerSends ==
  /\ ~fin /\ ~rst
  /\ conn.fd
  /\ rx + conn.in < MaxIn
  /\ rx' = rx + 1
  /\ UNCHANGED <<conn, batch, fin, rst, room>>

PeerShutsDown ==
  /\ ~fin /\ ~rst
  /\ fin' = TRUE
  /\ UNCHANGED <<conn, batch, rx, rst, room>>

PeerResets ==
  /\ ~rst
  /\ rst' = TRUE
  /\ UNCHANGED <<conn, batch, rx, fin, room>>

PeerReads ==
  /\ ~room /\ ~rst
  /\ room' = TRUE
  /\ UNCHANGED <<conn, batch, rx, fin, rst>>

-----------------------------------------------------------------------------
Handler ==
  \/ HandleEvent
  \/ HandleReadIgnored \/ HandleReadData \/ HandleReadEnd \/ HandleReadAgain
  \/ HandleWriteIgnored \/ HandleWriteData \/ HandleWriteFails \/ HandleWriteAgain
  \/ HandleEventCallback \/ HandleHangUp \/ RunTimerTask

User == Established \/ Send \/ Shutdown \/ SetInactiveClose \/ Consume \/ Return

Peer == PeerSends \/ PeerShutsDown \/ PeerResets \/ PeerReads

Next == Poll \/ Handler \/ User \/ Peer

Spec == Init /\ [][Next]_vars

\* The loop goes round, callbacks return, a transient error does not come back
\* for ever, and a peer that has not reset reads what it is sent.
Fairness ==
  /\ WF_vars(Poll /\ ChannelReady)
  /\ WF_vars(Handler)
  /\ SF_vars(HandleWriteData \/ HandleWriteFails)
  /\ WF_vars(Return)
  /\ WF_vars(PeerReads)

FairSpec == Spec /\ Fairness

-----------------------------------------------------------------------------
(* Properties *)

\* Output that waits in the buffer is watched for: no interleaving of Send,
\* HandleWrite and the callbacks inside them leaves bytes behind that epoll
\* would never ask for.  And between two rounds only such output is watched
\* for, so that a writable socket does not keep the loop spinning.
OutputIsWatched ==
  conn.statu # "DISCONNECTED" =>
    /\ conn.out > 0 => "OUT" \in conn.mask
    /\ Idle => ("OUT" \in conn.mask <=> conn.out > 0)

\* Back pressure between two rounds: epoll reports input exactly while reading
\* is not paused; it is paused only while output above the low mark is left to
\* write, which is what resumes it; and never off at the high mark.
BackPressure ==
  Idle /\ conn.statu = "CONNECTED" =>
    /\ "IN" \in conn.mask <=> ~conn.paused
    /\ conn.paused => conn.out > LowWater /\ "OUT" \in conn.mask
    /\ ~conn.paused => conn.out < HighWater

\* A connection in DISCONNECTING has a reason to be there: without output it
\* would wait for an event nobody reports, and its fd would leak.
ClosingHasOutput == Idle /\ conn.statu = "DISCONNECTING" => conn.out > 0

\* The resources go together, once: the Channel leaves epoll before the fd is
\* closed, the idle timer dies with them, and however many of read, error,
\* hang-up and timeout meet in a round the server hears of the end once.
ReleasedOnce ==
  /\ ~conn.fd => ~conn.added /\ conn.events = {} /\ conn.left = 0 /\ ~conn.paused
  /\ conn.fd <=> conn.statu # "DISCONNECTED"
  /\ conn.removals <= 1
  /\ Idle => (conn.removals = 1 <=> ~conn.fd)

\* Idle closing that is on has a timer behind it, however reads, refreshes,
\* SetInactiveClose and ticks follow each other; one that is off has none.
TimerMatchesSetting ==
  Idle /\ conn.fd => (conn.left > 0 <=> conn.inactive)

\* The status never goes back: no late Established, Send or Shutdown revives
\* a connection that is closing or closed.
Rank == [CONNECTING |-> 0, CONNECTED |-> 1, DISCONNECTING |-> 2, DISCONNECTED |-> 3]
StatuGoesForward == [][Rank[conn.statu] <= Rank[conn'.statu]]_vars

\* Output is dropped only for a peer that has reset the connection, or in the
\* very tick that runs the idle timer out: a Shutdown lets everything go out
\* first, however long idle closing has been on.  The "release" callback is
\* where such an end has been decided already.
GivesUp(calls) == calls # <<>> /\ Head(calls) = "release"
TimesOut == RunTimerTask /\ conn.left = 1
DropsNoOutput ==
  [][(conn.fd /\ ~conn'.fd /\ ~GivesUp(conn.calls)) \/
     (GivesUp(conn'.calls) /\ Len(conn'.calls) > Len(conn.calls))
       => conn'.out = 0 \/ rst \/ TimesOut]_vars

\* A connection that is shutting down ends, unless its users keep sending.
ShutdownEnds ==
  \/ conn.statu = "DISCONNECTING" ~> conn.statu = "DISCONNECTED"
  \/ []<><<Send>>_vars

\* Reading that has been paused is taken up again, or the connection is
\* closing, unless its users keep sending.
PauseEnds ==
  \/ conn.paused ~> ~conn.paused \/ conn.statu # "CONNECTED"
  \/ []<><<Send>>_vars

\* A peer's reset releases an established connection, paused or not.
ResetReleases ==
  rst /\ conn.statu \in {"CONNECTED", "DISCONNECTING"} ~> conn.statu = "DISCONNECTED"

\* What the README says of idle closing, that only a connection without
\* messages is closed: the idle timer spares a connection whose input epoll
\* has reported in the round it runs out in.
InputReported == \E i \in DOMAIN batch : batch[i] = "read"
TimeoutMeansSilence ==
  [][RunTimerTask /\ Reads /\ InputReported => (conn.left > 0 => conn'.left > 0)]_vars

-----------------------------------------------------------------------------
(* The inductive invariant behind the state properties, part by part *)

\* The user callback a handler or a task started with, below all others.
Outermost(c) == c.calls[Len(c.calls)]
Within(c, f) == Len(c.calls) > 0 /\ Outermost(c) = f
Innermost(c, f) == Len(c.calls) > 0 /\ c.calls[1] = f

\* Inside any callback the user can only get as far as one "shutdown" or
\* "close" callback more.
Last == {"shutdown", "close"}
Nested(calls) ==
  /\ Len(calls) <= 2
  /\ Len(calls) = 2 => calls[1] \in Last /\ calls[2] \notin Last
Nesting(c) ==
  /\ Nested(c.calls)
  /\ Innermost(c, "shutdown") => c.statu = "DISCONNECTING"
  /\ Innermost(c, "close") => c.statu = "DISCONNECTED"
  /\ c.statu = "CONNECTING" => Len(c.calls) = 0

Registered(c) ==
  /\ c.mask = IF c.added THEN c.events ELSE {}
  /\ c.statu \in {"CONNECTED", "DISCONNECTING"} => c.added
  /\ c.statu = "CONNECTING" =>
       ~c.added /\ c.events = {} /\ c.in = 0 /\ c.out = 0 /\ ~c.paused

\* Only between the resumption of reading and the end of HandleWrite is an
\* empty buffer still watched for.
Watched(c) ==
  c.fd => /\ c.out > 0 => "OUT" \in c.events
          /\ "OUT" \in c.events => c.out > 0 \/ Within(c, "resume")

Pressure(c) ==
  c.statu = "CONNECTED" =>
    /\ "IN" \in c.events <=> ~c.paused
    /\ c.paused => c.out > LowWater
    /\ ~c.paused => c.out < HighWater

Lingering(c) == c.statu = "DISCONNECTING" => c.out > 0 \/ Innermost(c, "shutdown")

Ended(c) ==
  /\ c.fd <=> c.statu # "DISCONNECTED"
  /\ ~c.fd => ~c.added /\ c.events = {} /\ c.left = 0 /\ ~c.paused
  /\ c.removals = IF c.fd \/ Innermost(c, "close") THEN 0 ELSE 1

Armed(c) == c.fd => (c.left > 0 <=> c.inactive) \/ Within(c, "release")

Sound(c) ==
  /\ Nesting(c)
  /\ Registered(c)
  /\ Watched(c)
  /\ Pressure(c)
  /\ Lingering(c)
  /\ Ended(c)
  /\ Armed(c)

\* Epoll cannot report a connection it has not been told of.
Reported == conn.statu = "CONNECTING" => \A i \in DOMAIN batch : batch[i] = "tick"

Inv == TypeOK /\ Sound(conn) /\ Reported
=============================================================================

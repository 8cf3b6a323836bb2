---------------------------- MODULE HttpServer ----------------------------
(***************************************************************************)
(* One HTTP connection: the Connection of module Connection with the HTTP  *)
(* server as its only user.  Its message callback OnMessage takes complete *)
(* requests out of the input buffer, answers each, and stops while too     *)
(* much output waits; what the parser makes of the bytes is the business   *)
(* of module HttpContext, here it only tells whether a request is complete.*)
(*                                                                         *)
(* The client's stream is a sequence of units: "part" belongs to a request *)
(* that is completed by the next unit that is none.  "keep" completes one  *)
(* after which the connection stays open, "close" one after which it is    *)
(* closed (the client or the handler says so, or the handler's answer has  *)
(* a header that cannot be sent), "bad" one the parser rejects.            *)
(***************************************************************************)
EXTENDS Connection

CONSTANTS
  MaxUnits,      \* bound: units the client sends
  MaxResponse    \* bound: the largest response

ASSUME UnitAssumption == MaxUnits \in Nat /\ MaxResponse \in Nat \ {0}

VARIABLES
  stream,    \* what the client has sent so far
  done,      \* units of it the server has taken out of the input buffer
  answers    \* history: the requests that were answered, by their units, in order

httpVars == <<stream, done, answers>>
allVars == <<vars, httpVars>>

Requests == {"keep", "close", "bad"}
Units == Requests \cup {"part"}

HttpInit ==
  /\ Init
  /\ stream = <<>>
  /\ done = 0
  /\ answers = <<>>

-----------------------------------------------------------------------------
(* The callbacks of the HTTP server *)

\* OnConnected returns, and NewConnection goes on to SetInactiveClose.
ConnectedReturns ==
  /\ Innermost(conn, "connected")
  /\ conn' = SetInactiveCloseInLoop([conn EXCEPT !.calls = Tail(@)], TRUE)
  /\ UNCHANGED <<batch, rx, fin, rst, room, httpVars>>

InMessage == InCallback /\ conn.calls[1] \in {"read", "resume", "shutdown", "release"}

\* Mutant: OnMessage answers all it has, however much output waits.
DispatchesWhilePaused ==
  InMessage /\ conn.statu = "CONNECTED" /\ conn.in > 0

\* OnMessage's first test and the condition of its loop.  They come to the
\* same: only its own Shutdown, after which it returns, changes _statu.
Dispatches ==
  InMessage /\ conn.statu = "CONNECTED" /\ ~conn.paused /\ conn.in > 0

\* The first request in the input buffer is complete with its k-th unit.
Completes(k) ==
  /\ k \in 1 .. conn.in
  /\ stream[done + k] \in Requests
  /\ \A j \in 1 .. k - 1 : stream[done + j] = "part"

HasRequest == \E k \in 1 .. conn.in : Completes(k)

\* Mutant: closing is left to the client.
CloseByClient(c) == [c EXCEPT !.in = 0]

\* buffer.clear and Shutdown.
CloseAfterAnswer(c) == ShutdownInLoop([c EXCEPT !.in = 0])

\* One round of the loop: the request is answered, and the connection shut
\* down when the request or the response says so.
AnswerRequest ==
  /\ Dispatches
  /\ \E k \in 1 .. conn.in, size \in 1 .. MaxResponse :
       LET request  == stream[done + k]
           answered == SendInLoop([conn EXCEPT !.in = @ - k], size)
       IN  /\ Completes(k)
           /\ answers' = Append(answers, done + k)
           /\ IF request = "keep"
              THEN conn' = answered /\ done' = done + k
              ELSE conn' = CloseAfterAnswer(answered) /\ done' = done + conn.in
  /\ UNCHANGED <<batch, rx, fin, rst, room, stream>>

\* The parser takes whole lines, and the body as far as it is there, out of
\* the buffer before it finds the request incomplete.
TakeParts ==
  /\ Dispatches
  /\ ~HasRequest
  /\ \E k \in 1 .. conn.in :
       /\ conn' = [conn EXCEPT !.in = @ - k]
       /\ done' = done + k
  /\ UNCHANGED <<batch, rx, fin, rst, room, stream, answers>>

\* Mutant: OnMessage returns after each request it has answered.
CallbackReturnsEarly ==
  /\ ~Innermost(conn, "connected")
  /\ Return
  /\ UNCHANGED httpVars

\* Any callback returns, OnMessage when it has nothing left to dispatch.
CallbackReturns ==
  /\ ~Innermost(conn, "connected")
  /\ ~(Dispatches /\ HasRequest)
  /\ Return
  /\ UNCHANGED httpVars

\* The client sends another unit.
ClientSends ==
  /\ PeerSends
  /\ Len(stream) < MaxUnits
  /\ \E unit \in Units : stream' = Append(stream, unit)
  /\ UNCHANGED <<done, answers>>

-----------------------------------------------------------------------------
LoopStep == (Poll \/ Handler \/ Established) /\ UNCHANGED httpVars

OnMessage == AnswerRequest \/ TakeParts

ClientStep ==
  \/ ClientSends
  \/ (PeerShutsDown \/ PeerResets \/ PeerReads) /\ UNCHANGED httpVars

HttpNext ==
  \/ LoopStep
  \/ ConnectedReturns
  \/ OnMessage
  \/ CallbackReturns
  \/ ClientStep

HttpSpec == HttpInit /\ [][HttpNext]_allVars

\* Connection's fairness, for the HTTP server as its user.
HttpFairness ==
  /\ WF_allVars(Poll /\ ChannelReady /\ UNCHANGED httpVars)
  /\ WF_allVars(Handler /\ UNCHANGED httpVars)
  /\ SF_allVars((HandleWriteData \/ HandleWriteFails) /\ UNCHANGED httpVars)
  /\ SF_allVars(HandleReadData /\ UNCHANGED httpVars)
  /\ WF_allVars(ConnectedReturns)
  /\ WF_allVars(AnswerRequest)
  /\ WF_allVars(CallbackReturns)
  /\ WF_allVars(PeerReads /\ UNCHANGED httpVars)

HttpFairSpec == HttpSpec /\ HttpFairness

-----------------------------------------------------------------------------
(* Properties *)

\* Each request is answered once, in the order of the requests, whichever
\* handler calls OnMessage; nothing is answered after the response that closes,
\* and only what follows that one goes without an answer.
Answered(n) == \E i \in 1 .. Len(answers) : answers[i] = n
DroppedBehind(n) ==
  \E i \in 1 .. Len(answers) : answers[i] < n /\ stream[answers[i]] # "keep"
OneAnswerEach ==
  /\ \A i \in 1 .. Len(answers) :
       answers[i] \in 1 .. done /\ stream[answers[i]] \in Requests
  /\ \A i, j \in 1 .. Len(answers) :
       i < j => answers[i] < answers[j] /\ stream[answers[i]] = "keep"
  /\ \A n \in 1 .. done :
       stream[n] \in Requests => Answered(n) \/ DroppedBehind(n)

\* A complete request is never left in the input buffer of a connection that
\* reads on, where it would wait for the client to say something more: a pause
\* in a burst of requests ends with all of them taken up again.
NothingStranded ==
  Idle /\ conn.statu = "CONNECTED" /\ ~conn.paused => ~HasRequest

\* Answers pile up to the high mark and one response beyond, however many
\* requests a client sends without reading.
OutputBounded == conn.out < HighWater + MaxResponse

\* A request the client has completed is answered, or dropped behind one that
\* closes, while the connection lasts; pauses and incomplete reads only delay
\* it.
RequestsAnswered ==
  \A n \in 1 .. MaxUnits :
    Len(stream) >= n /\ stream[n] \in Requests /\ conn.statu = "CONNECTED"
      ~> done >= n \/ conn.statu # "CONNECTED"
=============================================================================

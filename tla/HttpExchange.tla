---------------------------- MODULE HttpExchange ----------------------------
(***************************************************************************)
(* One HTTP connection as its client sees it: the requests it sends ahead, *)
(* what HttpContext reads out of each, what Route makes of that, and the   *)
(* answers SendResponse puts on the wire.  HttpServer.tla has the same     *)
(* loop against Connection's buffers; here the requests and the answers    *)
(* have contents, and the network neither loses nor cuts anything.         *)
(***************************************************************************)
EXTENDS HttpMessage

CONSTANTS
  Requests,    \* what a client may send; "meant" is what it means by it
  MaxRequests  \* bound: requests of one connection

VARIABLES
  pending,  \* the requests sent that OnMessage has not answered
  recv,     \* _recv_statu of the HttpContext: "line", "over" or "error"
  context,  \* its _request
  wire,     \* the answers sent and not read
  shut,     \* OnMessage has called Shutdown
  due,      \* client: the requests whose answers it has not read
  told,     \* client: an answer it has read closes the connection
  asked     \* bound: requests sent

vars == <<pending, recv, context, wire, shut, due, told, asked>>

NoQuery == <<0>>   \* the target has no '?'

ASSUME HttpExchangeAssumption ==
  /\ MaxRequests \in Nat
  /\ DOMAIN Routes = Methods \ {"HEAD"}
  /\ \A r \in Requests :
       /\ r.method \in Methods /\ r.fault \in {"none", "line", "head"}
       /\ r.version \in {"HTTP/1.0", "HTTP/1.1"}

Init ==
  /\ pending = <<>> /\ wire = <<>> /\ due = <<>>
  /\ recv = "line" /\ context = Fresh
  /\ shut = FALSE /\ told = FALSE /\ asked = 0

-----------------------------------------------------------------------------
(* HttpContext::ParseHttpLine and ParseHttpHead *)

BadTarget(target) ==
  \/ target = <<>> \/ target[1] # Slash
  \/ ToSet(target) \cap (0 .. Space \cup {Hash, 127}) # {}
  \/ BrokenEscape(target) \/ ~ValidPath(UrlDecode(target, FALSE))

\* Split before it is decoded, so that an escaped '&' or '=' stays one.
QueryParts(query) == IF query = NoQuery THEN <<>> ELSE Split(query, Ampersand)

\* Where the key of a parameter ends: before the first '='.
KeyEnd(part) == Min({i \in DOMAIN part : part[i] = Equal} \cup {Len(part) + 1}) - 1
Key(part) == SubSeq(part, 1, KeyEnd(part))
Value(part) == SubSeq(part, KeyEnd(part) + 2, Len(part))

\* SetParam for each part in turn.
SetParams(params, parts) ==
  FoldLeft(LAMBDA ps, part :
             (UrlDecode(Key(part), TRUE) :> UrlDecode(Value(part), TRUE)) @@ ps,
           params, parts)

BrokenParts(parts) ==
  {k \in DOMAIN parts : BrokenEscape(Key(parts[k])) \/ BrokenEscape(Value(parts[k]))}

WithMethod(c, r) == [c EXCEPT !.method = r.method]

\* The request line up to the first `count` parameters of the query.
WithLine(c, r, count) ==
  [WithMethod(c, r) EXCEPT
     !.path = UrlDecode(r.target, FALSE),
     !.version = r.version,
     !.params = SetParams(@, SubSeq(QueryParts(r.query), 1, count))]

\* Repeated headers are joined.
WithHead(c, r) ==
  [WithLine(c, r, Len(QueryParts(r.query))) EXCEPT !.tokens = @ \cup r.tokens]

\* What the request leaves in _recv_statu and _request, which was c.
Parsed(c, r) ==
  LET broken == BrokenParts(QueryParts(r.query))
  IN  CASE r.fault = "line" -> <<"error", c>>
        [] r.fault # "line" /\ (BadTarget(r.target) \/ Hash \in ToSet(r.query)) ->
             <<"error", WithMethod(c, r)>>
        [] OTHER ->
             IF broken # {} THEN <<"error", WithLine(c, r, Min(broken) - 1)>>
             ELSE <<IF r.fault = "head" THEN "error" ELSE "over", WithHead(c, r)>>

-----------------------------------------------------------------------------
(* Actions *)

Ask(r) ==
  /\ asked < MaxRequests
  /\ asked' = asked + 1
  /\ due' = Append(due, r)
  /\ pending' = IF shut THEN pending ELSE Append(pending, r)
  /\ UNCHANGED <<recv, context, wire, shut, told>>

Parse ==
  /\ ~shut /\ recv = "line" /\ pending # <<>>
  /\ recv' = Parsed(context, Head(pending))[1]
  /\ context' = Parsed(context, Head(pending))[2]
  /\ UNCHANGED <<pending, wire, shut, due, told, asked>>

\* Out goes an answer; Shutdown, or on to the next request.
Respond(response, closes) ==
  LET answer == SetHeader(response, "Connection", IF closes THEN {"close"} ELSE {"keep-alive"})
      ends == closes \/ ~IsValid(answer)
  IN  /\ wire' = Append(wire, SendResponse(answer, context.method = "HEAD"))
      /\ shut' = ends
      /\ pending' = IF ends THEN <<>> ELSE Tail(pending)
      /\ recv' = IF ends THEN recv ELSE "line"
      /\ context' = IF ends THEN context ELSE Clear(context)
      /\ UNCHANGED <<due, told, asked>>

Answer ==
  /\ ~shut /\ recv = "over"
  /\ \E response \in Route(context) :
       Respond(response, RequestCloses(context) \/ ResponseCloses(response))

\* A request that cannot be read.
Refuse ==
  /\ ~shut /\ recv = "error"
  /\ Respond(DefaultContent([NewResponse EXCEPT !.statu = 400]), TRUE)

ReadAnswer ==
  /\ wire # <<>>
  /\ told' = (told \/ Head(wire).close)
  /\ wire' = Tail(wire)
  /\ due' = Tail(due)
  /\ UNCHANGED <<pending, recv, context, shut, asked>>

Next ==
  \/ \E r \in Requests : Ask(r)
  \/ Parse \/ Answer \/ Refuse \/ ReadAnswer

Spec == Init /\ [][Next]_vars

-----------------------------------------------------------------------------
(* Properties *)

\* Whether the client wants the connection to end with this request.
WishesClose(r) ==
  \/ "close" \in r.tokens
  \/ r.version = "HTTP/1.0" /\ "keep-alive" \notin r.tokens

\* The body bytes a client reads after the head of an answer to r.
Expected(r, answer) ==
  IF r.method = "HEAD" \/ answer.statu < 200 \/ answer.statu \in {204, 304}
  THEN 0 ELSE answer.length

\* A pipelining client never takes body bytes for the head of the next answer
\* or waits for bytes that do not come: each answer on the wire has the length
\* its own request, at the same place in the client's queue, makes the client
\* expect.  Only what ends the connection may be longer.  It depends on Clear
\* between two requests and on SendResponse counting the length anew.
ClientStaysInStep ==
  /\ Len(wire) <= Len(due)
  /\ \A i \in DOMAIN wire :
       \/ wire[i].bytes = Expected(due[i], wire[i])
       \/ wire[i].close /\ wire[i].bytes > Expected(due[i], wire[i])

Says(i) == wire[i].close

\* One answer ends the connection for both: the server has shut it exactly when
\* an answer said close, and no other follows that one.
EndsTogether ==
  /\ shut <=> told \/ \E i \in DOMAIN wire : Says(i)
  /\ told => wire = <<>>
  /\ \A i \in DOMAIN wire : Says(i) => i = Len(wire)

\* A request that asks for the end gets it.
WishesGranted == \A i \in DOMAIN wire : WishesClose(due[i]) => Says(i)

\* Without a wish, a fault or a handler's close no answer ends a connection
\* that was to be kept.
EndsForReason ==
  \A i \in DOMAIN wire :
    Says(i) => \/ WishesClose(due[i]) \/ due[i].meant.path = <<>>
               \/ due[i].meant.path \in RouteOf(due[i].method)

\* Both ends agree on which answer is the last, and why.
CloseAgreed == EndsTogether /\ WishesGranted /\ EndsForReason

\* A parser in this state has understood what was meant.
Understood(statu, request, meant) ==
  /\ statu = "over" <=> meant.path # <<>>
  /\ statu = "over" =>
       /\ request.path = meant.path /\ request.params = meant.params
       /\ ServesFiles(request) =>
            ((\E response \in FileHandler(request) : response.statu = 200)
               <=> FileOf(request.path) = meant.file)

\* What a handler sees is what the client meant, however it spelled it:
\* path and parameters, and the file the path leads to, never one outside
\* the root.  What means nothing is refused.
HandledAsMeant ==
  recv # "line" /\ ~shut => Understood(recv, context, Head(pending).meant)
=============================================================================

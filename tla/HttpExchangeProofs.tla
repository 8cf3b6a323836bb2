------------------------ MODULE HttpExchangeProofs ------------------------
(***************************************************************************)
(* Proofs about HttpExchange for any requests, files and routes: a client  *)
(* that sends requests ahead can tell the answers apart, both ends know    *)
(* which answer is the last, and a path is read as it was meant, however   *)
(* it is spelled.                                                          *)
(***************************************************************************)
EXTENDS HttpExchange, FiniteSetTheorems, SequenceTheorems, NaturalsInduction, TLAPS

(***************************************************************************)
(* The inductive invariant                                                 *)
(***************************************************************************)

Answers == [statu : Nat, close : BOOLEAN, length : Nat, bytes : Nat]

Typed ==
  /\ pending \in Seq(Requests) /\ due \in Seq(Requests) /\ wire \in Seq(Answers)
  /\ recv \in {"line", "over", "error"}
  /\ DOMAIN context = DOMAIN Fresh
  /\ shut \in BOOLEAN /\ told \in BOOLEAN

\* The requests not answered are those the client counts behind the answers it
\* has not read.
InStep ==
  /\ Len(wire) <= Len(due)
  /\ ~shut => /\ Len(wire) + Len(pending) = Len(due)
              /\ \A i \in 1 .. Len(pending) : pending[i] = due[Len(wire) + i]

\* What the context knows is of the first of them; of one that could not be
\* read perhaps not even the method.
ContextFits ==
  ~shut =>
    /\ recv = "line" => context = Fresh
    /\ recv # "line" => pending # <<>>
    /\ recv = "error" => context.method \in {NoMethod, Head(pending).method}
    /\ recv = "over" => /\ context.method = Head(pending).method
                        /\ context.version = Head(pending).version
                        /\ context.tokens = Head(pending).tokens

Inv ==
  /\ Typed
  /\ InStep
  /\ ContextFits
  /\ ClientStaysInStep
  /\ EndsTogether
  /\ WishesGranted

-----------------------------------------------------------------------------
(* Responses *)

IsResponse(r) ==
  /\ r = [statu |-> r.statu, body |-> r.body, headers |-> r.headers]
  /\ r.statu \in Nat /\ r.body \in Nat

\* A header set is there, and the others are as they were.
LEMMA HeaderIsSet ==
  ASSUME NEW r, IsResponse(r), NEW key, NEW val
  PROVE  LET s == SetHeader(r, key, val)
         IN  /\ IsResponse(s) /\ s.statu = r.statu /\ s.body = r.body
             /\ DOMAIN s.headers = DOMAIN r.headers \cup {key}
             /\ s.headers[key] = val
             /\ \A k \in DOMAIN r.headers : k # key => s.headers[k] = r.headers[k]
  BY DEF SetHeader, IsResponse

LEMMA ContentIsSet ==
  ASSUME NEW r, IsResponse(r), NEW size \in Nat
  PROVE  LET s == SetContent(r, size)
         IN  /\ IsResponse(s) /\ s.statu = r.statu
             /\ DOMAIN s.headers = DOMAIN r.headers \cup {"Content-Type", "Content-Length"}
             /\ \A k \in DOMAIN r.headers \ {"Content-Type", "Content-Length"} :
                  s.headers[k] = r.headers[k]
<1> DEFINE typed == SetHeader(r, "Content-Type", "text")
           sized == SetHeader(typed, "Content-Length", size)
<1>1. IsResponse(typed) /\ IsResponse(sized)
  BY HeaderIsSet
<1>2. SetContent(r, size) = [sized EXCEPT !.body = size]
  BY DEF SetContent
<1>3. /\ sized.statu = r.statu
      /\ DOMAIN sized.headers = DOMAIN r.headers \cup {"Content-Type", "Content-Length"}
      /\ \A k \in DOMAIN r.headers \ {"Content-Type", "Content-Length"} :
           sized.headers[k] = r.headers[k]
  BY <1>1, HeaderIsSet
<1> HIDE DEF sized
<1> QED
  BY <1>1, <1>2, <1>3 DEF IsResponse

\* The headers decide whether the client is told of the end.
LEMMA ClosingIsSet ==
  ASSUME NEW r, IsResponse(r), NEW closes \in BOOLEAN
  PROVE  LET s == SetHeader(r, "Connection", IF closes THEN {"close"} ELSE {"keep-alive"})
         IN  /\ IsResponse(s)
             /\ ResponseCloses(s) <=> closes
             /\ IsValid(s) <=> IsValid(r)
<1> DEFINE tokens == IF closes THEN {"close"} ELSE {"keep-alive"}
           s == SetHeader(r, "Connection", tokens)
<1>1. /\ IsResponse(s) /\ DOMAIN s.headers = DOMAIN r.headers \cup {"Connection"}
      /\ s.headers["Connection"] = tokens
  BY HeaderIsSet
<1>2. "close" \in tokens <=> closes
  OBVIOUS
<1> HIDE DEF s, tokens
<1>3. ResponseCloses(s) <=> closes
  BY <1>1, <1>2 DEF ResponseCloses
<1>4. IsValid(s) <=> IsValid(r)
  BY <1>1 DEF IsValid
<1> QED
  BY <1>1, <1>3, <1>4 DEF s, tokens

\* What goes out says close when it has to, and is as long as the client
\* expects when both speak of the same method.
LEMMA SentMeans ==
  ASSUME NEW s, IsResponse(s), NEW head \in BOOLEAN, NEW r,
         head => r.method = "HEAD"
  PROVE  LET answer == SendResponse(s, head)
         IN  /\ answer \in Answers
             /\ answer.close <=> ResponseCloses(s) \/ ~IsValid(s)
             /\ answer.bytes = Expected(r, answer) \/ answer.bytes > Expected(r, answer)
             /\ (r.method = "HEAD" => head) => answer.bytes = Expected(r, answer)
<1>1. s.statu \in Nat /\ s.body \in Nat /\ ResponseCloses(s) \in BOOLEAN
  BY DEF IsResponse, ResponseCloses
<1>2. CASE IsValid(s)
  <2>1. SendResponse(s, head) = Sent(s, head)
    BY <1>2 DEF SendResponse
  <2> QED
    BY <1>1, <1>2, <2>1 DEF Sent, HasNoBody, Answers, Expected
<1>3. CASE ~IsValid(s)
  <2>1. SendResponse(s, head) = ErrorSent(head)
    BY <1>3 DEF SendResponse
  <2> QED
    BY <1>1, <1>3, <2>1 DEF ErrorSent, Answers, Expected
<1> QED
  BY <1>2, <1>3

LEMMA NewIsResponse ==
  IsResponse(NewResponse) /\ DOMAIN NewResponse.headers = {}
<1>1. NewResponse = [statu |-> 200, body |-> 0, headers |-> <<>>]
  BY DEF NewResponse
<1>2. DOMAIN <<>> = {}
  OBVIOUS
<1> QED
  BY <1>1, <1>2 DEF IsResponse

LEMMA StatuIsSet ==
  ASSUME NEW r, IsResponse(r), NEW n \in Nat
  PROVE  LET s == [r EXCEPT !.statu = n]
         IN  IsResponse(s) /\ s.statu = n /\ s.headers = r.headers
  BY DEF IsResponse

\* A response that says nothing of the connection and can be sent.
Plainly(r) ==
  IsResponse(r) /\ DOMAIN r.headers \cap {"Connection", "Broken"} = {}

LEMMA PlainlySent ==
  ASSUME NEW r, Plainly(r)
  PROVE  /\ ~ResponseCloses(r) /\ IsValid(r)
         /\ \A size \in Nat : Plainly(SetContent(r, size))
<1>1. ~ResponseCloses(r) /\ IsValid(r)
  BY DEF Plainly, ResponseCloses, IsValid
<1>2. ASSUME NEW size \in Nat
      PROVE  Plainly(SetContent(r, size))
  BY ContentIsSet DEF Plainly
<1> QED
  BY <1>1, <1>2

LEMMA FilesArePlain ==
  ASSUME NEW request, NEW r \in FileHandler(request)
  PROVE  Plainly(r)
<1>1. Plainly(NewResponse)
  BY NewIsResponse DEF Plainly
<1>2. \A n \in Nat : Plainly([NewResponse EXCEPT !.statu = n])
  BY NewIsResponse, StatuIsSet DEF Plainly
<1>3. Plainly(SetContent(NewResponse, 2))
  BY <1>1, PlainlySent
<1> QED
  BY <1>2, <1>3 DEF FileHandler

LEMMA HandledAreResponses ==
  ASSUME NEW r \in Handled
  PROVE  IsResponse(r)
<1> DEFINE bodies == {NewResponse, SetContent(NewResponse, 2)}
           WithStatu(b, n) == [b EXCEPT !.statu = n]
           results == bodies \cup {WithStatu(b, n) : b \in bodies, n \in {101, 204, 304, 404}}
                        \cup {SetRedirect(b, 302) : b \in bodies}
<1>1. \E b \in results, h \in HandlerHeaders : r = [b EXCEPT !.headers = h @@ @]
  BY DEF Handled
<1>2. \A b : IsResponse(b) => \A n \in Nat : IsResponse(WithStatu(b, n))
  BY StatuIsSet
<1>3. \A b : IsResponse(b) => IsResponse(SetRedirect(b, 302))
  BY StatuIsSet, HeaderIsSet DEF SetRedirect
<1>4. \A b \in bodies : IsResponse(b)
  BY NewIsResponse, ContentIsSet
<1>5. \A b \in results : IsResponse(b)
  <2> HIDE DEF bodies, WithStatu
  <2> QED
    BY <1>2, <1>3, <1>4
<1> HIDE DEF results
<1> QED
  BY <1>1, <1>5 DEF IsResponse

\* Only a user's handler ends a connection, or breaks a header.
LEMMA RouteAnswers ==
  ASSUME NEW request, NEW r \in Route(request)
  PROVE  /\ IsResponse(r)
         /\ ResponseCloses(r) \/ ~IsValid(r) => request.path \in RouteOf(request.method)
<1> DEFINE Answered(s) ==
             /\ IsResponse(s)
             /\ ResponseCloses(s) \/ ~IsValid(s) => request.path \in RouteOf(request.method)
           results == IF FileHandler(request) # {} THEN FileHandler(request)
                                                   ELSE Dispatcher(request)
<1>1. \A s : Plainly(s) => Answered(s)
  BY PlainlySent DEF Plainly
<1>2. \A s \in results : Answered(s)
  <2>1. \A s \in FileHandler(request) : Answered(s)
    BY <1>1, FilesArePlain
  <2>2. CASE request.path \in RouteOf(request.method)
    <3>1. \A s \in Dispatcher(request) : Answered(s)
      BY <2>2, HandledAreResponses DEF Dispatcher
    <3> HIDE DEF Answered
    <3> QED
      BY <2>1, <3>1
  <2>3. CASE request.path \notin RouteOf(request.method)
    <3>1. Dispatcher(request) = {[NewResponse EXCEPT !.statu = 404]}
      BY <2>3 DEF Dispatcher
    <3>2. Plainly([NewResponse EXCEPT !.statu = 404])
      BY NewIsResponse, StatuIsSet DEF Plainly
    <3> HIDE DEF Answered
    <3> QED
      BY <1>1, <2>1, <3>1, <3>2
  <2> QED
    BY <2>2, <2>3
<1>3. \A s \in results : Answered(DefaultContent(s))
  <2>1. ASSUME NEW s \in results
        PROVE  Answered(DefaultContent(s))
    <3> DEFINE t == SetContent(s, 1)
    <3>1. IsResponse(s)
      BY <1>2
    <3>2. /\ IsResponse(t)
          /\ DOMAIN t.headers = DOMAIN s.headers \cup {"Content-Type", "Content-Length"}
          /\ \A k \in DOMAIN s.headers \ {"Content-Type", "Content-Length"} :
               t.headers[k] = s.headers[k]
      BY <3>1, ContentIsSet
    <3> HIDE DEF t
    <3>3. IsValid(t) <=> IsValid(s)
      BY <3>2 DEF IsValid
    <3>4. ResponseCloses(t) => ResponseCloses(s)
      BY <3>2 DEF ResponseCloses
    <3>5. DefaultContent(s) = t
      BY DEF DefaultContent, t
    <3> QED
      BY <1>2, <3>2, <3>3, <3>4, <3>5
  <2> QED
    BY <2>1
<1> HIDE DEF Answered
<1>4. \E s \in results : r = IF s.statu >= 400 /\ s.body = 0 THEN DefaultContent(s) ELSE s
  BY DEF Route
<1>5. Answered(r)
  BY <1>2, <1>3, <1>4
<1> QED
  BY <1>5 DEF Answered

-----------------------------------------------------------------------------
(* The steps *)

\* The properties speak of the places 1 .. Len(wire).
LEMMA Places ==
  ASSUME Typed
  PROVE  /\ DOMAIN wire = 1 .. Len(wire) /\ Len(wire) \in Nat
         /\ DOMAIN due = 1 .. Len(due) /\ Len(due) \in Nat
         /\ DOMAIN pending = 1 .. Len(pending) /\ Len(pending) \in Nat
  BY LenProperties DEF Typed

LEMMA Initially == Init => Inv
<1> SUFFICES ASSUME Init
             PROVE  Inv
  OBVIOUS
<1>1. /\ pending = <<>> /\ wire = <<>> /\ due = <<>> /\ recv = "line" /\ context = Fresh
      /\ shut = FALSE /\ told = FALSE
  BY DEF Init
<1>2. Typed
  BY <1>1, EmptySeq DEF Typed
<1>3. Len(pending) = 0 /\ Len(wire) = 0 /\ Len(due) = 0 /\ DOMAIN wire = {}
  BY <1>1, EmptySeq
<1>4. InStep
  BY <1>1, <1>3 DEF InStep
<1>5. ContextFits
  BY <1>1 DEF ContextFits
<1>6. ClientStaysInStep /\ EndsTogether /\ WishesGranted
  BY <1>1, <1>3 DEF ClientStaysInStep, EndsTogether, WishesGranted
<1> QED
  BY <1>2, <1>4, <1>5, <1>6 DEF Inv

\* What a client asks for is behind everything else.
LEMMA AskKeeps ==
  ASSUME Inv, NEW r \in Requests, Ask(r)
  PROVE  Inv' /\ \A i \in DOMAIN wire : due'[i] = due[i]
<1> DEFINE w == Len(wire)
           d == Len(due)
           p == Len(pending)
<1>1. /\ due' = Append(due, r) /\ pending' = IF shut THEN pending ELSE Append(pending, r)
      /\ UNCHANGED <<recv, context, wire, shut, told>>
  BY DEF Ask
<1>2. /\ pending \in Seq(Requests) /\ due \in Seq(Requests) /\ wire \in Seq(Answers)
      /\ w \in Nat /\ d \in Nat /\ p \in Nat /\ w <= d /\ DOMAIN wire = 1 .. w
      /\ ~shut => w + p = d /\ \A i \in 1 .. p : pending[i] = due[w + i]
      /\ shut \in BOOLEAN
  BY Places DEF Inv, Typed, InStep
<1>3. /\ due' \in Seq(Requests) /\ Len(due') = d + 1 /\ due'[d + 1] = r
      /\ \A i \in 1 .. d : due'[i] = due[i]
  BY <1>1, <1>2, AppendProperties
<1>4. ~shut => /\ pending' \in Seq(Requests) /\ Len(pending') = p + 1 /\ pending'[p + 1] = r
               /\ pending' # <<>> /\ \A i \in 1 .. p : pending'[i] = pending[i]
  BY <1>1, <1>2, AppendProperties
<1>5. ~shut /\ pending # <<>> => Head(pending') = Head(pending)
  <2>1. ~shut => pending' = Append(pending, r)
    BY <1>1
  <2> QED
    BY <1>2, <2>1
<1> HIDE DEF w, d, p
<1>6. \A i \in 1 .. w : due'[i] = due[i]
  BY <1>2, <1>3
<1>7. Typed'
  BY <1>1, <1>2, <1>3, <1>4 DEF Inv, Typed
<1>8. InStep'
  <2>1. Len(wire') = w /\ w <= Len(due')
    BY <1>1, <1>2, <1>3 DEF w
  <2>2. ASSUME ~shut
        PROVE  /\ w + Len(pending') = Len(due')
               /\ \A i \in 1 .. Len(pending') : pending'[i] = due'[w + i]
    <3> DEFINE q == Len(pending')
               e == Len(due')
    <3>0. w + p = d /\ q = p + 1 /\ e = d + 1
      BY <1>2, <1>3, <1>4, <2>2
    <3> HIDE DEF q, e
    <3>1. w + q = e
      BY <1>2, <3>0
    <3>2. ASSUME NEW i \in 1 .. p + 1
          PROVE  pending'[i] = due'[w + i]
      <4>1. CASE i = p + 1
        <5>1. w + i = d + 1
          BY <1>2, <3>0, <4>1
        <5> QED
          BY <1>3, <1>4, <2>2, <4>1, <5>1
      <4>2. CASE i # p + 1
        <5>1. i \in 1 .. p /\ w + i \in 1 .. d
          BY <1>2, <2>2, <4>2
        <5> QED
          BY <1>2, <1>3, <1>4, <2>2, <5>1
      <4> QED
        BY <4>1, <4>2
    <3> QED
      BY <3>0, <3>1, <3>2 DEF q, e
  <2> QED
    BY <1>1, <2>1, <2>2 DEF InStep
<1>9. ContextFits'
  BY <1>1, <1>4, <1>5 DEF Inv, ContextFits
<1>10. ClientStaysInStep' /\ EndsTogether' /\ WishesGranted'
  <2>1. Len(wire') <= Len(due')
    BY <1>8 DEF InStep
  <2> QED
    BY <1>1, <1>2, <1>6, <2>1
    DEF Inv, ClientStaysInStep, EndsTogether, WishesGranted, Says
<1> QED
  BY <1>1, <1>2, <1>6, <1>7, <1>8, <1>9, <1>10 DEF Inv

\* The client reads the answer to the first request it waits for.
LEMMA ReadAnswerKeeps ==
  ASSUME Inv, ReadAnswer
  PROVE  /\ Inv'
         /\ \A i \in DOMAIN wire' : /\ i + 1 \in DOMAIN wire
                                    /\ wire'[i] = wire[i + 1] /\ due'[i] = due[i + 1]
<1> DEFINE w == Len(wire)
           d == Len(due)
           p == Len(pending)
<1>1. /\ wire # <<>> /\ told' = (told \/ Head(wire).close) /\ wire' = Tail(wire)
      /\ due' = Tail(due) /\ UNCHANGED <<pending, recv, context, shut>>
  BY DEF ReadAnswer
<1>2. /\ pending \in Seq(Requests) /\ due \in Seq(Requests) /\ wire \in Seq(Answers)
      /\ w \in Nat /\ d \in Nat /\ p \in Nat /\ w <= d /\ DOMAIN wire = 1 .. w
      /\ ~shut => w + p = d /\ \A i \in 1 .. p : pending[i] = due[w + i]
  BY Places DEF Inv, Typed, InStep
<1>3. w # 0 /\ d # 0 /\ due # <<>>
  BY <1>1, <1>2, EmptySeq
<1>4. /\ wire' \in Seq(Answers) /\ Len(wire') = w - 1
      /\ \A i \in 1 .. Len(wire') : wire'[i] = wire[i + 1]
      /\ due' \in Seq(Requests) /\ Len(due') = d - 1
      /\ \A i \in 1 .. Len(due') : due'[i] = due[i + 1]
      /\ Head(wire) = wire[1] /\ wire[1] \in Answers
  <2>1. Head(wire) \in Answers /\ Head(wire) = wire[1]
    BY <1>1, <1>2, HeadTailProperties
  <2> QED
    BY <1>1, <1>2, <1>3, <2>1, HeadTailProperties
<1> DEFINE v == Len(wire')
           e == Len(due')
<1>5. DOMAIN wire' = 1 .. v
  BY <1>4, LenProperties
<1> HIDE DEF w, d, p, v, e
<1>6. \A i \in 1 .. v : /\ i + 1 \in 1 .. w /\ wire'[i] = wire[i + 1] /\ due'[i] = due[i + 1]
  <2>1. v = w - 1 /\ e = d - 1 /\ w <= d /\ w \in Nat /\ d \in Nat
    BY <1>2, <1>4 DEF v, e
  <2> SUFFICES ASSUME NEW i \in 1 .. v
               PROVE  /\ i + 1 \in 1 .. w /\ wire'[i] = wire[i + 1] /\ due'[i] = due[i + 1]
    OBVIOUS
  <2>2. i + 1 \in 1 .. w /\ i \in 1 .. e
    BY <2>1
  <2> QED
    BY <1>4, <2>2 DEF v, e
<1>7. Typed'
  <2>1. told' \in BOOLEAN
    BY <1>1, <1>4 DEF Inv, Typed, Answers
  <2> QED
    BY <1>1, <1>4, <2>1 DEF Inv, Typed
<1>8. InStep'
  <2>1. v <= e
    BY <1>2, <1>3, <1>4 DEF v, e
  <2>2. ASSUME ~shut
        PROVE  /\ v + p = e
               /\ \A i \in 1 .. p : pending[i] = due'[v + i]
    <3>1. v + p = e
      BY <1>2, <1>3, <1>4, <2>2 DEF v, e
    <3>2. ASSUME NEW i \in 1 .. p
          PROVE  pending[i] = due'[v + i]
      <4>1. v + i \in 1 .. e /\ v + i + 1 = w + i
        BY <1>2, <1>3, <1>4, <3>1 DEF v
      <4> QED
        BY <1>2, <1>4, <2>2, <4>1 DEF e
    <3> QED
      BY <3>1, <3>2
  <2> QED
    BY <1>1, <2>1, <2>2 DEF InStep, v, e, p
<1>9. ContextFits'
  BY <1>1 DEF Inv, ContextFits
<1>10. ClientStaysInStep'
  <2>1. ASSUME NEW i \in DOMAIN wire'
        PROVE  \/ wire'[i].bytes = Expected(due'[i], wire'[i])
               \/ wire'[i].close /\ wire'[i].bytes > Expected(due'[i], wire'[i])
    <3>1. /\ i + 1 \in DOMAIN wire /\ wire'[i] = wire[i + 1] /\ due'[i] = due[i + 1]
      BY <1>2, <1>5, <1>6
    <3>2. \/ wire[i + 1].bytes = Expected(due[i + 1], wire[i + 1])
          \/ wire[i + 1].close /\ wire[i + 1].bytes > Expected(due[i + 1], wire[i + 1])
      BY <3>1 DEF Inv, ClientStaysInStep
    <3> QED
      BY <3>1, <3>2
  <2> QED
    BY <1>8, <2>1 DEF ClientStaysInStep, InStep
<1>11. WishesGranted'
  BY <1>2, <1>5, <1>6 DEF Inv, WishesGranted, Says
<1>12. EndsTogether'
  <2>1. \A i \in 1 .. w : wire[i].close => i = w
    BY <1>2 DEF Inv, EndsTogether, Says, w
  <2>2. v = w - 1
    BY <1>4 DEF v
  <2>3. \A i \in 1 .. v : wire'[i].close => i = v
    BY <1>2, <1>6, <2>1, <2>2
  <2>4. ~told
    BY <1>1 DEF Inv, EndsTogether
  <2>5. shut <=> \E i \in 1 .. w : wire[i].close
    BY <1>2, <2>4 DEF Inv, EndsTogether, Says
  <2>6. told' <=> wire[1].close
    BY <1>1, <1>4, <2>4
  <2>7. shut' <=> told' \/ \E i \in 1 .. v : wire'[i].close
    <3>1. ASSUME NEW i \in 1 .. w, wire[i].close
          PROVE  wire[1].close \/ \E j \in 1 .. v : wire'[j].close
      <4>1. CASE i = 1
        BY <3>1, <4>1
      <4>2. CASE i # 1
        <5>1. i - 1 \in 1 .. v /\ i - 1 + 1 = i
          BY <1>2, <2>2, <4>2
        <5> QED
          BY <1>6, <3>1, <5>1
      <4> QED
        BY <4>1, <4>2
    <3>2. wire[1].close => \E i \in 1 .. w : wire[i].close
      BY <1>2, <1>3
    <3>3. (\E i \in 1 .. v : wire'[i].close) => \E i \in 1 .. w : wire[i].close
      BY <1>6
    <3> QED
      BY <1>1, <2>5, <2>6, <3>1, <3>2, <3>3
  <2>8. told' => wire' = <<>>
    <3>1. told' => 1 = w
      BY <1>2, <1>3, <2>1, <2>6
    <3>2. told' => Len(wire') = 0
      BY <1>4, <3>1
    <3> QED
      BY <1>4, <3>2, EmptySeq
  <2> QED
    BY <1>5, <2>3, <2>7, <2>8 DEF EndsTogether, Says, v
<1> QED
  BY <1>2, <1>5, <1>6, <1>7, <1>8, <1>9, <1>10, <1>11, <1>12 DEF Inv

\* What a request leaves in a cleared context is its own.
LEMMA ParsedMeans ==
  ASSUME NEW r \in Requests
  PROVE  /\ Parsed(Fresh, r)[1] \in {"over", "error"}
         /\ DOMAIN Parsed(Fresh, r)[2] = DOMAIN Fresh
         /\ Parsed(Fresh, r)[2].method \in {NoMethod, r.method}
         /\ Parsed(Fresh, r)[1] = "over" => /\ Parsed(Fresh, r)[2].method = r.method
                                     /\ Parsed(Fresh, r)[2].version = r.version
                                     /\ Parsed(Fresh, r)[2].tokens = r.tokens
<1>1. /\ DOMAIN WithMethod(Fresh, r) = DOMAIN Fresh /\ WithMethod(Fresh, r).method = r.method
      /\ WithMethod(Fresh, r).tokens = {}
  BY DEF WithMethod, Fresh
<1>2. ASSUME NEW count
      PROVE  /\ DOMAIN WithLine(Fresh, r, count) = DOMAIN Fresh /\ WithLine(Fresh, r, count).method = r.method
             /\ WithLine(Fresh, r, count).version = r.version /\ WithLine(Fresh, r, count).tokens = {}
  BY <1>1 DEF WithLine, Fresh
<1>3. /\ DOMAIN WithHead(Fresh, r) = DOMAIN Fresh /\ WithHead(Fresh, r).method = r.method
      /\ WithHead(Fresh, r).version = r.version /\ WithHead(Fresh, r).tokens = r.tokens
  <2> DEFINE line == WithLine(Fresh, r, Len(QueryParts(r.query)))
  <2>1. /\ DOMAIN line = DOMAIN Fresh /\ line.method = r.method
        /\ line.version = r.version /\ line.tokens = {}
    BY <1>2
  <2>2. WithHead(Fresh, r) = [line EXCEPT !.tokens = @ \cup r.tokens]
    BY DEF WithHead
  <2> HIDE DEF line
  <2> QED
    BY <2>1, <2>2 DEF Fresh
<1>4. \/ Parsed(Fresh, r) = <<"error", Fresh>>
      \/ Parsed(Fresh, r) = <<"error", WithMethod(Fresh, r)>>
      \/ \E count : Parsed(Fresh, r) = <<"error", WithLine(Fresh, r, count)>>
      \/ Parsed(Fresh, r) \in {<<"over", WithHead(Fresh, r)>>, <<"error", WithHead(Fresh, r)>>}
  <2> DEFINE broken == BrokenParts(QueryParts(r.query))
             bad == r.fault # "line" /\ (BadTarget(r.target) \/ Hash \in ToSet(r.query))
  <2>1. CASE r.fault = "line"
    BY <2>1 DEF Parsed
  <2>2. CASE r.fault # "line" /\ bad
    <3>1. Parsed(Fresh, r) = <<"error", WithMethod(Fresh, r)>>
      BY <2>2 DEF Parsed
    <3> QED
      BY <3>1
  <2>3. CASE r.fault # "line" /\ ~bad
    <3>1. Parsed(Fresh, r) = IF broken # {} THEN <<"error", WithLine(Fresh, r, Min(broken) - 1)>>
                      ELSE <<IF r.fault = "head" THEN "error" ELSE "over", WithHead(Fresh, r)>>
      BY <2>3 DEF Parsed
    <3> HIDE DEF broken
    <3> QED
      BY <3>1
  <2> QED
    BY <2>1, <2>2, <2>3
<1>5. Fresh.method = NoMethod
  BY DEF Fresh
<1> QED
  BY <1>1, <1>2, <1>3, <1>4, <1>5

LEMMA ParseKeeps ==
  ASSUME Inv, Parse
  PROVE  Inv'
<1>1. /\ ~shut /\ recv = "line" /\ pending # <<>>
      /\ recv' = Parsed(context, Head(pending))[1]
      /\ context' = Parsed(context, Head(pending))[2]
      /\ UNCHANGED <<pending, wire, shut, due, told>>
  BY DEF Parse
<1>2. Head(pending) \in Requests
  BY <1>1, HeadTailProperties DEF Inv, Typed
<1>3. context = Fresh
  BY <1>1 DEF Inv, ContextFits
<1>4. /\ recv' \in {"over", "error"} /\ DOMAIN context' = DOMAIN Fresh
      /\ context'.method \in {NoMethod, Head(pending).method}
      /\ recv' = "over" => /\ context'.method = Head(pending).method
                           /\ context'.version = Head(pending).version
                           /\ context'.tokens = Head(pending).tokens
  BY <1>1, <1>2, <1>3, ParsedMeans
<1>5. Typed'
  BY <1>1, <1>4 DEF Inv, Typed
<1>6. ContextFits'
  BY <1>1, <1>4 DEF ContextFits
<1> QED
  BY <1>1, <1>5, <1>6
  DEF Inv, InStep, ClientStaysInStep, EndsTogether, WishesGranted, Says

\* The answer to the first request the client waits for goes behind those on
\* the wire: if it can be told apart, and says close when the client wished so,
\* everything else is as before.
LEMMA RespondKeeps ==
  ASSUME Inv, ~shut, recv # "line", NEW response, IsResponse(response),
         NEW closes \in BOOLEAN, WishesClose(Head(pending)) => closes,
         context.method = Head(pending).method \/ (closes /\ context.method = NoMethod),
         Respond(response, closes)
  PROVE  /\ Inv' /\ Len(wire') = Len(wire) + 1
         /\ due'[Len(wire')] = Head(pending)
         /\ wire'[Len(wire')].close => closes \/ ~IsValid(response)
         /\ \A i \in DOMAIN wire : wire'[i] = wire[i] /\ due'[i] = due[i]
<1> DEFINE w == Len(wire)
           d == Len(due)
           p == Len(pending)
           first == Head(pending)
           s == SetHeader(response, "Connection", IF closes THEN {"close"} ELSE {"keep-alive"})
           ends == closes \/ ~IsValid(s)
           head == context.method = "HEAD"
           answer == SendResponse(s, head)
<1>1. /\ wire' = Append(wire, answer) /\ shut' = ends
      /\ pending' = IF ends THEN <<>> ELSE Tail(pending)
      /\ recv' = IF ends THEN recv ELSE "line"
      /\ context' = IF ends THEN context ELSE Clear(context)
      /\ UNCHANGED <<due, told>>
  BY DEF Respond
<1>2. /\ pending \in Seq(Requests) /\ due \in Seq(Requests) /\ wire \in Seq(Answers)
      /\ w \in Nat /\ d \in Nat /\ p \in Nat /\ DOMAIN wire = 1 .. w
      /\ w + p = d /\ (\A i \in 1 .. p : pending[i] = due[w + i])
      /\ pending # <<>> /\ ~told
  BY Places DEF Inv, Typed, InStep, ContextFits, EndsTogether
<1>3. /\ p # 0 /\ first = pending[1] /\ first \in Requests
      /\ Tail(pending) \in Seq(Requests) /\ Len(Tail(pending)) = p - 1
      /\ \A i \in 1 .. Len(Tail(pending)) : Tail(pending)[i] = pending[i + 1]
  BY <1>2, HeadTailProperties, EmptySeq
<1>4. /\ IsResponse(s) /\ (ResponseCloses(s) <=> closes) /\ (IsValid(s) <=> IsValid(response))
  BY ClosingIsSet
<1> HIDE DEF s
<1>5. head => first.method = "HEAD"
  BY DEF NoMethod
<1>6. /\ answer \in Answers
      /\ answer.close <=> ends
      /\ answer.bytes = Expected(first, answer) \/ answer.bytes > Expected(first, answer)
      /\ ~closes => answer.bytes = Expected(first, answer)
  <2>1. head \in BOOLEAN
    OBVIOUS
  <2> HIDE DEF head
  <2>2. /\ answer \in Answers
        /\ answer.close <=> ResponseCloses(s) \/ ~IsValid(s)
        /\ answer.bytes = Expected(first, answer) \/ answer.bytes > Expected(first, answer)
        /\ (first.method = "HEAD" => head) => answer.bytes = Expected(first, answer)
    BY <1>4, <1>5, <2>1, SentMeans
  <2>3. ~closes => (first.method = "HEAD" => head)
    BY DEF head
  <2> QED
    BY <1>4, <2>2, <2>3
<1> HIDE DEF answer, head
<1>7. /\ wire' \in Seq(Answers) /\ Len(wire') = w + 1 /\ wire'[w + 1] = answer
      /\ (\A i \in 1 .. w : wire'[i] = wire[i]) /\ DOMAIN wire' = 1 .. w + 1
  <2>1. /\ wire' \in Seq(Answers) /\ Len(wire') = w + 1 /\ wire'[w + 1] = answer
        /\ \A i \in 1 .. w : wire'[i] = wire[i]
    BY <1>1, <1>2, <1>6, AppendProperties
  <2>2. DOMAIN wire' = 1 .. Len(wire')
    BY <2>1, LenProperties
  <2> QED
    BY <2>1, <2>2
<1> HIDE DEF w, d, p, first
<1>8. w + 1 <= d /\ due[w + 1] = first
  <2>1. 1 \in 1 .. p
    BY <1>2, <1>3
  <2> QED
    BY <1>2, <1>3, <2>1
<1>9. \A i \in 1 .. w : ~wire[i].close
  BY <1>2 DEF Inv, EndsTogether, Says
<1>10. ends \in BOOLEAN
  BY DEF IsValid
<1> HIDE DEF ends
<1>11. Typed'
  <2>1. pending' \in Seq(Requests)
    BY <1>1, <1>3, EmptySeq
  <2>2. DOMAIN context' = DOMAIN Fresh
    BY <1>1 DEF Inv, Typed, Clear
  <2>3. recv' \in {"line", "over", "error"}
    BY <1>1 DEF Inv, Typed
  <2> QED
    BY <1>1, <1>7, <1>10, <2>1, <2>2, <2>3 DEF Inv, Typed
<1>12. InStep'
  <2>1. ASSUME ~ends
        PROVE  /\ w + 1 + Len(pending') = d
               /\ \A i \in 1 .. Len(pending') : pending'[i] = due[w + 1 + i]
    <3> DEFINE q == Len(pending')
    <3>1. q = p - 1 /\ \A i \in 1 .. q : pending'[i] = pending[i + 1]
      BY <1>1, <1>3, <2>1
    <3> HIDE DEF q
    <3>2. w + 1 + q = d
      BY <1>2, <1>3, <3>1
    <3>3. ASSUME NEW i \in 1 .. q
          PROVE  pending'[i] = due[w + 1 + i]
      <4>1. i + 1 \in 1 .. p /\ w + (i + 1) = w + 1 + i
        BY <1>2, <3>1
      <4> QED
        BY <1>2, <3>1, <4>1
    <3> QED
      BY <3>2, <3>3 DEF q
  <2> QED
    BY <1>1, <1>7, <1>8, <2>1 DEF InStep, d
<1>13. ContextFits'
  BY <1>1 DEF ContextFits, Clear
<1>14. ClientStaysInStep'
  <2>1. ASSUME NEW i \in 1 .. w + 1
        PROVE  \/ wire'[i].bytes = Expected(due[i], wire'[i])
               \/ wire'[i].close /\ wire'[i].bytes > Expected(due[i], wire'[i])
    <3>1. CASE i = w + 1
      <4>1. wire'[i] = answer /\ due[i] = first
        BY <1>7, <1>8, <3>1
      <4>2. answer.bytes > Expected(first, answer) /\ closes => answer.close
        BY <1>6 DEF ends
      <4> QED
        BY <1>6, <4>1, <4>2
    <3>2. CASE i # w + 1
      <4>1. i \in 1 .. w
        BY <1>2, <3>2
      <4>2. wire'[i] = wire[i]
        BY <1>7, <4>1
      <4> QED
        BY <1>2, <4>1, <4>2 DEF Inv, ClientStaysInStep
    <3> QED
      BY <3>1, <3>2
  <2>2. Len(wire') <= Len(due')
    BY <1>12 DEF InStep
  <2> QED
    BY <1>1, <1>7, <2>1, <2>2 DEF ClientStaysInStep
<1>15. WishesGranted'
  <2>1. ASSUME NEW i \in 1 .. w + 1, WishesClose(due[i])
        PROVE  wire'[i].close
    <3>1. CASE i = w + 1
      <4>1. wire'[i] = answer /\ due[i] = first
        BY <1>7, <1>8, <3>1
      <4>2. ends
        BY <2>1, <4>1 DEF ends, first
      <4> QED
        BY <1>6, <4>1, <4>2
    <3>2. CASE i # w + 1
      <4>1. i \in 1 .. w
        BY <1>2, <3>2
      <4>2. wire'[i] = wire[i]
        BY <1>7, <4>1
      <4> QED
        BY <1>2, <2>1, <4>1, <4>2 DEF Inv, WishesGranted, Says
    <3> QED
      BY <3>1, <3>2
  <2> QED
    BY <1>1, <1>7, <2>1 DEF WishesGranted, Says
<1>16. EndsTogether'
  <2>1. wire'[w + 1].close <=> ends
    BY <1>6, <1>7
  <2>2. \A i \in 1 .. w : ~wire'[i].close
    BY <1>7, <1>9
  <2>3. w + 1 \in 1 .. w + 1 /\ \A i \in 1 .. w + 1 : i = w + 1 \/ i \in 1 .. w
    BY <1>2
  <2> QED
    BY <1>1, <1>2, <1>7, <2>1, <2>2, <2>3 DEF EndsTogether, Says
<1>17. /\ Len(wire') = Len(wire) + 1 /\ due'[Len(wire')] = Head(pending)
       /\ wire'[Len(wire')].close => closes \/ ~IsValid(response)
       /\ \A i \in DOMAIN wire : wire'[i] = wire[i] /\ due'[i] = due[i]
  <2>1. answer.close => closes \/ ~IsValid(response)
    BY <1>4, <1>6 DEF ends
  <2> QED
    BY <1>1, <1>2, <1>7, <1>8, <2>1 DEF w, first
<1> QED
  BY <1>11, <1>12, <1>13, <1>14, <1>15, <1>16, <1>17 DEF Inv

\* Why an answer may end the connection, for one place on the wire.
Reason(r) ==
  \/ WishesClose(r) \/ r.meant.path = <<>>
  \/ r.meant.path \in RouteOf(r.method)

\* The answer of a handler or a file; it ends the connection only for a reason
\* if the handler sees the path the client meant.
LEMMA AnswerKeeps ==
  ASSUME Inv, Answer
  PROVE  Inv' /\ (HandledAsMeant /\ EndsForReason => EndsForReason')
<1>1. ~shut /\ recv = "over"
  BY DEF Answer
<1>2. PICK response \in Route(context) :
        Respond(response, RequestCloses(context) \/ ResponseCloses(response))
  BY DEF Answer
<1> DEFINE closes == RequestCloses(context) \/ ResponseCloses(response)
           first == Head(pending)
<1>3. /\ IsResponse(response)
      /\ ResponseCloses(response) \/ ~IsValid(response)
           => context.path \in RouteOf(context.method)
  BY RouteAnswers
<1>4. /\ context.method = first.method /\ context.version = first.version
      /\ context.tokens = first.tokens /\ pending # <<>> /\ first \in Requests
  BY <1>1, HeadTailProperties DEF Inv, Typed, ContextFits
<1>5. closes \in BOOLEAN /\ (WishesClose(first) => closes)
  BY <1>4 DEF WishesClose, RequestCloses, ResponseCloses
<1>6. RequestCloses(context) => WishesClose(first)
  BY <1>4, HttpExchangeAssumption DEF WishesClose, RequestCloses
<1> HIDE DEF closes, first
<1>7. Respond(response, closes)
  BY <1>2 DEF closes
<1>8. /\ Inv' /\ Len(wire') = Len(wire) + 1 /\ due'[Len(wire')] = first
      /\ wire'[Len(wire')].close => closes \/ ~IsValid(response)
      /\ \A i \in DOMAIN wire : wire'[i] = wire[i] /\ due'[i] = due[i]
  BY <1>1, <1>3, <1>4, <1>5, <1>7, RespondKeeps DEF first
<1>9. ASSUME HandledAsMeant, EndsForReason
      PROVE  EndsForReason'
  <2>1. context.path = first.meant.path
    BY <1>1, <1>9 DEF HandledAsMeant, Understood, first
  <2>2. wire'[Len(wire')].close => Reason(first)
    BY <1>3, <1>4, <1>6, <1>8, <2>1 DEF Reason, closes
  <2>3. \A i \in DOMAIN wire : wire[i].close => Reason(due[i])
    BY <1>9 DEF EndsForReason, Says, Reason
  <2>4. \A i \in DOMAIN wire' : i \in DOMAIN wire \/ i = Len(wire')
    <3> DEFINE w == Len(wire)
               v == Len(wire')
    <3>1. DOMAIN wire = 1 .. w /\ w \in Nat /\ DOMAIN wire' = 1 .. v /\ v = w + 1
      BY <1>8, Places, LenProperties DEF Inv, Typed
    <3> HIDE DEF w, v
    <3> QED
      BY <3>1 DEF v
  <2>5. \A i \in DOMAIN wire' : wire'[i].close => Reason(due'[i])
    BY <1>8, <2>2, <2>3, <2>4
  <2> QED
    BY <2>5 DEF EndsForReason, Says, Reason
<1> QED
  BY <1>8, <1>9

\* A request that cannot be read has no meaning, and its answer is the last.
LEMMA RefuseKeeps ==
  ASSUME Inv, Refuse
  PROVE  Inv' /\ (HandledAsMeant /\ EndsForReason => EndsForReason')
<1> DEFINE response == DefaultContent([NewResponse EXCEPT !.statu = 400])
           first == Head(pending)
<1>1. ~shut /\ recv = "error" /\ Respond(response, TRUE)
  BY DEF Refuse
<1>2. IsResponse(response)
  BY NewIsResponse, StatuIsSet, ContentIsSet DEF DefaultContent
<1> HIDE DEF response
<1>3. context.method \in {NoMethod, first.method}
  BY <1>1 DEF Inv, ContextFits
<1>4. /\ Inv' /\ Len(wire') = Len(wire) + 1 /\ due'[Len(wire')] = first
      /\ \A i \in DOMAIN wire : wire'[i] = wire[i] /\ due'[i] = due[i]
  BY <1>1, <1>2, <1>3, RespondKeeps
<1> HIDE DEF first
<1>5. ASSUME HandledAsMeant, EndsForReason
      PROVE  EndsForReason'
  <2>1. Reason(first)
    BY <1>1, <1>5 DEF HandledAsMeant, Understood, Reason, first
  <2>2. \A i \in DOMAIN wire : wire[i].close => Reason(due[i])
    BY <1>5 DEF EndsForReason, Says, Reason
  <2>3. \A i \in DOMAIN wire' : i \in DOMAIN wire \/ i = Len(wire')
    <3> DEFINE w == Len(wire)
               v == Len(wire')
    <3>1. DOMAIN wire = 1 .. w /\ w \in Nat /\ DOMAIN wire' = 1 .. v /\ v = w + 1
      BY <1>4, Places, LenProperties DEF Inv, Typed
    <3> HIDE DEF w, v
    <3> QED
      BY <3>1 DEF v
  <2>4. \A i \in DOMAIN wire' : wire'[i].close => Reason(due'[i])
    BY <1>4, <2>1, <2>2, <2>3
  <2> QED
    BY <2>4 DEF EndsForReason, Says, Reason
<1> QED
  BY <1>4, <1>5

-----------------------------------------------------------------------------
(* What a request means *)

\* Every request a client may send is spelled so that a parser that knows
\* nothing yet understands it.
SpelledAsMeant ==
  \A r \in Requests :
    Understood(Parsed(Fresh, r)[1], Parsed(Fresh, r)[2], r.meant)

\* What the parser knows is what it would have read of the request alone.
ReadAlone ==
  recv # "line" /\ ~shut => <<recv, context>> = Parsed(Fresh, Head(pending))

LEMMA ParsedIsPair ==
  ASSUME NEW c, NEW r
  PROVE  Parsed(c, r) = <<Parsed(c, r)[1], Parsed(c, r)[2]>>
<1> DEFINE broken == BrokenParts(QueryParts(r.query))
<1>1. CASE r.fault = "line"
  BY <1>1 DEF Parsed
<1>2. CASE r.fault # "line" /\ (BadTarget(r.target) \/ Hash \in ToSet(r.query))
  <2>1. Parsed(c, r) = <<"error", WithMethod(c, r)>>
    BY <1>2 DEF Parsed
  <2> QED
    BY <2>1
<1>3. CASE r.fault # "line" /\ ~(BadTarget(r.target) \/ Hash \in ToSet(r.query))
  <2>1. Parsed(c, r) = IF broken # {} THEN <<"error", WithLine(c, r, Min(broken) - 1)>>
                       ELSE <<IF r.fault = "head" THEN "error" ELSE "over", WithHead(c, r)>>
    BY <1>3 DEF Parsed
  <2> HIDE DEF broken
  <2> QED
    BY <2>1
<1> QED
  BY <1>1, <1>2, <1>3

LEMMA ReadsAlone ==
  ASSUME Inv, ReadAlone, [Next]_vars
  PROVE  ReadAlone'
<1>1. ASSUME NEW r \in Requests, Ask(r)
      PROVE  ReadAlone'
  <2>1. /\ pending' = IF shut THEN pending ELSE Append(pending, r)
        /\ UNCHANGED <<recv, context, shut>>
    BY <1>1 DEF Ask
  <2>2. recv # "line" /\ ~shut => pending # <<>> /\ pending \in Seq(Requests)
    BY DEF Inv, Typed, ContextFits
  <2>3. recv # "line" /\ ~shut => Head(pending') = Head(pending)
    BY <2>1, <2>2
  <2> QED
    BY <2>1, <2>3 DEF ReadAlone
<1>2. ASSUME Parse
      PROVE  ReadAlone'
  <2>1. /\ recv' = Parsed(context, Head(pending))[1]
        /\ context' = Parsed(context, Head(pending))[2] /\ pending' = pending
    BY <1>2 DEF Parse
  <2>2. context = Fresh
    BY <1>2 DEF Parse, Inv, ContextFits
  <2> QED
    BY <2>1, <2>2, ParsedIsPair DEF ReadAlone
<1>3. ASSUME NEW response, NEW closes, Respond(response, closes)
      PROVE  ReadAlone'
  <2>1. shut' \/ recv' = "line"
    BY <1>3 DEF Respond
  <2> QED
    BY <2>1 DEF ReadAlone
<1>4. CASE ReadAnswer
  BY <1>4 DEF ReadAnswer, ReadAlone
<1>5. CASE UNCHANGED vars
  BY <1>5 DEF vars, ReadAlone
<1> QED
  BY <1>1, <1>2, <1>3, <1>4, <1>5 DEF Next, Answer, Refuse

LEMMA AloneIsMeant ==
  ASSUME SpelledAsMeant, Inv, ReadAlone
  PROVE  HandledAsMeant
<1> SUFFICES ASSUME recv # "line", ~shut
             PROVE  Understood(recv, context, Head(pending).meant)
  BY DEF HandledAsMeant
<1> DEFINE first == Head(pending)
<1>1. first \in Requests
  BY HeadTailProperties DEF Inv, Typed, ContextFits
<1>2. <<recv, context>> = Parsed(Fresh, first)
  BY DEF ReadAlone
<1> HIDE DEF first
<1>3. recv = Parsed(Fresh, first)[1] /\ context = Parsed(Fresh, first)[2]
  BY <1>2
<1> QED
  BY <1>1, <1>3 DEF SpelledAsMeant, first

LEMMA Inductively ==
  ASSUME Inv, [Next]_vars
  PROVE  Inv' /\ (HandledAsMeant /\ EndsForReason => EndsForReason')
<1>1. CASE \E r \in Requests : Ask(r)
  <2>1. PICK r \in Requests : Ask(r)
    BY <1>1
  <2>2. Inv' /\ \A i \in DOMAIN wire : due'[i] = due[i]
    BY <2>1, AskKeeps
  <2>3. wire' = wire
    BY <2>1 DEF Ask
  <2> QED
    BY <2>2, <2>3 DEF EndsForReason, Says
<1>2. CASE Parse
  <2>1. UNCHANGED <<wire, due>>
    BY <1>2 DEF Parse
  <2> QED
    BY <1>2, <2>1, ParseKeeps DEF EndsForReason, Says
<1>3. CASE ReadAnswer
  <2>1. /\ Inv'
        /\ \A i \in DOMAIN wire' : /\ i + 1 \in DOMAIN wire
                                   /\ wire'[i] = wire[i + 1] /\ due'[i] = due[i + 1]
    BY <1>3, ReadAnswerKeeps
  <2>2. EndsForReason => \A i \in DOMAIN wire : wire[i].close => Reason(due[i])
    BY DEF EndsForReason, Says, Reason
  <2>3. EndsForReason => \A i \in DOMAIN wire' : wire'[i].close => Reason(due'[i])
    BY <2>1, <2>2
  <2> QED
    BY <2>1, <2>3 DEF EndsForReason, Says, Reason
<1>4. CASE UNCHANGED vars
  BY <1>4 DEF Inv, Typed, InStep, ContextFits, ClientStaysInStep, EndsTogether,
              WishesGranted, EndsForReason, Says, vars
<1> QED
  BY <1>1, <1>2, <1>3, <1>4, AnswerKeeps, RefuseKeeps DEF Next

-----------------------------------------------------------------------------
(* How a text may be spelled in a URL *)

\* One byte of a text as a client may spell it.
IsCode(code, byte, convert_plus) ==
  \/ code = <<byte>> /\ byte # Percent /\ (byte = Plus => ~convert_plus)
  \/ code = <<Plus>> /\ byte = Space /\ convert_plus
  \/ \E high, low \in HexDigits :
       code = <<Percent, high, low>> /\ byte = 16 * HexValue(high) + HexValue(low)

\* The byte that begins at place i of url.
ByteAt(url, i, convert_plus) ==
  CASE url[i] = Percent -> 16 * HexValue(url[i + 1]) + HexValue(url[i + 2])
    [] url[i] = Plus /\ convert_plus -> Space
    [] OTHER -> url[i]

InPlace(S) == \A k \in 1 .. Cardinality(S) : InSequence(S)[k] \in S

\* url is a spelling of text.
Reads(url, text, convert_plus) ==
  /\ url \in Seq(Nat) /\ text \in Seq(Nat)
  /\ ~BrokenEscape(url) /\ UrlDecode(url, convert_plus) = text
  /\ InPlace(ByteStarts(url))

\* The first of several numbers.
LEMMA Least ==
  ASSUME NEW T, T \subseteq Nat, T # {}
  PROVE  \E k \in T : \A j \in T : k <= j
<1>1. PICK k \in T : \A j \in T : ~(<<j, k>> \in OpToRel(<, Nat))
  BY NatLessThanWellFounded, WFMin
<1>2. \A j \in T : ~(j < k)
  BY <1>1 DEF OpToRel
<1> QED
  BY <1>2

\* What holds of 0, and of every next number, holds of all numbers.
LEMMA Induction ==
  ASSUME NEW T, 0 \in T, \A i \in Nat : i \in T => i + 1 \in T
  PROVE  Nat \subseteq T
<1> DEFINE others == Nat \ T
<1> SUFFICES ASSUME others # {}
             PROVE  FALSE
  OBVIOUS
<1>1. PICK k \in others : \A j \in others : k <= j
  BY Least
<1>2. k \in Nat /\ k # 0 /\ k \notin T
  BY <1>1
<1>3. k - 1 \in Nat /\ ~(k <= k - 1) /\ k - 1 + 1 = k
  BY <1>2
<1>4. k - 1 \in T
  BY <1>1, <1>3
<1> QED
  BY <1>2, <1>3, <1>4

LEMMA HexValues ==
  /\ \A h \in HexDigits : h \in Nat /\ HexValue(h) \in 0 .. 15
  /\ \A v \in 0 .. 15 : HexDigit(v) \in HexDigits /\ HexValue(HexDigit(v)) = v
<1>1. \A h \in HexDigits : h \in Nat /\ HexValue(h) \in 0 .. 15
  BY DEF HexDigits, HexValue, Digits, Upper, Lower
<1>2. ASSUME NEW v \in 0 .. 15
      PROVE  HexDigit(v) \in HexDigits /\ HexValue(HexDigit(v)) = v
  <2>1. CASE v < 10
    BY <2>1 DEF HexDigits, HexValue, HexDigit, Digits, Upper, Lower
  <2>2. CASE ~(v < 10)
    BY <2>2 DEF HexDigits, HexValue, HexDigit, Digits, Upper, Lower
  <2> QED
    BY <2>1, <2>2
<1> QED
  BY <1>1, <1>2

\* One place behind all others comes last.
LEMMA LastPlace ==
  ASSUME NEW S, S \subseteq Nat, IsFiniteSet(S), NEW m \in Nat, \A i \in S : i < m
  PROVE  LET c == Cardinality(S)
         IN  /\ c \in Nat /\ Cardinality(S \cup {m}) = c + 1
             /\ \A k \in 1 .. c : InSequence(S \cup {m})[k] = InSequence(S)[k]
             /\ InSequence(S \cup {m})[c + 1] = m
<1> DEFINE T == S \cup {m}
           c == Cardinality(S)
           Of(i) == Cardinality({j \in S : j < i})
           In(i) == Cardinality({j \in T : j < i})
<1>1. c \in Nat /\ Cardinality(T) = c + 1
  BY FS_AddElement, FS_CardinalityType
<1>2. \A i \in S : In(i) = Of(i)
  <2>1. \A i \in S : {j \in T : j < i} = {j \in S : j < i}
    OBVIOUS
  <2> QED
    BY <2>1
<1>3. In(m) = c
  <2>0. ~(m < m)
    OBVIOUS
  <2>1. {j \in T : j < m} = S
    BY <2>0
  <2> QED
    BY <2>1
<1>4. \A k \in 1 .. c : InSequence(S)[k] = CHOOSE i \in S : Of(i) = k - 1
  BY <1>1 DEF InSequence
<1>5. \A k \in 1 .. c + 1 : InSequence(T)[k] = CHOOSE i \in T : In(i) = k - 1
  BY <1>1 DEF InSequence
<1>6. \A i \in S : Of(i) \in Nat /\ Of(i) < c
  <2> SUFFICES ASSUME NEW i \in S
               PROVE  Of(i) \in Nat /\ Of(i) < c
    OBVIOUS
  <2>1. {j \in S : j < i} \subseteq S /\ {j \in S : j < i} # S
    OBVIOUS
  <2> QED
    BY <2>1, FS_Subset, FS_CardinalityType
<1> HIDE DEF In, Of, c
<1>7. ASSUME NEW k \in 1 .. c
      PROVE  InSequence(T)[k] = InSequence(S)[k]
  <2> DEFINE P(i) == i \in S /\ Of(i) = k - 1
             Q(i) == i \in T /\ In(i) = k - 1
  <2>1. c # k - 1
    BY <1>1
  <2>2. ASSUME NEW i
        PROVE  P(i) <=> Q(i)
    <3>1. CASE i \in S
      BY <1>2, <3>1
    <3>2. CASE i \notin S
      BY <1>3, <2>1, <3>2
    <3> QED
      BY <3>1, <3>2
  <2>3. InSequence(S)[k] = CHOOSE i : P(i)
    BY <1>4
  <2>4. InSequence(T)[k] = CHOOSE i : Q(i)
    BY <1>1, <1>5
  <2> HIDE DEF P, Q
  <2>5. (CHOOSE i : P(i)) = (CHOOSE i : Q(i))
    BY <2>2
  <2> QED
    BY <2>3, <2>4, <2>5
<1>8. InSequence(T)[c + 1] = m
  <2>1. InSequence(T)[c + 1] = CHOOSE i \in T : In(i) = c
    BY <1>1, <1>5
  <2>2. \A i \in T : In(i) = c <=> i = m
    BY <1>2, <1>3, <1>6
  <2> QED
    BY <2>1, <2>2
<1> QED
  BY <1>1, <1>7, <1>8 DEF c

LEMMA EscapedByte ==
  ASSUME NEW url, NEW i, NEW plus, url[i] = Percent
  PROVE  ByteAt(url, i, plus) = 16 * HexValue(url[i + 1]) + HexValue(url[i + 2])
BY DEF ByteAt, Percent, Plus

\* A byte more, spelled in any way, is a byte more to read.
LEMMA ByteMore ==
  ASSUME NEW url, NEW text, NEW plus \in BOOLEAN, Reads(url, text, plus),
         NEW code, NEW byte \in Nat, IsCode(code, byte, plus)
  PROVE  Reads(url \o code, Append(text, byte), plus)
<1> DEFINE all == url \o code
           n == Len(url)
           c == Len(code)
           old == ByteStarts(url)
           new == ByteStarts(all)
           C == Cardinality(old)
<1>1. /\ url \in Seq(Nat) /\ text \in Seq(Nat) /\ ~BrokenEscape(url)
      /\ UrlDecode(url, plus) = text /\ InPlace(old)
  BY DEF Reads
<1>2. code \in Seq(Nat) /\ c \in {1, 3}
  <2>1. CASE code = <<byte>>
    BY <2>1
  <2>2. CASE code = <<Plus>>
    BY <2>2 DEF Plus
  <2>3. ASSUME NEW h \in HexDigits, NEW l \in HexDigits, code = <<Percent, h, l>>
        PROVE  code \in Seq(Nat) /\ c \in {1, 3}
    BY <2>3, HexValues DEF Percent
  <2> QED
    BY <2>1, <2>2, <2>3 DEF IsCode
<1>3. /\ n \in Nat /\ all \in Seq(Nat) /\ Len(all) = n + c
      /\ DOMAIN all = 1 .. n + c /\ DOMAIN url = 1 .. n
      /\ \A i \in 1 .. n : all[i] = url[i]
      /\ \A i \in 1 .. c : all[n + i] = code[i]
  BY <1>1, <1>2
<1>4. \A i \in 1 .. n : url[i] = Percent =>
        i + 2 <= n /\ {url[i + 1], url[i + 2]} \subseteq HexDigits
  BY <1>1, <1>3 DEF BrokenEscape
\* What the code itself is.
<1>5. \/ c = 1 /\ all[n + 1] # Percent
      \/ c = 3 /\ all[n + 1] = Percent /\ {all[n + 2], all[n + 3]} \subseteq HexDigits
  <2>1. CASE code = <<byte>> /\ byte # Percent
    BY <1>2, <1>3, <2>1
  <2>2. CASE code = <<Plus>>
    BY <1>2, <1>3, <2>2 DEF Plus, Percent
  <2>3. ASSUME NEW h \in HexDigits, NEW l \in HexDigits, code = <<Percent, h, l>>
        PROVE  c = 3 /\ all[n + 1] = Percent /\ {all[n + 2], all[n + 3]} \subseteq HexDigits
    BY <1>2, <1>3, <2>3
  <2> QED
    BY <2>1, <2>2, <2>3 DEF IsCode
<1>6. ByteAt(all, n + 1, plus) = byte
  <2>1. CASE code = <<byte>> /\ byte # Percent /\ (byte = Plus => ~plus)
    <3>1. all[n + 1] = byte
      BY <1>2, <1>3, <2>1
    <3> QED
      BY <2>1, <3>1 DEF ByteAt
  <2>2. CASE code = <<Plus>> /\ byte = Space /\ plus
    <3>1. all[n + 1] = Plus
      BY <1>2, <1>3, <2>2
    <3> QED
      BY <2>2, <3>1 DEF ByteAt, Plus, Percent
  <2>3. ASSUME NEW h \in HexDigits, NEW l \in HexDigits, code = <<Percent, h, l>>,
               byte = 16 * HexValue(h) + HexValue(l)
        PROVE  ByteAt(all, n + 1, plus) = byte
    <3>1. all[n + 1] = Percent /\ all[n + 1 + 1] = h /\ all[n + 1 + 2] = l
      BY <1>2, <1>3, <2>3
    <3>2. ByteAt(all, n + 1, plus) = 16 * HexValue(all[n + 1 + 1]) + HexValue(all[n + 1 + 2])
      BY <3>1, EscapedByte
    <3> HIDE DEF all, n
    <3> QED
      BY <2>3, <3>1, <3>2
  <2> QED
    BY <2>1, <2>2, <2>3 DEF IsCode
<1> HIDE DEF all, n, c
<1>7. ~BrokenEscape(all)
  <2> SUFFICES ASSUME NEW i \in 1 .. n + c, all[i] = Percent
               PROVE  i + 2 <= n + c /\ {all[i + 1], all[i + 2]} \subseteq HexDigits
    BY <1>3 DEF BrokenEscape
  <2>1. Percent \notin HexDigits
    BY DEF Percent, HexDigits, Digits
  <2>2. CASE i <= n
    <3>1. i \in 1 .. n /\ url[i] = Percent
      BY <1>3, <2>2
    <3>2. i + 2 <= n /\ {url[i + 1], url[i + 2]} \subseteq HexDigits
      BY <1>4, <3>1
    <3>3. i + 1 \in 1 .. n /\ i + 2 \in 1 .. n /\ i + 2 <= n + c
      <4>1. i \in 1 .. n /\ i + 2 <= n /\ n \in Nat /\ c \in Nat
        BY <1>2, <1>3, <3>1, <3>2
      <4> QED
        BY <4>1
    <3> QED
      BY <1>3, <3>2, <3>3
  <2>3. CASE ~(i <= n)
    <3>1. i = n + 1 /\ c = 3
      BY <1>3, <1>5, <2>1, <2>3
    <3>2. i + 1 = n + 2 /\ i + 2 = n + 3 /\ i + 2 <= n + c
      BY <1>3, <3>1
    <3> QED
      BY <1>5, <3>1, <3>2
  <2> QED
    BY <2>2, <2>3
<1>8. old \subseteq 1 .. n /\ IsFiniteSet(old) /\ old \subseteq Nat
  <2>1. old \subseteq 1 .. n
    BY <1>3 DEF ByteStarts
  <2>2. IsFiniteSet(1 .. n)
    BY <1>3, FS_Interval
  <2>3. 1 .. n \subseteq Nat
    BY <1>3
  <2> HIDE DEF old
  <2> QED
    BY <2>1, <2>2, <2>3, FS_Subset
<1>9. new = old \cup {n + 1}
  <2> DEFINE Starts(u, m, i) == \A j \in {i - 1, i - 2} \cap 1 .. m : u[j] # Percent
  <2>1. old = {i \in 1 .. n : Starts(url, n, i)} /\ new = {i \in 1 .. n + c : Starts(all, n + c, i)}
    BY <1>3 DEF ByteStarts
  <2>2. ASSUME NEW i \in 1 .. n
        PROVE  Starts(all, n + c, i) <=> Starts(url, n, i)
    <3>1. {i - 1, i - 2} \cap 1 .. n + c = {i - 1, i - 2} \cap 1 .. n
      BY <1>2, <1>3
    <3> QED
      BY <1>3, <3>1
  <2>3. Starts(all, n + c, n + 1)
    <3> SUFFICES ASSUME NEW j \in {n, n - 1} \cap 1 .. n + c, all[j] = Percent
                 PROVE  FALSE
      BY <1>3
    <3>1. j \in 1 .. n /\ ~(j + 2 <= n)
      BY <1>2, <1>3
    <3> QED
      BY <1>3, <1>4, <3>1
  <2>4. ASSUME NEW i \in n + 2 .. n + c
        PROVE  ~Starts(all, n + c, i)
    <3>1. c = 3 /\ all[n + 1] = Percent
      BY <1>2, <1>3, <1>5
    <3>2. n + 1 \in {i - 1, i - 2} \cap 1 .. n + c
      BY <1>3, <3>1
    <3> QED
      BY <3>1, <3>2
  <2>5. 1 .. n + c = 1 .. n \cup {n + 1} \cup n + 2 .. n + c
    BY <1>2, <1>3
  <2> HIDE DEF Starts
  <2> QED
    BY <2>1, <2>2, <2>3, <2>4, <2>5
<1>10. /\ C \in Nat /\ Cardinality(new) = C + 1
       /\ \A k \in 1 .. C : InSequence(new)[k] = InSequence(old)[k]
       /\ InSequence(new)[C + 1] = n + 1
  <2>1. n + 1 \in Nat /\ \A i \in old : i < n + 1
    BY <1>3, <1>8
  <2> HIDE DEF old, new
  <2>2. /\ C \in Nat /\ Cardinality(old \cup {n + 1}) = C + 1
        /\ \A k \in 1 .. C : InSequence(old \cup {n + 1})[k] = InSequence(old)[k]
        /\ InSequence(old \cup {n + 1})[C + 1] = n + 1
    BY <1>8, <2>1, LastPlace
  <2> QED
    BY <1>9, <2>2
<1>11. InPlace(new)
  <2>1. \A k \in 1 .. C + 1 : k \in 1 .. C \/ k = C + 1
    BY <1>10
  <2>2. \A k \in 1 .. C : InSequence(old)[k] \in old
    BY <1>1 DEF InPlace
  <2> HIDE DEF C
  <2> QED
    BY <1>9, <1>10, <2>1, <2>2 DEF InPlace
<1>12. \A i \in 1 .. n : ByteAt(all, i, plus) = ByteAt(url, i, plus)
  <2> SUFFICES ASSUME NEW i \in 1 .. n
               PROVE  ByteAt(all, i, plus) = ByteAt(url, i, plus)
    OBVIOUS
  <2>1. all[i] = url[i]
    BY <1>3
  <2>2. CASE url[i] = Percent
    <3>1. i + 1 \in 1 .. n /\ i + 2 \in 1 .. n
      BY <1>3, <1>4, <2>2
    <3>2. all[i + 1] = url[i + 1] /\ all[i + 2] = url[i + 2]
      BY <1>3, <3>1
    <3> QED
      BY <2>1, <2>2, <3>2 DEF ByteAt
  <2>3. CASE url[i] # Percent
    BY <2>1, <2>3 DEF ByteAt
  <2> QED
    BY <2>2, <2>3
<1> HIDE DEF new, old
<1>13. /\ text = [k \in 1 .. C |-> ByteAt(url, InSequence(old)[k], plus)]
       /\ UrlDecode(all, plus) = [k \in 1 .. C + 1 |-> ByteAt(all, InSequence(new)[k], plus)]
  <2>1. DOMAIN InSequence(old) = 1 .. C /\ DOMAIN InSequence(new) = 1 .. C + 1
    BY <1>10 DEF InSequence
  <2>2. UrlDecode(url, plus)
          = [k \in DOMAIN InSequence(old) |-> ByteAt(url, InSequence(old)[k], plus)]
    BY DEF UrlDecode, ByteAt, old
  <2>3. UrlDecode(all, plus)
          = [k \in DOMAIN InSequence(new) |-> ByteAt(all, InSequence(new)[k], plus)]
    BY DEF UrlDecode, ByteAt, new
  <2> QED
    BY <1>1, <2>1, <2>2, <2>3
<1>14. UrlDecode(all, plus) = Append(text, byte)
  <2> HIDE DEF C
  <2>1. Len(text) = C
    BY <1>1, <1>10, <1>13, LenProperties
  <2>2. Append(text, byte) = [k \in 1 .. C + 1 |-> IF k = C + 1 THEN byte ELSE text[k]]
    <3> DEFINE more == Append(text, byte)
    <3>1. /\ more \in Seq(Nat) /\ Len(more) = C + 1
          /\ \A k \in 1 .. C : more[k] = text[k]
          /\ more[C + 1] = byte
      BY <1>1, <2>1, AppendProperties
    <3> HIDE DEF more
    <3>2. more \in [1 .. C + 1 -> Nat]
      BY <3>1, LenProperties
    <3>3. \A k \in 1 .. C + 1 : k \in 1 .. C \/ k = C + 1
      BY <1>10
    <3>4. C + 1 \notin 1 .. C
      BY <1>10
    <3>5. more = [k \in 1 .. C + 1 |-> more[k]]
      BY <3>2
    <3>6. more = [k \in 1 .. C + 1 |-> IF k = C + 1 THEN byte ELSE text[k]]
      BY <3>1, <3>3, <3>4, <3>5
    <3> QED
      BY <3>6 DEF more
  <2>3. ASSUME NEW k \in 1 .. C + 1
        PROVE  ByteAt(all, InSequence(new)[k], plus) = IF k = C + 1 THEN byte ELSE text[k]
    <3>1. CASE k = C + 1
      BY <1>6, <1>10, <3>1
    <3>2. CASE k # C + 1
      <4>1. k \in 1 .. C
        BY <1>10, <3>2
      <4>2. InSequence(old)[k] \in 1 .. n
        BY <1>1, <1>8, <4>1 DEF InPlace, C
      <4>3. InSequence(new)[k] = InSequence(old)[k]
        BY <1>10, <4>1
      <4>4. text[k] = ByteAt(url, InSequence(old)[k], plus)
        BY <1>13, <4>1
      <4> QED
        BY <1>12, <3>2, <4>2, <4>3, <4>4
    <3> QED
      BY <3>1, <3>2
  <2> QED
    BY <1>13, <2>2, <2>3
<1>15. Append(text, byte) \in Seq(Nat)
  BY <1>1
<1> QED
  BY <1>3, <1>7, <1>11, <1>14, <1>15 DEF Reads, all, new

\* Nothing is a spelling of nothing.
LEMMA NoByte ==
  ASSUME NEW plus \in BOOLEAN, NEW none
  PROVE  none = <<>> => Reads(none, none, plus)
<1>1. none = <<>> => DOMAIN none = {} /\ none \in Seq(Nat)
  OBVIOUS
<1>2. none = <<>> => ByteStarts(none) = {}
  BY <1>1 DEF ByteStarts
<1>3. Cardinality({}) = 0 /\ 1 .. 0 = {}
  BY FS_EmptySet
<1>4. DOMAIN InSequence({}) = {}
  BY <1>3 DEF InSequence
<1>5. ByteStarts(none) = {} =>
        UrlDecode(none, plus)
          = [k \in DOMAIN InSequence({}) |-> ByteAt(none, InSequence({})[k], plus)]
  BY DEF UrlDecode, ByteAt
<1>6. none = <<>> => UrlDecode(none, plus) = <<>>
  BY <1>2, <1>4, <1>5
<1> QED
  BY <1>1, <1>2, <1>3, <1>6 DEF Reads, BrokenEscape, InPlace

LEMMA CodeIsText ==
  ASSUME NEW code, NEW byte \in Nat, NEW plus, IsCode(code, byte, plus)
  PROVE  code \in Seq(Nat)
<1>1. CASE code = <<byte>>
  BY <1>1
<1>2. CASE code = <<Plus>>
  BY <1>2 DEF Plus
<1>3. ASSUME NEW high \in HexDigits, NEW low \in HexDigits, code = <<Percent, high, low>>
      PROVE  code \in Seq(Nat)
  BY <1>3, HexValues DEF Percent
<1> QED
  BY <1>1, <1>2, <1>3 DEF IsCode

\* Every spelling of every byte, put together, is a spelling of the text.
LEMMA AnySpelling ==
  ASSUME NEW text \in Seq(Nat), NEW plus \in BOOLEAN, NEW codes,
         codes \in Seq(Seq(Nat)), Len(codes) = Len(text),
         \A k \in 1 .. Len(text) : IsCode(codes[k], text[k], plus)
  PROVE  Reads(FlattenSeq(codes), text, plus)
<1> DEFINE n == Len(text)
<1>0. n \in Nat
  OBVIOUS
<1>1. CASE n = 0
  <2>1. text = <<>> /\ codes = <<>> /\ FlattenSeq(codes) = codes
    BY <1>1 DEF FlattenSeq
  <2> QED
    BY <2>1, NoByte
<1>2. CASE n # 0
  <2> DEFINE Flat(f, m) == f = [i \in 1 .. m |-> IF i = 1 THEN codes[i] ELSE f[i - 1] \o codes[i]]
             flatten == CHOOSE f : Flat(f, n)
             T == {m \in Nat : \E f : Flat(f, m)}
             R == {m \in Nat : m + 1 <= n => Reads(flatten[m + 1], SubSeq(text, 1, m + 1), plus)}
  <2>1. FlattenSeq(codes) = flatten[n]
    BY <1>0, <1>2 DEF FlattenSeq
  <2>2. 0 \in T
    <3>1. Flat([i \in 1 .. 0 |-> <<>>], 0)
      OBVIOUS
    <3> QED
      BY <3>1
  <2>3. ASSUME NEW m \in Nat, m \in T
        PROVE  m + 1 \in T
    <3>1. PICK f : Flat(f, m)
      BY <2>3
    <3> DEFINE g == [i \in 1 .. m + 1 |-> IF i <= m THEN f[i]
                                         ELSE IF i = 1 THEN codes[i] ELSE f[i - 1] \o codes[i]]
    <3>2. ASSUME NEW i \in 1 .. m + 1
          PROVE  g[i] = IF i = 1 THEN codes[i] ELSE g[i - 1] \o codes[i]
      <4>1. i # 1 => i - 1 \in 1 .. m /\ i - 1 \in 1 .. m + 1 /\ i - 1 <= m
        OBVIOUS
      <4>2. i <= m => i \in 1 .. m
        OBVIOUS
      <4>3. \A j \in 1 .. m : f[j] = IF j = 1 THEN codes[j] ELSE f[j - 1] \o codes[j]
        BY <3>1
      <4> QED
        BY <4>1, <4>2, <4>3
    <3>3. Flat(g, m + 1)
      BY <3>2
    <3> HIDE DEF g, Flat
    <3> QED
      BY <3>3
  <2>4. n \in T
    <3> HIDE DEF T
    <3> QED
      BY <1>0, <2>2, <2>3, Induction
  <2>5. Flat(flatten, n)
    BY <2>4
  <2> HIDE DEF flatten
  <2>6. flatten[1] = codes[1] /\ \A i \in 2 .. n : flatten[i] = flatten[i - 1] \o codes[i]
    <3>1. \A i \in 1 .. n : flatten[i] = IF i = 1 THEN codes[i] ELSE flatten[i - 1] \o codes[i]
      BY <2>5
    <3>2. 1 \in 1 .. n /\ \A i \in 2 .. n : i \in 1 .. n /\ i # 1
      BY <1>0, <1>2
    <3> QED
      BY <3>1, <3>2
  <2>7. \A k \in 1 .. n : text[k] \in Nat /\ codes[k] \in Seq(Nat)
    OBVIOUS
  <2>8. 0 \in R
    <3>1. 1 \in 1 .. n /\ IsCode(codes[1], text[1], plus)
      BY <1>0, <1>2
    <3> DEFINE none == <<>>
    <3>2. Reads(none, none, plus)
      BY NoByte
    <3> HIDE DEF none
    <3>3. Reads(none \o codes[1], Append(none, text[1]), plus)
      BY <2>7, <3>1, <3>2, ByteMore
    <3>4. none \o codes[1] = flatten[1] /\ Append(none, text[1]) = SubSeq(text, 1, 1)
      BY <2>6, <2>7, <3>1 DEF none
    <3> QED
      BY <3>3, <3>4
  <2>9. ASSUME NEW m \in Nat, m \in R
        PROVE  m + 1 \in R
    <3> SUFFICES ASSUME m + 1 + 1 <= n
                 PROVE  Reads(flatten[m + 1 + 1], SubSeq(text, 1, m + 1 + 1), plus)
      OBVIOUS
    <3> DEFINE k == m + 1 + 1
    <3>1. k \in 1 .. n /\ k \in 2 .. n /\ k - 1 = m + 1 /\ m + 1 <= n
      BY <1>0
    <3>2. Reads(flatten[m + 1], SubSeq(text, 1, m + 1), plus)
      BY <2>9, <3>1
    <3>3. IsCode(codes[k], text[k], plus)
      BY <3>1
    <3>4. flatten[k] = flatten[m + 1] \o codes[k]
      BY <2>6, <3>1
    <3>5. SubSeq(text, 1, k) = Append(SubSeq(text, 1, m + 1), text[k])
      BY <3>1
    <3> HIDE DEF k
    <3>6. Reads(flatten[m + 1] \o codes[k], Append(SubSeq(text, 1, m + 1), text[k]), plus)
      BY <2>7, <3>1, <3>2, <3>3, ByteMore
    <3> QED
      BY <3>4, <3>5, <3>6 DEF k
  <2>10. n - 1 \in R
    <3> HIDE DEF R
    <3>1. Nat \subseteq R
      BY <2>8, <2>9, Induction
    <3> QED
      BY <1>0, <1>2, <3>1
  <2>11. SubSeq(text, 1, n) = text /\ n - 1 \in Nat /\ n - 1 + 1 = n
    BY <1>0, <1>2
  <2>12. n - 1 + 1 <= n
    BY <1>0
  <2> QED
    BY <2>1, <2>10, <2>11, <2>12
<1> QED
  BY <1>1, <1>2

-----------------------------------------------------------------------------
(* The theorems *)

\* All of the invariant, of every behaviour.
THEOREM Invariance == Spec => []Inv
<1>1. Inv /\ [Next]_vars => Inv'
  BY Inductively
<1> QED
  BY <1>1, Initially, PTL DEF Spec

\* Whatever requests a client sends ahead, whatever files there are and
\* whatever a handler makes of its response, SendResponse gives each answer the
\* length its own request makes the client expect.
THEOREM Framing == Spec => []ClientStaysInStep
<1>1. Inv => ClientStaysInStep
  BY DEF Inv
<1> QED
  BY <1>1, Invariance, PTL

\* OnMessage shuts the connection with exactly the answer that says close, and
\* with the answer to a request that asks for the end.
THEOREM Ending == Spec => [](EndsTogether /\ WishesGranted)
<1>1. Inv => EndsTogether /\ WishesGranted
  BY DEF Inv
<1> QED
  BY <1>1, Invariance, PTL

\* When each request, alone on a connection, is spelled so that the parser
\* understands it, then each of any number of them, sent ahead or one after the
\* other, is handled as it was meant: nothing of an earlier request, answered or
\* refused, gets into what a handler sees.
THEOREM Meaning == SpelledAsMeant => (Spec => []HandledAsMeant)
<1> SUFFICES ASSUME SpelledAsMeant
             PROVE  Spec => []HandledAsMeant
  OBVIOUS
<1>1. Init => ReadAlone
  BY DEF Init, ReadAlone
<1>2. Inv /\ ReadAlone /\ [Next]_vars => ReadAlone'
  BY ReadsAlone
<1>3. Inv /\ ReadAlone => HandledAsMeant
  BY AloneIsMeant
<1> QED
  BY <1>1, <1>2, <1>3, Invariance, PTL DEF Spec

\* Then both ends also agree, for any requests, files and routes, on which
\* answer is the last, and no connection ends without a reason.
THEOREM Agreement == SpelledAsMeant => (Spec => []CloseAgreed)
<1>1. Init => EndsForReason
  <2>1. wire = <<>> => DOMAIN wire = {}
    OBVIOUS
  <2> QED
    BY <2>1 DEF Init, EndsForReason
<1>2. Inv /\ HandledAsMeant /\ EndsForReason /\ [Next]_vars => EndsForReason'
  BY Inductively
<1>3. Inv /\ EndsForReason => CloseAgreed
  BY DEF Inv, CloseAgreed
<1> QED
  BY <1>1, <1>2, <1>3, Invariance, Meaning, PTL DEF Spec

\* UrlDecode gives back what UrlEncode was given, for every text, unless only
\* UrlEncode knows that a plus stands for a blank.
THEOREM RoundTrip ==
  ASSUME NEW text \in Seq(0 .. 255), NEW space \in BOOLEAN, NEW plus \in BOOLEAN,
         space => plus
  PROVE  /\ ~BrokenEscape(UrlEncode(text, space))
         /\ UrlDecode(UrlEncode(text, space), plus) = text
<1> DEFINE n == Len(text)
           Code(byte) == CASE byte \in Unreserved -> <<byte>>
                           [] byte = Space /\ space -> <<Plus>>
                           [] OTHER -> Escape(byte)
           codes == [i \in DOMAIN text |-> Code(text[i])]
<1>1. ASSUME NEW byte \in 0 .. 255
      PROVE  IsCode(Code(byte), byte, plus)
  <2>1. Space \notin Unreserved
    BY DEF Space, Unreserved, Digits, Upper, Lower, Dot
  <2>2. CASE byte \in Unreserved
    <3>1. Code(byte) = <<byte>>
      BY <2>1, <2>2
    <3>2. byte # Percent /\ byte # Plus
      BY <2>2 DEF Unreserved, Digits, Upper, Lower, Dot, Percent, Plus
    <3> QED
      BY <3>1, <3>2 DEF IsCode
  <2>3. CASE byte = Space /\ space
    <3>1. Code(byte) = <<Plus>>
      BY <2>1, <2>3
    <3> QED
      BY <2>3, <3>1 DEF IsCode
  <2>4. CASE byte \notin Unreserved /\ ~(byte = Space /\ space)
    <3> DEFINE high == byte \div 16
               low == byte % 16
    <3>1. Code(byte) = <<Percent, HexDigit(high), HexDigit(low)>>
      BY <2>4 DEF Escape
    <3>2. high \in 0 .. 15 /\ low \in 0 .. 15 /\ byte = 16 * high + low
      OBVIOUS
    <3> HIDE DEF high, low, Code
    <3>3. /\ HexDigit(high) \in HexDigits /\ HexDigit(low) \in HexDigits
          /\ byte = 16 * HexValue(HexDigit(high)) + HexValue(HexDigit(low))
      BY <3>2, HexValues
    <3> QED
      BY <3>1, <3>3 DEF IsCode
  <2> QED
    BY <2>2, <2>3, <2>4
<1>2. UrlEncode(text, space) = FlattenSeq(codes)
  BY DEF UrlEncode
<1>3. n \in Nat /\ DOMAIN text = 1 .. n /\ \A i \in 1 .. n : text[i] \in 0 .. 255
  BY LenProperties, ElementOfSeq
<1>4. text \in Seq(Nat) /\ 0 .. 255 \subseteq Nat
  <2>1. 0 .. 255 \subseteq Nat
    OBVIOUS
  <2>2. text = [i \in 1 .. n |-> text[i]] /\ \A i \in 1 .. n : text[i] \in Nat
    <3>1. text \in [1 .. n -> 0 .. 255]
      BY LenProperties
    <3> QED
      BY <1>3, <2>1, <3>1
  <2> HIDE DEF n
  <2>3. [i \in 1 .. n |-> text[i]] \in Seq(Nat)
    BY <1>3, <2>2
  <2> QED
    BY <2>1, <2>2, <2>3
<1> HIDE DEF n, Code
<1>5. \A i \in 1 .. n : /\ codes[i] = Code(text[i])
                        /\ IsCode(codes[i], text[i], plus) /\ codes[i] \in Seq(Nat)
  <2> SUFFICES ASSUME NEW i \in 1 .. n
               PROVE  /\ codes[i] = Code(text[i])
                      /\ IsCode(codes[i], text[i], plus) /\ codes[i] \in Seq(Nat)
    OBVIOUS
  <2>1. codes[i] = Code(text[i]) /\ text[i] \in 0 .. 255 /\ text[i] \in Nat
    BY <1>3, <1>4
  <2> HIDE DEF codes
  <2> QED
    BY <1>1, <2>1, CodeIsText
<1>6. codes \in Seq(Seq(Nat)) /\ Len(codes) = n
  BY <1>3, <1>5
<1> HIDE DEF codes
<1>7. Reads(FlattenSeq(codes), text, plus)
  BY <1>4, <1>5, <1>6, AnySpelling DEF n
<1> QED
  BY <1>2, <1>7 DEF Reads

\* A target without a query, in whatever way the client spells the bytes of the
\* path it means, is read as that path, and refused when the path leads out of
\* the root on its way.
THEOREM PathsAsMeant ==
  ASSUME NEW path \in Seq(Nat), NEW codes \in Seq(Seq(Nat)), Len(codes) = Len(path),
         \A k \in 1 .. Len(path) : IsCode(codes[k], path[k], FALSE),
         NEW r, r.target = FlattenSeq(codes), r.query = NoQuery, r.fault = "none",
         r.target # <<>>, r.target[1] = Slash,
         ToSet(r.target) \cap (0 .. Space \cup {Hash, 127}) = {},
         NEW c, DOMAIN c = DOMAIN Fresh
  PROVE  /\ Parsed(c, r)[1] = "over" <=> ValidPath(path)
         /\ ValidPath(path) => Parsed(c, r)[2].path = path
<1>1. ~BrokenEscape(r.target) /\ UrlDecode(r.target, FALSE) = path
  BY AnySpelling DEF Reads
<1>2. BadTarget(r.target) <=> ~ValidPath(path)
  BY <1>1 DEF BadTarget
<1>3. Hash \notin ToSet(r.query)
  BY DEF NoQuery, ToSet, Hash
<1>4. QueryParts(r.query) = <<>>
  BY DEF QueryParts
<1>5. BrokenParts(QueryParts(r.query)) = {}
  BY <1>4 DEF BrokenParts
<1>6. CASE ValidPath(path)
  <2>1. Parsed(c, r) = <<"over", WithHead(c, r)>>
    BY <1>2, <1>3, <1>5, <1>6 DEF Parsed
  <2>2. WithHead(c, r).path = path
    BY <1>1 DEF WithHead, WithLine, WithMethod, Fresh
  <2> QED
    BY <1>6, <2>1, <2>2
<1>7. CASE ~ValidPath(path)
  <2>1. Parsed(c, r) = <<"error", WithMethod(c, r)>>
    BY <1>2, <1>7 DEF Parsed
  <2> QED
    BY <1>7, <2>1
<1> QED
  BY <1>6, <1>7

=============================================================================

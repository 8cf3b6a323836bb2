------------------------ MODULE HttpContextProofs ------------------------
(***************************************************************************)
(* Proofs about HttpContext for any limits and any streams: the parser     *)
(* keeps within its limits, hoards no more than a line, reads no body      *)
(* longer than announced, keeps what it has not taken as it came, and      *)
(* reports what the reference of HttpStreams makes of the whole text.      *)
(***************************************************************************)
EXTENDS HttpStreams, SequenceTheorems, WellFoundedInduction, TLAPS

(***************************************************************************)
(* The inductive invariant                                                 *)
(***************************************************************************)

\* A body is begun after the head, and ends where Content-Length says.
BodyFits ==
  /\ context.recv_statu \in {"RECV_HTTP_LINE", "RECV_HTTP_HEAD"} => context.body = <<>>
  /\ Len(context.body) <= context.body_length
  /\ context.recv_statu = "RECV_HTTP_OVER" => Len(context.body) = context.body_length

\* The buffer is the end of what has been received.
Unread ==
  stage # "closed" =>
    /\ Len(buffer) <= received
    /\ \A i \in 1 .. Len(buffer) : buffer[i] = stream[received - Len(buffer) + i]

\* An unfinished body is what came before the buffer.
BodyTaken ==
  context.recv_statu = "RECV_HTTP_BODY" =>
    LET begun == Len(context.body)
        unread == Len(buffer)
    IN  /\ begun + unread <= received
        /\ \A i \in 1 .. begun : context.body[i] = stream[received - unread - begun + i]

Inv ==
  /\ TypeOK
  /\ BodyFits
  /\ HoardsOneLine
  /\ Unread

-----------------------------------------------------------------------------
(* Lines *)

\* The first of several numbers.
LEMMA Least ==
  ASSUME NEW T, T \subseteq Nat, T # {}
  PROVE  \E k \in T : \A j \in T : k <= j
<1>1. PICK k \in T : \A j \in T : ~(<<j, k>> \in OpToRel(<, Nat))
  BY NatLessThanWellFounded, WFMin
<1>2. \A j \in T : ~(j < k)
  BY <1>1 DEF OpToRel
<1> QED
  BY <1>2

\* EndOfLine is the place of the first LF, if there is one.
LEMMA EndsOfLine ==
  ASSUME NEW text \in Seq(Symbol)
  PROVE  LET end == EndOfLine(text)
         IN  /\ end \in 0 .. Len(text)
             /\ end # 0 => text[end] = LF /\ \A j \in 1 .. end - 1 : text[j] # LF
             /\ end = 0 => \A i \in 1 .. Len(text) : text[i] # LF
<1> DEFINE n == Len(text)
           end == EndOfLine(text)
           T == {i \in 1 .. n : text[i] = LF}
           First(i) == text[i] = LF /\ \A j \in 1 .. i - 1 : text[j] # LF
<1>1. n \in Nat
  OBVIOUS
<1>2. end = IF \E i \in 1 .. n : text[i] = LF
            THEN CHOOSE i \in 1 .. n : First(i) ELSE 0
  BY DEF EndOfLine
<1> HIDE DEF n, end
<1>3. CASE T # {}
  <2> HIDE DEF First
  <2>0. T \subseteq Nat
    BY <1>1
  <2>1. PICK first \in T : \A j \in T : first <= j
    BY <1>3, <2>0, Least
  <2>2. \A j \in 1 .. first - 1 : j \in 1 .. n /\ ~(first <= j)
    BY <1>1, <2>1
  <2>3. first \in 1 .. n /\ First(first)
    BY <2>1, <2>2 DEF First
  <2>4. LET i == CHOOSE i \in 1 .. n : First(i)
        IN  i \in 1 .. n /\ First(i)
    BY <2>3
  <2>5. end \in 1 .. n /\ First(end)
    BY <1>2, <1>3, <2>4
  <2>6. end # 0 /\ end \in 0 .. n
    BY <1>1, <2>5
  <2> QED
    BY <2>5, <2>6 DEF First, n, end
<1>4. CASE T = {}
  <2>1. end = 0 /\ \A i \in 1 .. n : text[i] # LF
    BY <1>2, <1>4
  <2> QED
    BY <1>1, <2>1 DEF n, end
<1> QED
  BY <1>3, <1>4

\* More behind a text does not move the end of its first line.
LEMMA EndStays ==
  ASSUME NEW text \in Seq(Symbol), NEW more \in Seq(Symbol), Len(text) <= Len(more),
         \A i \in 1 .. Len(text) : more[i] = text[i]
  PROVE  /\ EndOfLine(text) # 0 => EndOfLine(more) = EndOfLine(text)
         /\ EndOfLine(text) = 0 => EndOfLine(more) = 0 \/ EndOfLine(more) > Len(text)
<1> DEFINE m == Len(text)
           n == Len(more)
           d == EndOfLine(text)
           e == EndOfLine(more)
<1>1. m \in Nat /\ n \in Nat /\ m <= n /\ \A i \in 1 .. m : more[i] = text[i]
  OBVIOUS
<1>2. /\ d \in 0 .. m
      /\ d # 0 => text[d] = LF /\ \A j \in 1 .. d - 1 : text[j] # LF
      /\ d = 0 => \A i \in 1 .. m : text[i] # LF
  BY EndsOfLine
<1>3. /\ e \in 0 .. n
      /\ e # 0 => more[e] = LF /\ \A j \in 1 .. e - 1 : more[j] # LF
      /\ e = 0 => \A i \in 1 .. n : more[i] # LF
  BY EndsOfLine
<1> HIDE DEF m, n, d, e
<1>4. ASSUME d # 0
      PROVE  e = d
  <2>1. d \in 1 .. m /\ d \in 1 .. n /\ more[d] = LF
    BY <1>1, <1>2, <1>4
  <2>2. e # 0 /\ ~(d < e)
    BY <1>3, <2>1
  <2>3. ~(e < d)
    <3>1. ASSUME e < d
          PROVE  FALSE
      <4>1. e \in 1 .. m /\ e \in 1 .. d - 1
        BY <1>1, <1>2, <1>3, <2>2, <3>1
      <4> QED
        BY <1>1, <1>2, <1>3, <1>4, <2>2, <4>1
    <3> QED
      BY <3>1
  <2> QED
    BY <1>2, <1>3, <2>2, <2>3
<1>5. ASSUME d = 0
      PROVE  e = 0 \/ e > m
  <2>1. e \in 1 .. m => FALSE
    BY <1>1, <1>2, <1>3, <1>5
  <2> QED
    BY <1>1, <1>3, <2>1
<1> QED
  BY <1>4, <1>5 DEF m, d, e

LEMMA LineEnds ==
  ASSUME buffer \in Seq(Symbol)
  PROVE  /\ LineEnd \in 0 .. Len(buffer)
         /\ Length \in Nat /\ (LineEnd = 0 => Length = Len(buffer))
<1> DEFINE n == Len(buffer)
<1>1. n \in Nat /\ LineEnd \in 0 .. n
  BY EndsOfLine DEF LineEnd
<1>2. Length = IF LineEnd = 0 THEN n ELSE LineEnd
  BY DEF Length
<1> QED
  BY <1>1, <1>2

\* What ReadLine lets pass is within the limits.
LEMMA GoodLine ==
  ASSUME TypeOK, LineError = 0
  PROVE  /\ Length <= MAX_LINE_SIZE
         /\ InHead => Length + context.head_size <= MAX_HEAD_SIZE
<1>1. Length \in Nat /\ context.head_size \in Nat /\ context.head_size <= MAX_HEAD_SIZE
  BY LineEnds DEF TypeOK, Context
<1>2. Length <= MAX_LINE_SIZE
  BY <1>1, LimitAssumption DEF LineError
<1>3. InHead => ~(Length > MAX_HEAD_SIZE - context.head_size)
  BY <1>2 DEF LineError
<1> QED
  BY <1>1, <1>2, <1>3, LimitAssumption

LEMMA LineErrorIsStatus == LineError \in Nat
  BY DEF LineError

\* What is behind the front of a text.
LEMMA BehindFront ==
  ASSUME NEW s \in Seq(Symbol), NEW k \in 0 .. Len(s)
  PROVE  LET t == SubSeq(s, k + 1, Len(s))
         IN  /\ t \in Seq(Symbol) /\ Len(t) = Len(s) - k
             /\ \A i \in 1 .. Len(s) - k : t[i] = s[k + i]
<1> DEFINE n == Len(s)
           t == SubSeq(s, k + 1, n)
<1>1. n \in Nat /\ k \in 0 .. n
  OBVIOUS
<1>2. \A i \in k + 1 .. n : s[i] \in Symbol
  <2>1. \A i \in k + 1 .. n : i \in 1 .. n
    <3> HIDE DEF n
    <3> QED
      BY <1>1
  <2> QED
    BY <2>1
<1>3. k + 1 \in Int /\ n \in Int
  BY <1>1
<1>4. /\ t \in Seq(Symbol) /\ Len(t) = IF k + 1 <= n THEN n - (k + 1) + 1 ELSE 0
      /\ \A i \in 1 .. n - (k + 1) + 1 : t[i] = s[k + 1 + i - 1]
  BY <1>2, <1>3, SubSeqProperties
<1> HIDE DEF t, n
<1>5. /\ n - (k + 1) + 1 = n - k /\ (~(k + 1 <= n) => n - k = 0)
      /\ \A i \in 1 .. n - k : k + 1 + i - 1 = k + i
  BY <1>1
<1> QED
  BY <1>4, <1>5 DEF t, n

\* Taking the front of the buffer leaves the end of what was received.
LEMMA TakenFromFront ==
  ASSUME TypeOK, Unread, stage # "closed", NEW k \in 0 .. Len(buffer)
  PROVE  LET rest == SubSeq(buffer, k + 1, Len(buffer))
         IN  /\ rest \in Seq(Symbol) /\ Len(rest) = Len(buffer) - k
             /\ Len(rest) <= received
             /\ \A i \in 1 .. Len(rest) : rest[i] = stream[received - Len(rest) + i]
<1> DEFINE n == Len(buffer)
           rest == SubSeq(buffer, k + 1, n)
           m == Len(rest)
<1>1. buffer \in Seq(Symbol) /\ n \in Nat /\ received \in Nat
  BY DEF TypeOK
<1>2. rest \in Seq(Symbol) /\ m = n - k /\ \A i \in 1 .. n - k : rest[i] = buffer[k + i]
  BY <1>1, BehindFront
<1>3. n <= received /\ \A i \in 1 .. n : buffer[i] = stream[received - n + i]
  BY DEF Unread
<1> HIDE DEF rest, m, n
<1>4. m <= received
  BY <1>1, <1>2, <1>3 DEF n
<1>5. ASSUME NEW i \in 1 .. m
      PROVE  rest[i] = stream[received - m + i]
  <2>1. k + i \in 1 .. n /\ received - n + (k + i) = received - m + i
    BY <1>1, <1>2 DEF n
  <2> QED
    BY <1>2, <1>3, <2>1
<1> QED
  BY <1>2, <1>4, <1>5 DEF rest, m, n

-----------------------------------------------------------------------------
(* The parts of a request *)

\* A parser that has given up keeps its place.
LEMMA ErrorIsTyped ==
  ASSUME NEW c \in Context, NEW statu \in Nat
  PROVE  /\ SetError(c, statu) \in Context
         /\ SetError(c, statu).recv_statu = "RECV_HTTP_ERROR"
         /\ SetError(c, statu).head_size = c.head_size
         /\ SetError(c, statu).body_length = c.body_length
         /\ SetError(c, statu).body = c.body
  BY DEF SetError, Context, RecvStatu

LEMMA LineIsParsed ==
  ASSUME NEW c \in Context, NEW line
  PROVE  LET d == ParseHttpLine(c, line)
         IN  /\ d \in Context
             /\ d.recv_statu \in {"RECV_HTTP_HEAD", "RECV_HTTP_ERROR"}
             /\ d.head_size = c.head_size /\ d.body_length = c.body_length /\ d.body = c.body
<1>1. CASE Len(line) = 1 /\ line[1] \in RequestLines
  <2>1. ParseHttpLine(c, line) = [c EXCEPT !.version = line[1], !.recv_statu = "RECV_HTTP_HEAD"]
    BY <1>1 DEF ParseHttpLine
  <2>2. "RECV_HTTP_HEAD" \in RecvStatu /\ line[1] \in RequestLines \cup {""}
    BY <1>1 DEF RecvStatu
  <2> QED
    BY <2>1, <2>2 DEF Context
<1>2. CASE ~(Len(line) = 1 /\ line[1] \in RequestLines)
  <2>1. ParseHttpLine(c, line) = SetError(c, 400)
    BY <1>2 DEF ParseHttpLine
  <2> QED
    BY <2>1, ErrorIsTyped
<1> QED
  BY <1>1, <1>2

\* A field adds to the names seen; only Content-Length sets the length, and
\* never above the limit.
LEMMA FieldIsParsed ==
  ASSUME NEW c \in Context, c.body_length <= MAX_BODY_SIZE, NEW line, c.body = <<>>
  PROVE  LET d == ParseHttpHead(c, line)
         IN  /\ d \in Context
             /\ d.recv_statu \in {c.recv_statu, "RECV_HTTP_ERROR"}
             /\ d.head_size = c.head_size /\ d.body_length <= MAX_BODY_SIZE
             /\ d.body = <<>>
<1> DEFINE d == ParseHttpHead(c, line)
           name == Name(line[1])
           length == IF name = "Content-Length" THEN Lengths[line[1]] ELSE c.body_length
<1>1. CASE \E statu \in Nat : d = SetError(c, statu)
  BY <1>1, ErrorIsTyped
<1>2. CASE ~\E statu \in Nat : d = SetError(c, statu)
  <2>1. /\ IsField(line)
        /\ ~(name = "Content-Length" /\ Lengths[line[1]] > MAX_BODY_SIZE)
        /\ d = [c EXCEPT !.headers = @ \cup {name}, !.body_length = length]
    BY <1>2 DEF ParseHttpHead
  <2>2. line[1] \in Fields
    BY <2>1 DEF IsField
  <2>3. name \in Names
    BY <2>2 DEF Names
  <2>4. name = "Content-Length" => line[1] \in DOMAIN Lengths
    BY <2>2 DEF Name, Fields
  <2>5. \A f \in DOMAIN Lengths : Lengths[f] \in Nat
    BY LimitAssumption DEF Lengths
  <2>6. length \in Nat /\ length <= MAX_BODY_SIZE
    <3>1. CASE name = "Content-Length"
      <4>1. Lengths[line[1]] \in Nat /\ length = Lengths[line[1]]
        BY <2>4, <2>5, <3>1
      <4> QED
        BY <2>1, <3>1, <4>1, LimitAssumption
    <3>2. CASE name # "Content-Length"
      BY <3>2 DEF Context
    <3> QED
      BY <3>1, <3>2
  <2> HIDE DEF d, name, length
  <2>7. c.headers \cup {name} \in SUBSET Names
    BY <2>3 DEF Context
  <2>8. d = [c EXCEPT !.headers = c.headers \cup {name}, !.body_length = length]
    BY <2>1
  <2>9. d \in Context
    BY <2>6, <2>7, <2>8 DEF Context
  <2>10. /\ d.recv_statu = c.recv_statu /\ d.head_size = c.head_size
         /\ d.body_length = length /\ d.body = <<>>
    BY <2>8 DEF Context
  <2> QED
    BY <2>6, <2>9, <2>10 DEF d
<1> QED
  BY <1>1, <1>2

LEMMA HeadIsEnded ==
  ASSUME NEW c \in Context
  PROVE  LET d == EndOfHead(c)
         IN  /\ d \in Context
             /\ d.recv_statu \in {"RECV_HTTP_BODY", "RECV_HTTP_ERROR"}
             /\ d.head_size = c.head_size /\ d.body_length = c.body_length /\ d.body = c.body
<1> DEFINE d == EndOfHead(c)
<1>1. (\E statu \in Nat : d = SetError(c, statu)) \/ d = [c EXCEPT !.recv_statu = "RECV_HTTP_BODY"]
  BY DEF EndOfHead
<1>2. CASE \E statu \in Nat : d = SetError(c, statu)
  BY <1>2, ErrorIsTyped
<1>3. CASE d = [c EXCEPT !.recv_statu = "RECV_HTTP_BODY"]
  <2>1. "RECV_HTTP_BODY" \in RecvStatu
    BY DEF RecvStatu
  <2> HIDE DEF d
  <2> QED
    BY <1>3, <2>1 DEF Context, d
<1> QED
  BY <1>1, <1>2, <1>3

-----------------------------------------------------------------------------
(* The steps *)

LEMMA ClearedIsTyped ==
  Cleared \in Context /\ Cleared.body = <<>> /\ Len(Cleared.body) = 0
<1>1. <<>> \in Seq(Symbol) /\ Len(<<>>) = 0
  BY EmptySeq
<1> QED
  BY <1>1 DEF Cleared, Context, RecvStatu

LEMMA Initially == Init => Inv
<1> SUFFICES ASSUME Init
             PROVE  Inv
  OBVIOUS
<1>1. /\ stream \in Streams /\ received = 0 /\ buffer = <<>> /\ context = Cleared
      /\ stage = "waiting"
  BY DEF Init
<1>2. Len(buffer) = 0 /\ buffer \in Seq(Symbol)
  BY <1>1, EmptySeq
<1>3. Len(stream) \in Nat
  BY <1>1, StreamAssumption
<1>4. /\ context.head_size = 0 /\ context.body_length = 0
      /\ context.recv_statu = "RECV_HTTP_LINE"
  BY <1>1 DEF Cleared
<1>5. TypeOK
  BY <1>1, <1>2, <1>3, <1>4, ClearedIsTyped, LimitAssumption DEF TypeOK
<1>6. BodyFits
  BY <1>1, <1>4, ClearedIsTyped DEF BodyFits
<1>7. HoardsOneLine /\ Unread
  BY <1>1, <1>2, <1>4, LimitAssumption DEF HoardsOneLine, InHead, Unread
<1> QED
  BY <1>5, <1>6, <1>7 DEF Inv

LEMMA ReadLineFailsKeeps ==
  ASSUME Inv, ReadLineFails
  PROVE  Inv'
<1>1. /\ context' = SetError(context, LineError)
      /\ UNCHANGED <<stream, received, buffer, stage>> /\ stage = "parsing"
  BY DEF ReadLineFails, AtLine, Receiving
<1>2. /\ context' \in Context /\ context'.recv_statu = "RECV_HTTP_ERROR"
      /\ context'.head_size = context.head_size
      /\ context'.body_length = context.body_length /\ context'.body = context.body
  BY <1>1, LineErrorIsStatus, ErrorIsTyped DEF Inv, TypeOK
<1> QED
  BY <1>1, <1>2 DEF Inv, TypeOK, BodyFits, HoardsOneLine, Unread

LEMMA ReadLineWaitsKeeps ==
  ASSUME Inv, ReadLineWaits
  PROVE  Inv'
<1>1. /\ UNCHANGED <<stream, received, buffer, context>> /\ stage = "parsing"
      /\ stage' = "waiting" /\ LineError = 0 /\ LineEnd = 0
  BY DEF ReadLineWaits, AtLine, Receiving
<1>2. Length = Len(buffer)
  BY <1>1, LineEnds DEF Inv, TypeOK
<1>3. HoardsOneLine'
  BY <1>1, <1>2, GoodLine DEF Inv, HoardsOneLine, InHead
<1> QED
  BY <1>1, <1>3 DEF Inv, TypeOK, BodyFits, Unread

LEMMA RecvHttpLineKeeps ==
  ASSUME Inv, RecvHttpLine
  PROVE  Inv'
<1>1. /\ context' = ParseHttpLine(context, Line) /\ buffer' = AfterLine
      /\ UNCHANGED <<stream, received, stage>> /\ stage = "parsing"
      /\ context.recv_statu = "RECV_HTTP_LINE"
  BY DEF RecvHttpLine, Receiving
<1>2. /\ context' \in Context
      /\ context'.recv_statu \in {"RECV_HTTP_HEAD", "RECV_HTTP_ERROR"}
      /\ context'.head_size = context.head_size
      /\ context'.body_length = context.body_length /\ context'.body = context.body
  BY <1>1, LineIsParsed DEF Inv, TypeOK
<1>3. /\ buffer' \in Seq(Symbol) /\ Len(buffer') <= received
      /\ \A i \in 1 .. Len(buffer') : buffer'[i] = stream[received - Len(buffer') + i]
  BY <1>1, LineEnds, TakenFromFront DEF Inv, TypeOK, AfterLine
<1>4. TypeOK' /\ HoardsOneLine' /\ Unread'
  BY <1>1, <1>2, <1>3 DEF Inv, TypeOK, HoardsOneLine, Unread
<1>5. BodyFits'
  BY <1>1, <1>2 DEF Inv, BodyFits
<1> QED
  BY <1>4, <1>5 DEF Inv

\* What a line of the head makes of the parser.
LEMMA HeadIsTaken ==
  ASSUME Inv, RecvHttpHead
  PROVE  /\ context' \in Context
         /\ context'.recv_statu \in {"RECV_HTTP_HEAD", "RECV_HTTP_BODY", "RECV_HTTP_ERROR"}
         /\ context'.head_size <= MAX_HEAD_SIZE
         /\ context'.body_length <= MAX_BODY_SIZE /\ context'.body = <<>>
<1> DEFINE c == [context EXCEPT !.head_size = @ + Length]
<1>1. /\ context' = IF Line = <<>> THEN EndOfHead(c) ELSE ParseHttpHead(c, Line)
      /\ InHead /\ LineError = 0
  BY DEF RecvHttpHead, Receiving, InHead
<1>2. context \in Context /\ context.body = <<>> /\ context.body_length <= MAX_BODY_SIZE
  BY <1>1 DEF Inv, TypeOK, BodyFits, InHead
<1>3. Length \in Nat /\ Length + context.head_size <= MAX_HEAD_SIZE
  BY <1>1, LineEnds, GoodLine DEF Inv, TypeOK
<1>4. context.head_size + Length \in Nat /\ context.head_size + Length <= MAX_HEAD_SIZE
  <2>1. context.head_size \in Nat
    BY <1>2 DEF Context
  <2> HIDE DEF c
  <2> QED
    BY <1>3, <2>1, LimitAssumption
<1>5. /\ c \in Context /\ c.head_size <= MAX_HEAD_SIZE /\ c.body = <<>>
      /\ c.body_length = context.body_length /\ c.recv_statu = "RECV_HTTP_HEAD"
  BY <1>1, <1>2, <1>4 DEF Context, InHead
<1> HIDE DEF c
<1> QED
  BY <1>1, <1>2, <1>5, HeadIsEnded, FieldIsParsed

LEMMA RecvHttpHeadKeeps ==
  ASSUME Inv, RecvHttpHead
  PROVE  Inv'
<1>1. /\ buffer' = AfterLine /\ UNCHANGED <<stream, received, stage>> /\ stage = "parsing"
  BY DEF RecvHttpHead, Receiving
<1>2. /\ context' \in Context
      /\ context'.head_size <= MAX_HEAD_SIZE
      /\ context'.recv_statu # "RECV_HTTP_OVER"
      /\ context'.body_length <= MAX_BODY_SIZE /\ context'.body = <<>>
  BY HeadIsTaken
<1>3. /\ buffer' \in Seq(Symbol) /\ Len(buffer') <= received
      /\ \A i \in 1 .. Len(buffer') : buffer'[i] = stream[received - Len(buffer') + i]
  BY <1>1, LineEnds, TakenFromFront DEF Inv, TypeOK, AfterLine
<1>4. TypeOK' /\ HoardsOneLine' /\ Unread'
  BY <1>1, <1>2, <1>3 DEF Inv, TypeOK, HoardsOneLine, Unread
<1>5. BodyFits'
  <2>1. Len(context'.body) = 0 /\ context'.body_length \in Nat
    BY <1>2, EmptySeq DEF Context
  <2> QED
    BY <1>2, <2>1 DEF BodyFits
<1> QED
  BY <1>4, <1>5 DEF Inv

\* A body takes what is there, up to its end.
LEMMA BodyTakes ==
  ASSUME Inv, RecvHttpBody
  PROVE  \E count \in 0 .. Len(buffer) :
           LET body == context.body \o SubSeq(buffer, 1, count)
               over == Len(body) = context.body_length
           IN  /\ body \in Seq(Symbol) /\ Len(body) = Len(context.body) + count
               /\ Len(body) <= context.body_length
               /\ \A i \in 1 .. Len(context.body) : body[i] = context.body[i]
               /\ \A i \in 1 .. count : body[Len(context.body) + i] = buffer[i]
               /\ context' = [context EXCEPT !.body = body,
                                !.recv_statu = IF over THEN "RECV_HTTP_OVER" ELSE @]
               /\ buffer' = SubSeq(buffer, count + 1, Len(buffer))
               /\ stage' = IF over THEN "parsing" ELSE "waiting"
               /\ ~over => count = Len(buffer)
<1> DEFINE remaining == context.body_length - Len(context.body)
           count == Fewer(remaining, Len(buffer))
           part == SubSeq(buffer, 1, count)
           body == context.body \o part
           n == Len(buffer)
           m == Len(context.body)
<1>1. /\ context' = [context EXCEPT !.body = body,
                       !.recv_statu = IF count = remaining THEN "RECV_HTTP_OVER" ELSE @]
      /\ buffer' = SubSeq(buffer, count + 1, Len(buffer))
      /\ stage' = IF count = remaining THEN "parsing" ELSE "waiting"
  BY DEF RecvHttpBody
<1>2. /\ buffer \in Seq(Symbol) /\ context.body \in Seq(Symbol) /\ context.body_length \in Nat
  BY DEF Inv, TypeOK, Context
<1>3. n \in Nat /\ m \in Nat /\ m <= context.body_length
  BY <1>2 DEF Inv, BodyFits
<1>4. /\ count \in 0 .. n /\ remaining = context.body_length - m /\ count <= remaining
      /\ remaining \in Nat /\ (count # remaining => count = n)
  <2> HIDE DEF n, m
  <2>1. remaining = context.body_length - m
    BY DEF m
  <2>2. remaining \in Nat
    BY <1>2, <1>3, <2>1
  <2>3. count = IF remaining < n THEN remaining ELSE n
    BY DEF Fewer, n
  <2> HIDE DEF remaining, count
  <2> QED
    BY <1>3, <2>1, <2>2, <2>3
<1>5. part \in Seq(Symbol) /\ Len(part) = count /\ \A i \in 1 .. count : part[i] = buffer[i]
  <2>1. \A i \in 1 .. count : buffer[i] \in Symbol
    <3>1. \A i \in 1 .. count : i \in 1 .. n
      <4> HIDE DEF n, count
      <4> QED
        BY <1>3, <1>4
    <3> QED
      BY <1>2, <3>1
  <2>2. /\ part \in Seq(Symbol)
        /\ Len(part) = IF 1 <= count THEN count - 1 + 1 ELSE 0
        /\ \A i \in 1 .. count - 1 + 1 : part[i] = buffer[1 + i - 1]
    BY <1>4, <2>1, SubSeqProperties
  <2> HIDE DEF count, part, n
  <2>3. count - 1 + 1 = count /\ \A i \in 1 .. count : 1 + i - 1 = i
    BY <1>3, <1>4
  <2> QED
    BY <1>3, <1>4, <2>2, <2>3
<1>6. /\ body \in Seq(Symbol) /\ Len(body) = m + count
      /\ \A i \in 1 .. m + count : body[i] = IF i <= m THEN context.body[i] ELSE part[i - m]
  BY <1>2, <1>5, ConcatProperties
<1> HIDE DEF body, part, count, n, m, remaining
<1>7. \A i \in 1 .. m : body[i] = context.body[i]
  <2>1. \A i \in 1 .. m : i \in 1 .. m + count /\ i <= m
    BY <1>3, <1>4
  <2> QED
    BY <1>6, <2>1
<1>8. \A i \in 1 .. count : body[m + i] = buffer[i]
  <2> SUFFICES ASSUME NEW i \in 1 .. count
               PROVE  body[m + i] = buffer[i]
    OBVIOUS
  <2> DEFINE j == m + i
  <2>1. j \in 1 .. m + count /\ ~(j <= m) /\ j - m = i
    BY <1>3, <1>4
  <2> HIDE DEF j
  <2>2. \A k \in 1 .. m + count : body[k] = IF k <= m THEN context.body[k] ELSE part[k - m]
    BY <1>6
  <2>3. body[j] = part[j - m]
    BY <2>1, <2>2
  <2>4. part[i] = buffer[i]
    BY <1>5
  <2> QED
    BY <2>1, <2>3, <2>4 DEF j
<1> DEFINE p == Len(body)
<1>9. p = m + count
  BY <1>6
<1> HIDE DEF p
<1>10. p <= context.body_length /\ (p = context.body_length <=> count = remaining)
  <2> DEFINE l == context.body_length
  <2>1. /\ l \in Nat /\ m \in Nat /\ count \in Nat /\ remaining = l - m
        /\ count <= remaining
    BY <1>2, <1>3, <1>4
  <2> HIDE DEF l
  <2>2. p <= l /\ (p = l <=> count = remaining)
    BY <1>9, <2>1
  <2> QED
    BY <2>2 DEF l
<1>11. /\ context' = [context EXCEPT !.body = body,
                        !.recv_statu = IF p = context.body_length THEN "RECV_HTTP_OVER" ELSE @]
       /\ stage' = IF p = context.body_length THEN "parsing" ELSE "waiting"
       /\ p # context.body_length => count = n
  BY <1>1, <1>4, <1>10
<1> QED
  BY <1>1, <1>4, <1>6, <1>7, <1>8, <1>9, <1>10, <1>11 DEF p, m, n, body, part

\* What that makes of the parser.
LEMMA RecvHttpBodyKeeps ==
  ASSUME Inv, RecvHttpBody
  PROVE  Inv'
<1>1. /\ UNCHANGED <<stream, received>> /\ stage = "parsing"
      /\ context.recv_statu = "RECV_HTTP_BODY"
  BY DEF RecvHttpBody, Receiving
<1>2. PICK count \in 0 .. Len(buffer) :
        LET body == context.body \o SubSeq(buffer, 1, count)
            over == Len(body) = context.body_length
        IN  /\ body \in Seq(Symbol) /\ Len(body) <= context.body_length
            /\ context' = [context EXCEPT !.body = body,
                             !.recv_statu = IF over THEN "RECV_HTTP_OVER" ELSE @]
            /\ buffer' = SubSeq(buffer, count + 1, Len(buffer))
            /\ stage' = IF over THEN "parsing" ELSE "waiting"
            /\ ~over => count = Len(buffer)
  BY BodyTakes
<1> DEFINE body == context.body \o SubSeq(buffer, 1, count)
           over == Len(body) = context.body_length
<1>3. /\ buffer' \in Seq(Symbol) /\ Len(buffer') = Len(buffer) - count
      /\ Len(buffer') <= received
      /\ \A i \in 1 .. Len(buffer') : buffer'[i] = stream[received - Len(buffer') + i]
  BY <1>1, <1>2, TakenFromFront DEF Inv
<1>4. /\ body \in Seq(Symbol) /\ Len(body) <= context.body_length
      /\ context' = [context EXCEPT !.body = body,
                       !.recv_statu = IF over THEN "RECV_HTTP_OVER" ELSE @]
      /\ stage' = IF over THEN "parsing" ELSE "waiting"
      /\ ~over => count = Len(buffer)
  BY <1>2
<1>5. over <=> Len(body) = context.body_length
  OBVIOUS
<1> HIDE DEF body, over
<1>6. /\ context' \in Context /\ context'.body = body
      /\ context'.recv_statu = IF over THEN "RECV_HTTP_OVER" ELSE "RECV_HTTP_BODY"
      /\ context'.head_size = context.head_size
      /\ context'.body_length = context.body_length
  <2>1. "RECV_HTTP_OVER" \in RecvStatu /\ context \in Context
    BY DEF RecvStatu, Inv, TypeOK
  <2> QED
    BY <1>1, <1>4, <2>1 DEF Context
<1>7. TypeOK' /\ Unread'
  <2>1. stage' \in {"parsing", "waiting"}
    BY <1>4
  <2> QED
    BY <1>1, <1>3, <1>6, <2>1 DEF Inv, TypeOK, Unread
<1>8. BodyFits'
  BY <1>4, <1>5, <1>6 DEF BodyFits
<1>9. HoardsOneLine'
  <2> DEFINE n == Len(buffer)
             p == Len(buffer')
  <2>1. n \in Nat /\ p = n - count
    BY <1>3 DEF Inv, TypeOK
  <2>2. stage' = "waiting" => count = n
    BY <1>4
  <2> HIDE DEF n, p
  <2>3. stage' = "waiting" => p = 0
    BY <2>1, <2>2
  <2>4. stage' = "waiting" => p <= MAX_LINE_SIZE
    BY <2>3, LimitAssumption
  <2>5. ~InHead'
    BY <1>6 DEF InHead
  <2> QED
    BY <2>4, <2>5 DEF HoardsOneLine, p
<1> QED
  BY <1>7, <1>8, <1>9 DEF Inv

LEMMA TakeRequestKeeps ==
  ASSUME Inv, TakeRequest
  PROVE  Inv'
<1>1. /\ context' = Cleared /\ UNCHANGED <<stream, received, buffer>>
      /\ stage' = IF buffer = <<>> THEN "waiting" ELSE "parsing"
      /\ stage = "parsing"
  BY DEF TakeRequest, Receiving
<1>2. /\ context' \in Context /\ context'.head_size = 0 /\ context'.body_length = 0
      /\ context'.recv_statu = "RECV_HTTP_LINE" /\ context'.body = <<>>
  BY <1>1, ClearedIsTyped DEF Cleared
<1>3. stage' \in {"parsing", "waiting"} /\ (stage' = "waiting" => buffer' = <<>>)
  BY <1>1
<1>4. TypeOK' /\ Unread'
  BY <1>1, <1>2, <1>3, LimitAssumption DEF Inv, TypeOK, Unread
<1>5. BodyFits'
  BY <1>1, <1>2, ClearedIsTyped DEF BodyFits
<1>6. HoardsOneLine'
  BY <1>2, <1>3, LimitAssumption, EmptySeq DEF HoardsOneLine, InHead
<1> QED
  BY <1>4, <1>5, <1>6 DEF Inv

LEMMA TakeErrorKeeps ==
  ASSUME Inv, TakeError
  PROVE  Inv'
<1>1. /\ UNCHANGED <<stream, received, context>> /\ buffer' = <<>> /\ stage' = "closed"
  BY DEF TakeError
<1>2. buffer' \in Seq(Symbol)
  BY <1>1, EmptySeq
<1> QED
  BY <1>1, <1>2 DEF Inv, TypeOK, BodyFits, HoardsOneLine, Unread

\* What arrives follows what was received, and is put behind what is buffered.
LEMMA ReceiveKeeps ==
  ASSUME Inv, Receive
  PROVE  Inv' /\ received' - Len(buffer') = received - Len(buffer)
<1>1. PICK n \in received + 1 .. Len(stream) :
        buffer' = buffer \o SubSeq(stream, received + 1, n) /\ received' = n
  BY DEF Receive
<1>2. /\ stage = "waiting" /\ stage' = "parsing" /\ UNCHANGED <<stream, context>>
  BY DEF Receive
<1> DEFINE l == Len(stream)
           m == Len(buffer)
           part == SubSeq(stream, received + 1, n)
<1>3. /\ stream \in Seq(Symbol) /\ buffer \in Seq(Symbol)
      /\ l \in Nat /\ m \in Nat /\ received \in 0 .. l
      /\ n \in received + 1 .. l
  BY <1>1, StreamAssumption DEF Inv, TypeOK
<1>4. m <= received /\ \A i \in 1 .. m : buffer[i] = stream[received - m + i]
  BY <1>2 DEF Inv, Unread
<1>5. /\ part \in Seq(Symbol) /\ Len(part) = n - received
      /\ \A i \in 1 .. n - received : part[i] = stream[received + i]
  <2>1. \A i \in received + 1 .. n : stream[i] \in Symbol
    <3>1. \A i \in received + 1 .. n : i \in 1 .. l
      <4> HIDE DEF l
      <4> QED
        BY <1>3
    <3> QED
      BY <1>3, <3>1
  <2>2. received + 1 \in 1 .. n + 1 /\ n \in Nat /\ received + 1 <= n
    <3> HIDE DEF l
    <3> QED
      BY <1>3
  <2>3. /\ part \in Seq(Symbol)
        /\ Len(part) = IF received + 1 <= n THEN n - (received + 1) + 1 ELSE 0
        /\ \A i \in 1 .. n - (received + 1) + 1 : part[i] = stream[received + 1 + i - 1]
    BY <2>1, <2>2, SubSeqProperties
  <2> HIDE DEF part, l
  <2>4. received \in Nat /\ n \in Nat
    BY <1>3
  <2>5. n - (received + 1) + 1 = n - received
    BY <2>4
  <2>6. \A i \in 1 .. n - received : received + 1 + i - 1 = received + i
    BY <2>4
  <2> QED
    BY <2>2, <2>3, <2>5, <2>6
<1>6. /\ buffer' \in Seq(Symbol) /\ Len(buffer') = m + Len(part)
      /\ \A i \in 1 .. m + Len(part) :
           buffer'[i] = IF i <= m THEN buffer[i] ELSE part[i - m]
  BY <1>1, <1>3, <1>5, ConcatProperties
<1> DEFINE p == Len(buffer')
<1> HIDE DEF l, m, part, p
<1>7. p = m + (n - received) /\ p <= n /\ received' = n /\ n \in 0 .. l
  BY <1>1, <1>3, <1>4, <1>5, <1>6 DEF p
<1>8. ASSUME NEW i \in 1 .. p
      PROVE  buffer'[i] = stream[n - p + i]
  <2>1. CASE i <= m
    <3>1. i \in 1 .. m /\ n - p + i = received - m + i /\ i \in 1 .. m + Len(part)
      BY <1>3, <1>5, <1>7, <2>1
    <3> QED
      BY <1>4, <1>6, <2>1, <3>1
  <2>2. CASE ~(i <= m)
    <3>1. /\ i - m \in 1 .. n - received /\ n - p + i = received + (i - m)
          /\ i \in 1 .. m + Len(part)
      BY <1>3, <1>5, <1>7, <2>2
    <3> QED
      BY <1>5, <1>6, <2>2, <3>1
  <2> QED
    BY <2>1, <2>2
<1>9. TypeOK'
  BY <1>2, <1>6, <1>7 DEF Inv, TypeOK, l
<1>10. Unread'
  BY <1>2, <1>7, <1>8 DEF Unread, p
<1>11. BodyFits' /\ HoardsOneLine'
  BY <1>2 DEF Inv, BodyFits, HoardsOneLine
<1>12. received' - p = received - m
  BY <1>3, <1>7
<1> QED
  BY <1>9, <1>10, <1>11, <1>12 DEF Inv, p, m

LEMMA Inductively ==
  ASSUME Inv, [Next]_vars
  PROVE  Inv'
<1>1. CASE UNCHANGED vars
  BY <1>1 DEF Inv, TypeOK, BodyFits, HoardsOneLine, InHead, Unread, vars
<1> QED
  BY <1>1, ReceiveKeeps, ReadLineFailsKeeps, ReadLineWaitsKeeps, RecvHttpLineKeeps,
     RecvHttpHeadKeeps, RecvHttpBodyKeeps, TakeRequestKeeps, TakeErrorKeeps
  DEF Next, Parse

-----------------------------------------------------------------------------
(* The body and the stream *)

LEMMA BodyTakenFirst == Init => BodyTaken
<1>1. Cleared.recv_statu = "RECV_HTTP_LINE"
  BY DEF Cleared
<1>2. Init => context = Cleared
  BY DEF Init
<1> QED
  BY <1>1, <1>2 DEF BodyTaken

LEMMA BodyGrows ==
  ASSUME Inv, BodyTaken, RecvHttpBody
  PROVE  BodyTaken'
<1>1. /\ UNCHANGED <<stream, received>> /\ stage = "parsing"
      /\ context.recv_statu = "RECV_HTTP_BODY"
  BY DEF RecvHttpBody, Receiving
<1>2. PICK count \in 0 .. Len(buffer) :
        LET body == context.body \o SubSeq(buffer, 1, count)
            over == Len(body) = context.body_length
        IN  /\ body \in Seq(Symbol) /\ Len(body) = Len(context.body) + count
            /\ \A i \in 1 .. Len(context.body) : body[i] = context.body[i]
            /\ \A i \in 1 .. count : body[Len(context.body) + i] = buffer[i]
            /\ context' = [context EXCEPT !.body = body,
                             !.recv_statu = IF over THEN "RECV_HTTP_OVER" ELSE @]
            /\ buffer' = SubSeq(buffer, count + 1, Len(buffer))
            /\ ~over => count = Len(buffer)
  BY BodyTakes
<1> DEFINE body == context.body \o SubSeq(buffer, 1, count)
           over == Len(body) = context.body_length
           m == Len(context.body)
           n == Len(buffer)
<1>3. Len(buffer') = n - count /\ Len(buffer') \in Nat
  BY <1>1, <1>2, TakenFromFront DEF Inv
<1>4. /\ Len(body) = m + count
      /\ \A i \in 1 .. m : body[i] = context.body[i]
      /\ \A i \in 1 .. count : body[m + i] = buffer[i]
      /\ context' = [context EXCEPT !.body = body,
                       !.recv_statu = IF over THEN "RECV_HTTP_OVER" ELSE @]
      /\ ~over => count = n
  BY <1>2
<1>5. /\ m \in Nat /\ n \in Nat /\ received \in Nat /\ m + n <= received
      /\ \A i \in 1 .. m : context.body[i] = stream[received - n - m + i]
      /\ \A i \in 1 .. n : buffer[i] = stream[received - n + i]
  <2>1. context.body \in Seq(Symbol) /\ buffer \in Seq(Symbol)
    BY DEF Inv, TypeOK, Context
  <2>2. received \in Nat
    BY DEF Inv, TypeOK
  <2> QED
    BY <1>1, <2>1, <2>2 DEF Inv, Unread, BodyTaken
<1>6. context \in Context
  BY DEF Inv, TypeOK
<1> HIDE DEF body, over, m, n
<1>7. context'.body = body /\ (context'.recv_statu = "RECV_HTTP_BODY" => ~over)
  BY <1>4, <1>6 DEF Context
<1>8. CASE over
  BY <1>7, <1>8 DEF BodyTaken
<1>9. CASE ~over
  <2> DEFINE p == Len(buffer')
             q == Len(context'.body)
  <2>1. count = n /\ p = 0 /\ q = m + n
    BY <1>3, <1>4, <1>5, <1>7, <1>9
  <2> HIDE DEF p, q
  <2>2. q + p <= received /\ received - p - q = received - n - m
    BY <1>5, <2>1
  <2>3. ASSUME NEW i \in 1 .. q
        PROVE  body[i] = stream[received - p - q + i]
    <3>1. CASE i <= m
      <4>1. i \in 1 .. m
        BY <1>5, <2>1, <3>1
      <4>2. body[i] = context.body[i] /\ context.body[i] = stream[received - n - m + i]
        BY <1>4, <1>5, <4>1
      <4> QED
        BY <2>2, <4>2
    <3>2. CASE ~(i <= m)
      <4> DEFINE j == i - m
      <4>1. j \in 1 .. n /\ m + j = i /\ received - n + j = received - p - q + i
        BY <1>5, <2>1, <3>2
      <4> HIDE DEF j
      <4>2. body[m + j] = buffer[j] /\ buffer[j] = stream[received - n + j]
        BY <1>4, <1>5, <2>1, <4>1
      <4> QED
        BY <4>1, <4>2
    <3> QED
      BY <3>1, <3>2
  <2> QED
    BY <1>1, <1>7, <2>2, <2>3 DEF BodyTaken, p, q
<1> QED
  BY <1>8, <1>9

LEMMA BodyTakenKept ==
  ASSUME Inv, BodyTaken, [Next]_vars
  PROVE  BodyTaken'
<1>1. CASE UNCHANGED vars
  BY <1>1 DEF BodyTaken, vars
<1>2. CASE Receive
  <2>1. /\ UNCHANGED <<stream, context>> /\ received' - Len(buffer') = received - Len(buffer)
        /\ Inv' /\ received \in Nat /\ received' \in Nat
        /\ Len(buffer) \in Nat /\ Len(buffer') \in Nat
        /\ Len(context.body) \in Nat
    <3>1. UNCHANGED <<stream, context>> /\ context.body \in Seq(Symbol)
      BY <1>2 DEF Receive, Inv, TypeOK, Context
    <3>2. Inv' /\ received' - Len(buffer') = received - Len(buffer)
      BY <1>2, ReceiveKeeps
    <3> QED
      BY <3>1, <3>2 DEF Inv, TypeOK
  <2> DEFINE m == Len(context.body)
             n == Len(buffer)
             p == Len(buffer')
  <2> HIDE DEF m, n, p
  <2>2. m + n <= received => m + p <= received'
    BY <2>1 DEF m, n, p
  <2>3. received' - p - m = received - n - m
    BY <2>1 DEF n, p
  <2> QED
    BY <2>1, <2>2, <2>3 DEF BodyTaken, m, n, p
<1>3. CASE ReadLineFails
  <2>1. context'.recv_statu = "RECV_HTTP_ERROR"
    BY <1>3, LineErrorIsStatus, ErrorIsTyped DEF ReadLineFails, Inv, TypeOK
  <2> QED
    BY <2>1 DEF BodyTaken
<1>4. CASE ReadLineWaits
  BY <1>4 DEF ReadLineWaits, BodyTaken
<1>5. CASE RecvHttpLine
  <2>1. context'.recv_statu # "RECV_HTTP_BODY"
    BY <1>5, LineIsParsed DEF RecvHttpLine, Inv, TypeOK
  <2> QED
    BY <2>1 DEF BodyTaken
<1>6. CASE RecvHttpHead
  <2>1. /\ context'.body = <<>> /\ Len(context'.body) = 0
        /\ Len(buffer') \in Nat /\ Len(buffer') <= received' /\ received' \in Nat
    <3>1. context'.body = <<>> /\ stage' # "closed"
      BY <1>6, HeadIsTaken DEF RecvHttpHead, Receiving
    <3> QED
      BY <1>6, <3>1, RecvHttpHeadKeeps, EmptySeq DEF Inv, TypeOK, Unread
  <2> QED
    BY <2>1 DEF BodyTaken
<1>7. CASE RecvHttpBody
  BY <1>7, BodyGrows
<1>8. CASE TakeRequest
  BY <1>8 DEF TakeRequest, Cleared, BodyTaken
<1>9. CASE TakeError
  BY <1>9 DEF TakeError, Receiving, BodyTaken
<1> QED
  BY <1>1, <1>2, <1>3, <1>4, <1>5, <1>6, <1>7, <1>8, <1>9 DEF Next, Parse

-----------------------------------------------------------------------------
(* The parser at once *)

\* It has the same helpers: they depend on no variable.
LEMMA SameHelpers ==
  /\ Uncut!Cleared = Cleared
  /\ \A c, statu : Uncut!SetError(c, statu) = SetError(c, statu)
  /\ \A text : Uncut!EndOfLine(text) = EndOfLine(text)
  /\ \A c, line : Uncut!ParseHttpLine(c, line) = ParseHttpLine(c, line)
  /\ \A c, line : Uncut!ParseHttpHead(c, line) = ParseHttpHead(c, line)
  /\ \A c : Uncut!EndOfHead(c) = EndOfHead(c)
  /\ \A m, n : Uncut!Fewer(m, n) = Fewer(m, n)
  /\ \A statu, version, body : Uncut!Result(statu, version, body) = Result(statu, version, body)
<1>1. Uncut!Cleared = Cleared
  BY DEF Cleared, Uncut!Cleared
<1>2. \A c, statu : Uncut!SetError(c, statu) = SetError(c, statu)
  BY DEF SetError, Uncut!SetError
<1>3. \A text : Uncut!EndOfLine(text) = EndOfLine(text)
  BY DEF EndOfLine, Uncut!EndOfLine, LF, Uncut!LF
<1>4. \A c, line : Uncut!ParseHttpLine(c, line) = ParseHttpLine(c, line)
  BY <1>2 DEF ParseHttpLine, Uncut!ParseHttpLine, RequestLines, Uncut!RequestLines
<1>5. /\ \A field : Uncut!Name(field) = Name(field)
      /\ \A line : Uncut!IsField(line) <=> IsField(line)
      /\ \A field : Uncut!Lengths[field] = Lengths[field]
  BY DEF Name, Uncut!Name, IsField, Uncut!IsField, Fields, Uncut!Fields,
         Lengths, Uncut!Lengths
<1>6. ASSUME NEW c, NEW line
      PROVE  Uncut!ParseHttpHead(c, line) = ParseHttpHead(c, line)
  <2> DEFINE field == line[1]
             name == Name(field)
             length == IF name = "Content-Length" THEN Lengths[field] ELSE c.body_length
             d == [c EXCEPT !.headers = c.headers \cup {name}, !.body_length = length]
  <2>1. /\ Uncut!Name(field) = name /\ Uncut!Lengths[field] = Lengths[field]
        /\ Uncut!IsField(line) <=> IsField(line)
    BY <1>5
  <2>2. ParseHttpHead(c, line) =
          IF ~IsField(line) THEN SetError(c, 400)
          ELSE IF name \in {"Content-Length", "Host"} /\ name \in c.headers
               THEN SetError(c, 400)
          ELSE IF name = "Content-Length" /\ Lengths[field] > MAX_BODY_SIZE
               THEN SetError(c, 413)
          ELSE d
    BY DEF ParseHttpHead
  <2>3. Uncut!ParseHttpHead(c, line) =
          IF ~IsField(line) THEN SetError(c, 400)
          ELSE IF name \in {"Content-Length", "Host"} /\ name \in c.headers
               THEN SetError(c, 400)
          ELSE IF name = "Content-Length" /\ Lengths[field] > MAX_BODY_SIZE
               THEN SetError(c, 413)
          ELSE d
    BY <1>2, <2>1 DEF Uncut!ParseHttpHead
  <2> QED
    BY <2>2, <2>3
<1>7. \A c : Uncut!EndOfHead(c) = EndOfHead(c)
  BY <1>2 DEF EndOfHead, Uncut!EndOfHead
<1>8. /\ \A m, n : Uncut!Fewer(m, n) = Fewer(m, n)
      /\ \A statu, version, body : Uncut!Result(statu, version, body) = Result(statu, version, body)
  BY DEF Fewer, Uncut!Fewer, Result, Uncut!Result
<1> QED
  BY <1>1, <1>2, <1>3, <1>4, <1>6, <1>7, <1>8

\* Texts with the same symbols up to a place have the same front.
LEMMA SameFronts ==
  ASSUME NEW s \in Seq(Symbol), NEW t \in Seq(Symbol),
         NEW k \in Nat, k <= Len(s), k <= Len(t),
         \A i \in 1 .. k : s[i] = t[i]
  PROVE  SubSeq(s, 1, k) = SubSeq(t, 1, k)
  OBVIOUS

\* Its buffer is the rest of the stream.
LEMMA RestOfStream ==
  ASSUME Inv, BodyTaken, stage # "closed"
  PROVE  /\ Begun \in Nat /\ Taken \in Nat
         /\ Taken + Begun + Len(buffer) = received /\ received <= Len(stream)
         /\ UncutBuffer = SubSeq(stream, Taken + 1, Len(stream))
         /\ UncutBuffer \in Seq(Symbol) /\ Len(UncutBuffer) = Len(stream) - Taken
         /\ \A i \in 1 .. Len(stream) - Taken : UncutBuffer[i] = stream[Taken + i]
<1> DEFINE l == Len(stream)
           n == Len(buffer)
<1>1. /\ stream \in Seq(Symbol) /\ l \in Nat /\ n \in Nat
      /\ received \in Nat /\ received <= l /\ n <= received
  <2>1. stream \in Seq(Symbol) /\ buffer \in Seq(Symbol) /\ received \in 0 .. l
    BY StreamAssumption DEF Inv, TypeOK
  <2>2. l \in Nat /\ n \in Nat
    BY <2>1
  <2>3. n <= received
    BY DEF Inv, Unread
  <2> HIDE DEF l, n
  <2> QED
    BY <2>1, <2>2, <2>3
<1>2. Begun \in Nat /\ Begun + n <= received
  <2>1. CASE InBody
    <3>1. context.recv_statu = "RECV_HTTP_BODY" /\ context.body \in Seq(Symbol)
      BY <2>1 DEF InBody, Inv, TypeOK, Context
    <3>2. Len(context.body) \in Nat /\ Len(context.body) + n <= received
      BY <3>1 DEF BodyTaken
    <3> QED
      BY <2>1, <3>2 DEF Begun
  <2>2. CASE ~InBody
    BY <1>1, <2>2 DEF Begun
  <2> QED
    BY <2>1, <2>2
<1>3. Taken = received - n - Begun
  BY DEF Taken
<1> HIDE DEF n, l
<1>4. Taken \in Nat /\ Taken + Begun + n = received /\ Taken <= l
  BY <1>1, <1>2, <1>3
<1>5. UncutBuffer = SubSeq(stream, Taken + 1, l)
  BY DEF UncutBuffer, l
<1>6. /\ UncutBuffer \in Seq(Symbol) /\ Len(UncutBuffer) = l - Taken
      /\ \A i \in 1 .. l - Taken : UncutBuffer[i] = stream[Taken + i]
  <2>1. Taken \in 0 .. l
    BY <1>1, <1>4
  <2> QED
    BY <1>1, <1>5, <2>1, BehindFront DEF l
<1> QED
  BY <1>1, <1>2, <1>4, <1>5, <1>6 DEF n, l

\* Where the parser has gone on, so has the parser at once.
LEMMA Advance ==
  ASSUME Inv, BodyTaken, stage # "closed", stage' # "closed", UNCHANGED stream,
         NEW k \in 0 .. Len(UncutBuffer), Taken' = Taken + k
  PROVE  /\ UncutBuffer' = SubSeq(UncutBuffer, k + 1, Len(UncutBuffer))
         /\ k = 0 => UncutBuffer' = UncutBuffer
<1> DEFINE l == Len(stream)
           n == Len(UncutBuffer)
           s == SubSeq(stream, Taken + k + 1, l)
           t == SubSeq(UncutBuffer, k + 1, n)
<1>1. UncutBuffer' = s
  BY DEF UncutBuffer
<1>2. /\ Taken \in Nat /\ Taken <= l /\ n = l - Taken
      /\ UncutBuffer = SubSeq(stream, Taken + 1, l) /\ UncutBuffer \in Seq(Symbol)
      /\ \A i \in 1 .. n : UncutBuffer[i] = stream[Taken + i]
      /\ stream \in Seq(Symbol) /\ l \in Nat /\ n \in Nat
  <2>1. stream \in Seq(Symbol) /\ received \in 0 .. l
    BY StreamAssumption DEF Inv, TypeOK
  <2>2. l \in Nat
    BY <2>1
  <2>3. /\ Taken \in Nat /\ Begun \in Nat /\ Len(buffer) \in Nat
        /\ Taken + Begun + Len(buffer) = received /\ received <= l
    BY RestOfStream DEF Inv, TypeOK
  <2>4. /\ UncutBuffer = SubSeq(stream, Taken + 1, l) /\ UncutBuffer \in Seq(Symbol)
        /\ n = l - Taken
        /\ \A i \in 1 .. l - Taken : UncutBuffer[i] = stream[Taken + i]
    BY RestOfStream
  <2>5. Taken <= l
    <3> HIDE DEF l
    <3> QED
      BY <2>2, <2>3
  <2> QED
    BY <2>1, <2>2, <2>3, <2>4, <2>5
<1>3. k \in Nat /\ k <= n
  BY <1>2
<1> HIDE DEF l, n
<1>4. /\ s \in Seq(Symbol) /\ Len(s) = n - k
      /\ \A i \in 1 .. n - k : s[i] = stream[Taken + k + i]
  <2>1. Taken + k \in 0 .. l /\ l - (Taken + k) = n - k
    BY <1>2, <1>3
  <2>2. /\ s \in Seq(Symbol) /\ Len(s) = l - (Taken + k)
        /\ \A i \in 1 .. l - (Taken + k) : s[i] = stream[Taken + k + i]
    BY <1>2, <2>1, BehindFront DEF l
  <2> QED
    BY <2>1, <2>2
<1>5. /\ t \in Seq(Symbol) /\ Len(t) = n - k
      /\ \A i \in 1 .. n - k : t[i] = UncutBuffer[k + i]
  BY <1>2, BehindFront DEF n
<1> HIDE DEF s, t
<1>6. \A i \in 1 .. n - k : s[i] = t[i]
  <2> SUFFICES ASSUME NEW i \in 1 .. n - k
               PROVE  s[i] = t[i]
    OBVIOUS
  <2>1. k + i \in 1 .. n /\ Taken + k + i = Taken + (k + i)
    BY <1>2, <1>3
  <2> QED
    BY <1>2, <1>4, <1>5, <2>1
<1>7. s = t
  BY <1>4, <1>5, <1>6, SeqEqual
<1>8. k = 0 => s = UncutBuffer
  <2>1. k = 0 => Taken + k + 1 = Taken + 1
    BY <1>2
  <2> QED
    BY <1>2, <2>1 DEF s
<1> QED
  BY <1>1, <1>7, <1>8 DEF t, n

\* While no body is unfinished, the buffer is the front of that rest.
LEMMA FrontOfRest ==
  ASSUME Inv, BodyTaken, stage # "closed", ~InBody
  PROVE  /\ UncutContext = context /\ Begun = 0 /\ Taken = received - Len(buffer)
         /\ Len(buffer) <= Len(UncutBuffer)
         /\ \A i \in 1 .. Len(buffer) : UncutBuffer[i] = buffer[i]
         /\ IF received = Len(stream) THEN UncutBuffer = buffer
                                      ELSE Len(buffer) < Len(UncutBuffer)
<1> DEFINE l == Len(stream)
           n == Len(buffer)
           p == Len(UncutBuffer)
<1>1. UncutContext = context /\ Begun = 0
  BY DEF UncutContext, Begun
<1>2. /\ Taken \in Nat /\ Taken + 0 + n = received /\ received <= l /\ p = l - Taken
      /\ UncutBuffer \in Seq(Symbol)
      /\ \A i \in 1 .. l - Taken : UncutBuffer[i] = stream[Taken + i]
  BY <1>1, RestOfStream
<1>3. /\ buffer \in Seq(Symbol) /\ n \in Nat /\ l \in Nat
      /\ \A i \in 1 .. n : buffer[i] = stream[received - n + i]
  <2>1. stream \in Seq(Symbol) /\ buffer \in Seq(Symbol)
    BY StreamAssumption DEF Inv, TypeOK
  <2>2. n \in Nat /\ l \in Nat
    BY <2>1
  <2> QED
    BY <2>1, <2>2 DEF Inv, Unread
<1>4. received \in Nat
  BY DEF Inv, TypeOK
<1> HIDE DEF l, n, p
<1>5. /\ Taken = received - n /\ n <= p
      /\ (received = l => p = n) /\ (received # l => n < p)
  BY <1>2, <1>3, <1>4
<1>6. \A i \in 1 .. n : UncutBuffer[i] = buffer[i]
  <2> SUFFICES ASSUME NEW i \in 1 .. n
               PROVE  UncutBuffer[i] = buffer[i]
    OBVIOUS
  <2>1. i \in 1 .. l - Taken
    BY <1>2, <1>3, <1>4, <1>5
  <2> QED
    BY <1>2, <1>3, <1>5, <2>1
<1>7. received = l => UncutBuffer = buffer
  BY <1>2, <1>3, <1>5, <1>6, SeqEqual DEF n, p
<1> QED
  BY <1>1, <1>5, <1>6, <1>7 DEF l, n, p

\* Of a line that is there it makes the same, and it finds the same error.
LEMMA SameLine ==
  ASSUME Inv, BodyTaken, stage # "closed", ~InBody
  PROVE  /\ Uncut!InHead <=> InHead
         /\ LineEnd # 0 \/ received = Len(stream) =>
              Uncut!LineEnd = LineEnd /\ Uncut!Length = Length /\ Uncut!LineError = LineError
         /\ LineError # 0 => Uncut!LineError = LineError
<1> DEFINE n == Len(buffer)
           p == Len(UncutBuffer)
<1>1. /\ UncutContext = context /\ n <= p
      /\ \A i \in 1 .. n : UncutBuffer[i] = buffer[i]
      /\ received = Len(stream) => UncutBuffer = buffer
  BY FrontOfRest
<1>2. buffer \in Seq(Symbol) /\ UncutBuffer \in Seq(Symbol) /\ n \in Nat /\ p \in Nat
  BY RestOfStream DEF Inv, TypeOK
<1>3. Uncut!InHead <=> InHead
  BY <1>1 DEF InHead, Uncut!InHead
<1>4. Uncut!LineEnd = EndOfLine(UncutBuffer) /\ LineEnd = EndOfLine(buffer)
  BY SameHelpers DEF LineEnd, Uncut!LineEnd
<1>5. /\ LineEnd # 0 => Uncut!LineEnd = LineEnd
      /\ LineEnd = 0 => Uncut!LineEnd = 0 \/ Uncut!LineEnd > n
      /\ received = Len(stream) => Uncut!LineEnd = LineEnd
  BY <1>1, <1>2, <1>4, EndStays
<1>6. LineEnd \in 0 .. n /\ Uncut!LineEnd \in 0 .. p
  BY <1>2, <1>4, EndsOfLine
<1>7. /\ Length = IF LineEnd = 0 THEN n ELSE LineEnd
      /\ Uncut!Length = IF Uncut!LineEnd = 0 THEN p ELSE Uncut!LineEnd
  BY DEF Length, Uncut!Length
<1> HIDE DEF n, p
<1>8. /\ Length \in Nat /\ Uncut!Length \in Nat /\ Length <= Uncut!Length
      /\ LineEnd # 0 => Uncut!Length = Length /\ Length \in 1 .. n
  BY <1>1, <1>2, <1>5, <1>6, <1>7
<1>9. received = Len(stream) => Uncut!Length = Length
  BY <1>1, <1>5, <1>7 DEF n, p
<1>10. LineEnd # 0 => (Length < 2 \/ buffer[Length - 1] # CR <=>
                       Length < 2 \/ UncutBuffer[Length - 1] # CR)
  <2>1. LineEnd # 0 /\ ~(Length < 2) => Length - 1 \in 1 .. n
    BY <1>2, <1>8
  <2> QED
    BY <1>1, <2>1
<1> DEFINE bad == Length < 2 \/ buffer[Length - 1] # CR
           broken == Uncut!Length < 2 \/ UncutBuffer[Uncut!Length - 1] # CR
<1>11. /\ LineError =
            IF Length > MAX_LINE_SIZE THEN IF InHead THEN 431 ELSE 414
            ELSE IF InHead /\ Length > MAX_HEAD_SIZE - context.head_size THEN 431
            ELSE IF LineEnd # 0 /\ bad THEN 400 ELSE 0
       /\ Uncut!LineError =
            IF Uncut!Length > MAX_LINE_SIZE THEN IF InHead THEN 431 ELSE 414
            ELSE IF InHead /\ Uncut!Length > MAX_HEAD_SIZE - context.head_size THEN 431
            ELSE IF Uncut!LineEnd # 0 /\ broken THEN 400 ELSE 0
  BY <1>1, <1>3 DEF LineError, Uncut!LineError, CR, Uncut!CR
<1>12. LineEnd # 0 \/ received = Len(stream) =>
         Uncut!LineEnd = LineEnd /\ Uncut!Length = Length
  BY <1>5, <1>8, <1>9
<1>13. LineEnd # 0 => (bad <=> broken)
  BY <1>8, <1>10
<1> HIDE DEF bad, broken
<1>14. LineEnd # 0 \/ received = Len(stream) => Uncut!LineError = LineError
  BY <1>11, <1>12, <1>13
<1>15. LineEnd = 0 /\ LineError # 0 => Uncut!LineError = LineError
  <2>1. context.head_size \in Nat
    BY DEF Inv, TypeOK, Context
  <2> DEFINE left == MAX_HEAD_SIZE - context.head_size
  <2>2. left \in Int
    BY <2>1, LimitAssumption
  <2>3. /\ LineError =
             IF Length > MAX_LINE_SIZE THEN IF InHead THEN 431 ELSE 414
             ELSE IF InHead /\ Length > left THEN 431
             ELSE IF LineEnd # 0 /\ bad THEN 400 ELSE 0
        /\ Uncut!LineError =
             IF Uncut!Length > MAX_LINE_SIZE THEN IF InHead THEN 431 ELSE 414
             ELSE IF InHead /\ Uncut!Length > left THEN 431
             ELSE IF Uncut!LineEnd # 0 /\ broken THEN 400 ELSE 0
    BY <1>11
  <2> HIDE DEF left
  <2>4. /\ Length > MAX_LINE_SIZE => Uncut!Length > MAX_LINE_SIZE
        /\ Length > left => Uncut!Length > left
    BY <1>8, <2>2, LimitAssumption
  <2> QED
    BY <2>3, <2>4
<1> QED
  BY <1>3, <1>12, <1>14, <1>15

LEMMA SameText ==
  ASSUME Inv, BodyTaken, stage # "closed", ~InBody, LineError = 0, LineEnd # 0
  PROVE  Uncut!Line = Line /\ LineEnd \in 0 .. Len(UncutBuffer)
<1> DEFINE k == LineEnd - 2
<1>1. /\ Len(buffer) <= Len(UncutBuffer) /\ Uncut!LineEnd = LineEnd
      /\ \A i \in 1 .. Len(buffer) : UncutBuffer[i] = buffer[i]
      /\ buffer \in Seq(Symbol) /\ UncutBuffer \in Seq(Symbol)
      /\ Len(buffer) \in Nat /\ Len(UncutBuffer) \in Nat
  <2>1. /\ Len(buffer) <= Len(UncutBuffer)
        /\ \A i \in 1 .. Len(buffer) : UncutBuffer[i] = buffer[i]
    BY FrontOfRest
  <2>2. Uncut!LineEnd = LineEnd
    BY SameLine
  <2>3. buffer \in Seq(Symbol) /\ UncutBuffer \in Seq(Symbol)
    BY RestOfStream DEF Inv, TypeOK
  <2>4. Len(buffer) \in Nat /\ Len(UncutBuffer) \in Nat
    BY <2>3
  <2> QED
    BY <2>1, <2>2, <2>3, <2>4
<1>2. LineEnd \in 1 .. Len(buffer) /\ ~(LineEnd < 2)
  <2>1. LineEnd \in 0 .. Len(buffer) /\ Length = LineEnd
    BY LineEnds DEF Length, Inv, TypeOK
  <2>2. ~(Length < 2)
    BY DEF LineError
  <2> QED
    BY <1>1, <2>1, <2>2
<1>3. /\ k \in Nat /\ k <= Len(buffer) /\ k <= Len(UncutBuffer)
      /\ LineEnd \in 0 .. Len(UncutBuffer)
  BY <1>1, <1>2
<1> HIDE DEF k
<1>4. \A i \in 1 .. k : UncutBuffer[i] = buffer[i]
  <2>1. \A i \in 1 .. k : i \in 1 .. Len(buffer)
    BY <1>1, <1>3
  <2> QED
    BY <1>1, <2>1
<1>5. SubSeq(UncutBuffer, 1, k) = SubSeq(buffer, 1, k)
  BY <1>1, <1>3, <1>4, SameFronts
<1> QED
  BY <1>1, <1>3, <1>5 DEF Line, Uncut!Line, k

-----------------------------------------------------------------------------
(* Every step is one of the parser at once, or none for it *)

\* Nothing is taken, and no body is unfinished, before and after.
LEMMA Stays ==
  ASSUME Inv, BodyTaken, stage # "closed", stage' # "closed", UNCHANGED stream,
         ~InBody, ~InBody', received' - Len(buffer') = received - Len(buffer)
  PROVE  /\ UncutContext = context /\ UncutContext' = context'
         /\ UncutBuffer' = UncutBuffer
<1>1. UncutContext = context /\ Taken = received - Len(buffer)
  BY FrontOfRest
<1>2. UncutContext' = context' /\ Begun' = 0
  BY DEF UncutContext, Begun
<1>3. Taken \in Nat /\ Len(UncutBuffer) \in Nat
  BY RestOfStream
<1> DEFINE taken == received - Len(buffer)
<1>4. Taken' = received' - Len(buffer') - Begun'
  BY DEF Taken
<1>5. received' - Len(buffer') = taken /\ Taken = taken
  BY <1>1
<1> HIDE DEF taken
<1>6. Taken' = Taken + 0
  BY <1>2, <1>3, <1>4, <1>5
<1>7. 0 \in 0 .. Len(UncutBuffer)
  BY <1>3
<1>8. UncutBuffer' = UncutBuffer
  BY <1>6, <1>7, Advance
<1> QED
  BY <1>1, <1>2, <1>8

LEMMA FailsAtOnce ==
  ASSUME Inv, BodyTaken, ReadLineFails
  PROVE  Uncut!ReadLineFails
<1>1. /\ stage = "parsing" /\ AtLine /\ LineError # 0
      /\ context' = SetError(context, LineError)
      /\ UNCHANGED <<stream, received, buffer, results, stage>>
  BY DEF ReadLineFails, AtLine, Receiving
<1>2. ~InBody /\ ~InBody'
  <2>1. context'.recv_statu = "RECV_HTTP_ERROR"
    BY <1>1, LineErrorIsStatus, ErrorIsTyped DEF Inv, TypeOK
  <2> QED
    BY <1>1, <2>1 DEF InBody, AtLine, Receiving
<1>3. UncutContext = context /\ UncutContext' = context' /\ UncutBuffer' = UncutBuffer
  BY <1>1, <1>2, Stays
<1>4. UncutStage = stage /\ UncutStage' = stage'
  BY <1>1 DEF UncutStage
<1>5. Uncut!LineError = LineError
  BY <1>1, <1>2, SameLine
<1>6. Uncut!AtLine
  BY <1>1, <1>3, <1>4 DEF AtLine, Uncut!AtLine, Receiving, Uncut!Receiving
<1>7. UncutContext' = Uncut!SetError(UncutContext, Uncut!LineError)
  BY <1>1, <1>3, <1>5, SameHelpers
<1> QED
  BY <1>1, <1>3, <1>4, <1>5, <1>6, <1>7 DEF Uncut!ReadLineFails

LEMMA WaitsAtOnce ==
  ASSUME Inv, BodyTaken, ReadLineWaits
  PROVE  Uncut!ReadLineWaits \/ UNCHANGED Uncut!vars
<1>1. /\ stage = "parsing" /\ AtLine /\ LineError = 0 /\ LineEnd = 0 /\ stage' = "waiting"
      /\ UNCHANGED <<stream, received, buffer, context, results>>
  BY DEF ReadLineWaits, AtLine, Receiving
<1>2. ~InBody /\ ~InBody'
  BY <1>1 DEF InBody, AtLine, Receiving
<1>3. UncutContext = context /\ UncutContext' = context' /\ UncutBuffer' = UncutBuffer
  BY <1>1, <1>2, Stays
<1>4. UncutStage = "parsing"
  BY <1>1 DEF UncutStage
<1>5. CASE received = Len(stream)
  <2>1. UncutStage' = "waiting"
    BY <1>1, <1>5 DEF UncutStage, Starves
  <2>2. Uncut!LineError = 0 /\ Uncut!LineEnd = 0
    BY <1>1, <1>2, <1>5, SameLine
  <2>3. Uncut!AtLine
    BY <1>1, <1>3, <1>4 DEF AtLine, Uncut!AtLine, Receiving, Uncut!Receiving
  <2> QED
    BY <1>1, <1>3, <2>1, <2>2, <2>3 DEF Uncut!ReadLineWaits
<1>6. CASE received # Len(stream)
  <2>1. UncutStage' = "parsing"
    BY <1>1, <1>6 DEF UncutStage, Starves
  <2> QED
    BY <1>1, <1>3, <1>4, <2>1 DEF Uncut!vars
<1> QED
  BY <1>5, <1>6

\* A line that is taken is taken by both.
LEMMA TakesLine ==
  ASSUME Inv, BodyTaken, stage = "parsing", stage' = "parsing", ~InBody,
         UNCHANGED <<stream, received>>, LineError = 0, LineEnd # 0,
         buffer' = AfterLine, Begun' = 0
  PROVE  UncutBuffer' = Uncut!AfterLine
<1> DEFINE n == Len(buffer)
           p == Len(buffer')
<1>1. Uncut!LineEnd = LineEnd /\ Taken = received - n
  BY SameLine, FrontOfRest
<1>2. LineEnd \in 0 .. Len(UncutBuffer)
  BY SameText
<1>3. p = n - LineEnd /\ n \in Nat /\ LineEnd \in Nat /\ received \in Nat
  <2>1. buffer \in Seq(Symbol) /\ LineEnd \in 0 .. n
    BY LineEnds DEF Inv, TypeOK
  <2>2. p = n - LineEnd
    BY <2>1, TakenFromFront DEF AfterLine, Inv
  <2>3. received \in Nat
    BY DEF Inv, TypeOK
  <2> QED
    BY <2>1, <2>2, <2>3
<1>4. Taken' = received - p - 0
  BY DEF Taken
<1> HIDE DEF n, p
<1>5. Taken' = Taken + LineEnd
  BY <1>1, <1>3, <1>4
<1>6. UncutBuffer' = SubSeq(UncutBuffer, LineEnd + 1, Len(UncutBuffer))
  BY <1>2, <1>5, Advance
<1> QED
  BY <1>1, <1>6 DEF Uncut!AfterLine

LEMMA LineAtOnce ==
  ASSUME Inv, BodyTaken, RecvHttpLine
  PROVE  Uncut!RecvHttpLine
<1>1. /\ stage = "parsing" /\ context.recv_statu = "RECV_HTTP_LINE"
      /\ LineError = 0 /\ LineEnd # 0
      /\ context' = ParseHttpLine(context, Line) /\ buffer' = AfterLine
      /\ UNCHANGED <<stream, received, results, stage>>
  BY DEF RecvHttpLine, Receiving
<1>2. ~InBody /\ ~InBody'
  <2>1. context'.recv_statu \in {"RECV_HTTP_HEAD", "RECV_HTTP_ERROR"}
    BY <1>1, LineIsParsed DEF Inv, TypeOK
  <2> QED
    BY <1>1, <2>1 DEF InBody
<1>3. /\ UncutContext = context /\ UncutContext' = context'
      /\ UncutStage = "parsing" /\ UncutStage' = "parsing" /\ Begun' = 0
  BY <1>1, <1>2 DEF UncutContext, UncutStage, Begun
<1>4. Uncut!LineEnd = LineEnd /\ Uncut!LineError = LineError /\ Uncut!Line = Line
  BY <1>1, <1>2, SameLine, SameText
<1>5. UncutBuffer' = Uncut!AfterLine
  BY <1>1, <1>2, <1>3, TakesLine
<1>6. UncutContext' = Uncut!ParseHttpLine(UncutContext, Uncut!Line)
  BY <1>1, <1>3, <1>4, SameHelpers
<1>7. Uncut!Receiving("RECV_HTTP_LINE")
  BY <1>1, <1>3 DEF Uncut!Receiving
<1> QED
  BY <1>1, <1>3, <1>4, <1>5, <1>6, <1>7 DEF Uncut!RecvHttpLine

LEMMA HeadAtOnce ==
  ASSUME Inv, BodyTaken, RecvHttpHead
  PROVE  Uncut!RecvHttpHead
<1> DEFINE c == [context EXCEPT !.head_size = context.head_size + Length]
<1>1. /\ stage = "parsing" /\ context.recv_statu = "RECV_HTTP_HEAD"
      /\ LineError = 0 /\ LineEnd # 0 /\ buffer' = AfterLine
      /\ context' = IF Line = <<>> THEN EndOfHead(c) ELSE ParseHttpHead(c, Line)
      /\ UNCHANGED <<stream, received, results, stage>>
  BY DEF RecvHttpHead, Receiving
<1>2. ~InBody
  BY <1>1 DEF InBody
<1>3. /\ UncutContext = context /\ UncutContext' = context'
      /\ UncutStage = "parsing" /\ UncutStage' = "parsing" /\ Begun' = 0
  <2>1. UncutContext = context /\ UncutStage = "parsing" /\ UncutStage' = "parsing"
    BY <1>1, <1>2 DEF UncutContext, UncutStage
  <2>2. context' \in Context /\ context'.body = <<>>
    BY HeadIsTaken
  <2>3. Len(context'.body) = 0
    BY <2>2, EmptySeq
  <2>4. [context' EXCEPT !.body = <<>>] = context'
    BY <2>2 DEF Context
  <2>5. UncutContext' = context' /\ Begun' = 0
    BY <2>3, <2>4 DEF UncutContext, Begun
  <2> QED
    BY <2>1, <2>5
<1>4. /\ Uncut!LineEnd = LineEnd /\ Uncut!LineError = LineError /\ Uncut!Line = Line
      /\ Uncut!Length = Length
  BY <1>1, <1>2, SameLine, SameText
<1>5. UncutBuffer' = Uncut!AfterLine
  BY <1>1, <1>2, <1>3, TakesLine
<1>6. c = [UncutContext EXCEPT !.head_size = UncutContext.head_size + Uncut!Length]
  BY <1>3, <1>4
<1> HIDE DEF c
<1>7. UncutContext' = IF Uncut!Line = <<>> THEN Uncut!EndOfHead(c)
                      ELSE Uncut!ParseHttpHead(c, Uncut!Line)
  BY <1>1, <1>3, <1>4, SameHelpers
<1>8. Uncut!Receiving("RECV_HTTP_HEAD")
  BY <1>1, <1>3 DEF Uncut!Receiving
<1> QED
  BY <1>1, <1>3, <1>4, <1>5, <1>6, <1>7, <1>8 DEF Uncut!RecvHttpHead

\* What there is of a body is the front of what the parser at once has before it.
LEMMA BodyIsFront ==
  ASSUME Inv, BodyTaken, RecvHttpBody
  PROVE  \E count \in 0 .. Len(buffer) :
           LET body == context.body \o SubSeq(buffer, 1, count)
               k == Len(body)
               over == k = context.body_length
           IN  /\ context' = [context EXCEPT !.body = body,
                                !.recv_statu = IF over THEN "RECV_HTTP_OVER" ELSE @]
               /\ stage' = IF over THEN "parsing" ELSE "waiting"
               /\ ~over => count = Len(buffer)
               /\ Len(buffer') = Len(buffer) - count
               /\ k \in 0 .. Len(UncutBuffer) /\ k <= context.body_length
               /\ k = Len(context.body) + count
               /\ Len(UncutBuffer) = Len(stream) - Taken
               /\ Taken = received - Len(buffer) - Len(context.body)
               /\ body \in Seq(Symbol) /\ body = SubSeq(UncutBuffer, 1, k)
<1>1. stage = "parsing" /\ context.recv_statu = "RECV_HTTP_BODY"
  BY DEF RecvHttpBody, Receiving
<1>2. PICK count \in 0 .. Len(buffer) :
        LET body == context.body \o SubSeq(buffer, 1, count)
            over == Len(body) = context.body_length
        IN  /\ body \in Seq(Symbol) /\ Len(body) = Len(context.body) + count
            /\ Len(body) <= context.body_length
            /\ \A i \in 1 .. Len(context.body) : body[i] = context.body[i]
            /\ \A i \in 1 .. count : body[Len(context.body) + i] = buffer[i]
            /\ context' = [context EXCEPT !.body = body,
                             !.recv_statu = IF over THEN "RECV_HTTP_OVER" ELSE @]
            /\ buffer' = SubSeq(buffer, count + 1, Len(buffer))
            /\ stage' = IF over THEN "parsing" ELSE "waiting"
            /\ ~over => count = Len(buffer)
  BY BodyTakes
<1> DEFINE body == context.body \o SubSeq(buffer, 1, count)
           k == Len(body)
           over == k = context.body_length
           m == Len(context.body)
           n == Len(buffer)
           l == Len(stream)
           p == Len(UncutBuffer)
<1>3. Begun = m
  BY <1>1 DEF Begun, InBody, Starves
<1>4. /\ Taken \in Nat /\ Taken + m + n = received /\ received <= l
      /\ UncutBuffer \in Seq(Symbol) /\ p = l - Taken
      /\ \A i \in 1 .. l - Taken : UncutBuffer[i] = stream[Taken + i]
  BY <1>1, <1>3, RestOfStream
<1>5. /\ m \in Nat /\ n \in Nat /\ received \in Nat
      /\ \A i \in 1 .. m : context.body[i] = stream[received - n - m + i]
      /\ \A i \in 1 .. n : buffer[i] = stream[received - n + i]
  <2>1. context.body \in Seq(Symbol) /\ buffer \in Seq(Symbol)
    BY DEF Inv, TypeOK, Context
  <2>2. received \in Nat
    BY DEF Inv, TypeOK
  <2>3. m \in Nat /\ n \in Nat
    BY <2>1
  <2>4. \A i \in 1 .. m : context.body[i] = stream[received - n - m + i]
    BY <1>1 DEF BodyTaken
  <2>5. \A i \in 1 .. n : buffer[i] = stream[received - n + i]
    BY <1>1 DEF Inv, Unread
  <2> QED
    BY <2>2, <2>3, <2>4, <2>5
<1>6. l \in Nat
  BY StreamAssumption DEF Inv, TypeOK
<1>7. Len(buffer') = n - count
  BY <1>1, <1>2, TakenFromFront DEF Inv
<1>8. /\ body \in Seq(Symbol) /\ k = m + count /\ k <= context.body_length
      /\ \A i \in 1 .. m : body[i] = context.body[i]
      /\ \A i \in 1 .. count : body[m + i] = buffer[i]
      /\ context' = [context EXCEPT !.body = body,
                       !.recv_statu = IF over THEN "RECV_HTTP_OVER" ELSE @]
      /\ stage' = IF over THEN "parsing" ELSE "waiting"
      /\ ~over => count = n
  BY <1>2
<1>9. count \in 0 .. n
  OBVIOUS
<1> HIDE DEF body, k, over, m, n, l, p
<1>10. /\ k \in Nat /\ k <= p /\ Taken = received - n - m /\ m \in 0 .. k
       /\ l - Taken = p /\ p \in Nat
  <2>1. /\ Taken \in Nat /\ Taken + m + n = received /\ received <= l /\ p = l - Taken
        /\ m \in Nat /\ n \in Nat /\ received \in Nat /\ l \in Nat
        /\ k = m + count /\ count \in 0 .. n
    BY <1>4, <1>5, <1>6, <1>8, <1>9
  <2> QED
    BY <2>1
<1>11. \A i \in 1 .. k : body[i] = UncutBuffer[i]
  <2> SUFFICES ASSUME NEW i \in 1 .. k
               PROVE  body[i] = UncutBuffer[i]
    OBVIOUS
  <2>1. UncutBuffer[i] = stream[Taken + i]
    <3>1. i \in 1 .. l - Taken
      BY <1>10
    <3> QED
      BY <1>4, <3>1
  <2>2. CASE i <= m
    <3>1. i \in 1 .. m
      BY <1>5, <2>2
    <3>2. body[i] = context.body[i] /\ context.body[i] = stream[received - n - m + i]
      BY <1>5, <1>8, <3>1
    <3> QED
      BY <1>10, <2>1, <3>2
  <2>3. CASE ~(i <= m)
    <3> DEFINE j == i - m
    <3>1. /\ j \in 1 .. count /\ j \in 1 .. n /\ m + j = i
          /\ received - n + j = Taken + i
      BY <1>4, <1>5, <1>8, <1>9, <2>3
    <3> HIDE DEF j
    <3>2. body[m + j] = buffer[j] /\ buffer[j] = stream[received - n + j]
      BY <1>5, <1>8, <3>1
    <3> QED
      BY <2>1, <3>1, <3>2
  <2> QED
    BY <2>2, <2>3
<1>12. SubSeq(body, 1, k) = body
  BY <1>8, SubSeqFull DEF k
<1>13. SubSeq(body, 1, k) = SubSeq(UncutBuffer, 1, k)
  <2>1. k <= Len(body) /\ k <= Len(UncutBuffer)
    BY <1>10 DEF k, p
  <2> QED
    BY <1>4, <1>8, <1>10, <1>11, <2>1, SameFronts
<1>14. k \in 0 .. p
  BY <1>10
<1> QED
  BY <1>7, <1>8, <1>10, <1>12, <1>13, <1>14 DEF body, k, over, m, n, l, p

LEMMA BodyAtOnce ==
  ASSUME Inv, BodyTaken, RecvHttpBody
  PROVE  Uncut!RecvHttpBody \/ UNCHANGED Uncut!vars
<1>1. /\ stage = "parsing" /\ context.recv_statu = "RECV_HTTP_BODY" /\ context \in Context
      /\ UNCHANGED <<stream, received, results>>
  BY DEF RecvHttpBody, Receiving, Inv, TypeOK
<1>2. PICK count \in 0 .. Len(buffer) :
        LET body == context.body \o SubSeq(buffer, 1, count)
            k == Len(body)
            over == k = context.body_length
        IN  /\ context' = [context EXCEPT !.body = body,
                             !.recv_statu = IF over THEN "RECV_HTTP_OVER" ELSE @]
            /\ stage' = IF over THEN "parsing" ELSE "waiting"
            /\ ~over => count = Len(buffer)
            /\ Len(buffer') = Len(buffer) - count
            /\ k \in 0 .. Len(UncutBuffer) /\ k <= context.body_length
            /\ k = Len(context.body) + count
            /\ Len(UncutBuffer) = Len(stream) - Taken
            /\ Taken = received - Len(buffer) - Len(context.body)
            /\ body \in Seq(Symbol) /\ body = SubSeq(UncutBuffer, 1, k)
  BY BodyIsFront
<1> DEFINE body == context.body \o SubSeq(buffer, 1, count)
           k == Len(body)
           length == context.body_length
           over == k = length
           m == Len(context.body)
           n == Len(buffer)
           p == Len(UncutBuffer)
           l == Len(stream)
<1>3. /\ context' = [context EXCEPT !.body = body,
                       !.recv_statu = IF over THEN "RECV_HTTP_OVER" ELSE "RECV_HTTP_BODY"]
      /\ stage' = IF over THEN "parsing" ELSE "waiting"
      /\ ~over => count = n
      /\ Len(buffer') = n - count /\ k \in 0 .. p /\ k <= length /\ k = m + count
      /\ p = l - Taken /\ Taken = received - n - m
      /\ body \in Seq(Symbol) /\ body = SubSeq(UncutBuffer, 1, k)
  BY <1>1, <1>2
<1>4. /\ length \in Nat /\ m \in Nat /\ n \in Nat /\ count \in Nat /\ received \in Nat
      /\ l \in Nat /\ p \in Nat
  <2>1. context.body \in Seq(Symbol) /\ length \in Nat
    BY <1>1 DEF Context
  <2>2. buffer \in Seq(Symbol) /\ UncutBuffer \in Seq(Symbol) /\ stream \in Seq(Symbol)
    BY <1>1, RestOfStream, StreamAssumption DEF Inv, TypeOK
  <2>3. received \in Nat
    BY DEF Inv, TypeOK
  <2> QED
    BY <2>1, <2>2, <2>3
<1>5. /\ UncutContext = [context EXCEPT !.body = <<>>] /\ UncutStage = "parsing"
  BY <1>1 DEF UncutContext, InBody, Starves, UncutStage
<1>6. /\ UncutContext.recv_statu = "RECV_HTTP_BODY"
      /\ UncutContext.body_length = length /\ UncutContext.body = <<>>
  BY <1>1, <1>5 DEF Context
<1>7. stage' # "closed" /\ stage # "closed"
  BY <1>1, <1>3
<1>8. Taken' = received - Len(buffer') - Begun'
  BY <1>1 DEF Taken
<1>9. over <=> k = length
  OBVIOUS
<1> HIDE DEF body, k, length, over, m, n, p, l
<1>10. ASSUME ~InBody', Taken' = Taken + k, UncutStage' = stage', over \/ k = p
       PROVE  Uncut!RecvHttpBody
  <2>1. UncutContext' = context'
    BY <1>10 DEF UncutContext
  <2>2. UncutBuffer' = SubSeq(UncutBuffer, k + 1, p)
    BY <1>1, <1>3, <1>7, <1>10, Advance DEF p
  <2> DEFINE remaining == UncutContext.body_length - Len(UncutContext.body)
             count2 == Uncut!Fewer(remaining, p)
  <2>3. remaining = length
    <3>1. Len(UncutContext.body) = 0
      BY <1>6, EmptySeq
    <3> QED
      BY <1>4, <1>6, <3>1
  <2> HIDE DEF remaining
  <2>4. count2 = k /\ (count2 = remaining <=> over)
    <3>1. count2 = IF remaining < p THEN remaining ELSE p
      BY DEF Uncut!Fewer
    <3> HIDE DEF count2
    <3> QED
      BY <1>3, <1>4, <1>9, <1>10, <2>3, <3>1
  <2>5. UncutContext.body \o SubSeq(UncutBuffer, 1, k) = body
    BY <1>3, <1>6, ConcatEmptySeq
  <2>6. UncutContext' = [UncutContext EXCEPT !.body = body,
                           !.recv_statu = IF over THEN "RECV_HTTP_OVER"
                                          ELSE UncutContext.recv_statu]
    BY <1>1, <1>3, <1>5, <1>6, <2>1 DEF Context
  <2>7. Uncut!Receiving("RECV_HTTP_BODY")
    BY <1>5, <1>6 DEF Uncut!Receiving
  <2>8. UncutStage' = IF over THEN "parsing" ELSE "waiting"
    BY <1>3, <1>10
  <2>9. /\ UncutContext' = [UncutContext EXCEPT
               !.body = UncutContext.body \o SubSeq(UncutBuffer, 1, count2),
               !.recv_statu = IF count2 = remaining THEN "RECV_HTTP_OVER"
                              ELSE UncutContext.recv_statu]
        /\ UncutBuffer' = SubSeq(UncutBuffer, count2 + 1, p)
        /\ UncutStage' = IF count2 = remaining THEN "parsing" ELSE "waiting"
    <3> HIDE DEF count2
    <3>1. UncutContext.body \o SubSeq(UncutBuffer, 1, count2) = body
      BY <2>4, <2>5
    <3> QED
      BY <2>2, <2>4, <2>6, <2>8, <3>1
  <2> QED
    BY <1>1, <1>5, <2>7, <2>9 DEF Uncut!RecvHttpBody, remaining, p
<1>11. context'.recv_statu = IF over THEN "RECV_HTTP_OVER" ELSE "RECV_HTTP_BODY"
  BY <1>1, <1>3 DEF Context
<1>12. context'.body = body
  BY <1>1, <1>3 DEF Context
<1>13. CASE over
  <2>1. ~InBody' /\ Begun' = 0 /\ UncutStage' = stage'
    BY <1>3, <1>11, <1>13 DEF InBody, Begun, UncutStage
  <2>2. Taken' = Taken + k
    BY <1>3, <1>4, <1>8, <2>1
  <2> QED
    BY <1>10, <1>13, <2>1, <2>2
<1>14. CASE ~over /\ received = l
  <2>1. ~InBody' /\ Begun' = 0 /\ UncutStage' = stage'
    BY <1>1, <1>3, <1>14 DEF InBody, Begun, UncutStage, Starves, l
  <2>2. Taken' = Taken + k /\ k = p
    BY <1>3, <1>4, <1>8, <1>14, <2>1
  <2> QED
    BY <1>10, <2>1, <2>2
<1>15. CASE ~over /\ received # l
  <2>1. InBody' /\ Begun' = k /\ UncutStage' = "parsing"
    BY <1>1, <1>3, <1>11, <1>12, <1>15 DEF InBody, Begun, UncutStage, Starves, l, k
  <2>2. Taken' = Taken + 0 /\ 0 \in 0 .. p
    BY <1>3, <1>4, <1>8, <1>15, <2>1
  <2>3. UncutBuffer' = UncutBuffer
    BY <1>1, <1>7, <2>2, Advance DEF p
  <2>4. UncutContext' = UncutContext
    <3>1. UncutContext' = [context' EXCEPT !.body = <<>>]
      BY <2>1 DEF UncutContext
    <3>2. context' = [context EXCEPT !.body = body, !.recv_statu = "RECV_HTTP_BODY"]
      BY <1>3, <1>15
    <3> QED
      BY <1>1, <1>5, <3>1, <3>2 DEF Context
  <2> QED
    BY <1>1, <1>5, <2>1, <2>3, <2>4 DEF Uncut!vars
<1> QED
  BY <1>13, <1>14, <1>15

LEMMA RequestAtOnce ==
  ASSUME Inv, BodyTaken, TakeRequest
  PROVE  Uncut!TakeRequest
<1>1. /\ stage = "parsing" /\ context.recv_statu = "RECV_HTTP_OVER"
      /\ results' = Append(results, Result(200, context.version, context.body))
      /\ context' = Cleared /\ stage' = IF buffer = <<>> THEN "waiting" ELSE "parsing"
      /\ UNCHANGED <<stream, received, buffer>>
  BY DEF TakeRequest, Receiving
<1>2. ~InBody /\ ~InBody'
  <2>1. Cleared.recv_statu = "RECV_HTTP_LINE"
    BY DEF Cleared
  <2> QED
    BY <1>1, <2>1 DEF InBody
<1>3. UncutContext = context /\ UncutContext' = context' /\ UncutBuffer' = UncutBuffer
  <2>1. stage # "closed" /\ stage' # "closed"
    BY <1>1
  <2> QED
    BY <1>1, <1>2, <2>1, Stays
<1>4. UncutStage = "parsing"
  BY <1>1 DEF UncutStage
<1>5. UncutStage' = IF UncutBuffer = <<>> THEN "waiting" ELSE "parsing"
  <2> DEFINE n == Len(buffer)
             p == Len(UncutBuffer)
  <2>1. /\ n <= p
        /\ IF received = Len(stream) THEN UncutBuffer = buffer ELSE n < p
    BY <1>1, <1>2, FrontOfRest
  <2>2. buffer \in Seq(Symbol) /\ UncutBuffer \in Seq(Symbol) /\ n \in Nat /\ p \in Nat
    BY <1>1, RestOfStream DEF Inv, TypeOK
  <2>3. (buffer = <<>> <=> n = 0) /\ (UncutBuffer = <<>> <=> p = 0)
    BY <2>2, EmptySeq
  <2> HIDE DEF n, p
  <2>4. CASE received = Len(stream)
    BY <1>1, <2>1, <2>4 DEF UncutStage, Starves
  <2>5. CASE received # Len(stream)
    <3>1. UncutBuffer # <<>>
      BY <2>1, <2>2, <2>3, <2>5
    <3> QED
      BY <1>1, <2>5, <3>1 DEF UncutStage, Starves
  <2> QED
    BY <2>4, <2>5
<1>6. Uncut!Receiving("RECV_HTTP_OVER")
  BY <1>1, <1>3, <1>4 DEF Uncut!Receiving
<1>7. /\ results' = Append(results,
                      Uncut!Result(200, UncutContext.version, UncutContext.body))
      /\ UncutContext' = Uncut!Cleared
  BY <1>1, <1>3, SameHelpers
<1> QED
  BY <1>1, <1>3, <1>5, <1>6, <1>7 DEF Uncut!TakeRequest

LEMMA ErrorAtOnce ==
  ASSUME Inv, BodyTaken, TakeError
  PROVE  Uncut!TakeError
<1>1. /\ stage = "parsing" /\ context.recv_statu = "RECV_HTTP_ERROR"
      /\ results' = Append(results, Result(context.resp_statu, "", <<>>))
      /\ buffer' = <<>> /\ stage' = "closed" /\ UNCHANGED <<stream, received, context>>
  BY DEF TakeError, Receiving
<1>2. UncutContext = context /\ UncutContext' = context'
  BY <1>1 DEF UncutContext, InBody
<1>3. UncutBuffer' = <<>> /\ UncutStage = "parsing" /\ UncutStage' = "closed"
  BY <1>1 DEF UncutBuffer, UncutStage
<1>4. Uncut!Receiving("RECV_HTTP_ERROR")
  BY <1>1, <1>2, <1>3 DEF Uncut!Receiving
<1>5. results' = Append(results, Uncut!Result(UncutContext.resp_statu, "", <<>>))
  BY <1>1, <1>2, SameHelpers
<1> QED
  BY <1>1, <1>2, <1>3, <1>4, <1>5 DEF Uncut!TakeError

\* Nothing new arrives for it.
LEMMA ReceivesNothing ==
  ASSUME Inv, BodyTaken, Receive
  PROVE  UNCHANGED Uncut!vars
<1>1. /\ stage = "waiting" /\ stage' = "parsing" /\ received # Len(stream)
      /\ UNCHANGED <<stream, context, results>>
  <2>1. PICK n \in received + 1 .. Len(stream) : received' = n
    BY DEF Receive
  <2>2. Len(stream) \in Nat /\ received \in 0 .. Len(stream)
    BY StreamAssumption DEF Inv, TypeOK
  <2> DEFINE l == Len(stream)
  <2>3. n \in received + 1 .. l /\ l \in Nat /\ received \in 0 .. l
    BY <2>2
  <2> HIDE DEF l
  <2>4. received # l
    BY <2>3
  <2> QED
    BY <2>4 DEF Receive, l
<1>2. /\ InBody' <=> InBody
      /\ UncutStage = "parsing" /\ UncutStage' = "parsing"
  BY <1>1 DEF InBody, Starves, UncutStage
<1>3. UncutContext' = UncutContext /\ Begun' = Begun
  BY <1>1, <1>2 DEF UncutContext, Begun
<1>4. Taken' = Taken
  <2>1. received' - Len(buffer') = received - Len(buffer)
    BY ReceiveKeeps
  <2>2. /\ Taken = received - Len(buffer) - Begun
        /\ Taken' = received' - Len(buffer') - Begun'
    BY DEF Taken
  <2> QED
    BY <1>3, <2>1, <2>2
<1>5. UncutBuffer' = UncutBuffer
  BY <1>1, <1>4 DEF UncutBuffer
<1> QED
  BY <1>1, <1>2, <1>3, <1>5 DEF Uncut!vars

LEMMA StartsAtOnce == Init => Uncut!InitUncut
<1> SUFFICES ASSUME Init
             PROVE  Uncut!InitUncut
  OBVIOUS
<1>1. /\ stream \in Streams /\ received = 0 /\ buffer = <<>> /\ context = Cleared
      /\ results = <<>> /\ stage = "waiting"
  BY DEF Init
<1>2. stream \in Seq(Symbol) /\ Len(stream) \in Nat
  BY <1>1, StreamAssumption
<1>3. Cleared.recv_statu = "RECV_HTTP_LINE"
  BY DEF Cleared
<1>4. UncutContext = Cleared /\ Begun = 0
  BY <1>1, <1>3 DEF UncutContext, InBody, Begun
<1>5. Taken = 0
  <2>1. Len(buffer) = 0
    BY <1>1, EmptySeq
  <2>2. Taken = 0 - 0 - 0
    BY <1>1, <1>4, <2>1 DEF Taken
  <2> QED
    BY <2>2
<1>6. UncutBuffer = stream
  <2>1. UncutBuffer = SubSeq(stream, 1, Len(stream))
    BY <1>1, <1>5 DEF UncutBuffer
  <2> QED
    BY <1>2, <2>1, SubSeqFull
<1>7. stream = <<>> <=> received = Len(stream)
  BY <1>1, <1>2, EmptySeq
<1>8. UncutStage = IF stream = <<>> THEN "waiting" ELSE "parsing"
  BY <1>1, <1>7 DEF UncutStage, Starves
<1> QED
  BY <1>1, <1>4, <1>6, <1>8, SameHelpers DEF Uncut!InitUncut

LEMMA ParsesAtOnce ==
  ASSUME Inv, BodyTaken, [Next]_vars
  PROVE  Uncut!Parse \/ UNCHANGED Uncut!vars
<1>1. CASE UNCHANGED vars
  <2>1. UNCHANGED <<stream, received, buffer, context, results, stage>>
    BY <1>1 DEF vars
  <2>2. (Starves' <=> Starves) /\ (InBody' <=> InBody)
    BY <2>1 DEF Starves, InBody
  <2>3. /\ UNCHANGED <<UncutContext, UncutStage>> /\ Begun' = Begun
    BY <2>1, <2>2 DEF UncutContext, UncutStage, Begun
  <2>4. UncutBuffer' = UncutBuffer
    BY <2>1, <2>3 DEF UncutBuffer, Taken
  <2> QED
    BY <2>1, <2>3, <2>4 DEF Uncut!vars
<1>2. CASE Receive
  BY <1>2, ReceivesNothing
<1>3. CASE Parse
  BY <1>3, FailsAtOnce, WaitsAtOnce, LineAtOnce, HeadAtOnce, BodyAtOnce,
     RequestAtOnce, ErrorAtOnce
  DEF Parse, Uncut!Parse
<1> QED
  BY <1>1, <1>2, <1>3 DEF Next

-----------------------------------------------------------------------------
(* Recursion over the natural numbers *)

\* What holds of 0, and of every next number, holds of all numbers.
LEMMA Induction ==
  ASSUME NEW T, 0 \in T, \A i \in Nat : i \in T => i + 1 \in T
  PROVE  Nat \subseteq T
<1> DEFINE others == Nat \ T
<1> SUFFICES ASSUME others # {}
             PROVE  FALSE
  OBVIOUS
<1>1. PICK k \in others : \A j \in others : k <= j
  BY Least
<1>2. k \in Nat /\ k # 0 /\ k \notin T
  BY <1>1
<1>3. k - 1 \in Nat /\ ~(k <= k - 1) /\ k - 1 + 1 = k
  BY <1>2
<1>4. k - 1 \in T
  BY <1>1, <1>3
<1> QED
  BY <1>2, <1>3, <1>4

\* A function applied again and again.
Iterates(g, D, F, a) ==
  g \in [Nat -> D] /\ g[0] = a /\ \A i \in Nat : g[i + 1] = F[g[i]]

\* There is such a function: initial pieces of it exist and agree.
LEMMA Iterated ==
  ASSUME NEW D, NEW F, NEW a, F \in [D -> D], a \in D
  PROVE  \E g : Iterates(g, D, F, a)
<1> DEFINE G(m) == {g \in [0 .. m -> D] : g[0] = a /\ \A i \in 0 .. m - 1 : g[i + 1] = F[g[i]]}
           T == {m \in Nat : G(m) # {}}
           U == {i \in Nat : \A m, l \in Nat : i <= m /\ i <= l =>
                               \A g \in G(m), h \in G(l) : g[i] = h[i]}
<1>1. 0 \in T
  <2>1. [i \in 0 .. 0 |-> a] \in G(0)
    OBVIOUS
  <2> QED
    BY <2>1
<1>2. ASSUME NEW m \in Nat, m \in T
      PROVE  m + 1 \in T
  <2>1. PICK g \in G(m) : TRUE
    BY <1>2
  <2> DEFINE h == [i \in 0 .. m + 1 |-> IF i <= m THEN g[i] ELSE F[g[m]]]
  <2>2. /\ g \in [0 .. m -> D] /\ g[0] = a /\ \A i \in 0 .. m - 1 : g[i + 1] = F[g[i]]
    OBVIOUS
  <2> HIDE DEF G
  <2>3. h \in [0 .. m + 1 -> D]
    <3>1. \A i \in 0 .. m + 1 : i <= m => g[i] \in D
      BY <2>2
    <3>2. F[g[m]] \in D
      BY <2>2
    <3> QED
      BY <3>1, <3>2
  <2>4. h[0] = a
    BY <2>2
  <2>5. ASSUME NEW i \in 0 .. m + 1 - 1
        PROVE  h[i + 1] = F[h[i]]
    <3>1. CASE i = m
      BY <3>1
    <3>2. CASE i # m
      <4>1. i \in 0 .. m - 1 /\ i + 1 <= m /\ i <= m /\ i + 1 \in 0 .. m + 1 /\ i \in 0 .. m + 1
        BY <3>2
      <4> QED
        BY <2>2, <4>1
    <3> QED
      BY <3>1, <3>2
  <2> HIDE DEF h
  <2>6. h \in G(m + 1)
    BY <2>3, <2>4, <2>5 DEF G
  <2> QED
    BY <2>6
<1>3. 0 \in U
  OBVIOUS
<1>4. ASSUME NEW i \in Nat, i \in U
      PROVE  i + 1 \in U
  <2>1. ASSUME NEW m \in Nat, NEW l \in Nat, i + 1 <= m, i + 1 <= l,
               NEW g \in G(m), NEW h \in G(l)
        PROVE  g[i + 1] = h[i + 1]
    <3>1. i <= m /\ i <= l /\ i \in 0 .. m - 1 /\ i \in 0 .. l - 1
      BY <2>1
    <3>2. g[i + 1] = F[g[i]] /\ h[i + 1] = F[h[i]]
      BY <3>1
    <3>3. g[i] = h[i]
      <4> HIDE DEF G
      <4> QED
        BY <1>4, <3>1
    <3> QED
      BY <3>2, <3>3
  <2> HIDE DEF G
  <2> QED
    BY <2>1
<1>5. Nat \subseteq T /\ Nat \subseteq U
  <2> HIDE DEF T, U
  <2> QED
    BY <1>1, <1>2, <1>3, <1>4, Induction
<1> DEFINE Some(m) == CHOOSE g : g \in G(m)
           g == [i \in Nat |-> Some(i)[i]]
<1>6. \A m \in Nat : Some(m) \in G(m)
  BY <1>5
<1> HIDE DEF Some
<1>7. g \in [Nat -> D]
  <2>1. \A m \in Nat : Some(m) \in [0 .. m -> D] /\ m \in 0 .. m
    BY <1>6
  <2> QED
    BY <2>1
<1>8. g[0] = a
  BY <1>6
<1>9. ASSUME NEW i \in Nat
      PROVE  g[i + 1] = F[g[i]]
  <2>1. Some(i + 1)[i + 1] = F[Some(i + 1)[i]]
    <3>1. i + 1 \in Nat /\ i \in 0 .. i + 1 - 1
      OBVIOUS
    <3> QED
      BY <1>6, <3>1
  <2>2. Some(i + 1)[i] = Some(i)[i]
    <3>1. i \in U /\ i + 1 \in Nat /\ i <= i /\ i <= i + 1
      <4> HIDE DEF U
      <4> QED
        BY <1>5
    <3>2. Some(i) \in G(i) /\ Some(i + 1) \in G(i + 1)
      BY <1>6, <3>1
    <3> HIDE DEF G
    <3> QED
      BY <3>1, <3>2
  <2> QED
    BY <2>1, <2>2
<1> QED
  BY <1>7, <1>8, <1>9 DEF Iterates

-----------------------------------------------------------------------------
(* The lines of a stream *)

\* The next LF, if there is one.
LEMMA NextFeedIs ==
  ASSUME stream \in Seq(Symbol), NEW i \in 0 .. Len(stream) + 1
  PROVE  LET f == NextFeed(i)
         IN  /\ f \in 0 .. Len(stream) + 1 /\ (i <= Len(stream) => i < f)
             /\ f <= Len(stream) => stream[f] = LF
             /\ \A h \in i + 1 .. Len(stream) : h < f => stream[h] # LF
<1> DEFINE n == Len(stream)
           f == NextFeed(i)
           T == {j \in i + 1 .. n : stream[j] = LF}
           First(j) == stream[j] = LF /\ \A h \in i + 1 .. j - 1 : stream[h] # LF
<1>1. n \in Nat /\ i \in 0 .. n + 1
  OBVIOUS
<1>2. f = IF \E j \in i + 1 .. n : stream[j] = LF
          THEN CHOOSE j \in i + 1 .. n : First(j) ELSE n + 1
  BY DEF NextFeed
<1> HIDE DEF n, f
<1>3. CASE T # {}
  <2> HIDE DEF First
  <2>0. T \subseteq Nat
    BY <1>1
  <2>1. PICK first \in T : \A j \in T : first <= j
    BY <1>3, <2>0, Least
  <2>2. \A h \in i + 1 .. first - 1 : h \in i + 1 .. n /\ ~(first <= h)
    BY <1>1, <2>1
  <2>3. first \in i + 1 .. n /\ First(first)
    BY <2>1, <2>2 DEF First
  <2>4. LET j == CHOOSE j \in i + 1 .. n : First(j)
        IN  j \in i + 1 .. n /\ First(j)
    BY <2>3
  <2>5. f \in i + 1 .. n /\ First(f)
    BY <1>2, <1>3, <2>4
  <2>6. f \in 0 .. n + 1 /\ i < f
    BY <1>1, <2>5
  <2>7. \A h \in i + 1 .. n : h < f => h \in i + 1 .. f - 1
    BY <1>1, <2>5
  <2> QED
    BY <2>5, <2>6, <2>7 DEF First, n, f
<1>4. CASE T = {}
  <2>1. f = n + 1 /\ \A j \in i + 1 .. n : stream[j] # LF
    BY <1>2, <1>4
  <2>2. f \in 0 .. n + 1 /\ (i <= n => i < f) /\ ~(f <= n)
    BY <1>1, <2>1
  <2> QED
    BY <2>1, <2>2 DEF n, f
<1> QED
  BY <1>3, <1>4

\* The ends of lines are what their recursive definition says.
LEMMA EndIs ==
  ASSUME stream \in Seq(Symbol), NEW n \in 0 .. Len(stream) + 1
  PROVE  /\ End(n, 0) = n
         /\ \A k \in Nat : /\ End(n, k) \in 0 .. Len(stream) + 1
                           /\ End(n, k + 1) = NextFeed(End(n, k))
<1> DEFINE D == 0 .. Len(stream) + 1
           F == [i \in D |-> NextFeed(i)]
           Ends(g) == g = [i \in Nat |-> IF i = 0 THEN n ELSE NextFeed(g[i - 1])]
           ends == CHOOSE g : Ends(g)
<1>1. F \in [D -> D]
  BY NextFeedIs
<1>2. PICK g : Iterates(g, D, F, n)
  <2> HIDE DEF F, D
  <2>1. n \in D
    BY DEF D
  <2> QED
    BY <1>1, <2>1, Iterated
<1>3. g \in [Nat -> D] /\ g[0] = n /\ \A i \in Nat : g[i + 1] = NextFeed(g[i])
  BY <1>2 DEF Iterates
<1> HIDE DEF D, F
<1>4. Ends(g)
  <2>1. \A i \in Nat : i # 0 => g[i] = NextFeed(g[i - 1])
    <3>1. ASSUME NEW i \in Nat, i # 0
          PROVE  g[i] = NextFeed(g[i - 1])
      <4>1. i - 1 \in Nat /\ i - 1 + 1 = i
        BY <3>1
      <4> QED
        BY <1>3, <4>1
    <3> QED
      BY <3>1
  <2> QED
    BY <1>3, <2>1
<1>5. Ends(ends)
  <2> HIDE DEF Ends
  <2> QED
    BY <1>4
<1>6. \A k : End(n, k) = ends[k]
  BY DEF End
<1> HIDE DEF ends
<1>7. ends[0] = n /\ \A i \in Nat : ends[i + 1] = NextFeed(ends[i])
  <2>1. \A i \in Nat : i + 1 \in Nat /\ i + 1 # 0 /\ i + 1 - 1 = i
    OBVIOUS
  <2>2. \A i \in Nat : ends[i] = IF i = 0 THEN n ELSE NextFeed(ends[i - 1])
    BY <1>5
  <2> HIDE DEF Ends
  <2> QED
    BY <2>1, <2>2
<1> DEFINE T == {k \in Nat : ends[k] \in D}
<1>8. 0 \in T /\ \A i \in Nat : i \in T => i + 1 \in T
  <2>1. \A d \in D : NextFeed(d) \in D
    BY NextFeedIs DEF D
  <2>2. n \in D
    BY DEF D
  <2>3. 0 \in T
    BY <1>7, <2>2
  <2>4. ASSUME NEW i \in Nat, i \in T
        PROVE  i + 1 \in T
    <3>1. ends[i] \in D
      BY <2>4
    <3>2. ends[i + 1] \in D
      BY <1>7, <2>1, <3>1
    <3> QED
      BY <3>2
  <2> QED
    BY <2>3, <2>4
<1>9. Nat \subseteq T
  <2> HIDE DEF T
  <2> QED
    BY <1>8, Induction
<1> QED
  BY <1>6, <1>7, <1>9 DEF D

-----------------------------------------------------------------------------
(* The parser's place in the stream *)

\* How many symbols of the stream the parser has taken.
Place == received - Len(buffer)

\* A piece of a text.
LEMMA PieceIs ==
  ASSUME NEW s \in Seq(Symbol), NEW a \in Nat, NEW c \in Int, a + c <= Len(s)
  PROVE  LET t == SubSeq(s, a + 1, a + c)
             m == IF c > 0 THEN c ELSE 0
         IN  /\ t \in Seq(Symbol) /\ Len(t) = m
             /\ \A i \in 1 .. m : t[i] = s[a + i]
<1> DEFINE n == Len(s)
           t == SubSeq(s, a + 1, a + c)
           m == IF c > 0 THEN c ELSE 0
<1>1. n \in Nat /\ a + c <= n
  OBVIOUS
<1>2. \A i \in a + 1 .. a + c : s[i] \in Symbol
  <2>1. \A i \in a + 1 .. a + c : i \in 1 .. n
    <3> HIDE DEF n
    <3> QED
      BY <1>1
  <2> QED
    BY <2>1
<1>3. /\ t \in Seq(Symbol) /\ Len(t) = IF a + 1 <= a + c THEN a + c - (a + 1) + 1 ELSE 0
      /\ \A i \in 1 .. a + c - (a + 1) + 1 : t[i] = s[a + 1 + i - 1]
  <2>1. a + 1 \in Int /\ a + c \in Int
    OBVIOUS
  <2> QED
    BY <1>2, <2>1, SubSeqProperties
<1> HIDE DEF n, t
<1>4. Len(t) = m
  BY <1>3
<1>5. ASSUME NEW i \in 1 .. m
      PROVE  t[i] = s[a + i]
  <2>1. i \in 1 .. a + c - (a + 1) + 1 /\ a + 1 + i - 1 = a + i
    OBVIOUS
  <2> QED
    BY <1>3, <2>1
<1> QED
  BY <1>3, <1>4, <1>5 DEF t

\* The same pieces of two texts.
LEMMA SamePieces ==
  ASSUME NEW s \in Seq(Symbol), NEW a \in Nat, NEW t \in Seq(Symbol), NEW b \in Nat,
         NEW c \in Int, a + c <= Len(s), b + c <= Len(t),
         \A i \in Nat : 1 <= i /\ i <= c => s[a + i] = t[b + i]
  PROVE  SubSeq(s, a + 1, a + c) = SubSeq(t, b + 1, b + c)
<1> DEFINE m == IF c > 0 THEN c ELSE 0
           u == SubSeq(s, a + 1, a + c)
           v == SubSeq(t, b + 1, b + c)
<1>1. u \in Seq(Symbol) /\ Len(u) = m /\ \A i \in 1 .. m : u[i] = s[a + i]
  BY PieceIs
<1>2. v \in Seq(Symbol) /\ Len(v) = m /\ \A i \in 1 .. m : v[i] = t[b + i]
  BY PieceIs
<1>3. \A i \in 1 .. m : i \in Nat /\ 1 <= i /\ i <= c
  OBVIOUS
<1> HIDE DEF u, v, m
<1>4. \A i \in 1 .. m : u[i] = v[i]
  BY <1>1, <1>2, <1>3
<1> QED
  BY <1>1, <1>2, <1>4, SeqEqual DEF u, v

\* The line in the buffer is the line of the stream behind the parser's place.
LEMMA LineInStream ==
  ASSUME TypeOK, Unread, stage # "closed", NEW n \in 0 .. Len(stream) + 1, NEW k \in Nat \ {0},
         Place = End(n, k - 1)
  PROVE  LET end == End(n, k)
         IN  /\ LineEnd = 0 <=> end > received
             /\ LineEnd # 0 => /\ end = Place + LineEnd /\ end > Place /\ end <= Len(stream)
                               /\ Line = LineOf(n, k)
             /\ Length = (IF end > received THEN received ELSE end) - Place
             /\ LineEnd # 0 /\ Length >= 2 => buffer[Length - 1] = stream[end - 1]
<1> DEFINE L == Len(stream)
           b == Len(buffer)
           p == Place
           e == LineEnd
           q == End(n, k)
<1>1. stream \in Seq(Symbol) /\ buffer \in Seq(Symbol) /\ received \in 0 .. L
  BY StreamAssumption DEF TypeOK
<1>2. L \in Nat /\ b \in Nat /\ received \in Nat /\ received <= L
  BY <1>1
<1>3. /\ p = received - b /\ b <= received /\ p \in Nat /\ p + b = received
      /\ \A i \in 1 .. b : buffer[i] = stream[p + i]
  <2>1. p = received - b /\ b <= received /\ \A i \in 1 .. b : buffer[i] = stream[received - b + i]
    BY DEF Unread, Place
  <2> HIDE DEF b, p
  <2> QED
    BY <1>2, <2>1
<1>4. /\ e \in 0 .. b
      /\ e # 0 => buffer[e] = LF /\ \A j \in 1 .. e - 1 : buffer[j] # LF
      /\ e = 0 => \A i \in 1 .. b : buffer[i] # LF
  BY <1>1, EndsOfLine DEF LineEnd
<1>5. q = NextFeed(p)
  <2>1. k - 1 \in Nat /\ k - 1 + 1 = k
    OBVIOUS
  <2> QED
    BY <1>1, <2>1, EndIs
<1>6. p \in 0 .. L + 1 /\ p <= L
  <2> HIDE DEF L, b, p
  <2> QED
    BY <1>2, <1>3
<1>7. /\ q \in 0 .. L + 1 /\ p < q
      /\ q <= L => stream[q] = LF
      /\ \A h \in p + 1 .. L : h < q => stream[h] # LF
  BY <1>1, <1>5, <1>6, NextFeedIs
<1>8. Length = IF e = 0 THEN b ELSE e
  BY DEF Length
<1> HIDE DEF L, b, p, e, q
<1>9. ASSUME e # 0
      PROVE  q = p + e
  <2>1. p + e \in p + 1 .. L /\ e \in 1 .. b
    BY <1>2, <1>3, <1>4, <1>9
  <2>2. stream[p + e] = LF
    BY <1>3, <1>4, <1>9, <2>1
  <2>3. ~(p + e < q)
    BY <1>7, <2>1, <2>2
  <2>4. ~(q < p + e)
    <3>1. ASSUME q < p + e
          PROVE  FALSE
      <4> DEFINE j == q - p
      <4>1. j \in 1 .. e - 1 /\ j \in 1 .. b /\ p + j = q /\ q <= L
        BY <1>2, <1>3, <1>4, <1>6, <1>7, <2>1, <3>1
      <4> HIDE DEF j
      <4>2. stream[p + j] = LF /\ buffer[j] # LF
        BY <1>4, <1>7, <1>9, <4>1
      <4> QED
        BY <1>3, <4>1, <4>2
    <3> QED
      BY <3>1
  <2> QED
    BY <1>3, <1>4, <1>7, <2>3, <2>4
<1>10. ASSUME e = 0
       PROVE  q > received
  <2>1. ASSUME ~(q > received)
        PROVE  FALSE
    <3> DEFINE j == q - p
    <3>1. j \in 1 .. b /\ p + j = q /\ q <= L
      BY <1>2, <1>3, <1>6, <1>7, <2>1
    <3> HIDE DEF j
    <3> QED
      BY <1>3, <1>4, <1>7, <1>10, <3>1
  <2> QED
    BY <2>1
<1>11. e # 0 => q <= received /\ q <= L /\ ~(q > received)
  BY <1>2, <1>3, <1>4, <1>9
<1>12. e = 0 <=> q > received
  BY <1>10, <1>11
<1>13. Length = (IF q > received THEN received ELSE q) - p
  <2>1. CASE e = 0
    <3>1. Length = b /\ q > received
      BY <1>8, <1>10, <2>1
    <3> QED
      BY <1>2, <1>3, <3>1
  <2>2. CASE e # 0
    <3>1. Length = e /\ ~(q > received) /\ q = p + e
      BY <1>8, <1>9, <1>11, <2>2
    <3> QED
      BY <1>3, <1>4, <3>1
  <2> QED
    BY <2>1, <2>2
<1>14. ASSUME e # 0
       PROVE  Line = LineOf(n, k)
  <2> DEFINE c == e - 2
  <2>1. Line = SubSeq(buffer, 1, c)
    BY DEF Line, e
  <2>2. LineOf(n, k) = SubSeq(stream, p + 1, q - 2)
    BY DEF LineOf, p, q
  <2>3. c \in Int /\ 0 \in Nat /\ 0 + c <= b /\ p + c <= L /\ 0 + 1 = 1 /\ 0 + c = c /\ q - 2 = p + c
    BY <1>2, <1>3, <1>4, <1>9, <1>14
  <2>4. ASSUME NEW i \in Nat, 1 <= i, i <= c
        PROVE  buffer[0 + i] = stream[p + i]
    <3>1. i \in 1 .. b /\ 0 + i = i
      BY <1>2, <2>3, <2>4
    <3> QED
      BY <1>3, <3>1
  <2> HIDE DEF c
  <2>5. SubSeq(buffer, 0 + 1, 0 + c) = SubSeq(stream, p + 1, p + c)
    BY <1>1, <1>3, <2>3, <2>4, SamePieces DEF b, L
  <2> QED
    BY <2>1, <2>2, <2>3, <2>5
<1>15. ASSUME e # 0, Length >= 2
       PROVE  buffer[Length - 1] = stream[q - 1]
  <2>1. Length = e /\ q = p + e
    BY <1>8, <1>9, <1>15
  <2>2. e - 1 \in 1 .. b
    BY <1>2, <1>4, <1>15, <2>1
  <2>3. p + (e - 1) = q - 1
    BY <1>3, <1>4, <2>1
  <2> QED
    BY <1>3, <2>1, <2>2, <2>3
<1> QED
  BY <1>7, <1>9, <1>11, <1>12, <1>13, <1>14, <1>15 DEF e, p, q, L

-----------------------------------------------------------------------------
(* What can be told of a line, and when *)

\* The k-th line behind n is there and good, and the head does not end with it.
Passed(n, k) ==
  /\ End(n, k) <= Len(stream)
  /\ Verdict(n, Len(stream), k) = 0
  /\ k > 1 => LineOf(n, k) # <<>>

\* A verdict is a status.
LEMMA VerdictIsStatus ==
  ASSUME NEW n, NEW r, NEW k
  PROVE  Verdict(n, r, k) \in Nat
<1>1. LineVerdict(n, k) \in Nat
  BY DEF LineVerdict, RequestLineVerdict, FieldVerdict, HeadVerdict
<1> QED
  BY <1>1 DEF Verdict

\* What can be told of a line that is there does not change.
LEMMA VerdictStays ==
  ASSUME stream \in Seq(Symbol), NEW n \in 0 .. Len(stream) + 1, NEW k \in Nat \ {0},
         NEW r \in 0 .. Len(stream), End(n, k) <= r
  PROVE  Verdict(n, r, k) = Verdict(n, Len(stream), k)
<1> DEFINE L == Len(stream)
<1>1. L \in Nat /\ r \in Nat /\ r <= L /\ End(n, k) \in Nat
  BY EndIs
<1> HIDE DEF L
<1>2. ~(End(n, k) > r) /\ ~(End(n, k) > L)
  BY <1>1
<1>3. TooLong(n, r, k) <=> TooLong(n, L, k)
  BY <1>2 DEF TooLong
<1> QED
  BY <1>2, <1>3 DEF Verdict, L

\* A line that was good and not the last of the head decides nothing later.
LEMMA PassedStays ==
  ASSUME stream \in Seq(Symbol), NEW n \in 0 .. Len(stream) + 1, NEW k \in Nat \ {0},
         NEW r \in 0 .. Len(stream), End(n, k) <= r, Passed(n, k)
  PROVE  ~Deciding(n, r, k)
<1>1. Verdict(n, r, k) = 0
  BY VerdictStays DEF Passed
<1>2. ~(End(n, k) > r)
  <2>1. End(n, k) \in Nat /\ r \in Nat
    BY EndIs
  <2> QED
    BY <2>1
<1> QED
  BY <1>1, <1>2 DEF Deciding, Passed

\* The first line that decides.
LEMMA DecidesIs ==
  ASSUME stream \in Seq(Symbol), NEW n \in 0 .. Len(stream) + 1,
         NEW k \in 1 .. Len(stream) + 1, NEW r \in 0 .. Len(stream), Deciding(n, r, k),
         \A j \in 1 .. k - 1 : Passed(n, j) /\ End(n, j) <= r
  PROVE  Decides(n, r) = k
<1> DEFINE Is(i) == Deciding(n, r, i) /\ \A j \in 1 .. i - 1 : ~Deciding(n, r, j)
<1>1. Is(k)
  <2>1. \A j \in 1 .. k - 1 : j \in Nat \ {0}
    OBVIOUS
  <2> QED
    BY <2>1, PassedStays
<1>2. ASSUME NEW i \in 1 .. Len(stream) + 1, Is(i)
      PROVE  i = k
  <2>1. ~(i < k) /\ ~(k < i)
    <3>1. i < k => i \in 1 .. k - 1
      BY Len(stream) \in Nat
    <3>2. k < i => k \in 1 .. i - 1
      BY Len(stream) \in Nat
    <3> QED
      BY <1>1, <1>2, <3>1, <3>2
  <2> QED
    BY <2>1, Len(stream) \in Nat
<1>3. Decides(n, r) = CHOOSE i \in 1 .. Len(stream) + 1 : Is(i)
  BY DEF Decides
<1> HIDE DEF Is
<1> QED
  BY <1>1, <1>2, <1>3

\* How many messages are whole.
LEMMA MessagesAre ==
  ASSUME NEW r \in Nat, NEW m \in 0 .. r, ~Whole(Start(m), r),
         \A i \in 0 .. m - 1 : Whole(Start(i), r)
  PROVE  Messages(r) = m
<1> DEFINE Is(k) == ~Whole(Start(k), r) /\ \A i \in 0 .. k - 1 : Whole(Start(i), r)
<1>1. Is(m)
  OBVIOUS
<1>2. ASSUME NEW k \in 0 .. r, Is(k)
      PROVE  k = m
  <2>1. k < m => k \in 0 .. m - 1
    OBVIOUS
  <2>2. m < k => m \in 0 .. k - 1
    OBVIOUS
  <2> QED
    BY <1>1, <1>2, <2>1, <2>2
<1>3. Messages(r) = CHOOSE k \in 0 .. r : Is(k)
  BY DEF Messages
<1> HIDE DEF Is
<1> QED
  BY <1>1, <1>2, <1>3

\* What ReadLine finds wrong with a line is what is wrong with it.
LEMMA LineIsJudged ==
  ASSUME TypeOK, Unread, stage # "closed", NEW n \in 0 .. Len(stream) + 1, NEW k \in Nat \ {0},
         Place = End(n, k - 1), InHead <=> k > 1,
         InHead => context.head_size = Place - End(n, 1)
  PROVE  /\ LineError # 0 => Verdict(n, received, k) = LineError
         /\ LineError = 0 => ~TooLong(n, received, k)
         /\ LineError = 0 /\ LineEnd # 0 => /\ ~(End(n, k) > received)
                                            /\ ~(End(n, k) - End(n, k - 1) < 2)
                                            /\ ~(stream[End(n, k) - 1] # CR)
<1> DEFINE e == LineEnd
           l == Length
           p == Place
           q == End(n, k)
           u == IF q > received THEN received ELSE q
           first == End(n, 1)
<1>1. /\ e = 0 <=> q > received
      /\ l = u - p
      /\ e # 0 /\ l >= 2 => buffer[l - 1] = stream[q - 1]
  BY LineInStream
<1>2. /\ q \in Nat /\ p \in Nat /\ first \in Nat /\ received \in Nat /\ u \in Nat
      /\ context.head_size \in Nat
  <2>1. stream \in Seq(Symbol) /\ received \in Nat
    BY StreamAssumption DEF TypeOK
  <2>2. \A i \in Nat : End(n, i) \in Nat
    <3>1. \A i \in Nat : End(n, i) \in 0 .. Len(stream) + 1
      BY <2>1, EndIs
    <3> QED
      BY <3>1
  <2>3. q \in Nat /\ first \in Nat /\ p \in Nat
    <3>1. k \in Nat /\ 1 \in Nat /\ k - 1 \in Nat
      OBVIOUS
    <3> QED
      BY <2>2, <3>1
  <2> QED
    BY <2>1, <2>3 DEF TypeOK, Context
<1>3. LineError = IF l > MAX_LINE_SIZE THEN IF InHead THEN 431 ELSE 414
                  ELSE IF InHead /\ l > MAX_HEAD_SIZE - context.head_size THEN 431
                  ELSE IF e # 0 /\ (l < 2 \/ buffer[l - 1] # CR) THEN 400
                  ELSE 0
  BY DEF LineError
<1>4. TooLong(n, received, k) <=> u - p > MAX_LINE_SIZE \/ (k > 1 /\ u - first > MAX_HEAD_SIZE)
  BY DEF TooLong
<1>5. Verdict(n, received, k) =
        IF TooLong(n, received, k) THEN IF k = 1 THEN 414 ELSE 431
        ELSE IF q > received THEN 0 ELSE LineVerdict(n, k)
  BY DEF Verdict
<1>6. q - p < 2 \/ stream[q - 1] # CR => LineVerdict(n, k) = 400
  BY DEF LineVerdict
<1>7. k = 1 <=> ~(k > 1)
  OBVIOUS
<1> HIDE DEF e, l, p, q, u, first
<1>8. InHead => (l > MAX_HEAD_SIZE - context.head_size <=> u - first > MAX_HEAD_SIZE)
  BY <1>1, <1>2, LimitAssumption DEF p, first
<1>9. CASE l > MAX_LINE_SIZE \/ (InHead /\ l > MAX_HEAD_SIZE - context.head_size)
  <2>1. TooLong(n, received, k)
    BY <1>1, <1>4, <1>8, <1>9
  <2>2. LineError = IF k = 1 THEN 414 ELSE 431
    BY <1>3, <1>7, <1>9
  <2> QED
    BY <1>5, <2>1, <2>2
<1>10. CASE ~(l > MAX_LINE_SIZE \/ (InHead /\ l > MAX_HEAD_SIZE - context.head_size))
  <2>1. ~TooLong(n, received, k)
    BY <1>1, <1>4, <1>8, <1>10
  <2>2. LineError = IF e # 0 /\ (l < 2 \/ buffer[l - 1] # CR) THEN 400 ELSE 0
    BY <1>3, <1>10
  <2>3. CASE e = 0
    BY <2>1, <2>2, <2>3 DEF e
  <2>4. CASE e # 0
    <3>1. ~(q > received) /\ l = q - p
      BY <1>1, <2>4 DEF u
    <3>2. l < 2 \/ buffer[l - 1] # CR <=> q - p < 2 \/ stream[q - 1] # CR
      <4>1. l < 2 \/ l >= 2
        BY <1>2, <3>1
      <4> QED
        BY <1>1, <2>4, <3>1, <4>1
    <3> QED
      BY <1>5, <1>6, <2>1, <2>2, <2>4, <3>1, <3>2 DEF e, q, p
  <2> QED
    BY <2>3, <2>4
<1> QED
  BY <1>9, <1>10

\* A step that leaves the stream leaves all that is told of it.
LEMMA StreamStays ==
  ASSUME stream' = stream
  PROVE  /\ \A n, k : /\ End(n, k)' = End(n, k) /\ LineOf(n, k)' = LineOf(n, k)
                      /\ NamesBefore(n, k)' = NamesBefore(n, k)
                      /\ BodyLength(n, k)' = BodyLength(n, k)
         /\ \A n : Version(n)' = Version(n) /\ Behind(n)' = Behind(n) /\ Request(n)' = Request(n)
         /\ \A n, r, k : Verdict(n, r, k)' = Verdict(n, r, k)
         /\ \A n, r : Decides(n, r)' = Decides(n, r) /\ Whole(n, r)' = Whole(n, r)
         /\ \A m : Start(m)' = Start(m)
<1>1. \A i : NextFeed(i)' = NextFeed(i)
  BY DEF NextFeed
<1>2. \A n, k : End(n, k)' = End(n, k)
  BY <1>1 DEF End
<1>3. \A n, k : LineOf(n, k)' = LineOf(n, k)
  BY <1>2 DEF LineOf
<1>4. \A n, k : FieldsBefore(n, k)' = FieldsBefore(n, k)
  BY <1>3 DEF FieldsBefore
<1>5. \A n, k : NamesBefore(n, k)' = NamesBefore(n, k)
  BY <1>4 DEF NamesBefore
<1>0. \A n, k : Announced(n, k)' = Announced(n, k)
  BY <1>4 DEF Announced
<1>6. \A n, k : BodyLength(n, k)' = BodyLength(n, k)
  <2> SUFFICES ASSUME NEW n, NEW k
               PROVE  BodyLength(n, k)' = BodyLength(n, k)
    OBVIOUS
  <2> DEFINE Of(S) == IF S = {} THEN 0 ELSE Lengths[CHOOSE f \in S : TRUE]
  <2>1. BodyLength(n, k) = Of(Announced(n, k)) /\ BodyLength(n, k)' = Of(Announced(n, k)')
    BY DEF BodyLength
  <2> HIDE DEF Of
  <2> QED
    BY <1>0, <2>1
<1>7. \A n : Version(n)' = Version(n)
  BY <1>3 DEF Version
<1>8. \A n, k : LineVerdict(n, k)' = LineVerdict(n, k)
  BY <1>2, <1>3, <1>5, <1>7 DEF LineVerdict
<1>9. \A n, r, k : Verdict(n, r, k)' = Verdict(n, r, k)
  BY <1>2, <1>8 DEF Verdict, TooLong
<1>10. \A n, r, k : Deciding(n, r, k)' = Deciding(n, r, k)
  BY <1>2, <1>3, <1>9 DEF Deciding
<1>11. \A n, r : Decides(n, r)' = Decides(n, r)
  BY <1>10 DEF Decides
<1>12. \A n, r : Whole(n, r)' = Whole(n, r)
  BY <1>2, <1>6, <1>9, <1>11 DEF Whole
<1>13. \A n : Behind(n)' = Behind(n)
  BY <1>2, <1>6, <1>11, <1>12 DEF Behind
<1>14. \A n : Request(n)' = Request(n)
  BY <1>2, <1>7, <1>11, <1>13 DEF Request
<1>15. \A m : Start(m)' = Start(m)
  BY <1>13 DEF Start
<1> QED
  BY <1>2, <1>3, <1>5, <1>6, <1>7, <1>9, <1>11, <1>12, <1>13, <1>14, <1>15

-----------------------------------------------------------------------------
(* The fields of a head *)

\* The fields that say Content-Length.
LEMMA LengthFields ==
  /\ DOMAIN Lengths = {"Length0", "Length1", "Length2", "LengthMax"}
  /\ \A f \in Fields : /\ f \in DOMAIN Lengths <=> Name(f) = "Content-Length"
                       /\ Name(f) # "Content-Length" => Name(f) = f
<1>1. DOMAIN Lengths = {"Length0", "Length1", "Length2", "LengthMax"}
  BY DEF Lengths
<1> QED
  BY <1>1 DEF Fields, Name

\* Before its first field a head says nothing.
LEMMA HeadOpens ==
  ASSUME NEW n, NEW k \in Nat, k <= 2
  PROVE  NamesBefore(n, k) = {} /\ BodyLength(n, k) = 0
<1>1. 2 .. k - 1 = {}
  OBVIOUS
<1>2. FieldsBefore(n, k) = {}
  BY <1>1 DEF FieldsBefore
<1>3. Announced(n, k) = {}
  BY <1>2 DEF Announced
<1> QED
  BY <1>2, <1>3 DEF NamesBefore, BodyLength

\* A field adds its name and, if it is a Content-Length, the only one.
LEMMA HeadGrows ==
  ASSUME NEW n, NEW k \in Nat, k > 1, LineOf(n, k)[1] \in Fields
  PROVE  LET f == LineOf(n, k)[1]
         IN  /\ NamesBefore(n, k + 1) = NamesBefore(n, k) \cup {Name(f)}
             /\ Name(f) # "Content-Length" => BodyLength(n, k + 1) = BodyLength(n, k)
             /\ Name(f) = "Content-Length" /\ "Content-Length" \notin NamesBefore(n, k)
                  => BodyLength(n, k + 1) = Lengths[f]
<1> DEFINE f == LineOf(n, k)[1]
           S == FieldsBefore(n, k)
           Of(A) == IF A = {} THEN 0 ELSE Lengths[CHOOSE g \in A : TRUE]
<1>1. 2 .. (k + 1) - 1 = (2 .. k - 1) \cup {k}
  OBVIOUS
<1>2. FieldsBefore(n, k + 1) = S \cup {f}
  BY <1>1 DEF FieldsBefore
<1>3. NamesBefore(n, k + 1) = {Name(g) : g \in S \cup {f}} /\ NamesBefore(n, k) = {Name(g) : g \in S}
  BY <1>2 DEF NamesBefore
<1>4. Announced(n, k + 1) = (S \cup {f}) \cap DOMAIN Lengths /\ Announced(n, k) = S \cap DOMAIN Lengths
  BY <1>2 DEF Announced
<1>5. BodyLength(n, k + 1) = Of(Announced(n, k + 1)) /\ BodyLength(n, k) = Of(Announced(n, k))
  BY DEF BodyLength
<1>6. f \in DOMAIN Lengths <=> Name(f) = "Content-Length"
  BY LengthFields
<1>7. \A g \in DOMAIN Lengths : Name(g) = "Content-Length"
  BY DEF Name
<1>8. \A g : Of({g}) = Lengths[g]
  OBVIOUS
<1> HIDE DEF f, S, Of
<1>9. NamesBefore(n, k + 1) = NamesBefore(n, k) \cup {Name(f)}
  BY <1>3
<1>10. ASSUME Name(f) # "Content-Length"
       PROVE  BodyLength(n, k + 1) = BodyLength(n, k)
  <2>1. Announced(n, k + 1) = Announced(n, k)
    BY <1>4, <1>6, <1>10
  <2> QED
    BY <1>5, <2>1
<1>11. ASSUME Name(f) = "Content-Length", "Content-Length" \notin NamesBefore(n, k)
       PROVE  BodyLength(n, k + 1) = Lengths[f]
  <2>1. Announced(n, k) = {}
    BY <1>3, <1>4, <1>7, <1>11
  <2>2. Announced(n, k + 1) = {f}
    BY <1>4, <1>6, <1>11, <2>1
  <2> QED
    BY <1>5, <1>8, <2>2
<1> QED
  BY <1>9, <1>10, <1>11 DEF f

-----------------------------------------------------------------------------
(* The messages of a stream *)

\* Where a message ends is a place, or one past the end.
LEMMA BehindIs ==
  ASSUME stream \in Seq(Symbol), NEW n \in 0 .. Len(stream) + 1
  PROVE  Behind(n) \in 0 .. Len(stream) + 1
<1> DEFINE L == Len(stream)
           e == End(n, Decides(n, L)) + BodyLength(n, Decides(n, L))
<1>1. L \in Nat
  OBVIOUS
<1>2. Behind(n) = IF Whole(n, L) THEN e ELSE L + 1
  BY DEF Behind
<1>3. Whole(n, L) => e \in n + 1 .. L
  BY DEF Whole
<1> HIDE DEF L, e
<1> QED
  BY <1>1, <1>2, <1>3 DEF L

\* The starts of messages are what their recursive definition says.
LEMMA StartIs ==
  ASSUME stream \in Seq(Symbol)
  PROVE  /\ Start(0) = 0
         /\ \A m \in Nat : /\ Start(m) \in 0 .. Len(stream) + 1
                           /\ Start(m + 1) = Behind(Start(m))
<1> DEFINE D == 0 .. Len(stream) + 1
           F == [i \in D |-> Behind(i)]
           Starts(g) == g = [i \in Nat |-> IF i = 0 THEN 0 ELSE Behind(g[i - 1])]
           starts == CHOOSE g : Starts(g)
<1>1. F \in [D -> D]
  BY BehindIs
<1>2. PICK g : Iterates(g, D, F, 0)
  <2>1. 0 \in D
    OBVIOUS
  <2> HIDE DEF F, D
  <2> QED
    BY <1>1, <2>1, Iterated
<1>3. g \in [Nat -> D] /\ g[0] = 0 /\ \A i \in Nat : g[i + 1] = Behind(g[i])
  BY <1>2 DEF Iterates
<1> HIDE DEF D, F
<1>4. Starts(g)
  <2>1. ASSUME NEW i \in Nat, i # 0
        PROVE  g[i] = Behind(g[i - 1])
    <3>1. i - 1 \in Nat /\ i - 1 + 1 = i
      BY <2>1
    <3> QED
      BY <1>3, <3>1
  <2> QED
    BY <1>3, <2>1
<1>5. Starts(starts)
  <2> HIDE DEF Starts
  <2> QED
    BY <1>4
<1>6. \A m : Start(m) = starts[m]
  BY DEF Start
<1> HIDE DEF starts
<1>7. starts[0] = 0 /\ \A i \in Nat : starts[i + 1] = Behind(starts[i])
  <2>1. \A i \in Nat : i + 1 \in Nat /\ i + 1 # 0 /\ i + 1 - 1 = i
    OBVIOUS
  <2>2. \A i \in Nat : starts[i] = IF i = 0 THEN 0 ELSE Behind(starts[i - 1])
    BY <1>5
  <2> HIDE DEF Starts
  <2> QED
    BY <2>1, <2>2
<1> DEFINE T == {k \in Nat : starts[k] \in D}
<1>8. 0 \in T /\ \A i \in Nat : i \in T => i + 1 \in T
  <2>1. \A d \in D : Behind(d) \in D
    BY BehindIs DEF D
  <2>2. 0 \in D
    BY DEF D
  <2>3. 0 \in T
    BY <1>7, <2>2
  <2>4. ASSUME NEW i \in Nat, i \in T
        PROVE  i + 1 \in T
    <3>1. starts[i] \in D
      BY <2>4
    <3>2. starts[i + 1] \in D
      BY <1>7, <2>1, <3>1
    <3> QED
      BY <3>2
  <2> QED
    BY <2>3, <2>4
<1>9. Nat \subseteq T
  <2> HIDE DEF T
  <2> QED
    BY <1>8, Induction
<1> QED
  BY <1>6, <1>7, <1>9 DEF D

(***************************************************************************)
(* Where the parser is in its stream                                       *)
(***************************************************************************)

\* Of the message behind place n, the k-th line is next, or the last one read:
\* p is the parser's place, r how much it has received, c its context.
HeadRead(n, k, c) ==
  /\ c.version = Version(n)
  /\ c.headers = NamesBefore(n, k)
  /\ c.body_length = BodyLength(n, k)

LineBegun(n, k, p, c) == k = 1 /\ p = n /\ c = Cleared

HeadBegun(n, k, p, c) ==
  /\ k > 1 /\ p = End(n, k - 1)
  /\ HeadRead(n, k, c)
  /\ c.head_size = p - End(n, 1)

BodyBegun(n, k, p, c) ==
  /\ k > 1 /\ End(n, k) <= Len(stream)
  /\ Verdict(n, Len(stream), k) = 0 /\ LineOf(n, k) = <<>>
  /\ HeadRead(n, k, c)
  /\ p = End(n, k) + Len(c.body)
  /\ \A i \in 1 .. Len(c.body) : c.body[i] = stream[End(n, k) + i]

GivenUp(n, k, r, c) == c.resp_statu # 0 /\ Verdict(n, r, k) = c.resp_statu

ReadSoFar(n, k, p, r, c) ==
  /\ \A j \in 1 .. k - 1 : Passed(n, j) /\ End(n, j) <= p
  /\ k - 1 <= p
  /\ c.recv_statu = "RECV_HTTP_LINE" => LineBegun(n, k, p, c)
  /\ c.recv_statu = "RECV_HTTP_HEAD" => HeadBegun(n, k, p, c)
  /\ c.recv_statu \in {"RECV_HTTP_BODY", "RECV_HTTP_OVER"} => BodyBegun(n, k, p, c)
  /\ c.recv_statu = "RECV_HTTP_ERROR" => GivenUp(n, k, r, c)

\* The first m messages have been reported, as they are and as soon as they
\* are there.
Reported(m, p, r, done) ==
  /\ m <= Start(m) /\ Start(m) <= p
  /\ \A i \in 1 .. m : \A q \in r .. Len(stream) : Whole(Start(i - 1), q)
  /\ done = [i \in 1 .. m |-> Request(Start(i - 1))]

\* The parser has done m messages and is at the k-th line of the next.
At(m, k, p, r, c, done) ==
  Reported(m, p, r, done) /\ ReadSoFar(Start(m), k, p, r, c)

Reading ==
  stage # "closed" =>
    \E m \in Nat, k \in Nat \ {0} : At(m, k, Place, received, context, results)

\* It waits only when there is nothing it could do.
Waits ==
  stage = "waiting" =>
    /\ context.recv_statu \in {"RECV_HTTP_LINE", "RECV_HTTP_HEAD"} => LineEnd = 0 /\ LineError = 0
    /\ context.recv_statu = "RECV_HTTP_BODY" => buffer = <<>> /\ Len(context.body) < context.body_length
    /\ context.recv_statu \notin {"RECV_HTTP_OVER", "RECV_HTTP_ERROR"}

AllReported == stage = "closed" => results = Expected(received)

Judged == Reading /\ Waits /\ AllReported

\* A step that leaves the stream leaves what it means to be at a place of it.
LEMMA AtStays ==
  ASSUME stream' = stream
  PROVE  \A m, k, p, r, c, done : At(m, k, p, r, c, done)' = At(m, k, p, r, c, done)
<1>1. /\ \A n, k : /\ End(n, k)' = End(n, k) /\ LineOf(n, k)' = LineOf(n, k)
                   /\ NamesBefore(n, k)' = NamesBefore(n, k)
                   /\ BodyLength(n, k)' = BodyLength(n, k)
      /\ \A n : Version(n)' = Version(n) /\ Behind(n)' = Behind(n) /\ Request(n)' = Request(n)
      /\ \A n, r, k : Verdict(n, r, k)' = Verdict(n, r, k)
      /\ \A n, r : Decides(n, r)' = Decides(n, r) /\ Whole(n, r)' = Whole(n, r)
      /\ \A m : Start(m)' = Start(m)
  BY StreamStays
<1>2. \A n, k : Passed(n, k)' = Passed(n, k)
  BY <1>1 DEF Passed
<1>3. \A n, k, c : HeadRead(n, k, c)' = HeadRead(n, k, c)
  BY <1>1 DEF HeadRead
<1>4. \A n, k, p, c : HeadBegun(n, k, p, c)' = HeadBegun(n, k, p, c)
  BY <1>1, <1>3 DEF HeadBegun
<1>5. \A n, k, p, c : BodyBegun(n, k, p, c)' = BodyBegun(n, k, p, c)
  BY <1>1, <1>3 DEF BodyBegun
<1>6. \A n, k, r, c : GivenUp(n, k, r, c)' = GivenUp(n, k, r, c)
  BY <1>1 DEF GivenUp
<1>7. \A n, k, p, r, c : ReadSoFar(n, k, p, r, c)' = ReadSoFar(n, k, p, r, c)
  BY <1>1, <1>2, <1>4, <1>5, <1>6 DEF ReadSoFar, LineBegun
<1>8. \A m, p, r, done : Reported(m, p, r, done)' = Reported(m, p, r, done)
  BY <1>1 DEF Reported
<1> QED
  BY <1>1, <1>7, <1>8 DEF At

\* What has to be shown of the next state.
LEMMA ReadingOn ==
  ASSUME stream' = stream, NEW m \in Nat, NEW k \in Nat \ {0},
         At(m, k, Place', received', context', results')
  PROVE  Reading'
<1>1. At(m, k, Place, received, context, results)'
  BY AtStays
<1> QED
  BY <1>1 DEF Reading

-----------------------------------------------------------------------------
(* The places of the parser *)

\* The parser is somewhere in what it has received.
LEMMA Places ==
  ASSUME Inv, stage # "closed"
  PROVE  /\ stream \in Seq(Symbol) /\ Len(stream) \in Nat
         /\ received \in 0 .. Len(stream) /\ Len(buffer) \in Nat
         /\ Place \in 0 .. received /\ Place = received - Len(buffer)
<1> DEFINE L == Len(stream)
           b == Len(buffer)
<1>1. stream \in Seq(Symbol) /\ L \in Nat /\ received \in 0 .. L /\ b \in Nat /\ b <= received
  BY StreamAssumption DEF Inv, TypeOK, Unread
<1>2. Place = received - b
  BY DEF Place
<1> HIDE DEF L, b
<1>3. Place \in 0 .. received
  BY <1>1, <1>2
<1> QED
  BY <1>1, <1>2, <1>3 DEF L, b

\* Messages reported stay reported when the parser goes on.
LEMMA ReportedOn ==
  ASSUME NEW m, NEW p \in Nat, NEW r \in Nat, NEW done, Reported(m, p, r, done),
         stream \in Seq(Symbol), m \in Nat,
         NEW q \in Nat, p <= q, NEW s \in Nat, r <= s
  PROVE  Reported(m, q, s, done)
<1> DEFINE L == Len(stream)
           n == Start(m)
<1>1. n \in 0 .. L + 1 /\ L \in Nat
  BY StartIs
<1>2. n <= p
  BY DEF Reported
<1> HIDE DEF L, n
<1>3. n <= q
  BY <1>1, <1>2
<1>4. \A i \in s .. L : i \in r .. L
  BY <1>1
<1> QED
  BY <1>3, <1>4 DEF Reported, L, n

\* The next message begins within what has been received.
LEMMA NextBegins ==
  ASSUME Inv, stage # "closed", NEW m \in Nat, NEW p, NEW r, NEW done, p <= received, p \in Nat,
         Reported(m, p, r, done)
  PROVE  /\ Start(m) \in 0 .. Len(stream) + 1 /\ Start(m) \in 0 .. Len(stream)
         /\ Start(m) \in Nat /\ Start(m) <= p /\ m <= Start(m)
<1> DEFINE L == Len(stream)
           n == Start(m)
<1>1. stream \in Seq(Symbol) /\ L \in Nat /\ received \in 0 .. L
  BY Places
<1>2. n \in 0 .. L + 1
  BY <1>1, StartIs
<1>3. n <= p /\ m <= n
  BY DEF Reported
<1> HIDE DEF L, n
<1>4. n \in 0 .. L
  BY <1>1, <1>2, <1>3
<1> QED
  BY <1>2, <1>3, <1>4 DEF L, n

\* Behind the line it has taken.
LEMMA TakenLine ==
  ASSUME Inv, stage # "closed", NEW n \in 0 .. Len(stream) + 1, NEW k \in Nat \ {0},
         Place = End(n, k - 1), LineEnd # 0
  PROVE  LET p == received - Len(AfterLine)
         IN  /\ p = End(n, k) /\ p \in Nat /\ Place < p /\ p <= received
             /\ Length = p - Place
<1> DEFINE p == received - Len(AfterLine)
           b == Len(buffer)
           e == LineEnd
           q == End(n, k)
<1>1. /\ Place \in 0 .. received /\ received \in Nat /\ b \in Nat /\ Place = received - b
      /\ buffer \in Seq(Symbol)
  BY Places DEF Inv, TypeOK
<1>2. e \in 0 .. b
  BY <1>1, LineEnds
<1>3. Len(AfterLine) = b - e
  BY <1>1, <1>2, BehindFront DEF AfterLine
<1>4. /\ ~(q > received) /\ q = Place + e /\ q > Place
      /\ Length = (IF q > received THEN received ELSE q) - Place
  BY LineInStream DEF Inv
<1> HIDE DEF b, e, q
<1>5. p = q /\ p \in Nat /\ Place < p /\ p <= received /\ Length = p - Place
  BY <1>1, <1>2, <1>3, <1>4
<1> QED
  BY <1>5 DEF q

\* The first line of a message ends behind its start.
LEMMA FirstEnds ==
  ASSUME stream \in Seq(Symbol), NEW n \in 0 .. Len(stream)
  PROVE  n < End(n, 1)
<1> DEFINE L == Len(stream)
<1>1. L \in Nat /\ n \in 0 .. L + 1 /\ n <= L
  OBVIOUS
<1>2. End(n, 0) = n /\ End(n, 0 + 1) = NextFeed(End(n, 0)) /\ 0 + 1 = 1
  BY <1>1, EndIs
<1>3. n <= L => n < NextFeed(n)
  BY <1>1, NextFeedIs
<1> QED
  BY <1>1, <1>2, <1>3

\* A line taken and found good.
LEMMA LinesRead ==
  ASSUME Inv, stage # "closed", NEW n \in 0 .. Len(stream) + 1, NEW k \in Nat \ {0},
         NEW p \in Nat, NEW q \in Nat,
         \A j \in 1 .. k - 1 : Passed(n, j) /\ End(n, j) <= p,
         k - 1 <= p, p < q
  PROVE  /\ \A j \in 1 .. k - 1 : Passed(n, j) /\ End(n, j) <= q
         /\ k - 1 <= q /\ k + 1 - 1 <= q
         /\ End(n, k) = q /\ Passed(n, k) =>
              \A j \in 1 .. k + 1 - 1 : Passed(n, j) /\ End(n, j) <= q
<1>1. ASSUME NEW j \in 1 .. k - 1
      PROVE  Passed(n, j) /\ End(n, j) <= q
  <2>1. stream \in Seq(Symbol) /\ j \in Nat
    BY Places
  <2>2. End(n, j) \in 0 .. Len(stream) + 1
    BY <2>1, EndIs
  <2>3. Passed(n, j) /\ End(n, j) <= p
    OBVIOUS
  <2>4. End(n, j) \in Nat
    BY <2>2
  <2> QED
    BY <2>3, <2>4
<1>2. k - 1 <= q /\ k + 1 - 1 <= q
  OBVIOUS
<1>3. ASSUME End(n, k) = q, Passed(n, k), NEW j \in 1 .. k + 1 - 1
      PROVE  Passed(n, j) /\ End(n, j) <= q
  <2>1. CASE j = k
    BY <1>3, <2>1
  <2>2. CASE j # k
    <3>1. j \in 1 .. k - 1
      BY <2>2
    <3> QED
      BY <1>1, <3>1
  <2> QED
    BY <2>1, <2>2
<1> QED
  BY <1>1, <1>2, <1>3

-----------------------------------------------------------------------------
(* Steps that read *)

\* A parser that goes on parsing.
LEMMA ParsingOn ==
  ASSUME Inv, stage = "parsing", stage' = "parsing",
         UNCHANGED <<stream, received, results>>,
         NEW m \in Nat, NEW k \in Nat \ {0}, NEW p \in Nat, Reported(m, Place, received, results),
         p = Place', Place <= p,
         ReadSoFar(Start(m), k, p, received, context')
  PROVE  Judged'
<1>1. stream \in Seq(Symbol) /\ Place \in Nat /\ received \in Nat
  BY Places
<1>2. Reported(m, p, received, results)
  <2>1. received <= received
    BY <1>1
  <2> QED
    BY <1>1, <2>1, ReportedOn
<1>3. At(m, k, Place', received', context', results')
  BY <1>2 DEF At
<1>4. Reading'
  BY <1>3, ReadingOn
<1>5. Waits' /\ AllReported'
  BY DEF Waits, AllReported
<1> QED
  BY <1>4, <1>5 DEF Judged

\* A parser that gives up has said what is wrong.
LEMMA ErrorRead ==
  ASSUME NEW n, NEW k \in Nat, NEW p, NEW c \in Context, NEW statu \in Nat \ {0},
         \A j \in 1 .. k - 1 : Passed(n, j) /\ End(n, j) <= p, k - 1 <= p,
         Verdict(n, received, k) = statu
  PROVE  ReadSoFar(n, k, p, received, SetError(c, statu))
<1> DEFINE d == SetError(c, statu)
<1>1. d.recv_statu = "RECV_HTTP_ERROR" /\ d.resp_statu = statu
  BY DEF SetError, Context
<1>2. GivenUp(n, k, received, d)
  BY <1>1 DEF GivenUp
<1> HIDE DEF d
<1> QED
  BY <1>1, <1>2 DEF ReadSoFar, d

\* What the parser is at when it reads lines.
LEMMA AtLineIs ==
  ASSUME Inv, Judged, AtLine
  PROVE  \E m \in Nat, k \in Nat \ {0} :
           /\ Reported(m, Place, received, results)
           /\ ReadSoFar(Start(m), k, Place, received, context)
           /\ Start(m) \in 0 .. Len(stream) + 1 /\ Start(m) \in 0 .. Len(stream)
           /\ Place = End(Start(m), k - 1)
           /\ InHead <=> k > 1
           /\ InHead => context.head_size = Place - End(Start(m), 1)
<1>1. stage = "parsing"
  BY DEF AtLine, Receiving
<1>2. PICK m \in Nat, k \in Nat \ {0} : At(m, k, Place, received, context, results)
  BY <1>1 DEF Judged, Reading
<1>3. Reported(m, Place, received, results) /\ ReadSoFar(Start(m), k, Place, received, context)
  BY <1>2 DEF At
<1>4. Place \in Nat /\ Place <= received /\ stream \in Seq(Symbol)
  BY <1>1, Places
<1>5. Start(m) \in 0 .. Len(stream) + 1 /\ Start(m) \in 0 .. Len(stream)
  BY <1>1, <1>3, <1>4, NextBegins
<1>6. CASE context.recv_statu = "RECV_HTTP_LINE"
  <2>1. k = 1 /\ Place = Start(m)
    BY <1>3, <1>6 DEF ReadSoFar, LineBegun
  <2>2. End(Start(m), 0) = Start(m) /\ k - 1 = 0 /\ ~(k > 1) /\ ~InHead
    BY <1>4, <1>5, <1>6, <2>1, EndIs DEF InHead
  <2> QED
    BY <1>3, <1>5, <2>1, <2>2
<1>7. CASE context.recv_statu = "RECV_HTTP_HEAD"
  <2>1. k > 1 /\ Place = End(Start(m), k - 1) /\ context.head_size = Place - End(Start(m), 1) /\ InHead
    BY <1>3, <1>7 DEF ReadSoFar, HeadBegun, InHead
  <2> QED
    BY <1>3, <1>5, <2>1
<1> QED
  BY <1>6, <1>7 DEF AtLine, Receiving

\* ReadLine finds a line that is wrong.
LEMMA ReadLineFailsJudged ==
  ASSUME Inv, Judged, ReadLineFails
  PROVE  Judged'
<1>1. /\ AtLine /\ stage = "parsing" /\ LineError # 0 /\ context' = SetError(context, LineError)
      /\ UNCHANGED <<stream, received, buffer, results, stage>>
  BY DEF ReadLineFails, AtLine, Receiving
<1>2. PICK m \in Nat, k \in Nat \ {0} :
           /\ Reported(m, Place, received, results)
           /\ ReadSoFar(Start(m), k, Place, received, context)
           /\ Start(m) \in 0 .. Len(stream) + 1 /\ Start(m) \in 0 .. Len(stream)
           /\ Place = End(Start(m), k - 1)
           /\ InHead <=> k > 1
           /\ InHead => context.head_size = Place - End(Start(m), 1)
  BY <1>1, AtLineIs
<1>3. Verdict(Start(m), received, k) = LineError
  BY <1>1, <1>2, LineIsJudged DEF Inv
<1>4. LineError \in Nat \ {0} /\ context \in Context /\ k \in Nat
  BY <1>1, LineErrorIsStatus DEF Inv, TypeOK
<1>5. (\A j \in 1 .. k - 1 : Passed(Start(m), j) /\ End(Start(m), j) <= Place) /\ k - 1 <= Place
  BY <1>2 DEF ReadSoFar
<1>6. ReadSoFar(Start(m), k, Place, received, context')
  BY <1>1, <1>3, <1>4, <1>5, ErrorRead
<1>7. Place' = Place
  BY <1>1 DEF Place
<1>8. Place \in Nat /\ Place <= Place
  BY <1>1, Places
<1> QED
  BY <1>1, <1>2, <1>6, <1>7, <1>8, ParsingOn

\* It is not complete yet: the parser waits.
LEMMA ReadLineWaitsJudged ==
  ASSUME Inv, Judged, ReadLineWaits
  PROVE  Judged'
<1>1. /\ stage = "parsing" /\ stage' = "waiting" /\ LineError = 0 /\ LineEnd = 0
      /\ context.recv_statu \in {"RECV_HTTP_LINE", "RECV_HTTP_HEAD"}
      /\ UNCHANGED <<stream, received, buffer, context, results>>
  BY DEF ReadLineWaits, AtLine, Receiving
<1>2. PICK m \in Nat, k \in Nat \ {0} : At(m, k, Place, received, context, results)
  BY <1>1 DEF Judged, Reading
<1>3. Place' = Place
  BY <1>1 DEF Place
<1>4. Reading'
  BY <1>1, <1>2, <1>3, ReadingOn
<1>5. LineEnd' = 0 /\ LineError' = 0
  <2>1. LineEnd' = LineEnd
    BY <1>1 DEF LineEnd
  <2>2. Length' = Length /\ InHead' = InHead
    BY <1>1, <2>1 DEF Length, InHead
  <2>3. LineError' = LineError
    BY <1>1, <2>1, <2>2 DEF LineError
  <2> QED
    BY <1>1, <2>1, <2>3
<1>6. Waits' /\ AllReported'
  BY <1>1, <1>5 DEF Waits, AllReported
<1> QED
  BY <1>4, <1>6 DEF Judged

-----------------------------------------------------------------------------
(* Lines and their verdicts *)

\* A good line as the parser finds it.
LEMMA GoodLineIs ==
  ASSUME Inv, AtLine, LineError = 0, LineEnd # 0,
         NEW n \in 0 .. Len(stream) + 1, NEW k \in Nat \ {0},
         Place = End(n, k - 1), InHead <=> k > 1,
         InHead => context.head_size = Place - End(n, 1),
         buffer' = AfterLine, received' = received
  PROVE  LET p == Place'
         IN  /\ p \in Nat /\ p = End(n, k) /\ Place < p /\ Length = p - Place
             /\ End(n, k) <= received /\ End(n, k) <= Len(stream)
             /\ Line = LineOf(n, k)
             /\ Verdict(n, received, k) = Verdict(n, Len(stream), k)
             /\ k = 1 => Verdict(n, received, k) = RequestLineVerdict(Line)
             /\ k > 1 /\ Line = <<>>
                  => Verdict(n, received, k) = HeadVerdict(Version(n), NamesBefore(n, k))
             /\ k > 1 /\ Line # <<>>
                  => Verdict(n, received, k) = FieldVerdict(Line, NamesBefore(n, k))
<1>1. stage # "closed" /\ TypeOK /\ Unread
  BY DEF AtLine, Receiving, Inv
<1>2. received - Len(AfterLine) = Place'
  BY DEF Place
<1>3. LET p == received - Len(AfterLine)
      IN  /\ p = End(n, k) /\ p \in Nat /\ Place < p /\ p <= received
          /\ Length = p - Place
  BY <1>1, TakenLine
<1>4. End(n, k) <= received /\ received \in 0 .. Len(stream) /\ stream \in Seq(Symbol)
  BY <1>1, <1>3, Places
<1>5. Line = LineOf(n, k) /\ End(n, k) <= Len(stream)
  BY <1>1, LineInStream
<1>6. Verdict(n, received, k) = Verdict(n, Len(stream), k)
  BY <1>4, VerdictStays
<1>7. /\ ~TooLong(n, received, k) /\ ~(End(n, k) > received)
      /\ ~(End(n, k) - End(n, k - 1) < 2) /\ ~(stream[End(n, k) - 1] # CR)
  BY <1>1, LineIsJudged
<1>8. Verdict(n, received, k) = LineVerdict(n, k)
  BY <1>7 DEF Verdict
<1>9. LineVerdict(n, k) =
        IF k = 1 THEN RequestLineVerdict(LineOf(n, k))
        ELSE IF LineOf(n, k) = <<>> THEN HeadVerdict(Version(n), NamesBefore(n, k))
        ELSE FieldVerdict(LineOf(n, k), NamesBefore(n, k))
  BY <1>7 DEF LineVerdict
<1>10. k > 1 => k # 1
  OBVIOUS
<1> QED
  BY <1>2, <1>3, <1>4, <1>5, <1>6, <1>8, <1>9, <1>10

\* A line is a text.
LEMMA LineIsText ==
  ASSUME buffer \in Seq(Symbol)
  PROVE  Line \in Seq(Symbol)
<1> DEFINE n == Len(buffer)
           e == LineEnd
<1>1. n \in Nat /\ e \in 0 .. n
  BY LineEnds
<1>2. Line = SubSeq(buffer, 1, e - 2)
  BY DEF Line
<1>3. \A i \in 1 .. e - 2 : buffer[i] \in Symbol
  <2>1. \A i \in 1 .. e - 2 : i \in 1 .. n
    <3> HIDE DEF n, e
    <3> QED
      BY <1>1
  <2> QED
    BY <2>1
<1> HIDE DEF e, n
<1>4. e - 2 \in Int /\ 1 \in Int
  BY <1>1
<1> QED
  BY <1>2, <1>3, <1>4, SubSeqProperties

\* ParseHttpLine, ParseHttpHead and the end of the head do what the verdict on
\* their line says.
LEMMA RequestLineParsed ==
  ASSUME NEW line \in Seq(Symbol), NEW c
  PROVE  LET v == RequestLineVerdict(line)
         IN  /\ v # 0 => v = 400 /\ ParseHttpLine(c, line) = SetError(c, v)
             /\ v = 0 => ParseHttpLine(c, line) =
                           [c EXCEPT !.version = line[1], !.recv_statu = "RECV_HTTP_HEAD"]
<1>1. (\E v \in RequestLines : line = <<v>>) <=> Len(line) = 1 /\ line[1] \in RequestLines
  <2>1. ASSUME NEW v \in RequestLines, line = <<v>>
        PROVE  Len(line) = 1 /\ line[1] \in RequestLines
    BY <2>1
  <2>2. ASSUME Len(line) = 1, line[1] \in RequestLines
        PROVE  line = <<line[1]>>
    BY <2>2
  <2> QED
    BY <2>1, <2>2
<1> QED
  BY <1>1 DEF RequestLineVerdict, ParseHttpLine

LEMMA FieldParsed ==
  ASSUME NEW line, NEW c
  PROVE  LET v == FieldVerdict(line, c.headers)
             name == Name(line[1])
         IN  /\ v # 0 => ParseHttpHead(c, line) = SetError(c, v)
             /\ v = 0 => /\ line[1] \in Fields
                         /\ name = "Content-Length" => name \notin c.headers
                         /\ ParseHttpHead(c, line) =
                              [c EXCEPT !.headers = c.headers \cup {name},
                                        !.body_length = IF name = "Content-Length"
                                                        THEN Lengths[line[1]] ELSE c.body_length]
<1> DEFINE v == FieldVerdict(line, c.headers)
           name == Name(line[1])
           read == ParseHttpHead(c, line)
           twice == name \in {"Content-Length", "Host"} /\ name \in c.headers
           large == name = "Content-Length" /\ Lengths[line[1]] > MAX_BODY_SIZE
<1>1. IsField(line) => line[1] \in Fields
  BY DEF IsField
<1>2. IsField(line) => (line[1] \in DOMAIN Lengths <=> name = "Content-Length")
  BY <1>1, LengthFields
<1>3. v = IF ~IsField(line) THEN 400 ELSE IF twice THEN 400 ELSE IF large THEN 413 ELSE 0
  BY <1>2 DEF FieldVerdict
<1>4. read = IF ~IsField(line) THEN SetError(c, 400) ELSE IF twice THEN SetError(c, 400)
             ELSE IF large THEN SetError(c, 413)
             ELSE [c EXCEPT !.headers = c.headers \cup {name},
                            !.body_length = IF name = "Content-Length"
                                            THEN Lengths[line[1]] ELSE c.body_length]
  BY DEF ParseHttpHead
<1> HIDE DEF v, read
<1>5. v # 0 => read = SetError(c, v)
  BY <1>3, <1>4
<1>6. v = 0 => IsField(line) /\ ~twice /\ ~large
  BY <1>3
<1> QED
  BY <1>1, <1>4, <1>5, <1>6 DEF v, read

LEMMA HeadEnded ==
  ASSUME NEW c
  PROVE  LET v == HeadVerdict(c.version, c.headers)
         IN  /\ v # 0 => EndOfHead(c) = SetError(c, v)
             /\ v = 0 => EndOfHead(c) = [c EXCEPT !.recv_statu = "RECV_HTTP_BODY"]
  BY DEF HeadVerdict, EndOfHead

\* A request line is taken.
LEMMA RecvHttpLineJudged ==
  ASSUME Inv, Judged, RecvHttpLine
  PROVE  Judged'
<1>1. /\ AtLine /\ stage = "parsing" /\ context.recv_statu = "RECV_HTTP_LINE"
      /\ LineError = 0 /\ LineEnd # 0 /\ context' = ParseHttpLine(context, Line)
      /\ buffer' = AfterLine
      /\ UNCHANGED <<stream, received, results, stage>>
  BY DEF RecvHttpLine, AtLine, Receiving
<1>2. PICK m \in Nat, k \in Nat \ {0} :
           /\ Reported(m, Place, received, results)
           /\ ReadSoFar(Start(m), k, Place, received, context)
           /\ Start(m) \in 0 .. Len(stream) + 1 /\ Start(m) \in 0 .. Len(stream)
           /\ Place = End(Start(m), k - 1)
           /\ InHead <=> k > 1
           /\ InHead => context.head_size = Place - End(Start(m), 1)
  BY <1>1, AtLineIs
<1> DEFINE n == Start(m)
           v == Verdict(n, received, k)
<1> HIDE DEF n
<1>3. k = 1 /\ context = Cleared
  BY <1>1, <1>2 DEF ReadSoFar, LineBegun
<1>4. PICK p : p = Place'
  OBVIOUS
<1>5. /\ p \in Nat /\ p = End(n, k) /\ Place < p /\ End(n, k) <= Len(stream)
      /\ Line = LineOf(n, k) /\ v = Verdict(n, Len(stream), k)
      /\ v = RequestLineVerdict(Line)
  <2>1. /\ Place' \in Nat /\ Place' = End(n, k) /\ Place < Place' /\ End(n, k) <= Len(stream)
        /\ Line = LineOf(n, k) /\ v = Verdict(n, Len(stream), k)
        /\ v = RequestLineVerdict(Line)
    BY <1>1, <1>2, <1>3, GoodLineIs DEF n
  <2> QED
    BY <1>4, <2>1
<1>6. Place \in Nat /\ Place <= p
  BY <1>1, <1>5, Places
<1>7. /\ \A j \in 1 .. k - 1 : Passed(n, j) /\ End(n, j) <= p
      /\ k - 1 <= p /\ k + 1 - 1 <= p
      /\ End(n, k) = p /\ Passed(n, k) => \A j \in 1 .. k + 1 - 1 : Passed(n, j) /\ End(n, j) <= p
  <2>1. (\A j \in 1 .. k - 1 : Passed(n, j) /\ End(n, j) <= Place) /\ k - 1 <= Place
    BY <1>2 DEF ReadSoFar, n
  <2>2. n \in 0 .. Len(stream) + 1 /\ stage # "closed"
    BY <1>1, <1>2 DEF n
  <2> QED
    BY <1>5, <1>6, <2>1, <2>2, LinesRead
<1>8. Line \in Seq(Symbol) /\ context \in Context
  BY LineIsText DEF Inv, TypeOK
<1>9. CASE v # 0
  <2>1. context' = SetError(context, v) /\ v \in Nat \ {0}
    <3>1. RequestLineVerdict(Line) # 0
      BY <1>5, <1>9
    <3>2. v = 400 /\ ParseHttpLine(context, Line) = SetError(context, RequestLineVerdict(Line))
      BY <1>5, <1>8, <3>1, RequestLineParsed
    <3>3. context' = SetError(context, v)
      BY <1>1, <1>5, <3>2
    <3> QED
      BY <3>2, <3>3
  <2>2. ReadSoFar(n, k, p, received, context')
    BY <1>7, <1>8, <2>1, ErrorRead
  <2> QED
    BY <1>1, <1>2, <1>4, <1>5, <1>6, <2>2, ParsingOn DEF n
<1>10. CASE v = 0
  <2>1. context' = [context EXCEPT !.version = Line[1], !.recv_statu = "RECV_HTTP_HEAD"]
    BY <1>1, <1>5, <1>8, <1>10, RequestLineParsed
  <2>2. /\ context'.recv_statu = "RECV_HTTP_HEAD" /\ context'.version = Line[1]
        /\ context'.headers = {} /\ context'.body_length = 0 /\ context'.head_size = 0
    BY <1>3, <2>1 DEF Cleared
  <2>3. Passed(n, k)
    BY <1>3, <1>5, <1>10 DEF Passed
  <2>4. Version(n) = Line[1]
    BY <1>3, <1>5 DEF Version
  <2>5. NamesBefore(n, 2) = {} /\ BodyLength(n, 2) = 0
    BY HeadOpens
  <2>6. HeadRead(n, 2, context')
    BY <2>2, <2>4, <2>5 DEF HeadRead
  <2>7. HeadBegun(n, k + 1, p, context')
    <3>1. k + 1 = 2 /\ k + 1 > 1 /\ k + 1 - 1 = k
      BY <1>3
    <3>2. p = End(n, 1) /\ p - End(n, 1) = 0
      BY <1>3, <1>5
    <3> QED
      BY <1>5, <2>2, <2>6, <3>1, <3>2 DEF HeadBegun
  <2>8. ReadSoFar(n, k + 1, p, received, context')
    BY <1>5, <1>7, <2>2, <2>3, <2>7 DEF ReadSoFar
  <2>9. k + 1 \in Nat \ {0}
    OBVIOUS
  <2> QED
    BY <1>1, <1>2, <1>4, <1>5, <1>6, <2>8, <2>9, ParsingOn DEF n
<1> QED
  BY <1>9, <1>10

\* A field is taken, or the empty line that ends the head.
LEMMA RecvHttpHeadJudged ==
  ASSUME Inv, Judged, RecvHttpHead
  PROVE  Judged'
<1> DEFINE c == [context EXCEPT !.head_size = context.head_size + Length]
<1>1. /\ AtLine /\ stage = "parsing" /\ context.recv_statu = "RECV_HTTP_HEAD"
      /\ LineError = 0 /\ LineEnd # 0
      /\ context' = IF Line = <<>> THEN EndOfHead(c) ELSE ParseHttpHead(c, Line)
      /\ buffer' = AfterLine
      /\ UNCHANGED <<stream, received, results, stage>>
  BY DEF RecvHttpHead, AtLine, Receiving
<1>2. PICK m \in Nat, k \in Nat \ {0} :
           /\ Reported(m, Place, received, results)
           /\ ReadSoFar(Start(m), k, Place, received, context)
           /\ Start(m) \in 0 .. Len(stream) + 1 /\ Start(m) \in 0 .. Len(stream)
           /\ Place = End(Start(m), k - 1)
           /\ InHead <=> k > 1
           /\ InHead => context.head_size = Place - End(Start(m), 1)
  BY <1>1, AtLineIs
<1> DEFINE n == Start(m)
           v == Verdict(n, received, k)
<1> HIDE DEF n, c
<1>3. k > 1 /\ HeadRead(n, k, context) /\ context.head_size = Place - End(n, 1)
  BY <1>1, <1>2 DEF ReadSoFar, HeadBegun, n
<1>4. PICK p : p = Place'
  OBVIOUS
<1>5. /\ p \in Nat /\ p = End(n, k) /\ Place < p /\ Length = p - Place
      /\ End(n, k) <= Len(stream)
      /\ Line = LineOf(n, k) /\ v = Verdict(n, Len(stream), k)
      /\ Line = <<>> => v = HeadVerdict(Version(n), NamesBefore(n, k))
      /\ Line # <<>> => v = FieldVerdict(Line, NamesBefore(n, k))
  <2>1. /\ Place' \in Nat /\ Place' = End(n, k) /\ Place < Place' /\ Length = Place' - Place
        /\ End(n, k) <= Len(stream)
        /\ Line = LineOf(n, k) /\ v = Verdict(n, Len(stream), k)
        /\ Line = <<>> => v = HeadVerdict(Version(n), NamesBefore(n, k))
        /\ Line # <<>> => v = FieldVerdict(Line, NamesBefore(n, k))
    BY <1>1, <1>2, <1>3, GoodLineIs DEF n
  <2> QED
    BY <1>4, <2>1
<1>6. Place \in Nat /\ Place <= p
  BY <1>1, <1>5, Places
<1>7. /\ \A j \in 1 .. k - 1 : Passed(n, j) /\ End(n, j) <= p
      /\ k - 1 <= p /\ k + 1 - 1 <= p
      /\ End(n, k) = p /\ Passed(n, k) => \A j \in 1 .. k + 1 - 1 : Passed(n, j) /\ End(n, j) <= p
  <2>1. (\A j \in 1 .. k - 1 : Passed(n, j) /\ End(n, j) <= Place) /\ k - 1 <= Place
    BY <1>2 DEF ReadSoFar, n
  <2>2. n \in 0 .. Len(stream) + 1 /\ stage # "closed"
    BY <1>1, <1>2 DEF n
  <2> QED
    BY <1>5, <1>6, <2>1, <2>2, LinesRead
<1>8. /\ context \in Context /\ context.body = <<>> /\ context.head_size \in Nat
      /\ Length \in Nat
  BY <1>1, LineEnds DEF Inv, TypeOK, BodyFits, Context
<1>9. /\ c \in Context /\ c.recv_statu = "RECV_HTTP_HEAD" /\ c.body = <<>>
      /\ c.head_size = context.head_size + Length /\ c.version = context.version
      /\ c.headers = context.headers /\ c.body_length = context.body_length
  <2>1. context.head_size + Length \in Nat
    BY <1>8
  <2> QED
    BY <1>1, <1>8, <2>1 DEF c, Context
<1>10. c.head_size = p - End(n, 1) /\ HeadRead(n, k, c)
  <2>1. End(n, 1) \in Nat
    <3>1. stream \in Seq(Symbol) /\ n \in 0 .. Len(stream) + 1 /\ 1 \in Nat
      BY <1>1, <1>2, Places DEF n
    <3>2. End(n, 1) \in 0 .. Len(stream) + 1
      BY <3>1, EndIs
    <3> QED
      BY <3>2
  <2>2. c.head_size = p - End(n, 1)
    BY <1>3, <1>5, <1>6, <1>8, <1>9, <2>1
  <2> QED
    BY <1>3, <1>9, <2>2 DEF HeadRead
<1>11. ASSUME context' = SetError(c, v), v # 0
       PROVE  Judged'
  <2>1. v \in Nat \ {0}
    BY <1>11, VerdictIsStatus
  <2>2. ReadSoFar(n, k, p, received, context')
    BY <1>7, <1>9, <1>11, <2>1, ErrorRead
  <2> QED
    BY <1>1, <1>2, <1>4, <1>5, <1>6, <2>2, ParsingOn DEF n
<1>12. v \in Nat
  BY VerdictIsStatus
<1>13. CASE Line = <<>>
  <2>1. v = HeadVerdict(c.version, c.headers)
    BY <1>5, <1>10, <1>13 DEF HeadRead
  <2>2. CASE v # 0
    <3>1. context' = SetError(c, v)
      <4>1. EndOfHead(c) = SetError(c, HeadVerdict(c.version, c.headers))
        BY <2>1, <2>2, HeadEnded
      <4> QED
        BY <1>1, <1>13, <2>1, <4>1
    <3> QED
      BY <1>11, <2>2, <3>1
  <2>3. CASE v = 0
    <3>1. context' = [c EXCEPT !.recv_statu = "RECV_HTTP_BODY"]
      <4>1. EndOfHead(c) = [c EXCEPT !.recv_statu = "RECV_HTTP_BODY"]
        BY <2>1, <2>3, HeadEnded
      <4> QED
        BY <1>1, <1>13, <4>1
    <3>2. /\ context'.recv_statu = "RECV_HTTP_BODY" /\ context'.version = c.version
          /\ context'.headers = c.headers /\ context'.body_length = c.body_length
          /\ context'.body = <<>>
      BY <1>9, <3>1 DEF Context
    <3>3. HeadRead(n, k, context')
      BY <1>10, <3>2 DEF HeadRead
    <3>4. Len(context'.body) = 0 /\ End(n, k) + 0 = p
      BY <1>5, <3>2
    <3>5. \A i \in 1 .. Len(context'.body) : context'.body[i] = stream[End(n, k) + i]
      BY <3>4
    <3>6. BodyBegun(n, k, p, context')
      BY <1>3, <1>5, <1>13, <2>3, <3>3, <3>4, <3>5 DEF BodyBegun
    <3>7. ReadSoFar(n, k, p, received, context')
      BY <1>7, <3>2, <3>6 DEF ReadSoFar
    <3> QED
      BY <1>1, <1>2, <1>4, <1>5, <1>6, <3>7, ParsingOn DEF n
  <2> QED
    BY <2>2, <2>3
<1>14. CASE Line # <<>>
  <2> DEFINE f == Line[1]
             name == Name(f)
             length == IF name = "Content-Length" THEN Lengths[f] ELSE c.body_length
  <2>1. v = FieldVerdict(Line, c.headers)
    BY <1>5, <1>10, <1>14 DEF HeadRead
  <2>2. CASE v # 0
    <3>1. context' = SetError(c, v)
      <4>1. ParseHttpHead(c, Line) = SetError(c, FieldVerdict(Line, c.headers))
        BY <2>1, <2>2, FieldParsed
      <4> QED
        BY <1>1, <1>14, <2>1, <4>1
    <3> QED
      BY <1>11, <2>2, <3>1
  <2>3. CASE v = 0
    <3>0. FieldVerdict(Line, c.headers) = 0
      BY <2>1, <2>3
    <3>1. /\ f \in Fields
          /\ name = "Content-Length" => name \notin c.headers
          /\ ParseHttpHead(c, Line) =
               [c EXCEPT !.headers = c.headers \cup {name}, !.body_length = length]
      BY <3>0, FieldParsed
    <3>2. context' = [c EXCEPT !.headers = c.headers \cup {name}, !.body_length = length]
      BY <1>1, <1>14, <3>1
    <3> HIDE DEF name, length
    <3>3. /\ context'.recv_statu = "RECV_HTTP_HEAD" /\ context'.version = c.version
          /\ context'.headers = c.headers \cup {name} /\ context'.body_length = length
          /\ context'.head_size = c.head_size
      BY <1>9, <3>2 DEF Context
    <3>4. /\ NamesBefore(n, k + 1) = NamesBefore(n, k) \cup {name}
          /\ name # "Content-Length" => BodyLength(n, k + 1) = BodyLength(n, k)
          /\ name = "Content-Length" /\ "Content-Length" \notin NamesBefore(n, k)
               => BodyLength(n, k + 1) = Lengths[f]
      <4>1. k \in Nat /\ LineOf(n, k)[1] = f /\ LineOf(n, k)[1] \in Fields
        BY <1>5, <3>1
      <4>2. LET g == LineOf(n, k)[1]
            IN  /\ NamesBefore(n, k + 1) = NamesBefore(n, k) \cup {Name(g)}
                /\ Name(g) # "Content-Length" => BodyLength(n, k + 1) = BodyLength(n, k)
                /\ Name(g) = "Content-Length" /\ "Content-Length" \notin NamesBefore(n, k)
                     => BodyLength(n, k + 1) = Lengths[g]
        BY <1>3, <4>1, HeadGrows
      <4> QED
        BY <4>1, <4>2 DEF name
    <3>5. HeadRead(n, k + 1, context')
      <4>1. /\ c.version = Version(n) /\ c.headers = NamesBefore(n, k)
            /\ c.body_length = BodyLength(n, k)
        BY <1>10 DEF HeadRead
      <4>2. length = BodyLength(n, k + 1)
        <5>1. CASE name = "Content-Length"
          <6>1. BodyLength(n, k + 1) = Lengths[f]
            BY <3>1, <3>4, <4>1, <5>1
          <6> QED
            BY <5>1, <6>1 DEF length
        <5>2. CASE name # "Content-Length"
          <6>1. BodyLength(n, k + 1) = c.body_length
            BY <3>4, <4>1, <5>2
          <6> QED
            BY <5>2, <6>1 DEF length
        <5> QED
          BY <5>1, <5>2
      <4> QED
        BY <3>3, <3>4, <4>1, <4>2 DEF HeadRead
    <3>6. k + 1 > 1 /\ k + 1 - 1 = k /\ k + 1 \in Nat \ {0}
      OBVIOUS
    <3>7. HeadBegun(n, k + 1, p, context')
      BY <1>5, <1>10, <3>3, <3>5, <3>6 DEF HeadBegun
    <3>8. Passed(n, k)
      BY <1>5, <1>14, <2>3 DEF Passed
    <3>9. ReadSoFar(n, k + 1, p, received, context')
      BY <1>5, <1>7, <3>3, <3>7, <3>8 DEF ReadSoFar
    <3> QED
      BY <1>1, <1>2, <1>4, <1>5, <1>6, <3>6, <3>9, ParsingOn DEF n
  <2> QED
    BY <2>2, <2>3
<1> QED
  BY <1>13, <1>14

\* More of the body is taken.
LEMMA RecvHttpBodyJudged ==
  ASSUME Inv, Judged, RecvHttpBody
  PROVE  Judged'
<1>1. /\ UNCHANGED <<stream, received, results>> /\ stage = "parsing"
      /\ context.recv_statu = "RECV_HTTP_BODY"
  BY DEF RecvHttpBody, Receiving
<1>2. PICK count \in 0 .. Len(buffer) :
        LET body == context.body \o SubSeq(buffer, 1, count)
            over == Len(body) = context.body_length
        IN  /\ Len(body) = Len(context.body) + count
            /\ Len(body) <= context.body_length
            /\ \A i \in 1 .. Len(context.body) : body[i] = context.body[i]
            /\ \A i \in 1 .. count : body[Len(context.body) + i] = buffer[i]
            /\ context' = [context EXCEPT !.body = body,
                             !.recv_statu = IF over THEN "RECV_HTTP_OVER" ELSE @]
            /\ buffer' = SubSeq(buffer, count + 1, Len(buffer))
            /\ stage' = IF over THEN "parsing" ELSE "waiting"
            /\ ~over => count = Len(buffer)
  BY BodyTakes
<1> DEFINE body == context.body \o SubSeq(buffer, 1, count)
           over == Len(body) = context.body_length
           l == Len(context.body)
           b == Len(buffer)
<1>3. Len(buffer') = b - count /\ buffer' \in Seq(Symbol)
  BY <1>1, <1>2, TakenFromFront DEF Inv
<1>4. /\ Len(body) = l + count /\ Len(body) <= context.body_length
      /\ \A i \in 1 .. l : body[i] = context.body[i]
      /\ \A i \in 1 .. count : body[l + i] = buffer[i]
      /\ context' = [context EXCEPT !.body = body,
                       !.recv_statu = IF over THEN "RECV_HTTP_OVER" ELSE @]
      /\ stage' = IF over THEN "parsing" ELSE "waiting"
      /\ ~over => count = b
  BY <1>2
<1>5. /\ l \in Nat /\ b \in Nat /\ received \in Nat /\ Place \in Nat /\ Place = received - b
      /\ \A i \in 1 .. b : buffer[i] = stream[Place + i]
      /\ stream \in Seq(Symbol) /\ context \in Context
  <2>1. context.body \in Seq(Symbol) /\ context \in Context
    BY DEF Inv, TypeOK, Context
  <2>2. \A i \in 1 .. b : buffer[i] = stream[Place + i]
    BY <1>1 DEF Inv, Unread, Place
  <2> QED
    BY <1>1, <2>1, <2>2, Places
<1>6. PICK p : p = Place'
  OBVIOUS
<1>7. p = received - Len(buffer')
  BY <1>1, <1>6 DEF Place
<1> HIDE DEF body, over, l, b
<1>8. p = Place + count /\ p \in Nat /\ Place <= p
  BY <1>3, <1>5, <1>7
<1>9. PICK m \in Nat, k \in Nat \ {0} : At(m, k, Place, received, context, results)
  BY <1>1 DEF Judged, Reading
<1> DEFINE n == Start(m)
<1>10. Reported(m, Place, received, results) /\ ReadSoFar(n, k, Place, received, context)
  BY <1>9 DEF At
<1> HIDE DEF n
<1>11. BodyBegun(n, k, Place, context)
  BY <1>1, <1>10 DEF ReadSoFar
<1>12. End(n, k) \in Nat
  <2>1. n \in 0 .. Len(stream) + 1
    BY <1>5, StartIs DEF n
  <2>2. End(n, k) \in 0 .. Len(stream) + 1
    BY <1>5, <2>1, EndIs
  <2> QED
    BY <2>2
<1>13. /\ context'.body = body
       /\ context'.recv_statu = IF over THEN "RECV_HTTP_OVER" ELSE "RECV_HTTP_BODY"
       /\ context'.version = context.version /\ context'.headers = context.headers
       /\ context'.body_length = context.body_length
  BY <1>1, <1>4, <1>5 DEF Context
<1>14. BodyBegun(n, k, p, context')
  <2>1. Place = End(n, k) + l /\ \A i \in 1 .. l : context.body[i] = stream[End(n, k) + i]
    BY <1>11 DEF BodyBegun, l
  <2>2. HeadRead(n, k, context')
    BY <1>11, <1>13 DEF BodyBegun, HeadRead
  <2>3. p = End(n, k) + Len(body)
    BY <1>4, <1>5, <1>8, <1>12, <2>1
  <2>4. ASSUME NEW i \in 1 .. l + count
        PROVE  body[i] = stream[End(n, k) + i]
    <3>1. CASE i <= l
      <4>1. i \in 1 .. l
        BY <1>5, <3>1
      <4> QED
        BY <1>4, <2>1, <4>1
    <3>2. CASE ~(i <= l)
      <4> DEFINE j == i - l
      <4>1. j \in 1 .. count /\ j \in 1 .. b /\ l + j = i
        BY <1>5, <3>2 DEF b
      <4>2. Place + j = End(n, k) + i
        <5>1. Place = End(n, k) + l /\ l \in Nat /\ Place \in Nat
          BY <1>5, <2>1
        <5> QED
          BY <1>12, <5>1
      <4> HIDE DEF j
      <4>3. body[l + j] = buffer[j] /\ buffer[j] = stream[Place + j]
        BY <1>4, <1>5, <4>1
      <4> QED
        BY <4>1, <4>2, <4>3
    <3> QED
      BY <3>1, <3>2
  <2> QED
    BY <1>4, <1>11, <1>13, <2>2, <2>3, <2>4 DEF BodyBegun
<1>15. ReadSoFar(n, k, p, received, context')
  <2>1. \A j \in 1 .. k - 1 : Passed(n, j) /\ End(n, j) <= p
    <3>1. ASSUME NEW j \in 1 .. k - 1
          PROVE  Passed(n, j) /\ End(n, j) <= p
      <4>1. Passed(n, j) /\ End(n, j) <= Place
        BY <1>10 DEF ReadSoFar
      <4>2. n \in 0 .. Len(stream) + 1
        BY <1>5, StartIs DEF n
      <4>3. End(n, j) \in 0 .. Len(stream) + 1
        <5>1. j \in Nat
          OBVIOUS
        <5> QED
          BY <1>5, <4>2, <5>1, EndIs
      <4>4. End(n, j) \in Nat
        BY <4>3
      <4> QED
        BY <1>5, <1>8, <4>1, <4>4
    <3> QED
      BY <3>1
  <2>2. k - 1 <= p
    <3>1. k - 1 <= Place
      BY <1>10 DEF ReadSoFar
    <3> QED
      BY <1>5, <1>8, <3>1
  <2> QED
    BY <1>13, <1>14, <2>1, <2>2 DEF ReadSoFar
<1>16. Reading'
  <2>1. received <= received
    BY <1>5
  <2>2. Reported(m, p, received, results)
    BY <1>5, <1>8, <1>10, <2>1, ReportedOn
  <2>3. At(m, k, Place', received', context', results')
    BY <1>1, <1>6, <1>15, <2>2 DEF At, n
  <2> QED
    BY <1>1, <2>3, ReadingOn
<1>17. Waits' /\ AllReported'
  <2>1. CASE over
    BY <1>4, <2>1 DEF Waits, AllReported
  <2>2. CASE ~over
    <3>1. Len(buffer') = 0
      BY <1>3, <1>4, <1>5, <2>2
    <3>2. buffer' = <<>>
      BY <1>3, <3>1, EmptySeq
    <3>3. Len(context'.body) < context'.body_length
      <4>1. Len(body) # context.body_length
        BY <2>2 DEF over
      <4>2. context.body_length \in Nat
        BY <1>5 DEF Context
      <4> QED
        BY <1>4, <1>5, <1>13, <4>1, <4>2
    <3>4. stage' = "waiting" /\ context'.recv_statu = "RECV_HTTP_BODY"
      BY <1>4, <1>13, <2>2
    <3> QED
      BY <3>2, <3>3, <3>4 DEF Waits, AllReported
  <2> QED
    BY <2>1, <2>2
<1> QED
  BY <1>16, <1>17 DEF Judged

\* More of the stream arrives.
LEMMA ReceiveJudged ==
  ASSUME Inv, Judged, Receive
  PROVE  Judged'
<1>1. /\ stage = "waiting" /\ stage' = "parsing" /\ UNCHANGED <<stream, context, results>>
  BY DEF Receive
<1>2. received' \in Nat /\ received <= received' /\ received \in Nat /\ Place \in Nat
      /\ stream \in Seq(Symbol)
  <2>1. PICK r \in received + 1 .. Len(stream) : received' = r
    BY DEF Receive
  <2>2. received \in Nat /\ Len(stream) \in Nat /\ Place \in Nat /\ stream \in Seq(Symbol)
    BY <1>1, Places
  <2> QED
    BY <2>1, <2>2
<1>3. Place' = Place
  BY ReceiveKeeps DEF Place
<1>4. PICK m \in Nat, k \in Nat \ {0} : At(m, k, Place, received, context, results)
  BY <1>1 DEF Judged, Reading
<1>5. PICK r : r = received'
  OBVIOUS
<1>6. Reported(m, Place, r, results)
  <2>1. Reported(m, Place, received, results) /\ Place <= Place
    BY <1>2, <1>4 DEF At
  <2>2. r \in Nat /\ received <= r
    BY <1>2, <1>5
  <2> QED
    BY <1>2, <2>1, <2>2, ReportedOn
<1>7. ReadSoFar(Start(m), k, Place, r, context)
  <2>1. context.recv_statu # "RECV_HTTP_ERROR"
    BY <1>1 DEF Judged, Waits
  <2> QED
    BY <1>4, <2>1 DEF At, ReadSoFar
<1>8. At(m, k, Place', received', context', results')
  BY <1>1, <1>3, <1>5, <1>6, <1>7 DEF At
<1>9. Reading'
  BY <1>1, <1>8, ReadingOn
<1>10. Waits' /\ AllReported'
  BY <1>1 DEF Waits, AllReported
<1> QED
  BY <1>9, <1>10 DEF Judged

-----------------------------------------------------------------------------
(* The messages done *)

\* Lists, and lists with one more.
LEMMA Listed ==
  ASSUME NEW m \in Nat, NEW S, NEW x \in S, NEW f \in [1 .. m + 1 -> S]
  PROVE  LET s == [i \in 1 .. m |-> f[i]]
         IN  /\ s \in Seq(S) /\ Len(s) = m
             /\ s \o <<>> = s /\ s \o <<x>> = Append(s, x)
             /\ Append(s, f[m + 1]) = [i \in 1 .. m + 1 |-> f[i]]
<1> DEFINE s == [i \in 1 .. m |-> f[i]]
           t == Append(s, f[m + 1])
           u == [i \in 1 .. m + 1 |-> f[i]]
<1>1. s \in Seq(S) /\ Len(s) = m /\ \A i \in 1 .. m : s[i] = f[i]
  OBVIOUS
<1>2. u \in Seq(S) /\ Len(u) = m + 1 /\ \A i \in 1 .. m + 1 : u[i] = f[i]
  OBVIOUS
<1>3. f[m + 1] \in S
  OBVIOUS
<1> HIDE DEF s, u
<1>4. t \in Seq(S) /\ Len(t) = m + 1
  BY <1>1, <1>3, AppendProperties
<1>5. \A i \in 1 .. m : t[i] = s[i]
  BY <1>1, <1>3, AppendProperties
<1>6. t[m + 1] = f[m + 1]
  BY <1>1, <1>3, AppendProperties
<1> HIDE DEF t
<1>7. \A i \in 1 .. m + 1 : t[i] = u[i]
  <2>1. ASSUME NEW i \in 1 .. m + 1
        PROVE  t[i] = u[i]
    <3>1. CASE i = m + 1
      BY <1>2, <1>6, <3>1
    <3>2. CASE i # m + 1
      <4>1. i \in 1 .. m
        BY <3>2
      <4> QED
        BY <1>1, <1>2, <1>5, <4>1
    <3> QED
      BY <3>1, <3>2
  <2> QED
    BY <2>1
<1>8. t = u
  BY <1>2, <1>4, <1>7, SeqEqual
<1>9. s \o <<>> = s
  BY <1>1, ConcatEmptySeq
<1>10. s \o <<x>> = Append(s, x)
  BY <1>1, AppendIsConcat
<1> QED
  BY <1>1, <1>8, <1>9, <1>10 DEF s, t, u

\* The requests of the first messages.
LEMMA RequestsListed ==
  ASSUME NEW m \in Nat, NEW x
  PROVE  LET s == [i \in 1 .. m |-> Request(Start(i - 1))]
         IN  /\ s \o <<>> = s /\ s \o <<x>> = Append(s, x)
             /\ Append(s, Request(Start(m))) = [i \in 1 .. m + 1 |-> Request(Start(i - 1))]
<1> DEFINE f == [i \in 1 .. m + 1 |-> Request(Start(i - 1))]
           S == {Request(Start(i - 1)) : i \in 1 .. m + 1} \cup {x}
           s == [i \in 1 .. m |-> f[i]]
<1>1. f \in [1 .. m + 1 -> S] /\ x \in S
  OBVIOUS
<1>2. s = [i \in 1 .. m |-> Request(Start(i - 1))]
  <2>1. \A i \in 1 .. m : f[i] = Request(Start(i - 1))
    OBVIOUS
  <2> HIDE DEF f
  <2> QED
    BY <2>1
<1>3. [i \in 1 .. m + 1 |-> f[i]] = [i \in 1 .. m + 1 |-> Request(Start(i - 1))]
  OBVIOUS
<1>4. f[m + 1] = Request(Start(m))
  <2>1. m + 1 \in 1 .. m + 1 /\ m + 1 - 1 = m
    OBVIOUS
  <2> QED
    BY <2>1
<1> HIDE DEF f, S
<1>5. /\ s \o <<>> = s /\ s \o <<x>> = Append(s, x)
      /\ Append(s, f[m + 1]) = [i \in 1 .. m + 1 |-> f[i]]
  BY <1>1, Listed
<1> QED
  BY <1>2, <1>3, <1>4, <1>5

\* All that can be told, when the next message is wrong or not yet whole.
LEMMA ExpectedIs ==
  ASSUME Inv, stage # "closed", NEW m \in Nat, NEW k,
         Reported(m, Place, received, results), Decides(Start(m), received) = k,
         NEW v, Verdict(Start(m), received, k) = v,
         v = 0 => ~(End(Start(m), k) + BodyLength(Start(m), k) \in Start(m) + 1 .. received)
  PROVE  Expected(received) = IF v = 0 THEN results ELSE Append(results, Result(v, "", <<>>))
<1> DEFINE n == Start(m)
           L == Len(stream)
<1>1. Place \in Nat /\ Place <= received /\ received \in Nat /\ L \in Nat /\ received \in received .. L
  <2>1. Place \in 0 .. received /\ received \in 0 .. L /\ L \in Nat
    BY Places
  <2> HIDE DEF L
  <2> QED
    BY <2>1
<1>2. m <= n /\ n <= Place /\ n \in Nat
  BY <1>1, NextBegins
<1>3. \A i \in 0 .. m - 1 : Whole(Start(i), received)
  <2>0. \A j \in 1 .. m : Whole(Start(j - 1), received)
    BY <1>1 DEF Reported
  <2>1. ASSUME NEW i \in 0 .. m - 1
        PROVE  Whole(Start(i), received)
    <3>1. i + 1 \in 1 .. m /\ i + 1 - 1 = i
      OBVIOUS
    <3>2. Whole(Start(i + 1 - 1), received)
      BY <2>0, <3>1
    <3> QED
      BY <3>1, <3>2
  <2> QED
    BY <2>1
<1>4. ~Whole(n, received)
  BY DEF Whole
<1>5. m \in 0 .. received
  <2> HIDE DEF n
  <2> QED
    BY <1>1, <1>2
<1>6. Messages(received) = m
  BY <1>1, <1>3, <1>4, <1>5, MessagesAre
<1>7. Expected(received) = [i \in 1 .. m |-> Request(Start(i - 1))]
                             \o IF v = 0 THEN <<>> ELSE <<Result(v, "", <<>>)>>
  BY <1>6 DEF Expected
<1>8. results = [i \in 1 .. m |-> Request(Start(i - 1))]
  BY DEF Reported
<1>9. results \o <<>> = results /\ results \o <<Result(v, "", <<>>)>> = Append(results, Result(v, "", <<>>))
  BY <1>8, RequestsListed
<1> QED
  BY <1>7, <1>8, <1>9

\* The length of a body is a number.
LEMMA LengthIsNat ==
  ASSUME NEW n, NEW k
  PROVE  BodyLength(n, k) \in Nat
<1> DEFINE A == Announced(n, k)
           f == CHOOSE f \in A : TRUE
<1>1. BodyLength(n, k) = IF A = {} THEN 0 ELSE Lengths[f]
  BY DEF BodyLength
<1>2. A # {} => f \in A
  OBVIOUS
<1>3. \A g \in DOMAIN Lengths : Lengths[g] \in Nat
  BY LimitAssumption DEF Lengths
<1>4. A \subseteq DOMAIN Lengths
  BY DEF Announced
<1> HIDE DEF f, A
<1> QED
  BY <1>1, <1>2, <1>3, <1>4

\* The end of the head decides, as soon as it is there.
LEMMA HeadDecides ==
  ASSUME Inv, stage # "closed", NEW n \in 0 .. Len(stream) + 1, NEW k \in Nat \ {0},
         ReadSoFar(n, k, Place, received, context),
         BodyBegun(n, k, Place, context),
         NEW r \in received .. Len(stream)
  PROVE  Decides(n, r) = k /\ Verdict(n, r, k) = 0
<1> DEFINE L == Len(stream)
<1>1. /\ stream \in Seq(Symbol) /\ L \in Nat /\ received \in 0 .. L /\ Place \in 0 .. received
      /\ r \in received .. L
  BY Places
<1>2. k > 1 /\ Verdict(n, L, k) = 0 /\ LineOf(n, k) = <<>> /\ Place = End(n, k) + Len(context.body)
  BY DEF BodyBegun
<1>3. Len(context.body) \in Nat
  <2>1. context.body \in Seq(Symbol)
    BY DEF Inv, TypeOK, Context
  <2> QED
    BY <2>1
<1>4. \A i \in Nat : End(n, i) \in Nat
  <2>1. \A i \in Nat : End(n, i) \in 0 .. L + 1
    BY <1>1, EndIs
  <2>2. 0 .. L + 1 \subseteq Nat
    OBVIOUS
  <2> QED
    BY <2>1, <2>2
<1>5. \A j \in 1 .. k - 1 : Passed(n, j) /\ End(n, j) <= Place
  BY DEF ReadSoFar
<1>6. k - 1 <= Place
  BY DEF ReadSoFar
<1> HIDE DEF L
<1>7. End(n, k) \in Nat /\ End(n, k) <= r /\ r \in 0 .. L /\ k \in 1 .. L + 1
  <2>1. End(n, k) \in Nat
    BY <1>4
  <2> QED
    BY <1>1, <1>2, <1>3, <1>6, <2>1
<1>8. Verdict(n, r, k) = 0
  BY <1>1, <1>2, <1>7, VerdictStays DEF L
<1>9. Deciding(n, r, k)
  BY <1>2 DEF Deciding
<1>10. \A j \in 1 .. k - 1 : Passed(n, j) /\ End(n, j) <= r
  <2>1. ASSUME NEW j \in 1 .. k - 1
        PROVE  Passed(n, j) /\ End(n, j) <= r
    <3>1. j \in Nat
      OBVIOUS
    <3>2. End(n, j) \in Nat /\ Passed(n, j) /\ End(n, j) <= Place
      BY <1>4, <1>5, <3>1
    <3> QED
      BY <1>1, <3>2
  <2> QED
    BY <2>1
<1> QED
  BY <1>1, <1>7, <1>8, <1>9, <1>10, DecidesIs DEF L

\* A message is done: it is the one that begins where the last one ended.
LEMMA TakeRequestJudged ==
  ASSUME Inv, Judged, TakeRequest
  PROVE  Judged'
<1>1. /\ stage = "parsing" /\ context.recv_statu = "RECV_HTTP_OVER"
      /\ results' = Append(results, Result(200, context.version, context.body))
      /\ context' = Cleared /\ stage' = IF buffer = <<>> THEN "waiting" ELSE "parsing"
      /\ UNCHANGED <<stream, received, buffer>>
  BY DEF TakeRequest, Receiving
<1>2. PICK m \in Nat, k \in Nat \ {0} : At(m, k, Place, received, context, results)
  BY <1>1 DEF Judged, Reading
<1> DEFINE n == Start(m)
           L == Len(stream)
           q == End(n, k)
           l == Len(context.body)
<1>3. Reported(m, Place, received, results) /\ ReadSoFar(n, k, Place, received, context)
  BY <1>2 DEF At
<1>4. BodyBegun(n, k, Place, context)
  BY <1>1, <1>3 DEF ReadSoFar
<1>5. /\ stream \in Seq(Symbol) /\ L \in Nat /\ received \in 0 .. L /\ received \in Nat
      /\ Place \in 0 .. received /\ Place \in Nat /\ Place <= received
  BY <1>1, Places
<1>6. n \in 0 .. L + 1 /\ n \in 0 .. L /\ n \in Nat /\ n <= Place /\ m <= n
  BY <1>1, <1>3, <1>5, NextBegins
<1>7. l = BodyLength(n, k) /\ l \in Nat /\ context.body \in Seq(Symbol)
  <2>1. l = context.body_length /\ context.body \in Seq(Symbol)
    BY <1>1 DEF Inv, BodyFits, TypeOK, Context
  <2> QED
    BY <1>4, <2>1 DEF BodyBegun, HeadRead
<1> HIDE DEF n, L, q, l
<1>8. /\ k > 1 /\ q \in Nat /\ Place = q + l
      /\ \A i \in 1 .. l : context.body[i] = stream[q + i]
      /\ context.version = Version(n)
  <2>1. q \in 0 .. L + 1
    BY <1>5, <1>6, EndIs DEF L, q
  <2>2. q \in Nat
    BY <1>5, <2>1
  <2> QED
    BY <1>4, <2>2 DEF BodyBegun, HeadRead, q, l
<1>9. n < Place
  <2>1. 1 \in 1 .. k - 1
    BY <1>8
  <2>2. End(n, 1) <= Place
    BY <1>3, <2>1 DEF ReadSoFar
  <2>3. n < End(n, 1)
    BY <1>5, <1>6, FirstEnds DEF L
  <2>4. End(n, 1) \in 0 .. L + 1
    BY <1>5, <1>6, EndIs DEF L
  <2> QED
    BY <1>5, <1>6, <2>2, <2>3, <2>4
<1>10. \A r \in received .. L : Decides(n, r) = k /\ Whole(n, r)
  <2>1. ASSUME NEW r \in received .. L
        PROVE  Decides(n, r) = k /\ Whole(n, r)
    <3>1. Decides(n, r) = k /\ Verdict(n, r, k) = 0
      BY <1>1, <1>3, <1>4, <1>6, HeadDecides DEF L
    <3>2. End(n, k) + BodyLength(n, k) = Place
      BY <1>7, <1>8 DEF q
    <3>3. Place \in n + 1 .. r
      BY <1>5, <1>6, <1>9
    <3> QED
      BY <3>1, <3>2, <3>3 DEF Whole
  <2> QED
    BY <2>1
<1>11. Decides(n, L) = k /\ Whole(n, L)
  <2>1. L \in received .. L
    BY <1>5
  <2> QED
    BY <1>10, <2>1
<1>12. Behind(n) = Place
  <2>1. Behind(n) = End(n, k) + BodyLength(n, k)
    BY <1>11 DEF Behind, L
  <2> QED
    BY <1>7, <1>8, <2>1 DEF q
<1>13. Request(n) = Result(200, context.version, context.body)
  <2> DEFINE t == SubSeq(stream, q + 1, q + l)
  <2>1. Request(n) = Result(200, Version(n), SubSeq(stream, q + 1, Place))
    BY <1>11, <1>12 DEF Request, q, L
  <2>2. l \in Int /\ q + l <= L
    BY <1>5, <1>7, <1>8
  <2>3. t \in Seq(Symbol) /\ Len(t) = (IF l > 0 THEN l ELSE 0)
        /\ \A i \in 1 .. (IF l > 0 THEN l ELSE 0) : t[i] = stream[q + i]
    BY <1>5, <1>8, <2>2, PieceIs DEF L
  <2>4. (IF l > 0 THEN l ELSE 0) = l
    BY <1>7
  <2> HIDE DEF t
  <2>5. Len(t) = l /\ \A i \in 1 .. l : t[i] = context.body[i]
    BY <1>8, <2>3, <2>4
  <2>6. t = context.body
    <3>1. Len(t) = Len(context.body) /\ \A i \in 1 .. Len(t) : t[i] = context.body[i]
      BY <2>5 DEF l
    <3> QED
      BY <1>7, <2>3, <3>1, SeqEqual
  <2>7. SubSeq(stream, q + 1, Place) = context.body
    BY <1>8, <2>6 DEF t
  <2> QED
    BY <1>8, <2>1, <2>7
<1>14. Start(m + 1) = Place
  BY <1>5, <1>12, StartIs DEF n
<1>15. Reported(m + 1, Place, received, results')
  <2>1. m + 1 <= Start(m + 1) /\ Start(m + 1) <= Place
    BY <1>5, <1>6, <1>9, <1>14
  <2>2. ASSUME NEW i \in 1 .. m + 1, NEW r \in received .. Len(stream)
        PROVE  Whole(Start(i - 1), r)
    <3>1. CASE i = m + 1
      <4>1. i - 1 = m
        BY <3>1
      <4> QED
        BY <1>10, <4>1 DEF n, L
    <3>2. CASE i # m + 1
      <4>1. i \in 1 .. m
        BY <3>2
      <4> QED
        BY <1>3, <4>1 DEF Reported
    <3> QED
      BY <3>1, <3>2
  <2>3. results = [i \in 1 .. m |-> Request(Start(i - 1))]
    BY <1>3 DEF Reported
  <2>4. results' = [i \in 1 .. m + 1 |-> Request(Start(i - 1))]
    <3>1. Append([i \in 1 .. m |-> Request(Start(i - 1))], Request(Start(m)))
            = [i \in 1 .. m + 1 |-> Request(Start(i - 1))]
      BY RequestsListed
    <3>2. results' = Append(results, Request(Start(m)))
      BY <1>1, <1>13 DEF n
    <3> QED
      BY <2>3, <3>1, <3>2
  <2> QED
    BY <2>1, <2>2, <2>4 DEF Reported
<1>16. ReadSoFar(Start(m + 1), 1, Place, received, Cleared)
  <2>1. Cleared.recv_statu = "RECV_HTTP_LINE"
    BY DEF Cleared
  <2>2. 1 - 1 <= Place /\ 1 .. 1 - 1 = {}
    BY <1>5
  <2> QED
    BY <1>14, <2>1, <2>2 DEF ReadSoFar, LineBegun
<1>17. Reading'
  <2>1. Place' = Place
    BY <1>1 DEF Place
  <2>2. At(m + 1, 1, Place', received', context', results')
    BY <1>1, <1>15, <1>16, <2>1 DEF At
  <2>3. m + 1 \in Nat /\ 1 \in Nat \ {0}
    OBVIOUS
  <2> QED
    BY <1>1, <2>2, <2>3, ReadingOn
<1>18. Waits' /\ AllReported'
  <2>1. CASE buffer = <<>>
    <3>1. buffer' = <<>> /\ Len(buffer') = 0
      BY <1>1, <2>1
    <3>2. LineEnd' = 0
      BY <3>1 DEF LineEnd, EndOfLine
    <3>3. Length' = 0
      BY <3>1, <3>2 DEF Length
    <3>4. context'.recv_statu = "RECV_HTTP_LINE" /\ ~InHead'
      BY <1>1 DEF Cleared, InHead
    <3>5. ~(0 > MAX_LINE_SIZE)
      BY LimitAssumption
    <3>6. LineError' = 0
      BY <3>2, <3>3, <3>4, <3>5 DEF LineError
    <3> QED
      BY <1>1, <2>1, <3>2, <3>4, <3>6 DEF Waits, AllReported
  <2>2. CASE buffer # <<>>
    BY <1>1, <2>2 DEF Waits, AllReported
  <2> QED
    BY <2>1, <2>2
<1> QED
  BY <1>17, <1>18 DEF Judged

\* A step that leaves the stream leaves what ought to be reported of it.
LEMMA ExpectedStays ==
  ASSUME stream' = stream
  PROVE  \A r : Expected(r)' = Expected(r)
<1>1. /\ \A n : Request(n)' = Request(n)
      /\ \A n, r, k : Verdict(n, r, k)' = Verdict(n, r, k)
      /\ \A n, r : Decides(n, r)' = Decides(n, r) /\ Whole(n, r)' = Whole(n, r)
      /\ \A m : Start(m)' = Start(m)
  BY StreamStays
<1>2. \A r : Messages(r)' = Messages(r)
  BY <1>1 DEF Messages
<1> QED
  BY <1>1, <1>2 DEF Expected

\* The error is reported, and nothing after it.
LEMMA TakeErrorJudged ==
  ASSUME Inv, Judged, TakeError
  PROVE  Judged'
<1>1. /\ stage = "parsing" /\ context.recv_statu = "RECV_HTTP_ERROR"
      /\ results' = Append(results, Result(context.resp_statu, "", <<>>))
      /\ buffer' = <<>> /\ stage' = "closed" /\ UNCHANGED <<stream, received, context>>
  BY DEF TakeError, Receiving
<1>2. PICK m \in Nat, k \in Nat \ {0} : At(m, k, Place, received, context, results)
  BY <1>1 DEF Judged, Reading
<1> DEFINE n == Start(m)
           L == Len(stream)
           v == context.resp_statu
<1>3. Reported(m, Place, received, results) /\ ReadSoFar(n, k, Place, received, context)
  BY <1>2 DEF At
<1>4. v # 0 /\ Verdict(n, received, k) = v
  BY <1>1, <1>3 DEF ReadSoFar, GivenUp
<1>5. /\ stream \in Seq(Symbol) /\ L \in Nat /\ received \in 0 .. L
      /\ Place \in 0 .. received
  BY <1>1, Places
<1>6. n \in 0 .. L + 1
  BY <1>5, StartIs
<1>7. (\A j \in 1 .. k - 1 : Passed(n, j) /\ End(n, j) <= Place) /\ k - 1 <= Place
  BY <1>3 DEF ReadSoFar
<1> HIDE DEF n, L, v
<1>8. Decides(n, received) = k
  <2>1. Deciding(n, received, k)
    BY <1>4 DEF Deciding
  <2>2. k \in 1 .. L + 1
    BY <1>5, <1>7
  <2>3. \A j \in 1 .. k - 1 : Passed(n, j) /\ End(n, j) <= received
    <3>1. ASSUME NEW j \in 1 .. k - 1
          PROVE  Passed(n, j) /\ End(n, j) <= received
      <4>1. j \in Nat
        OBVIOUS
      <4>2. End(n, j) \in 0 .. L + 1
        BY <1>5, <1>6, <4>1, EndIs DEF L
      <4> QED
        BY <1>5, <1>7, <4>2
    <3> QED
      BY <3>1
  <2> QED
    BY <1>5, <1>6, <2>1, <2>2, <2>3, DecidesIs DEF L
<1>9. Expected(received) = Append(results, Result(v, "", <<>>))
  <2>1. stage # "closed"
    BY <1>1
  <2>2. Expected(received) = IF v = 0 THEN results ELSE Append(results, Result(v, "", <<>>))
    BY <1>3, <1>4, <1>8, <2>1, ExpectedIs DEF n
  <2> QED
    BY <1>4, <2>2
<1>10. results' = Expected(received)
  BY <1>1, <1>9 DEF v
<1>11. Expected(received)' = Expected(received)
  <2>1. \A r : Expected(r)' = Expected(r)
    BY <1>1, ExpectedStays
  <2> QED
    BY <1>1, <2>1
<1> QED
  BY <1>1, <1>10, <1>11 DEF Judged, Reading, Waits, AllReported

LEMMA FirstJudged == Init => Judged
<1> SUFFICES ASSUME Init
             PROVE  Judged
  OBVIOUS
<1>1. /\ stream \in Streams /\ received = 0 /\ buffer = <<>> /\ context = Cleared
      /\ results = <<>> /\ stage = "waiting"
  BY DEF Init
<1>2. Len(buffer) = 0 /\ Place = 0
  <2>1. Len(buffer) = 0
    BY <1>1, EmptySeq
  <2> DEFINE b == Len(buffer)
  <2>2. Place = received - b
    BY DEF Place
  <2>3. b = 0
    BY <2>1
  <2> HIDE DEF b
  <2>4. Place = 0
    BY <1>1, <2>2, <2>3
  <2> QED
    BY <2>1, <2>4
<1>3. Start(0) = 0
  BY <1>1, StreamAssumption, StartIs
<1>4. Reported(0, 0, 0, results)
  <2>1. 1 .. 0 = {}
    OBVIOUS
  <2>2. results = [i \in 1 .. 0 |-> Request(Start(i - 1))]
    BY <1>1, <2>1
  <2> QED
    BY <1>3, <2>1, <2>2 DEF Reported
<1>5. ReadSoFar(0, 1, 0, 0, context)
  <2>1. context.recv_statu = "RECV_HTTP_LINE"
    BY <1>1 DEF Cleared
  <2>2. 1 .. 1 - 1 = {} /\ 1 - 1 <= 0
    OBVIOUS
  <2> QED
    BY <1>1, <2>1, <2>2 DEF ReadSoFar, LineBegun
<1>6. Reading
  <2>1. At(0, 1, Place, received, context, results)
    BY <1>1, <1>2, <1>3, <1>4, <1>5 DEF At
  <2>2. 0 \in Nat /\ 1 \in Nat \ {0}
    OBVIOUS
  <2> QED
    BY <2>1, <2>2 DEF Reading
<1>7. Waits /\ AllReported
  <2>1. LineEnd = 0
    BY <1>1, <1>2 DEF LineEnd, EndOfLine
  <2>2. Length = 0
    BY <1>2, <2>1 DEF Length
  <2>3. context.recv_statu = "RECV_HTTP_LINE" /\ ~InHead
    BY <1>1 DEF Cleared, InHead
  <2>4. ~(0 > MAX_LINE_SIZE)
    BY LimitAssumption
  <2>5. LineError = 0
    BY <2>1, <2>2, <2>3, <2>4 DEF LineError
  <2> QED
    BY <1>1, <2>1, <2>3, <2>5 DEF Waits, AllReported
<1> QED
  BY <1>6, <1>7 DEF Judged

LEMMA NextJudged ==
  ASSUME Inv, Judged, [Next]_vars
  PROVE  Judged'
<1>1. CASE UNCHANGED vars
  <2>1. UNCHANGED <<stream, received, buffer, context, results, stage>>
    BY <1>1 DEF vars
  <2>2. Place' = Place
    BY <2>1 DEF Place
  <2>3. Reading'
    <3>1. CASE stage = "closed"
      BY <2>1, <3>1 DEF Reading
    <3>2. CASE stage # "closed"
      <4>1. PICK m \in Nat, k \in Nat \ {0} : At(m, k, Place, received, context, results)
        BY <3>2 DEF Judged, Reading
      <4> QED
        BY <2>1, <2>2, <4>1, ReadingOn
    <3> QED
      BY <3>1, <3>2
  <2>4. Waits'
    <3>1. LineEnd' = LineEnd
      BY <2>1 DEF LineEnd
    <3>2. Length' = Length /\ InHead' = InHead
      BY <2>1, <3>1 DEF Length, InHead
    <3>3. LineError' = LineError
      BY <2>1, <3>1, <3>2 DEF LineError
    <3> QED
      BY <2>1, <3>1, <3>3 DEF Judged, Waits
  <2>5. AllReported'
    <3>1. \A r : Expected(r)' = Expected(r)
      BY <2>1, ExpectedStays
    <3> QED
      BY <2>1, <3>1 DEF Judged, AllReported
  <2> QED
    BY <2>3, <2>4, <2>5 DEF Judged
<1> QED
  BY <1>1, ReceiveJudged, ReadLineFailsJudged, ReadLineWaitsJudged, RecvHttpLineJudged,
     RecvHttpHeadJudged, RecvHttpBodyJudged, TakeRequestJudged, TakeErrorJudged
  DEF Next, Parse

-----------------------------------------------------------------------------
(* What is reported *)

\* A parser that waits has reported all there is to report.
LEMMA WaitingIsDone ==
  ASSUME Inv, Judged, stage = "waiting"
  PROVE  results = Expected(received)
<1>1. PICK m \in Nat, k \in Nat \ {0} : At(m, k, Place, received, context, results)
  BY DEF Judged, Reading
<1> DEFINE n == Start(m)
           L == Len(stream)
           q == End(n, k)
           B == BodyLength(n, k)
<1>2. Reported(m, Place, received, results) /\ ReadSoFar(n, k, Place, received, context)
  BY <1>1 DEF At
<1>3. /\ stream \in Seq(Symbol) /\ L \in Nat /\ received \in 0 .. L /\ received \in Nat
      /\ Place \in 0 .. received /\ Place \in Nat /\ Place <= received
  BY Places
<1>4. n \in 0 .. L + 1 /\ n \in 0 .. L
  BY <1>2, <1>3, NextBegins
<1>5. B \in Nat
  BY LengthIsNat
<1>6. q \in Nat
  <2>1. q \in 0 .. L + 1
    BY <1>3, <1>4, EndIs
  <2> HIDE DEF q, L
  <2> QED
    BY <1>3, <2>1
<1> HIDE DEF n, L, q, B
<1>7. Decides(n, received) = k /\ Verdict(n, received, k) = 0 /\ q + B > received
  <2>1. CASE context.recv_statu \in {"RECV_HTTP_LINE", "RECV_HTTP_HEAD"}
    <3>1. LineEnd = 0 /\ LineError = 0
      BY <2>1 DEF Judged, Waits
    <3>2. /\ Place = End(n, k - 1) /\ (InHead <=> k > 1)
          /\ InHead => context.head_size = Place - End(n, 1)
      <4>1. CASE context.recv_statu = "RECV_HTTP_LINE"
        <5>1. k = 1 /\ Place = n
          BY <1>2, <4>1 DEF ReadSoFar, LineBegun
        <5>2. End(n, 0) = n /\ k - 1 = 0 /\ ~(k > 1) /\ ~InHead
          BY <1>3, <1>4, <4>1, <5>1, EndIs DEF InHead, L
        <5> QED
          BY <5>1, <5>2
      <4>2. CASE context.recv_statu = "RECV_HTTP_HEAD"
        BY <1>2, <4>2 DEF ReadSoFar, HeadBegun, InHead
      <4> QED
        BY <2>1, <4>1, <4>2
    <3>3. q > received
      BY <1>3, <1>4, <3>1, <3>2, LineInStream DEF Inv, L, q
    <3>4. ~TooLong(n, received, k)
      BY <1>3, <1>4, <3>1, <3>2, LineIsJudged DEF Inv, L
    <3>5. Verdict(n, received, k) = 0
      BY <3>3, <3>4 DEF Verdict, q
    <3>6. Deciding(n, received, k)
      BY <3>3 DEF Deciding, q
    <3>7. (\A j \in 1 .. k - 1 : Passed(n, j) /\ End(n, j) <= Place) /\ k - 1 <= Place
      BY <1>2 DEF ReadSoFar
    <3>8. k \in 1 .. L + 1
      BY <1>3, <3>7
    <3>9. \A j \in 1 .. k - 1 : Passed(n, j) /\ End(n, j) <= received
      <4>1. ASSUME NEW j \in 1 .. k - 1
            PROVE  Passed(n, j) /\ End(n, j) <= received
        <5>1. j \in Nat
          OBVIOUS
        <5>2. End(n, j) \in 0 .. L + 1
          BY <1>3, <1>4, <5>1, EndIs DEF L
        <5> QED
          BY <1>3, <3>7, <5>2
      <4> QED
        BY <4>1
    <3>10. Decides(n, received) = k
      BY <1>3, <1>4, <3>6, <3>8, <3>9, DecidesIs DEF L
    <3>11. q + B > received
      BY <1>3, <1>5, <1>6, <3>3
    <3> QED
      BY <3>5, <3>10, <3>11
  <2>2. CASE context.recv_statu = "RECV_HTTP_BODY"
    <3>1. buffer = <<>> /\ Len(context.body) < context.body_length
      BY <2>2 DEF Judged, Waits
    <3>2. BodyBegun(n, k, Place, context)
      BY <1>2, <2>2 DEF ReadSoFar
    <3>3. received \in received .. L
      BY <1>3
    <3>4. Decides(n, received) = k /\ Verdict(n, received, k) = 0
      BY <1>2, <1>4, <3>2, <3>3, HeadDecides DEF L
    <3>5. Place = q + Len(context.body) /\ context.body_length = B
      BY <3>2 DEF BodyBegun, HeadRead, q, B
    <3>6. Place = received
      <4>1. Len(buffer) = 0
        BY <3>1, EmptySeq
      <4> QED
        BY <1>3, <4>1 DEF Place
    <3>7. Len(context.body) \in Nat
      <4>1. context.body \in Seq(Symbol)
        BY DEF Inv, TypeOK, Context
      <4> QED
        BY <4>1
    <3>8. q + B > received
      BY <1>5, <1>6, <3>1, <3>5, <3>6, <3>7
    <3> QED
      BY <3>4, <3>8
  <2>3. context.recv_statu \in RecvStatu
    BY DEF Inv, TypeOK, Context
  <2>4. context.recv_statu \notin {"RECV_HTTP_OVER", "RECV_HTTP_ERROR"}
    BY DEF Judged, Waits
  <2> QED
    BY <2>1, <2>2, <2>3, <2>4 DEF RecvStatu
<1>8. ~(q + B \in n + 1 .. received)
  <2>1. q + B \in Nat
    BY <1>5, <1>6
  <2> QED
    BY <1>3, <1>7, <2>1
<1>9. Expected(received) = IF 0 = 0 THEN results ELSE Append(results, Result(0, "", <<>>))
  <2>1. ~(End(Start(m), k) + BodyLength(Start(m), k) \in Start(m) + 1 .. received)
    BY <1>8 DEF n, q, B
  <2>2. Decides(Start(m), received) = k /\ Verdict(Start(m), received, k) = 0
    BY <1>7 DEF n
  <2> QED
    BY <1>2, <2>1, <2>2, ExpectedIs
<1> QED
  BY <1>9

LEMMA NothingHeldBack ==
  ASSUME Inv, Judged
  PROVE  CutsDoNotMatter
<1>1. stage \in {"parsing", "waiting", "closed"}
  BY DEF Inv, TypeOK
<1> QED
  BY <1>1, WaitingIsDone DEF CutsDoNotMatter, Judged, AllReported

-----------------------------------------------------------------------------
(* The theorems *)

\* All of the invariant, of every behaviour of the parser.
THEOREM Invariance == Spec => []Inv
  BY Initially, Inductively, PTL DEF Spec

\* The parser's fields keep their types, and the size of the head and the
\* announced length of the body stay within MAX_HEAD_SIZE and MAX_BODY_SIZE.
THEOREM TypeCorrect == Spec => []TypeOK
<1>1. Inv => TypeOK
  BY DEF Inv
<1> QED
  BY <1>1, Invariance, PTL

\* While RecvHttpRequest waits for more of a line, what it leaves in the input
\* buffer is within the limits of ReadLine, whatever the client sends and
\* however the stream is cut.
THEOREM Hoarding == Spec => []HoardsOneLine
<1>1. Inv => HoardsOneLine
  BY DEF Inv
<1> QED
  BY <1>1, Invariance, PTL

\* RecvHttpBody reads no more than Content-Length announced, and a request is
\* handed on only with the whole of its body.
THEOREM Bodies == Spec => []BodyFits
<1>1. Inv => BodyFits
  BY DEF Inv
<1> QED
  BY <1>1, Invariance, PTL

\* Until an error closes the connection, the input buffer is exactly the end of
\* what was received: whatever the parser has taken, all that came behind it is
\* still there once and in its order, for the rest of the line, the body or the
\* next request to be read from.
THEOREM RestInOrder == Spec => []Unread
<1>1. Inv => Unread
  BY DEF Inv
<1> QED
  BY <1>1, Invariance, PTL

\* What RecvHttpBody has of a body, and the input buffer behind it, are one
\* stretch of the stream: no byte of a body is skipped, repeated or moved by the
\* cuts between the calls.
THEOREM BodyInPlace == Spec => []BodyTaken
  BY Invariance, BodyTakenFirst, BodyTakenKept, PTL DEF Spec

\* However the network cuts a stream, and however many calls of RecvHttpRequest
\* a line or a body takes, OnMessage gets the requests and the error it would
\* get with the whole stream in the input buffer at the first call.
THEOREM Cuts == Spec => ImplementsUncut
<1>1. Init => Uncut!InitUncut
  BY StartsAtOnce
<1>2. Inv /\ BodyTaken /\ [Next]_vars => [Uncut!Parse]_(Uncut!vars)
  BY ParsesAtOnce
<1> QED
  BY <1>1, <1>2, Invariance, BodyInPlace, PTL DEF Spec, ImplementsUncut, Uncut!SpecUncut

\* Whatever the client sends, and however it is cut, what OnMessage has got from
\* the parser whenever it waits or has closed is what the bytes received so far
\* call for when they are read as a text: the same requests with their bodies, in
\* their order, the status of the first thing that is wrong, and all of it as soon
\* as it can be told.
THEOREM Reference == Spec => []CutsDoNotMatter
<1>1. Spec => []Judged
  BY FirstJudged, NextJudged, Invariance, PTL DEF Spec
<1> QED
  BY <1>1, NothingHeldBack, Invariance, PTL

=============================================================================

--------------------------- MODULE HttpContext ---------------------------
(***************************************************************************)
(* The HTTP parser of one connection.  It is called again and again with   *)
(* the connection's input buffer, takes whole lines and as much of a body  *)
(* as is there, and keeps what it knows of the request between the calls.  *)
(*                                                                         *)
(* The stream is a sequence of symbols.  A symbol is CR, LF or a piece of  *)
(* text of one byte's weight; what the regular expression, the URL decoder *)
(* and the number parser make of a text is what the symbol is called.      *)
(***************************************************************************)
EXTENDS Naturals, Sequences

CONSTANTS
  MAX_LINE_SIZE, MAX_HEAD_SIZE, MAX_BODY_SIZE,
  Streams       \* what a client may send over one connection

ASSUME LimitAssumption ==
  MAX_LINE_SIZE \in Nat /\ MAX_HEAD_SIZE \in Nat /\ MAX_BODY_SIZE \in Nat

CR == "CR"
LF == "LF"

\* Request lines the parser accepts, by their version, and header fields, by
\* the name that matters; "pad" fills a line up, "junk" is valid nowhere.
RequestLines == {"HTTP/1.0", "HTTP/1.1"}
Lengths == [Length0 |-> 0, Length1 |-> 1, Length2 |-> 2, LengthMax |-> MAX_BODY_SIZE + 1]
Fields == {"Host", "Transfer-Encoding", "Expect", "Other"} \cup DOMAIN Lengths
Symbol == RequestLines \cup Fields \cup {CR, LF, "pad", "junk"}

\* The field's name as NormalizeHeaderName gives it.
Name(field) == IF field \in DOMAIN Lengths THEN "Content-Length" ELSE field
Names == {Name(f) : f \in Fields}

ASSUME StreamAssumption == Streams \subseteq Seq(Symbol)

VARIABLES
  stream,     \* everything the client sends
  received,   \* how many symbols of it have reached the input buffer
  buffer,     \* _In_buffer
  context,    \* the HttpContext
  results,    \* what OnMessage got from the parser, in order
  stage       \* OnMessage: parsing, waiting for more input, or closed

vars == <<stream, received, buffer, context, results, stage>>

RecvStatu == {"RECV_HTTP_LINE", "RECV_HTTP_HEAD", "RECV_HTTP_BODY",
              "RECV_HTTP_OVER", "RECV_HTTP_ERROR"}

Context == [recv_statu  : RecvStatu,
            resp_statu  : Nat,
            head_size   : Nat,
            body_length : Nat,
            version     : RequestLines \cup {""},
            headers     : SUBSET Names,
            body        : Seq(Symbol)]

TypeOK ==
  /\ stream \in Streams
  /\ received \in 0 .. Len(stream)
  /\ buffer \in Seq(Symbol)
  /\ context \in Context
  /\ context.head_size <= MAX_HEAD_SIZE
  /\ context.body_length <= MAX_BODY_SIZE
  /\ stage \in {"parsing", "waiting", "closed"}

\* Clear.
Cleared ==
  [recv_statu |-> "RECV_HTTP_LINE", resp_statu |-> 200, head_size |-> 0,
   body_length |-> 0, version |-> "", headers |-> {}, body |-> <<>>]

Init ==
  /\ stream \in Streams
  /\ received = 0
  /\ buffer = <<>>
  /\ context = Cleared
  /\ results = <<>>
  /\ stage = "waiting"

-----------------------------------------------------------------------------
(* Lines *)

SetError(c, statu) ==
  [c EXCEPT !.resp_statu = statu, !.recv_statu = "RECV_HTTP_ERROR"]

\* The end of the first line of a text, 0 when it is not there yet.
EndOfLine(text) ==
  IF \E i \in 1 .. Len(text) : text[i] = LF
  THEN CHOOSE i \in 1 .. Len(text) :
         text[i] = LF /\ \A j \in 1 .. i - 1 : text[j] # LF
  ELSE 0

LineEnd == EndOfLine(buffer)

Length == IF LineEnd = 0 THEN Len(buffer) ELSE LineEnd

InHead == context.recv_statu = "RECV_HTTP_HEAD"

\* Mutant: the limits are looked at only when the line is complete.
LineErrorOfCompleteLine ==
  IF LineEnd = 0 THEN 0
  ELSE IF Length > MAX_LINE_SIZE THEN IF InHead THEN 431 ELSE 414
  ELSE IF InHead /\ Length > MAX_HEAD_SIZE - context.head_size THEN 431
  ELSE IF Length < 2 \/ buffer[Length - 1] # CR THEN 400
  ELSE 0

\* What ReadLine finds wrong with the first line, complete or not: 0 nothing.
LineError ==
  IF Length > MAX_LINE_SIZE THEN IF InHead THEN 431 ELSE 414
  ELSE IF InHead /\ Length > MAX_HEAD_SIZE - context.head_size THEN 431
  ELSE IF LineEnd # 0 /\ (Length < 2 \/ buffer[Length - 1] # CR) THEN 400
  ELSE 0

Line == SubSeq(buffer, 1, LineEnd - 2)
AfterLine == SubSeq(buffer, LineEnd + 1, Len(buffer))

-----------------------------------------------------------------------------
(* The parts of a request *)

ParseHttpLine(c, line) ==
  IF Len(line) = 1 /\ line[1] \in RequestLines
  THEN [c EXCEPT !.version = line[1], !.recv_statu = "RECV_HTTP_HEAD"]
  ELSE SetError(c, 400)

\* A field is a name and what pads its value.
IsField(line) == line[1] \in Fields /\ \A i \in 2 .. Len(line) : line[i] = "pad"

ParseHttpHead(c, line) ==
  LET name == Name(line[1])
      seen == name \in c.headers
  IN  IF ~IsField(line) THEN SetError(c, 400)
      ELSE IF name \in {"Content-Length", "Host"} /\ seen THEN SetError(c, 400)
      ELSE IF name = "Content-Length" /\ Lengths[line[1]] > MAX_BODY_SIZE
           THEN SetError(c, 413)
      ELSE [c EXCEPT !.headers = @ \cup {name},
                     !.body_length = IF name = "Content-Length"
                                     THEN Lengths[line[1]] ELSE @]

\* The empty line: what the head as a whole must have and must not have.
EndOfHead(c) ==
  IF c.version = "HTTP/1.1" /\ "Host" \notin c.headers THEN SetError(c, 400)
  ELSE IF "Transfer-Encoding" \in c.headers
       THEN SetError(c, IF "Content-Length" \in c.headers THEN 400 ELSE 501)
  ELSE IF c.version = "HTTP/1.1" /\ "Expect" \in c.headers THEN SetError(c, 417)
  ELSE [c EXCEPT !.recv_statu = "RECV_HTTP_BODY"]

-----------------------------------------------------------------------------
(* RecvHttpRequest, a line or a body at a time *)

Receiving(statu) == stage = "parsing" /\ context.recv_statu = statu

AtLine == Receiving("RECV_HTTP_LINE") \/ Receiving("RECV_HTTP_HEAD")

ReadLineFails ==
  /\ AtLine
  /\ LineError # 0
  /\ context' = SetError(context, LineError)
  /\ UNCHANGED <<stream, received, buffer, results, stage>>

ReadLineWaits ==
  /\ AtLine
  /\ LineError = 0
  /\ LineEnd = 0
  /\ stage' = "waiting"
  /\ UNCHANGED <<stream, received, buffer, context, results>>

RecvHttpLine ==
  /\ Receiving("RECV_HTTP_LINE")
  /\ LineError = 0
  /\ LineEnd # 0
  /\ context' = ParseHttpLine(context, Line)
  /\ buffer' = AfterLine
  /\ UNCHANGED <<stream, received, results, stage>>

RecvHttpHead ==
  /\ Receiving("RECV_HTTP_HEAD")
  /\ LineError = 0
  /\ LineEnd # 0
  /\ LET c == [context EXCEPT !.head_size = @ + Length]
     IN  context' = IF Line = <<>> THEN EndOfHead(c) ELSE ParseHttpHead(c, Line)
  /\ buffer' = AfterLine
  /\ UNCHANGED <<stream, received, results, stage>>

\* Mutant: everything that is there is taken for the body.
RecvHttpBodyAll ==
  /\ Receiving("RECV_HTTP_BODY")
  /\ context' = [context EXCEPT !.body = @ \o buffer,
                   !.recv_statu = IF Len(context.body) + Len(buffer) >= context.body_length
                                  THEN "RECV_HTTP_OVER" ELSE @]
  /\ buffer' = <<>>
  /\ stage' = IF Len(context.body) + Len(buffer) >= context.body_length
              THEN "parsing" ELSE "waiting"
  /\ UNCHANGED <<stream, received, results>>

Fewer(m, n) == IF m < n THEN m ELSE n

RecvHttpBody ==
  /\ Receiving("RECV_HTTP_BODY")
  /\ LET remaining == context.body_length - Len(context.body)
         count == Fewer(remaining, Len(buffer))
         over  == count = remaining
     IN  /\ context' = [context EXCEPT !.body = @ \o SubSeq(buffer, 1, count),
                          !.recv_statu = IF over THEN "RECV_HTTP_OVER" ELSE @]
         /\ buffer' = SubSeq(buffer, count + 1, Len(buffer))
         /\ stage' = IF over THEN "parsing" ELSE "waiting"
  /\ UNCHANGED <<stream, received, results>>

-----------------------------------------------------------------------------
(* The caller: the connection's input and the loop of OnMessage *)

\* Some more of the stream reaches the buffer, and OnMessage is called.
Receive ==
  /\ stage = "waiting"
  /\ \E n \in received + 1 .. Len(stream) :
       /\ buffer' = buffer \o SubSeq(stream, received + 1, n)
       /\ received' = n
  /\ stage' = "parsing"
  /\ UNCHANGED <<stream, context, results>>

Result(statu, version, body) == [statu |-> statu, version |-> version, body |-> body]

\* A request is complete: it is answered, and the parser cleared for the next.
TakeRequest ==
  /\ Receiving("RECV_HTTP_OVER")
  /\ results' = Append(results, Result(200, context.version, context.body))
  /\ context' = Cleared
  /\ stage' = IF buffer = <<>> THEN "waiting" ELSE "parsing"
  /\ UNCHANGED <<stream, received, buffer>>

\* The parser gave up: the error is answered and the connection shut down.
TakeError ==
  /\ Receiving("RECV_HTTP_ERROR")
  /\ results' = Append(results, Result(context.resp_statu, "", <<>>))
  /\ buffer' = <<>>
  /\ stage' = "closed"
  /\ UNCHANGED <<stream, received, context>>

Parse ==
  \/ ReadLineFails \/ ReadLineWaits
  \/ RecvHttpLine \/ RecvHttpHead \/ RecvHttpBody
  \/ TakeRequest \/ TakeError

Next == Receive \/ Parse

Spec == Init /\ [][Next]_vars

\* The same parser when the whole stream is in the buffer before it starts.
InitUncut ==
  /\ stream \in Streams
  /\ received = Len(stream)
  /\ buffer = stream
  /\ context = Cleared
  /\ results = <<>>
  /\ stage = IF stream = <<>> THEN "waiting" ELSE "parsing"

SpecUncut == InitUncut /\ [][Parse]_vars

-----------------------------------------------------------------------------
(* Properties *)

\* The parser waits only for what it lacks: a line within the limits or the
\* rest of a body; a client cannot make it hoard more than one line.
HoardsOneLine ==
  stage = "waiting" => Len(buffer) <= MAX_LINE_SIZE /\
                       (InHead => Len(buffer) + context.head_size <= MAX_HEAD_SIZE)
=============================================================================

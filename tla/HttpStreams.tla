--------------------------- MODULE HttpStreams ---------------------------
(***************************************************************************)
(* What the parser ought to make of a whole stream, told from the stream   *)
(* itself and not from the calls it arrives in, and the streams to check   *)
(* it with.                                                                *)
(***************************************************************************)
EXTENDS HttpCuts, FiniteSets

\* The next LF behind place i, or one past the end.
NextFeed(i) ==
  IF \E j \in i + 1 .. Len(stream) : stream[j] = LF
  THEN CHOOSE j \in i + 1 .. Len(stream) :
         stream[j] = LF /\ \A h \in i + 1 .. j - 1 : stream[h] # LF
  ELSE Len(stream) + 1

\* Where the k-th line behind place n ends; and the line, without its CR LF.
End(n, k) ==
  LET ends[i \in Nat] == IF i = 0 THEN n ELSE NextFeed(ends[i - 1])
  IN  ends[k]
LineOf(n, k) == SubSeq(stream, End(n, k - 1) + 1, End(n, k) - 2)

Version(n) == LineOf(n, 1)[1]
FieldsBefore(n, k) == {LineOf(n, i)[1] : i \in 2 .. k - 1}
NamesBefore(n, k) == {Name(f) : f \in FieldsBefore(n, k)}

\* The status a request line, a field and the empty line deserve when all lines
\* before them are good.
RequestLineVerdict(line) == IF \E v \in RequestLines : line = <<v>> THEN 0 ELSE 400

FieldVerdict(line, names) ==
  IF ~IsField(line) THEN 400
  ELSE IF Name(line[1]) \in {"Content-Length", "Host"} \cap names THEN 400
  ELSE IF line[1] \in DOMAIN Lengths /\ Lengths[line[1]] > MAX_BODY_SIZE THEN 413
  ELSE 0

HeadVerdict(version, names) ==
  IF version = "HTTP/1.1" /\ "Host" \notin names THEN 400
  ELSE IF {"Transfer-Encoding", "Content-Length"} \subseteq names THEN 400
  ELSE IF "Transfer-Encoding" \in names THEN 501
  ELSE IF version = "HTTP/1.1" /\ "Expect" \in names THEN 417
  ELSE 0

LineVerdict(n, k) ==
  IF End(n, k) - End(n, k - 1) < 2 \/ stream[End(n, k) - 1] # CR THEN 400
  ELSE IF k = 1 THEN RequestLineVerdict(LineOf(n, k))
  ELSE IF LineOf(n, k) = <<>> THEN HeadVerdict(Version(n), NamesBefore(n, k))
  ELSE FieldVerdict(LineOf(n, k), NamesBefore(n, k))

\* Whether the k-th line, or the head with it, is beyond the limits in the first
\* r places already.
TooLong(n, r, k) ==
  LET end == IF End(n, k) > r THEN r ELSE End(n, k)
  IN  \/ end - End(n, k - 1) > MAX_LINE_SIZE
      \/ k > 1 /\ end - End(n, 1) > MAX_HEAD_SIZE

\* What can be told of the k-th line from the first r places.
Verdict(n, r, k) ==
  IF TooLong(n, r, k) THEN IF k = 1 THEN 414 ELSE 431
  ELSE IF End(n, k) > r THEN 0
  ELSE LineVerdict(n, k)

\* The first line that is wrong, or that ends the head, or is unfinished.
Deciding(n, r, k) ==
  \/ Verdict(n, r, k) # 0
  \/ End(n, k) > r
  \/ k > 1 /\ LineOf(n, k) = <<>>
Decides(n, r) == CHOOSE k \in 1 .. Len(stream) + 1 :
                   Deciding(n, r, k) /\ \A j \in 1 .. k - 1 : ~Deciding(n, r, j)

Announced(n, k) == FieldsBefore(n, k) \cap DOMAIN Lengths
BodyLength(n, k) ==
  IF Announced(n, k) = {} THEN 0 ELSE Lengths[CHOOSE f \in Announced(n, k) : TRUE]

\* Whether the message behind place n is a good one that has ended within the
\* first r places; and where it ends.
Whole(n, r) ==
  LET k == Decides(n, r)
  IN  Verdict(n, r, k) = 0 /\ End(n, k) + BodyLength(n, k) \in n + 1 .. r
Behind(n) ==
  LET k == Decides(n, Len(stream))
  IN  IF Whole(n, Len(stream)) THEN End(n, k) + BodyLength(n, k) ELSE Len(stream) + 1
Request(n) ==
  LET k == Decides(n, Len(stream))
  IN  Result(200, Version(n), SubSeq(stream, End(n, k) + 1, Behind(n)))

\* The place before the message after m others.
Start(m) ==
  LET starts[i \in Nat] == IF i = 0 THEN 0 ELSE Behind(starts[i - 1])
  IN  starts[m]

\* How many messages the first r places hold.
Messages(r) == CHOOSE m \in 0 .. r :
                 ~Whole(Start(m), r) /\ \A i \in 0 .. m - 1 : Whole(Start(i), r)

\* Everything the parser should report of the first r places, in order.
Expected(r) ==
  LET m == Messages(r)
      n == Start(m)
      verdict == Verdict(n, r, Decides(n, r))
  IN  [i \in 1 .. m |-> Request(Start(i - 1))]
        \o IF verdict = 0 THEN <<>> ELSE <<Result(verdict, "", <<>>)>>

\* What the parser has reported is what the part of the stream received so far
\* calls for: the same requests, bodies and errors, in the same order, however
\* reads cut the stream up, and none of it later than it could be told.
CutsDoNotMatter ==
  stage # "parsing" => results = Expected(received)

-----------------------------------------------------------------------------
(* The streams: two messages one after the other *)

Text(t) == <<t, CR, LF>>
Padded(t) == <<t, "pad", "pad", CR, LF>>
Blank == <<CR, LF>>
Get11 == Text("HTTP/1.1") \o Text("Host")

Samples == {
  Text("HTTP/1.0") \o Blank,
  Get11 \o Blank,
  Get11 \o Text("Length0") \o Blank,
  Get11 \o Text("Length2") \o Blank \o <<"junk", LF>>,
  Text("HTTP/1.0") \o Text("Length1") \o Blank \o <<CR>>,
  Text("HTTP/1.1") \o Text("Other") \o Blank,             \* no Host
  Get11 \o Text("Host") \o Blank,                         \* two of them
  Text("HTTP/1.0") \o Text("Length1") \o Text("Length0"),
  Get11 \o Text("LengthMax"),
  Get11 \o Text("Transfer-Encoding") \o Blank,
  Text("HTTP/1.0") \o Text("Transfer-Encoding") \o Text("Length1") \o Blank,
  Get11 \o Text("Expect") \o Blank,
  Text("HTTP/1.0") \o Text("Expect") \o Blank,
  Get11 \o <<"junk", CR, LF>>,
  <<"junk", CR, LF>>,
  <<"HTTP/1.0", LF>>,                                     \* no CR
  Get11 \o <<LF>>,
  <<"junk", "pad", "pad", "pad", "pad", "pad">>,          \* no end in sight
  Padded("HTTP/1.1"),
  Text("HTTP/1.0") \o Padded("Other") \o Blank,
  Text("HTTP/1.0") \o Padded("Other") \o Text("Other") \o Blank,
  Text("HTTP/1.0") \o Text("Other") \o <<"Other", "pad", "pad", "pad">>,
  Text("HTTP/1.0") \o <<"Other", "pad", "pad", "pad", CR, LF>> }

AllStreams == {m \o n : m, n \in Samples}
=============================================================================

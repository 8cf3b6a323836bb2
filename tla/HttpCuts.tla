----------------------------- MODULE HttpCuts -----------------------------
(***************************************************************************)
(* A stream that arrives in pieces is parsed as if it had come at once:    *)
(* the parser of HttpContext implements itself with the whole stream in    *)
(* its buffer, where nothing is left to chance.                            *)
(***************************************************************************)
EXTENDS HttpContext

\* It waits for input that will not come.
Starves == stage = "waiting" /\ received = Len(stream)

\* What the parser has of an unfinished body; at once, it would not have begun
\* with it before all of it is there.
InBody == context.recv_statu = "RECV_HTTP_BODY" /\ ~Starves
Begun == IF InBody THEN Len(context.body) ELSE 0

\* How much of the stream the parser at once has taken.
Taken == received - Len(buffer) - Begun

UncutBuffer == IF stage = "closed" THEN <<>> ELSE SubSeq(stream, Taken + 1, Len(stream))
UncutContext == IF InBody THEN [context EXCEPT !.body = <<>>] ELSE context
UncutStage == IF stage = "waiting" /\ ~Starves THEN "parsing" ELSE stage

Uncut == INSTANCE HttpContext
  WITH received <- Len(stream), buffer <- UncutBuffer, context <- UncutContext,
       stage <- UncutStage

\* Wherever a network cuts a stream, and however many calls of RecvHttpRequest a
\* line or a body takes, requests, errors and limits are those of the stream in
\* one piece: every step is one of the parser at once or none for it.
ImplementsUncut == Uncut!SpecUncut
=============================================================================

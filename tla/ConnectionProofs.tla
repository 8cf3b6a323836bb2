------------------------- MODULE ConnectionProofs -------------------------
(***************************************************************************)
(* First about Connection for any water marks, timeout and bounds: the     *)
(* types, and the invariant Sound that ties output, interest, pausing,     *)
(* status, callbacks and the idle timer together, from which the state     *)
(* properties of the module follow.  There is a lemma per method: a method *)
(* leads from a sound connection to a sound one.                           *)
(*                                                                         *)
(* Then about HttpServer, which is a Connection with one particular user:  *)
(* each request gets one answer in its turn, none is left behind by a      *)
(* pause, and what waits to be sent is bounded.  What is added to Sound    *)
(* ties the input buffer and the frames to the units of the client's       *)
(* stream.                                                                 *)
(***************************************************************************)
EXTENDS HttpServer, SequenceTheorems, WellFoundedInduction, TLAPS


\* Entering a user callback puts its frame on top of the others.
LEMMA PushFrame ==
  ASSUME NEW calls \in Seq(Frames), NEW f \in Frames
  PROVE  LET s == <<f>> \o calls
         IN  /\ s \in Seq(Frames)
             /\ Len(s) = Len(calls) + 1
             /\ s # <<>>
             /\ s[1] = f
             /\ Len(calls) > 0 => s[Len(s)] = calls[Len(calls)]
             /\ Len(calls) = 0 => s[Len(s)] = f
  OBVIOUS

\* A callback that may be the last one on top of at most one other.
LEMMA PushLast ==
  ASSUME NEW calls \in Seq(Frames), NEW f \in Last, Len(calls) <= 1,
         Len(calls) = 1 => calls[1] \notin Last
  PROVE  Nested(<<f>> \o calls)
<1> DEFINE s == <<f>> \o calls
<1>1. f \in Frames
  BY DEF Last, Frames
<1>2. Len(s) = Len(calls) + 1
  BY <1>1, PushFrame
<1>3. s[1] = f
  BY <1>1, PushFrame
<1>4. Len(calls) = 1 => s[2] = calls[1]
  BY <1>1, <1>2, PushFrame
<1> DEFINE m == Len(calls)
           n == Len(s)
<1>5. m \in Nat /\ m <= 1 /\ n = m + 1
  BY <1>2
<1> HIDE DEF s, m, n
<1>6. n <= 2
  BY <1>5
<1>7. n = 2 => m = 1
  BY <1>5
<1>8. Nested(s)
  BY <1>3, <1>4, <1>6, <1>7 DEF Nested, m, n
<1> QED
  BY <1>8 DEF s

\* No callback is running exactly when there is no frame.
LEMMA NoFrames == \A calls \in Seq(Frames) : calls = <<>> <=> Len(calls) = 0
  BY EmptySeq

\* Leaving a user callback uncovers the one below it.
LEMMA PopFrame ==
  ASSUME NEW calls \in Seq(Frames), calls # <<>>
  PROVE  LET s == Tail(calls)
         IN  /\ s \in Seq(Frames)
             /\ Len(s) = Len(calls) - 1
             /\ Len(calls) > 1 => s[1] = calls[2] /\ s[Len(s)] = calls[Len(calls)]
<1> DEFINE s == Tail(calls)
<1>1. s \in Seq(Frames) /\ Len(s) = Len(calls) - 1
  OBVIOUS
<1>2. \A i \in 1 .. Len(s) : s[i] = calls[i + 1]
  OBVIOUS
<1>3. Len(calls) \in Nat /\ Len(calls) > 0
  BY NoFrames
<1> HIDE DEF s
<1>4. ASSUME Len(calls) > 1
      PROVE  s[1] = calls[2] /\ s[Len(s)] = calls[Len(calls)]
  <2>1. 1 \in 1 .. Len(s) /\ Len(s) \in 1 .. Len(s) /\ Len(s) + 1 = Len(calls)
    BY <1>1, <1>3, <1>4
  <2> QED
    BY <1>2, <2>1
<1> QED
  BY <1>1, <1>4 DEF s

\* A fresh connection is sound.
LEMMA FreshIsSound == Fresh \in Conn /\ Sound(Fresh)
<1>1. <<>> \in Seq(Frames) /\ Len(<<>>) = 0
  BY EmptySeq
<1>2. Fresh \in Conn
  BY <1>1, TimeoutAssumption DEF Fresh, Conn, Statu, Events
<1>3. Sound(Fresh)
  BY <1>1 DEF Fresh, Sound, Nesting, Registered, Watched, Pressure, Lingering, Ended,
     Armed, Within, Innermost, Nested
<1> QED
  BY <1>2, <1>3

\* Everything but the frames is the same.
SameState(d, c) ==
  /\ d.statu = c.statu /\ d.events = c.events /\ d.added = c.added /\ d.mask = c.mask
  /\ d.in = c.in /\ d.out = c.out /\ d.paused = c.paused /\ d.inactive = c.inactive
  /\ d.left = c.left /\ d.fd = c.fd /\ d.removals = c.removals

\* No callback is running, or one that may call the last one.
MayNest(c) == Len(c.calls) <= 1 /\ (Len(c.calls) = 1 => c.calls[1] \notin Last)

LEMMA CallsLast ==
  ASSUME NEW c \in Conn, NEW f \in Last, MayNest(c)
  PROVE  /\ Call(f, c) \in Conn
         /\ SameState(Call(f, c), c)
         /\ Nested(Call(f, c).calls)
         /\ Len(Call(f, c).calls) > 0 /\ Call(f, c).calls[1] = f
         /\ \A g \in Frames \ Last : Within(Call(f, c), g) <=> Within(c, g)
<1> DEFINE s == <<f>> \o c.calls
<1>1. f \in Frames /\ c.calls \in Seq(Frames)
  BY DEF Conn, Last, Frames
<1>2. Call(f, c) = [c EXCEPT !.calls = s]
  BY DEF Call, Conn
<1>3. Nested(s)
  BY <1>1, PushLast DEF MayNest
<1>4. s \in Seq(Frames) /\ Len(s) > 0 /\ s[1] = f
  BY <1>1, PushFrame
<1>5. Len(c.calls) > 0 => s[Len(s)] = c.calls[Len(c.calls)]
  BY <1>1, PushFrame
<1>6. Len(c.calls) = 0 => s[Len(s)] = f
  BY <1>1, PushFrame
<1>7. Len(c.calls) \in Nat
  BY <1>1
<1> HIDE DEF s
<1>8. Call(f, c) \in Conn /\ Call(f, c).calls = s
  BY <1>2, <1>4 DEF Conn
<1>9. SameState(Call(f, c), c)
  BY <1>2 DEF SameState, Conn
<1>10. \A g \in Frames \ Last : Within(Call(f, c), g) <=> Within(c, g)
  BY <1>4, <1>5, <1>6, <1>7, <1>8 DEF Within, Outermost
<1> QED
  BY <1>3, <1>4, <1>8, <1>9, <1>10

LEMMA CallsFirst ==
  ASSUME NEW c \in Conn, NEW f \in Frames \ Last, Len(c.calls) = 0
  PROVE  /\ Call(f, c) \in Conn
         /\ SameState(Call(f, c), c)
         /\ Nested(Call(f, c).calls)
         /\ Len(Call(f, c).calls) = 1 /\ Call(f, c).calls[1] = f
<1> DEFINE s == <<f>> \o c.calls
<1>1. c.calls \in Seq(Frames)
  BY DEF Conn
<1>2. Call(f, c) = [c EXCEPT !.calls = s]
  BY DEF Call, Conn
<1>3. s \in Seq(Frames) /\ Len(s) = Len(c.calls) + 1 /\ s[1] = f
  BY <1>1, PushFrame
<1>4. Len(s) = 1
  BY <1>3
<1> HIDE DEF s
<1>5. Call(f, c) \in Conn /\ Call(f, c).calls = s
  BY <1>2, <1>3 DEF Conn
<1>6. SameState(Call(f, c), c)
  BY <1>2 DEF SameState, Conn
<1>7. Nested(s)
  BY <1>4 DEF Nested
<1> QED
  BY <1>3, <1>4, <1>5, <1>6, <1>7

\* Release leads to a sound connection from any open one.
LEMMA ReleaseIsSound ==
  ASSUME NEW c \in Conn, MayNest(c), Ended(c), c.fd
  PROVE  Release(c) \in Conn /\ Sound(Release(c))
<1> DEFINE e == [c EXCEPT !.statu = "DISCONNECTED", !.paused = FALSE, !.left = 0,
                          !.fd = FALSE, !.events = {}, !.added = FALSE, !.mask = {}]
           d == Call("close", e)
<1>1. Release(c) = d
  BY DEF Release, Unregister, Ended, Conn
<1>2. "close" \in Last
  BY DEF Last
<1>3. e \in Conn
  <2>1. 0 \in 0 .. Timeout /\ "DISCONNECTED" \in Statu
    BY TimeoutAssumption DEF Statu
  <2> QED
    BY <2>1 DEF Conn
<1>4. MayNest(e)
  BY DEF MayNest, Conn
<1>5. /\ e.statu = "DISCONNECTED" /\ ~e.fd /\ ~e.added /\ e.events = {} /\ e.mask = {}
      /\ e.left = 0 /\ ~e.paused /\ e.removals = 0
  BY DEF Conn, Ended
<1> HIDE DEF e
<1>6. /\ d \in Conn /\ SameState(d, e) /\ Nested(d.calls)
      /\ Len(d.calls) > 0 /\ d.calls[1] = "close"
  BY <1>2, <1>3, <1>4, CallsLast
<1> HIDE DEF d
<1>7. Sound(d)
  BY <1>5, <1>6 DEF SameState, Sound, Nesting, Registered, Watched, Pressure, Lingering,
     Ended, Armed, Innermost
<1> QED
  BY <1>1, <1>6, <1>7

\* A connection that is neither closing nor closed may call its user.
LEMMA OpenMayNest ==
  ASSUME NEW c \in Conn, Nesting(c), c.statu \notin {"DISCONNECTING", "DISCONNECTED"}
  PROVE  MayNest(c)
<1> DEFINE n == Len(c.calls)
<1>1. n \in Nat
  BY DEF Conn
<1>2. n > 0 => c.calls[1] \notin Last
  BY DEF Nesting, Innermost, Last
<1>3. n <= 2 /\ (n = 2 => c.calls[1] \in Last)
  BY DEF Nesting, Nested
<1> HIDE DEF n
<1>4. n <= 1 /\ (n = 1 => c.calls[1] \notin Last)
  BY <1>1, <1>2, <1>3
<1> QED
  BY <1>4 DEF MayNest, n

\* The end of ShutdownInLoop: nothing left to write, or the wait for it.
LEMMA AfterShutdownIsSound ==
  ASSUME NEW c \in Conn, MayNest(c), Nested(c.calls), Registered(c), Ended(c), Armed(c),
         c.statu = "DISCONNECTING",
         "OUT" \in c.events => c.out > 0 \/ Within(c, "resume")
  PROVE  AfterShutdown(c) \in Conn /\ Sound(AfterShutdown(c))
<1>1. c.fd
  BY DEF Ended
<1>2. CASE c.out = 0
  BY <1>1, <1>2, ReleaseIsSound DEF AfterShutdown
<1>3. CASE c.out # 0
  <2> DEFINE d == AfterShutdown(c)
  <2>1. d = [c EXCEPT !.events = @ \cup {"OUT"}, !.added = TRUE, !.mask = c.events \cup {"OUT"}]
    BY <1>3 DEF AfterShutdown, Update, EnableWrite, Conn
  <2>2. d \in Conn /\ d.calls = c.calls
    <3>1. c.events \cup {"OUT"} \in SUBSET Events
      BY DEF Conn, Events
    <3> QED
      BY <2>1, <3>1 DEF Conn
  <2>3. /\ d.statu = "DISCONNECTING" /\ d.out > 0 /\ "OUT" \in d.events /\ d.added
        /\ d.mask = d.events /\ d.fd /\ d.removals = c.removals
        /\ d.left = c.left /\ d.inactive = c.inactive
    BY <1>1, <1>3, <2>1 DEF Conn
  <2>4. ~Innermost(d, "shutdown") /\ ~Innermost(d, "close")
        /\ ~Innermost(c, "shutdown") /\ ~Innermost(c, "close")
    <3> DEFINE n == Len(c.calls)
    <3>1. n \in Nat /\ n <= 1 /\ (n = 1 => c.calls[1] \notin {"shutdown", "close"})
      BY DEF MayNest, Last, Conn
    <3> HIDE DEF n
    <3>2. ~(n > 0 /\ c.calls[1] = "shutdown") /\ ~(n > 0 /\ c.calls[1] = "close")
      BY <3>1
    <3> QED
      BY <2>2, <3>2 DEF Innermost, n
  <2> HIDE DEF d
  <2>5. Sound(d)
    BY <2>2, <2>3, <2>4 DEF Sound, Nesting, Registered, Watched, Pressure, Lingering,
       Ended, Armed, Within, Outermost
  <2> QED
    BY <2>2, <2>5 DEF d
<1> QED
  BY <1>2, <1>3

LEMMA ShutdownIsSound ==
  ASSUME NEW c \in Conn, Sound(c)
  PROVE  ShutdownInLoop(c) \in Conn /\ Sound(ShutdownInLoop(c))
<1>1. CASE c.statu \in {"DISCONNECTING", "DISCONNECTED"}
  BY <1>1 DEF ShutdownInLoop
<1>2. CASE c.statu \notin {"DISCONNECTING", "DISCONNECTED"}
  <2> DEFINE e == [c EXCEPT !.statu = "DISCONNECTING"]
             d == Update(DisableRead(e))
  <2>1. ShutdownInLoop(c) = IF d.in > 0 THEN Call("shutdown", d) ELSE AfterShutdown(d)
    BY <1>2 DEF ShutdownInLoop
  <2>2. d = [c EXCEPT !.statu = "DISCONNECTING", !.events = @ \ {"IN"}, !.added = TRUE,
                      !.mask = c.events \ {"IN"}]
    BY DEF Update, DisableRead, Conn
  <2>3. MayNest(c)
    BY <1>2, OpenMayNest DEF Sound
  <2>4. "DISCONNECTING" \in Statu
    BY DEF Statu
  <2>5. d \in Conn /\ d.calls = c.calls
    BY <2>2, <2>4 DEF Conn
  <2>6. /\ d.statu = "DISCONNECTING" /\ d.added /\ d.mask = d.events
        /\ d.events = c.events \ {"IN"} /\ d.out = c.out /\ d.fd = c.fd
        /\ d.removals = c.removals /\ d.left = c.left /\ d.inactive = c.inactive
    BY <2>2 DEF Conn
  <2>7. c.fd /\ ~Innermost(c, "shutdown") /\ ~Innermost(c, "close")
    BY <1>2 DEF Sound, Nesting, Ended
  <2> HIDE DEF d
  <2>8. MayNest(d) /\ Nested(d.calls)
    BY <2>3, <2>5 DEF MayNest, Sound, Nesting
  <2>9. Registered(d) /\ Ended(d) /\ Armed(d)
    BY <2>5, <2>6, <2>7 DEF Sound, Registered, Ended, Armed, Innermost, Within, Outermost
  <2>10. /\ d.out > 0 => "OUT" \in d.events
         /\ "OUT" \in d.events => d.out > 0 \/ Within(d, "resume")
    BY <2>5, <2>6, <2>7 DEF Sound, Watched, Within, Outermost
  <2>11. CASE ~(d.in > 0)
    BY <2>1, <2>5, <2>6, <2>8, <2>9, <2>10, <2>11, AfterShutdownIsSound
  <2>12. CASE d.in > 0
    <3> DEFINE h == Call("shutdown", d)
    <3>1. "shutdown" \in Last /\ "resume" \in Frames \ Last /\ "release" \in Frames \ Last
      BY DEF Last, Frames
    <3>2. /\ h \in Conn /\ SameState(h, d) /\ Nested(h.calls)
          /\ Len(h.calls) > 0 /\ h.calls[1] = "shutdown"
          /\ Within(h, "resume") <=> Within(d, "resume")
          /\ Within(h, "release") <=> Within(d, "release")
      BY <2>5, <2>8, <3>1, CallsLast
    <3> HIDE DEF h
    <3>3. Sound(h)
      BY <2>6, <2>7, <2>9, <2>10, <3>2 DEF SameState, Sound, Nesting, Registered, Watched,
         Pressure, Lingering, Ended, Armed, Innermost
    <3> QED
      BY <2>1, <2>12, <3>2, <3>3 DEF h
  <2> QED
    BY <2>11, <2>12
<1> QED
  BY <1>1, <1>2

LEMMA SendIsSound ==
  ASSUME NEW c \in Conn, Sound(c), NEW n \in Nat \ {0}
  PROVE  SendInLoop(c, n) \in Conn /\ Sound(SendInLoop(c, n))
<1>1. CASE c.statu \in {"CONNECTING", "DISCONNECTED"}
  BY <1>1 DEF SendInLoop
<1>2. CASE c.statu \notin {"CONNECTING", "DISCONNECTED"}
  <2> DEFINE full == ~c.paused /\ c.out + n >= HighWater
             events == (IF full THEN c.events \ {"IN"} ELSE c.events) \cup {"OUT"}
             d == SendInLoop(c, n)
  <2>1. d = [c EXCEPT !.out = @ + n, !.paused = IF full THEN TRUE ELSE @,
                      !.events = events, !.added = TRUE, !.mask = events]
    BY <1>2 DEF SendInLoop, Update, EnableWrite, DisableRead, Conn
  <2>2. events \in SUBSET Events
    BY DEF Events, Conn
  <2>3. d \in Conn /\ d.calls = c.calls
    <3> HIDE DEF full
    <3>1. c.out + n \in Nat
      BY DEF Conn
    <3>2. (IF full THEN TRUE ELSE c.paused) \in BOOLEAN
      BY DEF Conn
    <3> HIDE DEF d, events
    <3> QED
      BY <2>1, <2>2, <3>1, <3>2 DEF Conn
  <2>4. /\ d.statu = c.statu /\ d.added /\ d.mask = d.events /\ d.events = events
        /\ d.out = c.out + n /\ d.fd = c.fd /\ d.removals = c.removals
        /\ d.left = c.left /\ d.inactive = c.inactive
        /\ d.paused = IF full THEN TRUE ELSE c.paused
    BY <2>1 DEF Conn
  <2>5. /\ "OUT" \in d.events /\ d.out > 0
        /\ "IN" \in d.events <=> "IN" \in c.events /\ ~full
    BY <2>4 DEF Conn
  <2>6. Pressure(d)
    BY <1>2, <2>4, <2>5, WaterAssumption DEF Sound, Pressure, Conn
  <2> HIDE DEF d
  <2>7. Sound(d)
    BY <1>2, <2>3, <2>4, <2>5, <2>6 DEF Sound, Nesting, Registered, Watched, Lingering,
       Ended, Armed, Innermost, Within, Outermost
  <2> QED
    BY <2>3, <2>7 DEF d
<1> QED
  BY <1>1, <1>2

LEMMA SetInactiveCloseIsSound ==
  ASSUME NEW c \in Conn, Sound(c), NEW enable \in BOOLEAN
  PROVE  /\ SetInactiveCloseInLoop(c, enable) \in Conn
         /\ Sound(SetInactiveCloseInLoop(c, enable))
<1>1. CASE c.statu = "DISCONNECTED"
  BY <1>1 DEF SetInactiveCloseInLoop
<1>2. CASE c.statu # "DISCONNECTED"
  <2> DEFINE left == IF enable THEN Timeout ELSE IF c.inactive THEN 0 ELSE c.left
             d == SetInactiveCloseInLoop(c, enable)
  <2>1. d = [c EXCEPT !.inactive = enable, !.left = left]
    BY <1>2 DEF SetInactiveCloseInLoop, Conn
  <2>2. left \in 0 .. Timeout
    BY TimeoutAssumption DEF Conn
  <2>3. d \in Conn /\ d.calls = c.calls
    BY <2>1, <2>2 DEF Conn
  <2>4. /\ d.statu = c.statu /\ d.added = c.added /\ d.mask = c.mask /\ d.events = c.events
        /\ d.in = c.in /\ d.out = c.out /\ d.fd = c.fd /\ d.removals = c.removals
        /\ d.paused = c.paused /\ d.left = left /\ d.inactive = enable
    BY <2>1 DEF Conn
  <2>5. Armed(d)
    BY <2>3, <2>4, TimeoutAssumption DEF Sound, Armed, Within, Outermost, Conn
  <2>6. c.fd
    BY <1>2 DEF Sound, Ended
  <2> HIDE DEF d
  <2>7. Sound(d)
    BY <2>3, <2>4, <2>5, <2>6 DEF Sound, Nesting, Registered, Watched, Pressure, Lingering,
       Ended, Innermost, Within, Outermost
  <2> QED
    BY <2>3, <2>7 DEF d
<1> QED
  BY <1>1, <1>2

\* A callback that leaves the connection as it is, called by a handler.
LEMMA FirstCallIsSound ==
  ASSUME NEW c \in Conn, Sound(c), Len(c.calls) = 0, c.statu # "CONNECTING",
         NEW f \in Frames \ Last
  PROVE  Call(f, c) \in Conn /\ Sound(Call(f, c))
<1> DEFINE d == Call(f, c)
<1>1. /\ d \in Conn /\ SameState(d, c) /\ Nested(d.calls)
      /\ Len(d.calls) = 1 /\ d.calls[1] = f
  BY CallsFirst
<1>2. ~Within(c, "resume") /\ ~Within(c, "release")
      /\ ~Innermost(c, "shutdown") /\ ~Innermost(c, "close")
  BY DEF Within, Innermost
<1>3. f # "shutdown" /\ f # "close"
  BY DEF Last
<1> HIDE DEF d
<1>4. Sound(d)
  BY <1>1, <1>2, <1>3 DEF SameState, Sound, Nesting, Registered, Watched, Pressure,
     Lingering, Ended, Armed, Innermost
<1> QED
  BY <1>1, <1>4 DEF d

LEMMA NobodyNests ==
  ASSUME NEW c, Len(c.calls) = 0
  PROVE  MayNest(c)
  BY DEF MayNest

\* Everything but the frames and the timer is sound.
Closable(c) ==
  Nested(c.calls) /\ Registered(c) /\ Watched(c) /\ Pressure(c) /\ Lingering(c) /\ Ended(c)

LEMMA HandleCloseIsSound ==
  ASSUME NEW c \in Conn, Closable(c), Len(c.calls) = 0
  PROVE  HandleClose(c) \in Conn /\ (c.fd => Sound(HandleClose(c)))
                                 /\ (~c.fd => HandleClose(c) = c)
<1>1. CASE ~c.fd
  BY <1>1 DEF HandleClose, Closable, Ended
<1>2. CASE c.fd /\ c.in = 0
  BY <1>2, NobodyNests, ReleaseIsSound DEF HandleClose, Closable, Ended
<1>3. CASE c.fd /\ c.in # 0
  <2> DEFINE d == Call("release", c)
  <2>1. HandleClose(c) = d
    BY <1>3 DEF HandleClose, Closable, Ended, Conn
  <2>2. "release" \in Frames \ Last
    BY DEF Frames, Last
  <2>3. /\ d \in Conn /\ SameState(d, c) /\ Nested(d.calls)
        /\ Len(d.calls) = 1 /\ d.calls[1] = "release"
    BY <2>2, CallsFirst
  <2>4. ~Within(c, "resume") /\ ~Innermost(c, "shutdown") /\ ~Innermost(c, "close")
    BY DEF Within, Innermost
  <2> HIDE DEF d
  <2>5. c.statu # "CONNECTING" /\ c.statu # "DISCONNECTED"
    BY <1>3 DEF Closable, Registered, Ended
  <2>6. Within(d, "release")
    BY <2>3 DEF Within, Outermost
  <2>7. Sound(d)
    BY <1>3, <2>3, <2>4, <2>5, <2>6 DEF Closable, SameState, Sound, Nesting, Registered,
       Watched, Pressure, Lingering, Ended, Armed, Innermost
  <2> QED
    BY <1>3, <2>1, <2>3, <2>7
<1> QED
  BY <1>1, <1>2, <1>3

LEMMA TickIsSound ==
  ASSUME NEW c \in Conn, Sound(c), Len(c.calls) = 0
  PROVE  Tick(c) \in Conn /\ Sound(Tick(c))
<1>1. c.left \in 0 .. Timeout /\ 0 \in 0 .. Timeout
  BY TimeoutAssumption DEF Conn
<1>2. CASE c.left = 1
  <2> DEFINE e == [c EXCEPT !.left = 0]
  <2>1. e \in Conn /\ e.calls = c.calls
    BY <1>1 DEF Conn
  <2>2. /\ e.statu = c.statu /\ e.added = c.added /\ e.mask = c.mask /\ e.events = c.events
        /\ e.in = c.in /\ e.out = c.out /\ e.fd = c.fd /\ e.removals = c.removals
        /\ e.paused = c.paused /\ e.left = 0
    BY DEF Conn
  <2>3. c.fd
    BY <1>2 DEF Sound, Ended
  <2>4. Tick(c) = HandleClose(e)
    BY <1>2 DEF Tick
  <2> HIDE DEF e
  <2>5. Closable(e)
    BY <2>1, <2>2 DEF Closable, Sound, Nesting, Registered, Watched, Pressure, Lingering,
       Ended, Innermost, Within, Outermost
  <2> QED
    BY <2>1, <2>2, <2>3, <2>4, <2>5, HandleCloseIsSound
<1>3. CASE c.left # 1
  <2> DEFINE left == IF c.left = 0 THEN 0 ELSE c.left - 1
             d == Tick(c)
  <2>1. d = [c EXCEPT !.left = left]
    BY <1>3 DEF Tick, Conn
  <2>2. left \in 0 .. Timeout /\ (left > 0 <=> c.left > 0)
    BY <1>1, <1>3, TimeoutAssumption
  <2>3. d \in Conn /\ d.calls = c.calls
    BY <2>1, <2>2 DEF Conn
  <2>4. /\ d.statu = c.statu /\ d.added = c.added /\ d.mask = c.mask /\ d.events = c.events
        /\ d.in = c.in /\ d.out = c.out /\ d.fd = c.fd /\ d.removals = c.removals
        /\ d.paused = c.paused /\ d.inactive = c.inactive /\ d.left = left
    BY <2>1 DEF Conn
  <2>5. c.left = 0 => left = 0
    OBVIOUS
  <2> HIDE DEF d, left
  <2>6. Sound(d)
    BY <2>2, <2>3, <2>4, <2>5 DEF Sound, Nesting, Registered, Watched, Pressure, Lingering,
       Ended, Armed, Innermost, Within, Outermost
  <2> QED
    BY <2>3, <2>6 DEF d
<1> QED
  BY <1>2, <1>3

LEMMA HandleAnyIsSound ==
  ASSUME NEW c \in Conn, Sound(c), Len(c.calls) = 0, c.statu # "CONNECTING"
  PROVE  HandleAny(c) \in Conn /\ Sound(HandleAny(c))
<1>1. CASE c.statu = "DISCONNECTED"
  BY <1>1 DEF HandleAny
<1>2. CASE c.statu # "DISCONNECTED"
  <2> DEFINE d == IF c.inactive THEN RefreshTask(c) ELSE c
  <2>1. HandleAny(c) = Call("any", d)
    BY <1>2 DEF HandleAny
  <2>2. d \in Conn /\ d.calls = c.calls /\ d.statu = c.statu
    BY TimeoutAssumption DEF RefreshTask, Conn
  <2>3. /\ d.added = c.added /\ d.mask = c.mask /\ d.events = c.events
        /\ d.in = c.in /\ d.out = c.out /\ d.fd = c.fd /\ d.removals = c.removals
        /\ d.paused = c.paused /\ d.inactive = c.inactive /\ (d.left > 0 <=> c.left > 0)
    BY TimeoutAssumption DEF RefreshTask, Conn
  <2>4. c.fd
    BY <1>2 DEF Sound, Ended
  <2> HIDE DEF d
  <2>5. Sound(d)
    BY <2>2, <2>3, <2>4 DEF Sound, Nesting, Registered, Watched, Pressure, Lingering,
       Ended, Armed, Innermost, Within, Outermost
  <2>6. "any" \in Frames \ Last
    BY DEF Frames, Last
  <2> QED
    BY <2>1, <2>2, <2>5, <2>6, FirstCallIsSound
<1> QED
  BY <1>1, <1>2

LEMMA EstablishedIsSound ==
  ASSUME NEW c \in Conn, Sound(c)
  PROVE  EstablishedInLoop(c) \in Conn /\ Sound(EstablishedInLoop(c))
<1>1. CASE c.statu # "CONNECTING"
  BY <1>1 DEF EstablishedInLoop
<1>2. CASE c.statu = "CONNECTING"
  <2> DEFINE d == Update(EnableRead([c EXCEPT !.statu = "CONNECTED"]))
  <2>1. EstablishedInLoop(c) = Call("connected", d)
    BY <1>2 DEF EstablishedInLoop
  <2>2. d = [c EXCEPT !.statu = "CONNECTED", !.events = @ \cup {"IN"}, !.added = TRUE,
                      !.mask = c.events \cup {"IN"}]
    BY DEF Update, EnableRead, Conn
  <2>3. "CONNECTED" \in Statu /\ "connected" \in Frames \ Last
    BY DEF Statu, Frames, Last
  <2>4. d \in Conn /\ d.calls = c.calls
    <3>1. c.events \cup {"IN"} \in SUBSET Events
      BY DEF Conn, Events
    <3> HIDE DEF d
    <3> QED
      BY <2>2, <2>3, <3>1 DEF Conn
  <2>5. /\ d.statu = "CONNECTED" /\ d.added /\ d.mask = d.events
        /\ d.events = c.events \cup {"IN"} /\ d.out = c.out /\ d.fd = c.fd
        /\ d.removals = c.removals /\ d.paused = c.paused
        /\ d.left = c.left /\ d.inactive = c.inactive
    BY <2>2 DEF Conn
  <2>6. c.events = {} /\ c.out = 0 /\ ~c.paused /\ Len(c.calls) = 0 /\ c.fd
    BY <1>2 DEF Sound, Registered, Nesting, Ended
  <2> HIDE DEF d
  <2>7. "IN" \in d.events /\ "OUT" \notin d.events /\ d.out = 0 /\ ~d.paused
    BY <2>5, <2>6
  <2>8. ~Innermost(d, "shutdown") /\ ~Innermost(d, "close")
        /\ ~Innermost(c, "close") /\ ~Within(d, "release") /\ ~Within(c, "release")
    BY <2>4, <2>6 DEF Innermost, Within
  <2>9. Nesting(d) /\ Registered(d) /\ Watched(d) /\ Lingering(d)
    BY <2>4, <2>5, <2>7, <2>8 DEF Sound, Nesting, Registered, Watched, Lingering
  <2>10. Pressure(d)
    BY <2>7, WaterAssumption DEF Pressure
  <2>11. Ended(d) /\ Armed(d)
    BY <2>5, <2>6, <2>8 DEF Sound, Ended, Armed
  <2>12. Sound(d)
    BY <2>9, <2>10, <2>11 DEF Sound
  <2> QED
    BY <2>1, <2>3, <2>4, <2>5, <2>6, <2>12, FirstCallIsSound
<1> QED
  BY <1>1, <1>2

\* The end of HandleWrite.  Before it, an empty buffer may be watched for, and
\* a closing connection may have nothing left to write.
Writing(c) ==
  /\ Len(c.calls) = 0
  /\ c.statu \in {"CONNECTED", "DISCONNECTING"}
  /\ Registered(c)
  /\ c.out > 0 => "OUT" \in c.events
  /\ Ended(c)
  /\ Armed(c)

LEMMA AfterWriteIsSound ==
  ASSUME NEW c \in Conn, Writing(c), Pressure(c)
  PROVE  AfterWrite(c) \in Conn /\ Sound(AfterWrite(c))
<1>1. c.fd /\ Nested(c.calls) /\ ~Within(c, "resume") /\ ~Within(c, "release")
      /\ ~Innermost(c, "shutdown") /\ ~Innermost(c, "close")
  BY DEF Writing, Ended, Nested, Within, Innermost
<1>2. CASE c.out > 0
  BY <1>1, <1>2 DEF AfterWrite, Writing, Sound, Nesting, Watched, Lingering
<1>3. CASE ~(c.out > 0)
  <2> DEFINE d == Update(DisableWrite(c))
  <2>1. AfterWrite(c) = IF d.statu = "DISCONNECTING" THEN Release(d) ELSE d
    BY <1>3 DEF AfterWrite
  <2>2. d = [c EXCEPT !.events = @ \ {"OUT"}, !.added = TRUE, !.mask = c.events \ {"OUT"}]
    BY DEF Update, DisableWrite, Conn
  <2>3. d \in Conn /\ d.calls = c.calls
    BY <2>2 DEF Conn
  <2>4. /\ d.statu = c.statu /\ d.added /\ d.mask = d.events
        /\ d.events = c.events \ {"OUT"} /\ d.out = c.out /\ d.fd = c.fd
        /\ d.removals = c.removals /\ d.paused = c.paused
        /\ d.left = c.left /\ d.inactive = c.inactive
    BY <2>2 DEF Conn
  <2> HIDE DEF d
  <2>5. ~Within(d, "release") /\ ~Innermost(d, "shutdown") /\ ~Innermost(d, "close")
    BY <1>1, <2>3 DEF Within, Innermost, Outermost
  <2>6. Ended(d) /\ Armed(d)
    BY <1>1, <2>4, <2>5 DEF Writing, Ended, Armed
  <2>7. CASE d.statu = "DISCONNECTING"
    <3>1. MayNest(d) /\ d.fd
      BY <1>1, <2>3, <2>4 DEF Writing, MayNest
    <3> QED
      BY <2>1, <2>3, <2>6, <2>7, <3>1, ReleaseIsSound
  <2>8. CASE d.statu # "DISCONNECTING"
    <3>1. d.statu = "CONNECTED" /\ "OUT" \notin d.events
      BY <2>4, <2>8 DEF Writing
    <3>2. Pressure(d)
      BY <2>4 DEF Pressure
    <3>3. Nesting(d) /\ Registered(d) /\ Watched(d) /\ Lingering(d)
      BY <1>1, <1>3, <2>3, <2>4, <2>5, <3>1 DEF Nesting, Registered, Watched, Lingering, Conn
    <3> QED
      BY <2>1, <2>3, <2>6, <2>8, <3>2, <3>3 DEF Sound
  <2> QED
    BY <2>7, <2>8
<1> QED
  BY <1>2, <1>3

LEMMA ResumeReadIsSound ==
  ASSUME NEW c \in Conn, Writing(c),
         c.statu = "CONNECTED" =>
           ("IN" \in c.events <=> ~c.paused) /\ (~c.paused => c.out < HighWater)
  PROVE  ResumeRead(c) \in Conn /\ Sound(ResumeRead(c))
<1>1. CASE ~Resumes(c)
  <2>1. Pressure(c)
    BY <1>1, WaterAssumption DEF Resumes, Pressure, Conn
  <2> QED
    BY <1>1, <2>1, AfterWriteIsSound DEF ResumeRead
<1>2. CASE Resumes(c)
  <2> DEFINE d == Update(EnableRead([c EXCEPT !.paused = FALSE]))
  <2>1. ResumeRead(c) = IF d.in > 0 THEN Call("resume", d) ELSE AfterWrite(d)
    BY <1>2 DEF ResumeRead
  <2>2. d = [c EXCEPT !.paused = FALSE, !.events = @ \cup {"IN"}, !.added = TRUE,
                      !.mask = c.events \cup {"IN"}]
    BY DEF Update, EnableRead, Conn
  <2>3. d \in Conn /\ d.calls = c.calls
    <3>1. c.events \cup {"IN"} \in SUBSET Events
      BY DEF Conn, Events
    <3> HIDE DEF d
    <3> QED
      BY <2>2, <3>1 DEF Conn
  <2>4. /\ d.statu = "CONNECTED" /\ d.added /\ d.mask = d.events
        /\ d.events = c.events \cup {"IN"} /\ d.out = c.out /\ d.fd = c.fd
        /\ d.removals = c.removals /\ ~d.paused
        /\ d.left = c.left /\ d.inactive = c.inactive
    BY <1>2, <2>2 DEF Resumes, Conn
  <2>5. d.out < HighWater
    BY <1>2, <2>4, WaterAssumption DEF Resumes, Conn
  <2> HIDE DEF d
  <2>6. Pressure(d)
    BY <2>4, <2>5 DEF Pressure
  <2>7. c.fd /\ ~Within(c, "release") /\ ~Within(d, "release")
        /\ ~Innermost(c, "close") /\ ~Innermost(d, "close")
        /\ ~Innermost(d, "shutdown") /\ Len(d.calls) = 0
    BY <2>3 DEF Writing, Ended, Within, Innermost
  <2>8. Writing(d)
    BY <2>4, <2>7 DEF Writing, Registered, Ended, Armed
  <2>9. CASE ~(d.in > 0)
    BY <2>1, <2>3, <2>6, <2>8, <2>9, AfterWriteIsSound
  <2>10. CASE d.in > 0
    <3> DEFINE h == Call("resume", d)
    <3>1. "resume" \in Frames \ Last
      BY DEF Frames, Last
    <3>2. /\ h \in Conn /\ SameState(h, d) /\ Nested(h.calls)
          /\ Len(h.calls) = 1 /\ h.calls[1] = "resume"
      BY <2>3, <2>7, <3>1, CallsFirst
    <3> HIDE DEF h
    <3>3. Within(h, "resume") /\ ~Innermost(h, "shutdown") /\ ~Innermost(h, "close")
      BY <3>2 DEF Within, Outermost, Innermost
    <3>4. Nesting(h) /\ Registered(h) /\ Watched(h) /\ Pressure(h) /\ Lingering(h)
      BY <2>4, <2>6, <2>8, <3>2, <3>3 DEF SameState, Writing, Nesting, Registered, Watched,
         Pressure, Lingering
    <3>5. Ended(h) /\ Armed(h)
      BY <2>4, <2>7, <2>8, <3>2, <3>3 DEF SameState, Writing, Ended, Armed
    <3> QED
      BY <2>1, <2>10, <3>2, <3>4, <3>5 DEF Sound, h
  <2> QED
    BY <2>9, <2>10
<1> QED
  BY <1>1, <1>2

\* A callback returns, and the method that called it goes on.
LEMMA ContinueIsSound ==
  ASSUME NEW c \in Conn, Sound(c), Len(c.calls) > 0,
         NEW d, d = [c EXCEPT !.calls = Tail(@)]
  PROVE  Continue(c.calls[1], d) \in Conn /\ Sound(Continue(c.calls[1], d))
<1> DEFINE f == c.calls[1]
           m == Len(c.calls)
           n == Len(d.calls)
<1>1. c.calls \in Seq(Frames) /\ c.calls # <<>> /\ m \in Nat
  BY EmptySeq DEF Conn
<1>2. d.calls = Tail(c.calls)
  BY DEF Conn
<1>3. Tail(c.calls) \in Seq(Frames) /\ Len(Tail(c.calls)) = Len(c.calls) - 1
  BY <1>1, PopFrame
<1>4. d \in Conn /\ n = m - 1
  BY <1>2, <1>3 DEF Conn
<1>5. m > 1 => d.calls[1] = c.calls[2] /\ Outermost(d) = Outermost(c)
  BY <1>1, <1>2, PopFrame DEF Outermost
<1>6. SameState(d, c)
  BY DEF SameState, Conn
<1>7. m <= 2 /\ (m = 2 => f \in Last /\ c.calls[2] \notin Last)
  BY DEF Sound, Nesting, Nested
<1>8. m = 1 => Outermost(c) = f
  BY DEF Outermost
<1>9. f \in Frames
  BY <1>1
<1>10. /\ f = "shutdown" => c.statu = "DISCONNECTING"
       /\ f = "close" => c.statu = "DISCONNECTED"
       /\ f # "close" => ~Innermost(c, "close")
       /\ f # "shutdown" => ~Innermost(c, "shutdown")
       /\ f = "close" => Innermost(c, "close")
       /\ c.statu # "CONNECTING"
  BY DEF Sound, Nesting, Innermost
<1>11. \A g \in Frames \ Last :
         /\ Within(c, g) <=> Outermost(c) = g
         /\ Within(d, g) <=> n > 0 /\ Outermost(d) = g
  BY DEF Within
<1> HIDE DEF m, n, f
<1>12. ~Innermost(d, "shutdown") /\ ~Innermost(d, "close")
  <2>1. n > 0 => d.calls[1] \notin Last
    <3>1. n > 0 => m > 1 /\ m = 2
      BY <1>1, <1>4, <1>7
    <3> QED
      BY <1>5, <1>7, <3>1
  <2> QED
    BY <2>1 DEF Innermost, Last, n
<1>13. n \in Nat /\ n <= 1 /\ m >= 1 /\ (n = 1 => d.calls[1] \notin Last) /\ (m = 1 <=> n = 0)
  BY <1>1, <1>4, <1>5, <1>7 DEF m
<1>14. MayNest(d) /\ Nested(d.calls)
  <2>1. MayNest(d)
    BY <1>13 DEF MayNest, n
  <2>2. n = 2 => FALSE
    BY <1>13
  <2>3. Nested(d.calls)
    BY <1>13, <2>2 DEF Nested, n
  <2> QED
    BY <2>1, <2>3
<1>15. "resume" \in Frames \ Last /\ "release" \in Frames \ Last
  BY DEF Frames, Last
<1>16. ASSUME f \in Last, NEW g \in Frames \ Last
       PROVE  Within(d, g) <=> Within(c, g)
  <2>1. CASE m = 1
    BY <1>8, <1>11, <1>13, <1>16, <2>1
  <2>2. CASE m = 2
    <3>1. m > 1 /\ n > 0
      BY <1>4, <2>2
    <3> QED
      BY <1>5, <1>11, <1>16, <3>1
  <2> QED
    BY <1>1, <1>7, <1>13, <2>1, <2>2
<1>17. f \notin Last => n = 0 /\ Len(d.calls) = 0 /\ Outermost(c) = f
  <2>1. f \notin Last => m = 1
    BY <1>1, <1>7, <1>13
  <2> QED
    BY <1>8, <1>13, <2>1 DEF n
<1>18. CASE f = "shutdown"
  <2>1. f \in Last
    BY <1>18 DEF Last
  <2>2. Continue(f, d) = AfterShutdown(d)
    BY <1>18 DEF Continue
  <2>3. Within(d, "resume") <=> Within(c, "resume")
    BY <1>15, <1>16, <2>1
  <2>4. Within(d, "release") <=> Within(c, "release")
    BY <1>15, <1>16, <2>1
  <2>5. c.statu = "DISCONNECTING" /\ ~Innermost(c, "close")
    BY <1>10, <1>18
  <2>6. Registered(d) /\ Ended(d) /\ Armed(d)
    BY <1>6, <1>12, <2>4, <2>5 DEF SameState, Sound, Registered, Ended, Armed
  <2>7. d.statu = "DISCONNECTING" /\ ("OUT" \in d.events => d.out > 0 \/ Within(d, "resume"))
    BY <1>6, <2>3, <2>5 DEF SameState, Sound, Watched, Ended
  <2> QED
    BY <1>4, <1>14, <2>2, <2>6, <2>7, AfterShutdownIsSound DEF f
<1>19. CASE f = "close"
  <2> DEFINE h == [d EXCEPT !.removals = @ + 1]
  <2>1. Continue(f, d) = h
    BY <1>19 DEF Continue, AfterClose
  <2>2. h \in Conn /\ h.calls = d.calls
    <3>1. d.removals + 1 \in Nat
      BY <1>4 DEF Conn
    <3> QED
      BY <1>4, <3>1 DEF Conn
  <2>3. /\ h.statu = d.statu /\ h.added = d.added /\ h.mask = d.mask /\ h.events = d.events
        /\ h.fd = d.fd /\ h.paused = d.paused /\ h.left = d.left
        /\ h.removals = d.removals + 1
    BY <1>4 DEF Conn
  <2> HIDE DEF h
  <2>4. c.statu = "DISCONNECTED" /\ Innermost(c, "close")
    BY <1>10, <1>19
  <2>5. c.removals = 0 /\ ~c.fd
    BY <2>4 DEF Sound, Ended
  <2>6. ~Innermost(h, "shutdown") /\ ~Innermost(h, "close")
    BY <1>12, <2>2 DEF Innermost
  <2>7. Sound(h)
    BY <1>6, <1>14, <2>2, <2>3, <2>4, <2>5, <2>6 DEF SameState, Sound, Nesting, Registered,
       Watched, Pressure, Lingering, Ended, Armed
  <2> QED
    BY <2>1, <2>2, <2>7 DEF f
<1>20. CASE f = "release"
  <2>1. Continue(f, d) = Release(d)
    BY <1>20 DEF Continue
  <2>2. ~Innermost(c, "close") /\ ~Innermost(c, "shutdown")
    BY <1>10, <1>20
  <2>3. Ended(d)
    BY <1>6, <1>12, <2>2 DEF SameState, Sound, Ended
  <2>4. CASE d.fd
    BY <1>4, <1>14, <2>1, <2>3, <2>4, ReleaseIsSound DEF f
  <2>5. CASE ~d.fd
    <3>1. Release(d) = d
      BY <2>3, <2>5 DEF Release, Ended
    <3>2. Sound(d)
      BY <1>6, <1>12, <1>14, <2>3, <2>5 DEF SameState, Sound, Nesting, Registered,
         Watched, Pressure, Lingering, Ended, Armed
    <3> QED
      BY <1>4, <2>1, <3>1, <3>2 DEF f
  <2> QED
    BY <2>4, <2>5
<1>21. CASE f \notin Last /\ f # "release"
  <2>1. ~Innermost(c, "close") /\ ~Innermost(c, "shutdown") /\ ~Within(c, "release")
        /\ ~Within(d, "release") /\ ~Within(d, "resume")
    BY <1>10, <1>11, <1>15, <1>17, <1>21 DEF Last
  <2>2. Registered(d) /\ Pressure(d) /\ Lingering(d) /\ Ended(d) /\ Armed(d) /\ Nesting(d)
    BY <1>6, <1>10, <1>12, <1>14, <2>1 DEF SameState, Sound, Nesting, Registered, Pressure,
       Lingering, Ended, Armed
  <2>3. d.fd /\ d.out > 0 => "OUT" \in d.events
    BY <1>6 DEF SameState, Sound, Watched
  <2>4. CASE f = "resume"
    <3>1. Continue(f, d) = AfterResume(d)
      BY <2>4 DEF Continue
    <3>2. CASE d.statu = "DISCONNECTED"
      BY <1>4, <2>2, <3>1, <3>2 DEF AfterResume, Sound, Watched, Ended, f
    <3>3. CASE d.statu # "DISCONNECTED"
      <4>1. d.statu \in Statu /\ d.statu # "CONNECTING"
        BY <1>4, <1>6, <1>10 DEF SameState, Conn
      <4>2. Writing(d)
        BY <1>17, <1>21, <2>2, <2>3, <3>3, <4>1 DEF Writing, Statu, Ended
      <4> QED
        BY <1>4, <2>2, <3>1, <3>3, <4>2, AfterWriteIsSound DEF AfterResume, f
    <3> QED
      BY <3>2, <3>3
  <2>5. CASE f # "resume"
    <3>1. Continue(f, d) = d
      BY <1>21, <2>5 DEF Continue, Last
    <3>2. ~Within(c, "resume")
      BY <1>11, <1>15, <1>17, <1>21, <2>5
    <3>3. Watched(d)
      BY <1>6, <3>2 DEF SameState, Sound, Watched
    <3> QED
      BY <1>4, <2>2, <3>1, <3>3 DEF Sound, f
  <2> QED
    BY <2>4, <2>5
<1> QED
  BY <1>18, <1>19, <1>20, <1>21 DEF Last

-----------------------------------------------------------------------------
(* The status *)

Advances(c, d) ==
  \/ d.statu \in {c.statu, "DISCONNECTED"}
  \/ c.statu # "DISCONNECTED" /\ d.statu = "DISCONNECTING"
  \/ c.statu = "CONNECTING" /\ d.statu = "CONNECTED"

LEMMA ReleaseAdvances == \A c \in Conn : Release(c).statu = "DISCONNECTED"
  BY DEF Release, Call, Unregister, Conn

LEMMA AfterShutdownAdvances ==
  \A c \in Conn : AfterShutdown(c).statu \in {c.statu, "DISCONNECTED"}
  BY ReleaseAdvances DEF AfterShutdown, Update, EnableWrite, Conn

LEMMA ShutdownAdvances == \A c \in Conn : Advances(c, ShutdownInLoop(c))
<1> SUFFICES ASSUME NEW c \in Conn
             PROVE  Advances(c, ShutdownInLoop(c))
  OBVIOUS
<1> DEFINE d == Update(DisableRead([c EXCEPT !.statu = "DISCONNECTING"]))
<1>1. d \in Conn /\ d.statu = "DISCONNECTING"
  <2>1. "DISCONNECTING" \in Statu
    BY DEF Statu
  <2>2. c.events \ {"IN"} \in SUBSET Events
    BY DEF Conn
  <2> QED
    BY <2>1, <2>2 DEF Update, DisableRead, Conn
<1>2. Call("shutdown", d).statu = "DISCONNECTING"
  BY <1>1 DEF Call, Conn
<1>3. AfterShutdown(d).statu \in {"DISCONNECTING", "DISCONNECTED"}
  BY <1>1, AfterShutdownAdvances
<1>4. ShutdownInLoop(c) =
        IF c.statu \in {"DISCONNECTING", "DISCONNECTED"} THEN c
        ELSE IF d.in > 0 THEN Call("shutdown", d) ELSE AfterShutdown(d)
  BY DEF ShutdownInLoop
<1> HIDE DEF d
<1> QED
  BY <1>2, <1>3, <1>4 DEF Advances

LEMMA SendAdvances == \A c \in Conn, n \in Nat : SendInLoop(c, n).statu = c.statu
  BY DEF SendInLoop, Update, EnableWrite, DisableRead, Conn

LEMMA SetInactiveCloseAdvances ==
  \A c \in Conn, enable \in BOOLEAN : SetInactiveCloseInLoop(c, enable).statu = c.statu
  BY DEF SetInactiveCloseInLoop, Conn

LEMMA EstablishedAdvances == \A c \in Conn : Advances(c, EstablishedInLoop(c))
  BY DEF EstablishedInLoop, Update, EnableRead, Call, Advances, Conn

LEMMA HandleCloseAdvances ==
  \A c \in Conn : HandleClose(c).statu \in {c.statu, "DISCONNECTED"}
  BY ReleaseAdvances DEF HandleClose, Call, Conn

LEMMA TickAdvances == \A c \in Conn : Tick(c).statu \in {c.statu, "DISCONNECTED"}
<1> SUFFICES ASSUME NEW c \in Conn
             PROVE  Tick(c).statu \in {c.statu, "DISCONNECTED"}
  OBVIOUS
<1>1. [c EXCEPT !.left = 0] \in Conn /\ [c EXCEPT !.left = 0].statu = c.statu
  BY TimeoutAssumption DEF Conn
<1> QED
  BY <1>1, HandleCloseAdvances DEF Tick, Conn

LEMMA HandleAnyAdvances == \A c \in Conn : HandleAny(c).statu = c.statu
  BY DEF HandleAny, RefreshTask, Call, Conn

LEMMA AfterWriteAdvances ==
  \A c \in Conn : AfterWrite(c).statu \in {c.statu, "DISCONNECTED"}
<1> SUFFICES ASSUME NEW c \in Conn
             PROVE  AfterWrite(c).statu \in {c.statu, "DISCONNECTED"}
  OBVIOUS
<1> DEFINE d == Update(DisableWrite(c))
<1>1. d \in Conn /\ d.statu = c.statu
  BY DEF Update, DisableWrite, Conn
<1> HIDE DEF d
<1>2. AfterWrite(c) = IF c.out > 0 THEN c
                      ELSE IF d.statu = "DISCONNECTING" THEN Release(d) ELSE d
  BY DEF AfterWrite, d
<1> QED
  BY <1>1, <1>2, ReleaseAdvances

LEMMA ResumeReadAdvances ==
  \A c \in Conn : ResumeRead(c).statu \in {c.statu, "DISCONNECTED"}
<1> SUFFICES ASSUME NEW c \in Conn
             PROVE  ResumeRead(c).statu \in {c.statu, "DISCONNECTED"}
  OBVIOUS
<1> DEFINE d == Update(EnableRead([c EXCEPT !.paused = FALSE]))
<1>1. d \in Conn /\ d.statu = c.statu
  <2>1. c.events \cup {"IN"} \in SUBSET Events
    BY DEF Conn, Events
  <2> QED
    BY <2>1 DEF Update, EnableRead, Conn
<1>2. Call("resume", d).statu = c.statu
  BY <1>1 DEF Call, Conn
<1> HIDE DEF d
<1>3. ResumeRead(c) = IF ~Resumes(c) THEN AfterWrite(c)
                      ELSE IF d.in > 0 THEN Call("resume", d) ELSE AfterWrite(d)
  BY DEF ResumeRead, d
<1> QED
  BY <1>1, <1>2, <1>3, AfterWriteAdvances

LEMMA ContinueAdvances ==
  \A c \in Conn, f \in Frames : Continue(f, c).statu \in {c.statu, "DISCONNECTED"}
<1> SUFFICES ASSUME NEW c \in Conn, NEW f \in Frames
             PROVE  Continue(f, c).statu \in {c.statu, "DISCONNECTED"}
  OBVIOUS
<1>1. AfterClose(c).statu = c.statu
  BY DEF AfterClose, Conn
<1>2. AfterResume(c).statu \in {c.statu, "DISCONNECTED"}
  BY AfterWriteAdvances DEF AfterResume
<1> QED
  BY <1>1, <1>2, ReleaseAdvances, AfterShutdownAdvances DEF Continue

-----------------------------------------------------------------------------
(* The steps *)

\* Handlers and the loop run when no user callback does.
LEMMA HandlerAlone ==
  ASSUME Inv, ~InCallback
  PROVE  Len(conn.calls) = 0
  BY EmptySeq DEF Inv, TypeOK, Conn, InCallback

LEMMA InCallbackHasFrame ==
  ASSUME Inv, InCallback
  PROVE  /\ Len(conn.calls) > 0 /\ Head(conn.calls) = conn.calls[1]
         /\ conn.calls[1] \in Frames /\ conn.statu # "CONNECTING"
<1>1. conn.calls \in Seq(Frames) /\ conn.calls # <<>>
  BY DEF Inv, TypeOK, Conn, InCallback
<1>2. Len(conn.calls) \in Nat \ {0}
  BY <1>1, EmptySeq
<1>3. Len(conn.calls) > 0 /\ Head(conn.calls) = conn.calls[1] /\ conn.calls[1] \in Frames
  BY <1>1, <1>2
<1> QED
  BY <1>3 DEF Inv, Sound, Nesting

\* What is left of a round is part of it.
LEMMA CallbackLeavesRest ==
  ASSUME Inv, NEW cb, Callback(cb)
  PROVE  /\ batch' \in Seq(Callbacks)
         /\ conn.statu = "CONNECTING" => \A i \in DOMAIN batch' : batch'[i] = "tick"
         /\ cb # "tick" => conn.statu # "CONNECTING"
<1>1. batch \in Seq(Callbacks) /\ batch # <<>> /\ batch' = Tail(batch) /\ Head(batch) = cb
  BY DEF Inv, TypeOK, Callback
<1>2. /\ Tail(batch) \in Seq(Callbacks) /\ Len(Tail(batch)) = Len(batch) - 1
      /\ \A i \in 1 .. Len(Tail(batch)) : Tail(batch)[i] = batch[i + 1]
  BY <1>1, HeadTailProperties
<1>3. Len(batch) \in Nat \ {0} /\ DOMAIN batch = 1 .. Len(batch) /\ Head(batch) = batch[1]
  BY <1>1, EmptySeq
<1>4. DOMAIN Tail(batch) = 1 .. Len(Tail(batch))
  BY <1>2
<1> DEFINE s == Tail(batch)
           m == Len(batch)
           n == Len(s)
<1>5. n = m - 1 /\ m \in Nat \ {0}
  BY <1>2, <1>3
<1>6. \A i \in 1 .. n : s[i] = batch[i + 1]
  BY <1>2
<1>7. DOMAIN batch = 1 .. m /\ DOMAIN s = 1 .. n
  BY <1>3, <1>4
<1> HIDE DEF s, m, n
<1>8. ASSUME conn.statu = "CONNECTING"
      PROVE  (\A i \in DOMAIN s : s[i] = "tick") /\ batch[1] = "tick"
  <2>1. \A i \in 1 .. m : batch[i] = "tick"
    BY <1>7, <1>8 DEF Inv, Reported
  <2>2. \A i \in 1 .. n : i + 1 \in 1 .. m
    BY <1>5
  <2> QED
    BY <1>5, <1>6, <1>7, <2>1, <2>2
<1> QED
  BY <1>1, <1>2, <1>3, <1>8 DEF s

\* A round with nothing but seconds in it before the connection is established.
LEMMA PollReports ==
  ASSUME Inv, Poll
  PROVE  /\ batch' \in Seq(Callbacks)
         /\ conn.statu = "CONNECTING" => \A i \in DOMAIN batch' : batch'[i] = "tick"
<1>1. PICK k \in 0 .. MaxTicks :
        batch' \in {[i \in 1 .. k |-> "tick"] \o ChannelCalls,
                    ChannelCalls \o [i \in 1 .. k |-> "tick"]}
  BY DEF Poll
<1> DEFINE ticks == [i \in 1 .. k |-> "tick"]
<1>2. k \in Nat
  BY BoundAssumption
<1>3. ticks \in Seq(Callbacks) /\ DOMAIN ticks = 1 .. k /\ \A i \in DOMAIN ticks : ticks[i] = "tick"
  BY <1>2 DEF Callbacks
<1> HIDE DEF ticks
<1>4. ChannelCalls \in Seq(Callbacks)
  <2>1. \A b \in BOOLEAN, cb \in Callbacks : If(b, cb) \in Seq(Callbacks)
    BY EmptySeq DEF If
  <2>2. /\ "channel" \in Callbacks /\ "read" \in Callbacks /\ "write" \in Callbacks
        /\ "event" \in Callbacks /\ "close" \in Callbacks
    BY DEF Callbacks
  <2>3. Readable \in BOOLEAN /\ Writable \in BOOLEAN /\ rst \in BOOLEAN
    BY DEF Inv, TypeOK, Readable, Writable
  <2>4. If(Readable, "read") \in Seq(Callbacks) /\ If(Writable, "write") \in Seq(Callbacks)
        /\ If(rst, "close") \in Seq(Callbacks) /\ <<"event">> \in Seq(Callbacks)
        /\ <<"channel">> \in Seq(Callbacks) /\ <<>> \in Seq(Callbacks)
    BY <2>1, <2>2, <2>3, EmptySeq
  <2>5. \A s, t \in Seq(Callbacks) : s \o t \in Seq(Callbacks)
    BY ConcatProperties
  <2>6. <<"channel">> \o If(Readable, "read") \o If(Writable, "write") \in Seq(Callbacks)
    BY <2>4, <2>5
  <2>7. <<"channel">> \o If(Readable, "read") \o If(Writable, "write")
          \o <<"event">> \o If(rst, "close") \in Seq(Callbacks)
    BY <2>4, <2>5, <2>6
  <2> QED
    BY <2>4, <2>7 DEF ChannelCalls
<1>5. batch' \in Seq(Callbacks)
  <2>1. batch' = ticks \o ChannelCalls \/ batch' = ChannelCalls \o ticks
    BY <1>1 DEF ticks
  <2>2. ticks \o ChannelCalls \in Seq(Callbacks) /\ ChannelCalls \o ticks \in Seq(Callbacks)
    BY <1>3, <1>4, ConcatProperties
  <2> QED
    BY <2>1, <2>2
<1>6. ASSUME conn.statu = "CONNECTING"
      PROVE  batch' = ticks
  <2>1. ChannelCalls = <<>>
    BY <1>6 DEF ChannelCalls, ChannelReady, Inv, Sound, Registered
  <2>2. ticks \o <<>> = ticks /\ <<>> \o ticks = ticks
    BY <1>3, ConcatEmptySeq
  <2> QED
    BY <1>1, <2>1, <2>2 DEF ticks
<1> QED
  BY <1>3, <1>5, <1>6

\* The handlers of one round.
LEMMA HandlerIsSound ==
  ASSUME Inv, Handler
  PROVE  /\ conn' \in Conn /\ Sound(conn') /\ Advances(conn, conn')
         /\ batch' \in Seq(Callbacks)
         /\ conn.statu = "CONNECTING" => \A i \in DOMAIN batch' : batch'[i] = "tick"
<1>1. conn \in Conn /\ Sound(conn) /\ Advances(conn, conn)
  BY DEF Inv, TypeOK, Advances
<1>2. PICK cb \in Callbacks : Callback(cb)
  BY DEF Handler, Callbacks, HandleEvent, HandleReadIgnored, HandleReadData,
     HandleReadEnd, HandleReadAgain, HandleWriteIgnored, HandleWriteData,
     HandleWriteFails, HandleWriteAgain, HandleEventCallback, HandleHangUp, RunTimerTask
<1>3. Len(conn.calls) = 0
  BY <1>2, HandlerAlone DEF Callback
<1>4. /\ batch' \in Seq(Callbacks)
      /\ conn.statu = "CONNECTING" => \A i \in DOMAIN batch' : batch'[i] = "tick"
  BY <1>2, CallbackLeavesRest
<1>5. CASE \/ HandleEvent \/ HandleReadIgnored \/ HandleReadAgain
           \/ HandleWriteIgnored \/ HandleWriteAgain
  BY <1>1, <1>4, <1>5 DEF HandleEvent, HandleReadIgnored, HandleReadAgain,
     HandleWriteIgnored, HandleWriteAgain
<1>6. CASE HandleReadData
  <2>1. PICK n \in 1 .. rx : conn' = Call("read", [conn EXCEPT !.in = @ + n])
    BY <1>6 DEF HandleReadData
  <2> DEFINE c == [conn EXCEPT !.in = @ + n]
  <2>2. n \in Nat /\ conn.statu = "CONNECTED"
    BY <1>6 DEF HandleReadData, Reads, Inv, TypeOK
  <2>3. c \in Conn /\ c.calls = conn.calls /\ c.statu = conn.statu
    BY <1>1, <2>2 DEF Conn
  <2>4. /\ c.added = conn.added /\ c.mask = conn.mask /\ c.events = conn.events
        /\ c.out = conn.out /\ c.fd = conn.fd /\ c.removals = conn.removals
        /\ c.paused = conn.paused /\ c.inactive = conn.inactive /\ c.left = conn.left
    BY <1>1 DEF Conn
  <2>5. conn' = Call("read", c)
    BY <2>1
  <2> HIDE DEF c
  <2>6. Sound(c)
    BY <1>1, <2>2, <2>3, <2>4 DEF Sound, Nesting, Registered, Watched, Pressure, Lingering,
       Ended, Armed, Innermost, Within, Outermost
  <2>7. "read" \in Frames \ Last
    BY DEF Frames, Last
  <2>8. conn' \in Conn /\ Sound(conn')
    BY <1>3, <2>2, <2>3, <2>5, <2>6, <2>7, FirstCallIsSound
  <2>9. conn'.statu = conn.statu
    BY <1>3, <2>3, <2>5, <2>7, CallsFirst DEF SameState
  <2> QED
    BY <1>4, <2>8, <2>9 DEF Advances
<1>7. CASE HandleReadEnd
  BY <1>1, <1>4, <1>7, ShutdownIsSound, ShutdownAdvances DEF HandleReadEnd
<1>8. CASE HandleWriteData
  <2>1. PICK n \in 1 .. conn.out : conn' = ResumeRead([conn EXCEPT !.out = @ - n])
    BY <1>8 DEF HandleWriteData
  <2> DEFINE c == [conn EXCEPT !.out = @ - n]
  <2>2. conn.out - n \in Nat /\ conn.out - n < conn.out /\ conn.out \in Nat
    BY <1>1 DEF Conn
  <2>3. c \in Conn /\ c.calls = conn.calls /\ c.statu = conn.statu /\ c.out = conn.out - n
    BY <1>1, <2>2 DEF Conn
  <2>4. /\ c.added = conn.added /\ c.mask = conn.mask /\ c.events = conn.events
        /\ c.in = conn.in /\ c.fd = conn.fd /\ c.removals = conn.removals
        /\ c.paused = conn.paused /\ c.inactive = conn.inactive /\ c.left = conn.left
    BY <1>1 DEF Conn
  <2>5. conn' = ResumeRead(c)
    BY <2>1
  <2>6. conn.statu \in {"CONNECTED", "DISCONNECTING"} /\ conn.fd
    BY <1>1, <1>8 DEF HandleWriteData, Writes, Sound, Ended
  <2> HIDE DEF c
  <2>7. Writing(c)
    BY <1>1, <1>3, <2>2, <2>3, <2>4, <2>6 DEF Writing, Sound, Registered, Watched, Ended,
       Armed, Innermost, Within, Outermost
  <2>8. c.statu = "CONNECTED" =>
          ("IN" \in c.events <=> ~c.paused) /\ (~c.paused => c.out < HighWater)
    BY <1>1, <2>2, <2>3, <2>4, WaterAssumption DEF Sound, Pressure
  <2>9. conn' \in Conn /\ Sound(conn')
    BY <2>3, <2>5, <2>7, <2>8, ResumeReadIsSound
  <2>10. conn'.statu \in {conn.statu, "DISCONNECTED"}
    BY <2>3, <2>5, ResumeReadAdvances
  <2> QED
    BY <1>4, <2>9, <2>10 DEF Advances
<1>10. CASE HandleWriteFails
  <2>1. conn' = WriteFailed(conn) /\ conn.statu \in {"CONNECTED", "DISCONNECTING"}
    BY <1>10 DEF HandleWriteFails, Writes
  <2>2. conn' = HandleClose(conn) /\ conn.fd
    BY <1>1, <2>1 DEF WriteFailed, HandleClose, Sound, Ended
  <2>3. Closable(conn)
    BY <1>1 DEF Closable, Sound, Nesting
  <2>4. conn' \in Conn /\ Sound(conn')
    BY <1>1, <1>3, <2>2, <2>3, HandleCloseIsSound
  <2> QED
    BY <1>1, <1>4, <2>2, <2>4, HandleCloseAdvances DEF Advances
<1>11. CASE HandleEventCallback
  <2>1. Callback("event") /\ conn' = HandleAny(conn)
    BY <1>11 DEF HandleEventCallback
  <2>2. conn.statu # "CONNECTING"
    BY <2>1, CallbackLeavesRest
  <2> QED
    BY <1>1, <1>3, <1>4, <2>1, <2>2, HandleAnyIsSound, HandleAnyAdvances DEF Advances
<1>12. CASE HandleHangUp
  <2>1. conn' = HandleClose(conn)
    BY <1>12 DEF HandleHangUp
  <2>2. Closable(conn)
    BY <1>1 DEF Closable, Sound, Nesting
  <2>3. conn' \in Conn /\ Sound(conn')
    BY <1>1, <1>3, <2>1, <2>2, HandleCloseIsSound
  <2> QED
    BY <1>1, <1>4, <2>1, <2>3, HandleCloseAdvances DEF Advances
<1>13. CASE RunTimerTask
  BY <1>1, <1>3, <1>4, <1>13, TickIsSound, TickAdvances DEF RunTimerTask, Advances
<1> QED
  BY <1>5, <1>6, <1>7, <1>8, <1>10, <1>11, <1>12, <1>13 DEF Handler

\* The calls of users, and the returns of their callbacks.
LEMMA UserIsSound ==
  ASSUME Inv, User
  PROVE  conn' \in Conn /\ Sound(conn') /\ Advances(conn, conn')
<1>1. conn \in Conn /\ Sound(conn) /\ Advances(conn, conn)
  BY DEF Inv, TypeOK, Advances
<1>2. CASE Established
  BY <1>1, <1>2, EstablishedIsSound, EstablishedAdvances DEF Established
<1>3. CASE Send
  <2>1. PICK n \in 1 .. 2 : conn' = SendInLoop(conn, n)
    BY <1>3 DEF Send
  <2> QED
    BY <1>1, <2>1, SendIsSound, SendAdvances DEF Advances
<1>4. CASE Shutdown
  BY <1>1, <1>4, ShutdownIsSound, ShutdownAdvances DEF Shutdown
<1>5. CASE SetInactiveClose
  BY <1>1, <1>5, SetInactiveCloseIsSound, SetInactiveCloseAdvances
     DEF SetInactiveClose, Advances
<1>6. CASE Consume
  <2>1. PICK n \in 1 .. conn.in : conn' = [conn EXCEPT !.in = @ - n]
    BY <1>6 DEF Consume
  <2>2. conn.in - n \in Nat
    BY <1>1 DEF Conn
  <2>3. conn' \in Conn /\ conn'.calls = conn.calls /\ conn'.statu = conn.statu
    BY <1>1, <2>1, <2>2 DEF Conn
  <2>4. /\ conn'.added = conn.added /\ conn'.mask = conn.mask /\ conn'.events = conn.events
        /\ conn'.out = conn.out /\ conn'.fd = conn.fd /\ conn'.removals = conn.removals
        /\ conn'.paused = conn.paused /\ conn'.inactive = conn.inactive
        /\ conn'.left = conn.left
    BY <1>1, <2>1 DEF Conn
  <2>5. conn.statu # "CONNECTING"
    BY <1>6, InCallbackHasFrame DEF Consume
  <2>6. Sound(conn')
    BY <1>1, <2>3, <2>4, <2>5 DEF Sound, Nesting, Registered, Watched, Pressure, Lingering,
       Ended, Armed, Innermost, Within, Outermost
  <2> QED
    BY <2>3, <2>6 DEF Advances
<1>7. CASE Return
  <2> DEFINE d == [conn EXCEPT !.calls = Tail(@)]
             f == conn.calls[1]
  <2>1. Len(conn.calls) > 0 /\ Head(conn.calls) = f /\ f \in Frames
    BY <1>7, InCallbackHasFrame DEF Return
  <2>2. conn' = Continue(f, d)
    BY <1>7, <2>1 DEF Return
  <2>3. d \in Conn /\ d.statu = conn.statu
    <3>1. conn.calls \in Seq(Frames) /\ conn.calls # <<>>
      BY <1>1, <1>7 DEF Return, InCallback, Conn
    <3>2. Tail(conn.calls) \in Seq(Frames)
      BY <3>1, PopFrame
    <3> QED
      BY <1>1, <3>2 DEF Conn
  <2>4. conn' \in Conn /\ Sound(conn')
    BY <1>1, <2>1, <2>2, ContinueIsSound
  <2>5. conn'.statu \in {conn.statu, "DISCONNECTED"}
    BY <2>1, <2>2, <2>3, ContinueAdvances
  <2> QED
    BY <2>4, <2>5 DEF Advances
<1> QED
  BY <1>2, <1>3, <1>4, <1>5, <1>6, <1>7 DEF User

\* Every step of the specification, as one fact about the connection.
LEMMA StepIsSound ==
  ASSUME Inv, [Next]_vars
  PROVE  conn' \in Conn /\ Sound(conn') /\ Advances(conn, conn')
<1>1. conn \in Conn /\ Sound(conn) /\ Advances(conn, conn)
  BY DEF Inv, TypeOK, Advances
<1>2. CASE Poll \/ Peer \/ UNCHANGED vars
  BY <1>1, <1>2 DEF Poll, Peer, PeerSends, PeerShutsDown, PeerResets, PeerReads, vars
<1> QED
  BY <1>2, HandlerIsSound, UserIsSound DEF Next

\* The loop's round and the peer's side keep their types, and nothing but
\* seconds is reported before the connection is established.
TypedStep ==
  /\ batch' \in Seq(Callbacks) /\ rx' \in Nat
  /\ fin' \in BOOLEAN /\ rst' \in BOOLEAN /\ room' \in BOOLEAN
  /\ conn.statu = "CONNECTING" => \A i \in DOMAIN batch' : batch'[i] = "tick"

LEMMA StepIsTyped ==
  ASSUME Inv, [Next]_vars
  PROVE  TypedStep
<1>1. /\ batch \in Seq(Callbacks) /\ rx \in Nat
      /\ fin \in BOOLEAN /\ rst \in BOOLEAN /\ room \in BOOLEAN
      /\ conn.statu = "CONNECTING" => \A i \in DOMAIN batch : batch[i] = "tick"
  BY DEF Inv, TypeOK, Reported
<1>2. CASE Poll
  BY <1>1, <1>2, PollReports DEF Poll, TypedStep
<1>3. CASE Handler
  <2>1. /\ rx' \in Nat /\ fin' \in BOOLEAN /\ rst' \in BOOLEAN /\ room' \in BOOLEAN
    <3>1. CASE HandleReadData
      <4>1. PICK n \in 1 .. rx : rx' = rx - n
        BY <3>1 DEF HandleReadData
      <4>2. rx' \in Nat
        BY <1>1, <4>1
      <4> QED
        BY <1>1, <3>1, <4>2 DEF HandleReadData
    <3>2. CASE HandleWriteData
      BY <1>1, <3>2 DEF HandleWriteData
    <3>3. CASE ~HandleReadData /\ ~HandleWriteData
      <4>1. UNCHANGED <<rx, fin, rst, room>>
        BY <1>3, <3>3 DEF Handler, HandleEvent, HandleReadIgnored, HandleReadEnd,
           HandleReadAgain, HandleWriteIgnored, HandleWriteFails, HandleWriteAgain,
           HandleEventCallback, HandleHangUp, RunTimerTask
      <4> QED
        BY <1>1, <4>1
    <3> QED
      BY <3>1, <3>2, <3>3
  <2> QED
    BY <1>3, <2>1, HandlerIsSound DEF TypedStep
<1>4. CASE User
  <2>1. UNCHANGED <<batch, rx, fin, rst, room>>
    BY <1>4 DEF User, Established, Send, Shutdown, SetInactiveClose, Consume, Return
  <2> QED
    BY <1>1, <2>1 DEF TypedStep
<1>5. CASE Peer
  <2>1. batch' = batch /\ rx' \in {rx, rx + 1}
    BY <1>5 DEF Peer, PeerSends, PeerShutsDown, PeerResets, PeerReads
  <2>2. fin' \in {fin, TRUE} /\ rst' \in {rst, TRUE} /\ room' \in {room, TRUE}
    BY <1>5 DEF Peer, PeerSends, PeerShutsDown, PeerResets, PeerReads
  <2>3. rx' \in Nat
    BY <1>1, <2>1
  <2> QED
    BY <1>1, <2>1, <2>2, <2>3 DEF TypedStep
<1>6. CASE UNCHANGED vars
  <2>1. UNCHANGED <<batch, rx, fin, rst, room>>
    BY <1>6 DEF vars
  <2> QED
    BY <1>1, <2>1 DEF TypedStep
<1>7. Poll \/ Handler \/ User \/ Peer \/ UNCHANGED vars
  BY DEF Next
<1> QED
  BY <1>2, <1>3, <1>4, <1>5, <1>6, <1>7

LEMMA Initially == Init => Inv
<1> SUFFICES ASSUME Init
             PROVE  Inv
  OBVIOUS
<1>1. conn = Fresh /\ batch = <<>> /\ rx = 0 /\ ~fin /\ ~rst /\ room
      /\ fin \in BOOLEAN /\ rst \in BOOLEAN /\ room \in BOOLEAN
  BY DEF Init
<1>2. batch \in Seq(Callbacks) /\ DOMAIN batch = {}
  BY <1>1, EmptySeq
<1>3. conn \in Conn /\ Sound(conn)
  BY <1>1, FreshIsSound
<1> QED
  BY <1>1, <1>2, <1>3 DEF Inv, TypeOK, Reported

LEMMA Inductively == Inv /\ [Next]_vars => Inv'
<1> SUFFICES ASSUME Inv, [Next]_vars
             PROVE  Inv'
  OBVIOUS
<1>1. conn' \in Conn /\ Sound(conn') /\ Advances(conn, conn')
  BY StepIsSound
<1>2. TypeOK'
  BY <1>1, StepIsTyped DEF TypeOK, TypedStep
<1>3. Sound(conn)'
  BY <1>1 DEF Sound, Nesting, Nested, Registered, Watched, Pressure, Lingering, Ended,
     Armed, Within, Innermost, Outermost
<1>4. Reported'
  <2>1. conn'.statu = "CONNECTING" => conn.statu = "CONNECTING"
    BY <1>1 DEF Advances
  <2> QED
    BY <2>1, StepIsTyped DEF Reported, TypedStep
<1> QED
  BY <1>2, <1>3, <1>4 DEF Inv

\* Every state the connection gets into is sound.
THEOREM Invariance == Spec => []Inv
  BY Initially, Inductively, PTL DEF Spec

\* The variables keep their types for any water marks, timeout and bounds.
THEOREM TypeCorrect == Spec => []TypeOK
<1>1. Inv => TypeOK
  BY DEF Inv
<1> QED
  BY <1>1, Invariance, PTL

LEMMA IdleHasNoFrame ==
  ASSUME Inv, Idle
  PROVE  Len(conn.calls) = 0 /\ \A f : ~Within(conn, f) /\ ~Innermost(conn, f)
<1>1. Len(conn.calls) = 0
  BY HandlerAlone DEF Idle
<1> QED
  BY <1>1 DEF Within, Innermost

\* Waiting output is always watched for, and between rounds only that.
THEOREM OutputWatching == Spec => []OutputIsWatched
<1>1. ASSUME Inv PROVE OutputIsWatched
  <2> SUFFICES ASSUME conn.statu # "DISCONNECTED"
               PROVE  /\ conn.out > 0 => "OUT" \in conn.mask
                      /\ Idle => ("OUT" \in conn.mask <=> conn.out > 0)
    BY DEF OutputIsWatched
  <2>1. conn.fd
    BY <1>1 DEF Inv, Sound, Ended
  <2>2. conn.out > 0 => "OUT" \in conn.mask
    <3>1. conn.statu \in Statu
      BY <1>1 DEF Inv, TypeOK, Conn
    <3>2. conn.out > 0 => conn.added
      BY <1>1, <3>1 DEF Inv, Sound, Registered, Statu
    <3> QED
      BY <1>1, <2>1, <3>2 DEF Inv, Sound, Watched, Registered
  <2>3. "OUT" \in conn.mask => "OUT" \in conn.events
    BY <1>1 DEF Inv, Sound, Registered
  <2>4. Idle => ("OUT" \in conn.mask => conn.out > 0)
    BY <1>1, <2>1, <2>3, IdleHasNoFrame DEF Inv, Sound, Watched
  <2> QED
    BY <2>2, <2>4
<1> QED
  BY <1>1, Invariance, PTL

\* Between rounds reading is paused exactly when output makes it necessary.
THEOREM Pausing == Spec => []BackPressure
<1>1. ASSUME Inv PROVE BackPressure
  <2> SUFFICES ASSUME Idle, conn.statu = "CONNECTED"
               PROVE  /\ "IN" \in conn.mask <=> ~conn.paused
                      /\ conn.paused => conn.out > LowWater /\ "OUT" \in conn.mask
                      /\ ~conn.paused => conn.out < HighWater
    BY DEF BackPressure
  <2>1. conn.added /\ conn.mask = conn.events /\ conn.fd
    BY <1>1 DEF Inv, Sound, Registered, Ended
  <2>2. conn.out > LowWater => conn.out > 0
    BY <1>1, WaterAssumption DEF Inv, TypeOK, Conn
  <2> QED
    BY <1>1, <2>1, <2>2 DEF Inv, Sound, Pressure, Watched
<1> QED
  BY <1>1, Invariance, PTL

\* A connection that waits in DISCONNECTING has output to wait for.
THEOREM Closing == Spec => []ClosingHasOutput
<1>1. ASSUME Inv PROVE ClosingHasOutput
  BY <1>1, IdleHasNoFrame DEF ClosingHasOutput, Inv, Sound, Lingering
<1> QED
  BY <1>1, Invariance, PTL

\* Channel, timer and fd go together, and the server hears of it once.
THEOREM Releasing == Spec => []ReleasedOnce
<1>1. ASSUME Inv PROVE ReleasedOnce
  <2>1. Ended(conn) /\ conn.fd \in BOOLEAN
    BY <1>1 DEF Inv, Sound, TypeOK, Conn
  <2>2. Idle => ~Innermost(conn, "close")
    BY <1>1, IdleHasNoFrame
  <2> QED
    BY <2>1, <2>2 DEF ReleasedOnce, Ended
<1> QED
  BY <1>1, Invariance, PTL

\* The idle timer runs exactly while idle closing is on.
THEOREM Timing == Spec => []TimerMatchesSetting
<1>1. ASSUME Inv PROVE TimerMatchesSetting
  BY <1>1, IdleHasNoFrame DEF TimerMatchesSetting, Inv, Sound, Armed
<1> QED
  BY <1>1, Invariance, PTL

\* No step takes the status back.
THEOREM Forward == Spec => StatuGoesForward
<1>1. ASSUME Inv, [Next]_vars
      PROVE  Rank[conn.statu] <= Rank[conn'.statu]
  <2>1. Advances(conn, conn') /\ conn.statu \in Statu /\ conn'.statu \in Statu
    BY <1>1, StepIsSound DEF Inv, TypeOK, Conn
  <2> QED
    BY <2>1 DEF Advances, Statu, Rank
<1> QED
  BY <1>1, Invariance, PTL DEF Spec, StatuGoesForward

-----------------------------------------------------------------------------
(* Output that is dropped *)

\* The last byte has gone, or the fd stays open and no end is decided on.
Drains(c, d) ==
  d.out = 0 \/ (d.fd = c.fd /\ (d.calls = c.calls \/ ~GivesUp(d.calls)))

LEMMA DrainsItself == \A c : Drains(c, c)
  BY DEF Drains

LEMMA ReleaseDrains == \A c \in Conn : c.out = 0 => Drains(c, Release(c))
  BY DEF Release, Call, Unregister, Drains, Conn

\* Any other callback is not one that gives up.
LEMMA CallDrains ==
  ASSUME NEW c \in Conn, NEW f \in Frames \ {"release"}
  PROVE  Drains(c, Call(f, c)) /\ ~GivesUp(Call(f, c).calls) /\ Call(f, c).fd = c.fd
<1>1. c.calls \in Seq(Frames)
  BY DEF Conn
<1>2. Call(f, c).calls = <<f>> \o c.calls /\ Call(f, c).fd = c.fd
  BY DEF Call, Conn
<1>3. Head(<<f>> \o c.calls) = f
  BY <1>1
<1> QED
  BY <1>2, <1>3 DEF Drains, GivesUp

LEMMA AfterShutdownDrains == \A c \in Conn : Drains(c, AfterShutdown(c))
<1>1. \A c \in Conn : Drains(c, Update(EnableWrite(c)))
  BY DEF Update, EnableWrite, Drains, Conn
<1> QED
  BY <1>1, ReleaseDrains DEF AfterShutdown

LEMMA ShutdownDrains == \A c \in Conn : Drains(c, ShutdownInLoop(c))
<1> SUFFICES ASSUME NEW c \in Conn
             PROVE  Drains(c, ShutdownInLoop(c))
  OBVIOUS
<1> DEFINE d == Update(DisableRead([c EXCEPT !.statu = "DISCONNECTING"]))
<1>1. d \in Conn /\ d.fd = c.fd /\ d.calls = c.calls
  <2>1. "DISCONNECTING" \in Statu /\ c.events \ {"IN"} \in SUBSET Events
    BY DEF Statu, Conn
  <2> QED
    BY <2>1 DEF Update, DisableRead, Conn
<1>2. ShutdownInLoop(c) =
        IF c.statu \in {"DISCONNECTING", "DISCONNECTED"} THEN c
        ELSE IF d.in > 0 THEN Call("shutdown", d) ELSE AfterShutdown(d)
  BY DEF ShutdownInLoop
<1> HIDE DEF d
<1>3. Drains(d, Call("shutdown", d)) /\ Drains(d, AfterShutdown(d))
  BY <1>1, CallDrains, AfterShutdownDrains DEF Frames
<1> QED
  BY <1>1, <1>2, <1>3, DrainsItself DEF Drains

LEMMA AfterWriteDrains == \A c \in Conn : Drains(c, AfterWrite(c))
<1> SUFFICES ASSUME NEW c \in Conn
             PROVE  Drains(c, AfterWrite(c))
  OBVIOUS
<1> DEFINE d == Update(DisableWrite(c))
<1>1. d \in Conn /\ d.fd = c.fd /\ d.calls = c.calls /\ d.out = c.out
  BY DEF Update, DisableWrite, Conn
<1>2. AfterWrite(c) = IF c.out > 0 THEN c
                      ELSE IF d.statu = "DISCONNECTING" THEN Release(d) ELSE d
  BY DEF AfterWrite
<1> HIDE DEF d
<1>3. c.out \in Nat
  BY DEF Conn
<1>4. c.out = 0 => Drains(d, Release(d))
  BY <1>1, ReleaseDrains
<1> QED
  BY <1>1, <1>2, <1>3, <1>4, DrainsItself DEF Drains

LEMMA ResumeReadDrains == \A c \in Conn : Drains(c, ResumeRead(c))
<1> SUFFICES ASSUME NEW c \in Conn
             PROVE  Drains(c, ResumeRead(c))
  OBVIOUS
<1> DEFINE d == Update(EnableRead([c EXCEPT !.paused = FALSE]))
<1>1. d \in Conn /\ d.fd = c.fd /\ d.calls = c.calls
  <2>1. c.events \cup {"IN"} \in SUBSET Events
    BY DEF Conn, Events
  <2> QED
    BY <2>1 DEF Update, EnableRead, Conn
<1>2. ResumeRead(c) = IF ~Resumes(c) THEN AfterWrite(c)
                      ELSE IF d.in > 0 THEN Call("resume", d) ELSE AfterWrite(d)
  BY DEF ResumeRead
<1> HIDE DEF d
<1>3. Drains(d, Call("resume", d)) /\ Drains(d, AfterWrite(d)) /\ Drains(c, AfterWrite(c))
  BY <1>1, CallDrains, AfterWriteDrains DEF Frames
<1> QED
  BY <1>1, <1>2, <1>3 DEF Drains

\* A hang-up is reported only after a reset.
HangUps == \A i \in DOMAIN batch : batch[i] = "close" => rst

LEMMA HangUpsStep ==
  ASSUME Inv, HangUps, [Next]_vars
  PROVE  HangUps'
<1>1. batch \in Seq(Callbacks) /\ rst \in BOOLEAN
  BY DEF Inv, TypeOK
<1>2. CASE Poll
  <2>1. PICK k \in 0 .. MaxTicks :
          batch' \in {[i \in 1 .. k |-> "tick"] \o ChannelCalls,
                      ChannelCalls \o [i \in 1 .. k |-> "tick"]}
    BY <1>2 DEF Poll
  <2> DEFINE ticks == [i \in 1 .. k |-> "tick"]
             Calm == Callbacks \ {"close"}
  <2>2. ticks \in Seq(Calm)
    <3>1. k \in Nat /\ "tick" \in Calm
      BY BoundAssumption DEF Callbacks
    <3> QED
      BY <3>1
  <2>3. rst' = rst
    BY <1>2 DEF Poll
  <2>4. CASE rst
    BY <2>3, <2>4 DEF HangUps
  <2>5. CASE ~rst
    <3> HIDE DEF ticks, Calm
    <3>1. If(rst, "close") = <<>>
      BY <2>5 DEF If
    <3>2. \A b \in BOOLEAN, cb \in Calm : If(b, cb) \in Seq(Calm)
      BY EmptySeq DEF If
    <3>3. "channel" \in Calm /\ "read" \in Calm /\ "write" \in Calm /\ "event" \in Calm
      BY DEF Calm, Callbacks
    <3>4. Readable \in BOOLEAN /\ Writable \in BOOLEAN
      BY <1>1 DEF Inv, TypeOK, Readable, Writable
    <3>5. If(Readable, "read") \in Seq(Calm) /\ If(Writable, "write") \in Seq(Calm)
          /\ <<"channel">> \in Seq(Calm) /\ <<"event">> \in Seq(Calm) /\ <<>> \in Seq(Calm)
      BY <3>2, <3>3, <3>4, EmptySeq
    <3>6. \A s, t \in Seq(Calm) : s \o t \in Seq(Calm)
      BY ConcatProperties
    <3>7. <<"channel">> \o If(Readable, "read") \o If(Writable, "write") \in Seq(Calm)
      BY <3>5, <3>6
    <3>8. ChannelCalls \in Seq(Calm)
      BY <3>1, <3>5, <3>6, <3>7 DEF ChannelCalls
    <3>9. batch' \in Seq(Calm)
      BY <2>1, <2>2, <3>6, <3>8 DEF ticks
    <3>10. \A i \in DOMAIN batch' : batch'[i] \in Calm
      BY <3>9
    <3> QED
      BY <3>10 DEF HangUps, Calm
  <2> QED
    BY <2>4, <2>5
<1>3. CASE Handler
  <2>1. batch # <<>> /\ batch' = Tail(batch) /\ rst' = rst
    BY <1>3 DEF Handler, Callback, HandleEvent, HandleReadIgnored, HandleReadData,
       HandleReadEnd, HandleReadAgain, HandleWriteIgnored, HandleWriteData, HandleWriteFails,
       HandleWriteAgain, HandleEventCallback, HandleHangUp, RunTimerTask
  <2>2. \A i \in DOMAIN Tail(batch) : \E j \in DOMAIN batch : Tail(batch)[i] = batch[j]
    <3> DEFINE s == Tail(batch)
               n == Len(batch)
    <3>1. DOMAIN batch = 1 .. n /\ n \in Nat \ {0}
      BY <1>1, <2>1, EmptySeq
    <3>2. Len(s) = n - 1 /\ DOMAIN s = 1 .. Len(s) /\ \A i \in 1 .. Len(s) : s[i] = batch[i + 1]
      BY <1>1, <2>1, HeadTailProperties
    <3> HIDE DEF s, n
    <3>3. \A i \in 1 .. n - 1 : i + 1 \in 1 .. n
      BY <3>1
    <3> QED
      BY <3>1, <3>2, <3>3 DEF s
  <2> QED
    BY <2>1, <2>2 DEF HangUps
<1>4. CASE User \/ Peer \/ UNCHANGED vars
  <2>1. batch' = batch /\ (rst => rst')
    BY <1>4 DEF User, Established, Send, Shutdown, SetInactiveClose, Consume, Return, Peer,
       PeerSends, PeerShutsDown, PeerResets, PeerReads, vars
  <2> QED
    BY <2>1 DEF HangUps
<1> QED
  BY <1>2, <1>3, <1>4 DEF Next

\* What DropsNoOutput calls an end: the fd closed, or decided to be.
Ends ==
  \/ conn.fd /\ ~conn'.fd /\ ~GivesUp(conn.calls)
  \/ GivesUp(conn'.calls) /\ Len(conn'.calls) > Len(conn.calls)

LEMMA DrainsFirst ==
  ASSUME Inv, conn' \in Conn, Drains(conn, conn'), Ends
  PROVE  conn'.out = 0
<1> DEFINE m == Len(conn.calls)
<1>1. m \in Nat
  BY DEF Inv, TypeOK, Conn
<1>2. conn'.calls = conn.calls => ~(Len(conn'.calls) > Len(conn.calls))
  <2>1. ~(m > m)
    <3> HIDE DEF m
    <3> QED
      BY <1>1
  <2> QED
    BY <2>1
<1> HIDE DEF m
<1> QED
  BY <1>2 DEF Drains, Ends

\* A callback that returns ends what has been decided, or nothing.
LEMMA ReturnDrains ==
  ASSUME Inv, Return, conn' \in Conn, Ends
  PROVE  conn'.out = 0
<1> DEFINE d == [conn EXCEPT !.calls = Tail(@)]
           f == conn.calls[1]
           m == Len(conn.calls)
<1>1. m > 0 /\ m \in Nat /\ Head(conn.calls) = f /\ f \in Frames /\ conn \in Conn
  BY InCallbackHasFrame DEF Return, Inv, TypeOK, Conn
<1>2. conn' = Continue(f, d)
  BY <1>1 DEF Return
<1>3. conn.calls \in Seq(Frames) /\ conn.calls # <<>>
  BY <1>1 DEF Return, InCallback, Conn
<1>4. Tail(conn.calls) \in Seq(Frames) /\ Len(Tail(conn.calls)) = m - 1
  BY <1>3, PopFrame
<1>5. d \in Conn /\ d.calls = Tail(conn.calls) /\ d.fd = conn.fd
  BY <1>1, <1>4 DEF Conn
<1>6. GivesUp(conn.calls) <=> f = "release"
  BY <1>1, <1>3 DEF GivesUp
<1> HIDE DEF d, f, m
<1>7. \A c : c.calls = d.calls => ~(Len(c.calls) > Len(conn.calls))
  <2>1. ~(m - 1 > m)
    BY <1>1
  <2> QED
    BY <1>4, <1>5, <2>1 DEF m
<1>8. CASE f = "release"
  <2>1. conn' = Release(d)
    BY <1>2, <1>8 DEF Continue
  <2>2. conn'.calls = d.calls \/ ~GivesUp(conn'.calls)
    <3> DEFINE e == Unregister([d EXCEPT !.statu = "DISCONNECTED", !.paused = FALSE,
                                         !.left = 0, !.fd = FALSE])
    <3>1. e \in Conn
      <4>1. "DISCONNECTED" \in Statu /\ 0 \in 0 .. Timeout
        BY TimeoutAssumption DEF Statu
      <4> QED
        BY <1>5, <4>1 DEF Unregister, Conn
    <3>2. Release(d) = IF d.statu = "DISCONNECTED" THEN d ELSE Call("close", e)
      BY DEF Release
    <3> HIDE DEF e
    <3>3. ~GivesUp(Call("close", e).calls)
      BY <3>1, CallDrains DEF Frames
    <3> QED
      BY <2>1, <3>2, <3>3
  <2> QED
    BY <1>6, <1>7, <1>8, <2>2 DEF Ends
<1>9. CASE f # "release"
  <2>1. Drains(d, conn')
    <3>1. Drains(d, AfterShutdown(d)) /\ Drains(d, AfterWrite(d)) /\ Drains(d, d)
      BY <1>5, AfterShutdownDrains, AfterWriteDrains, DrainsItself
    <3>2. Drains(d, AfterClose(d))
      BY <1>5 DEF AfterClose, Drains, Conn
    <3> QED
      BY <1>2, <1>9, <3>1, <3>2 DEF Continue, AfterResume
  <2> QED
    BY <1>5, <1>7, <2>1 DEF Ends, Drains
<1> QED
  BY <1>8, <1>9

LEMMA HandlerDrains ==
  ASSUME Inv, HangUps, Handler, conn' \in Conn, Ends
  PROVE  conn'.out = 0 \/ rst \/ TimesOut
<1>1. conn \in Conn /\ Drains(conn, conn)
  BY DrainsItself DEF Inv, TypeOK
<1>3. CASE \/ HandleEvent \/ HandleReadIgnored \/ HandleReadAgain
           \/ HandleWriteIgnored \/ HandleWriteAgain
  BY <1>1, <1>3, DrainsFirst DEF HandleEvent, HandleReadIgnored, HandleReadAgain,
     HandleWriteIgnored, HandleWriteAgain
<1>4. CASE HandleReadData
  <2>1. PICK n \in 1 .. rx : conn' = Call("read", [conn EXCEPT !.in = @ + n])
    BY <1>4 DEF HandleReadData
  <2> DEFINE c == [conn EXCEPT !.in = @ + n]
  <2>2. c \in Conn /\ c.fd = conn.fd
    <3>1. conn.in + n \in Nat
      BY <1>1 DEF Inv, TypeOK, Conn
    <3> QED
      BY <1>1, <3>1 DEF Conn
  <2> HIDE DEF c
  <2>3. ~GivesUp(conn'.calls) /\ conn'.fd = conn.fd
    BY <2>1, <2>2, CallDrains DEF Frames, c
  <2> QED
    BY <2>3, DrainsFirst DEF Drains
<1>5. CASE HandleReadEnd
  BY <1>1, <1>5, ShutdownDrains, DrainsFirst DEF HandleReadEnd
<1>6. CASE HandleWriteData
  <2>1. PICK n \in 1 .. conn.out : conn' = ResumeRead([conn EXCEPT !.out = @ - n])
    BY <1>6 DEF HandleWriteData
  <2> DEFINE c == [conn EXCEPT !.out = @ - n]
  <2>2. c \in Conn /\ c.fd = conn.fd /\ c.calls = conn.calls
    <3>1. conn.out - n \in Nat
      BY <1>1 DEF Conn
    <3> QED
      BY <1>1, <3>1 DEF Conn
  <2> HIDE DEF c
  <2>3. Drains(c, conn')
    BY <2>1, <2>2, ResumeReadDrains DEF c
  <2> QED
    BY <2>2, <2>3, DrainsFirst DEF Drains
<1>7. CASE HandleWriteFails
  BY <1>7 DEF HandleWriteFails
<1>8. CASE HandleEventCallback
  <2> DEFINE c == IF conn.inactive THEN RefreshTask(conn) ELSE conn
  <2>1. c \in Conn /\ c.fd = conn.fd /\ c.calls = conn.calls
    <3>1. (IF conn.left > 0 THEN Timeout ELSE 0) \in 0 .. Timeout
      BY TimeoutAssumption
    <3>2. RefreshTask(conn) \in Conn
      BY <1>1, <3>1 DEF RefreshTask, Conn
    <3>3. RefreshTask(conn).fd = conn.fd /\ RefreshTask(conn).calls = conn.calls
      BY <1>1 DEF RefreshTask, Conn
    <3> QED
      BY <1>1, <3>2, <3>3
  <2>2. conn' = conn \/ conn' = Call("any", c)
    BY <1>8 DEF HandleEventCallback, HandleAny
  <2> HIDE DEF c
  <2>3. Drains(c, Call("any", c))
    BY <2>1, CallDrains DEF Frames
  <2> QED
    BY <1>1, <2>1, <2>2, <2>3, DrainsFirst DEF Drains
<1>9. CASE HandleHangUp
  <2>1. batch \in Seq(Callbacks) /\ batch # <<>> /\ Head(batch) = "close"
    BY <1>9 DEF HandleHangUp, Callback, Inv, TypeOK
  <2>2. 1 \in DOMAIN batch /\ batch[1] = "close"
    BY <2>1
  <2> QED
    BY <2>2 DEF HangUps
<1>10. CASE RunTimerTask
  <2>1. CASE conn.left = 1
    BY <1>10, <2>1 DEF TimesOut
  <2>2. CASE conn.left # 1
    <3>1. conn'.fd = conn.fd /\ conn'.calls = conn.calls
      BY <1>1, <1>10, <2>2 DEF RunTimerTask, Tick, Conn
    <3> QED
      BY <3>1, DrainsFirst DEF Drains
  <2> QED
    BY <2>1, <2>2
<1> QED
  BY <1>3, <1>4, <1>5, <1>6, <1>7, <1>8, <1>9, <1>10 DEF Handler

LEMMA UserDrains ==
  ASSUME Inv, User, conn' \in Conn, Ends
  PROVE  conn'.out = 0
<1>1. conn \in Conn
  BY DEF Inv, TypeOK
<1>2. CASE Established
  <2> DEFINE c == Update(EnableRead([conn EXCEPT !.statu = "CONNECTED"]))
  <2>1. c \in Conn /\ c.fd = conn.fd /\ c.calls = conn.calls
    <3>1. "CONNECTED" \in Statu /\ conn.events \cup {"IN"} \in SUBSET Events
      BY <1>1 DEF Statu, Events, Conn
    <3> QED
      BY <1>1, <3>1 DEF Update, EnableRead, Conn
  <2>2. conn' = conn \/ conn' = Call("connected", c)
    BY <1>2 DEF Established, EstablishedInLoop
  <2> HIDE DEF c
  <2>3. Drains(c, Call("connected", c)) /\ Drains(conn, conn)
    BY <2>1, CallDrains, DrainsItself DEF Frames
  <2> QED
    BY <2>1, <2>2, <2>3, DrainsFirst DEF Drains
<1>3. CASE Send
  <2>1. PICK n \in 1 .. 2 : conn' = SendInLoop(conn, n)
    BY <1>3 DEF Send
  <2>2. conn'.fd = conn.fd /\ conn'.calls = conn.calls
    BY <1>1, <2>1 DEF SendInLoop, Update, EnableWrite, DisableRead, Conn
  <2> QED
    BY <2>2, DrainsFirst DEF Drains
<1>4. CASE Shutdown
  BY <1>1, <1>4, ShutdownDrains, DrainsFirst DEF Shutdown
<1>5. CASE SetInactiveClose
  <2>1. conn'.fd = conn.fd /\ conn'.calls = conn.calls
    BY <1>1, <1>5 DEF SetInactiveClose, SetInactiveCloseInLoop, Conn
  <2> QED
    BY <2>1, DrainsFirst DEF Drains
<1>6. CASE Consume
  <2>1. conn'.fd = conn.fd /\ conn'.calls = conn.calls
    BY <1>1, <1>6 DEF Consume, Conn
  <2> QED
    BY <2>1, DrainsFirst DEF Drains
<1>7. CASE Return
  BY <1>7, ReturnDrains
<1> QED
  BY <1>2, <1>3, <1>4, <1>5, <1>6, <1>7 DEF User

\* Whoever ends a connection, and in whatever callback: its output has gone,
\* its peer has reset it, or the step is the tick in which its idle timer runs
\* out.
THEOREM Draining == Spec => DropsNoOutput
<1>1. ASSUME Init
      PROVE  HangUps
  BY <1>1, EmptySeq DEF Init, HangUps
<1>2. Inv /\ HangUps /\ [Next]_vars => HangUps'
  BY HangUpsStep
<1>3. ASSUME Inv, HangUps, [Next]_vars, Ends
      PROVE  conn'.out = 0 \/ rst \/ TimesOut
  <2>1. conn' \in Conn
    BY <1>3, StepIsSound
  <2>2. CASE Poll \/ Peer \/ UNCHANGED vars
    <3>1. conn' = conn
      BY <2>2 DEF Poll, Peer, PeerSends, PeerShutsDown, PeerResets, PeerReads, vars
    <3> QED
      BY <1>3, <2>1, <3>1, DrainsItself, DrainsFirst
  <2> QED
    BY <1>3, <2>1, <2>2, HandlerDrains, UserDrains DEF Next
<1>4. Inv /\ HangUps /\ [Next]_vars =>
        [(conn.fd /\ ~conn'.fd /\ ~GivesUp(conn.calls)) \/
         (GivesUp(conn'.calls) /\ Len(conn'.calls) > Len(conn.calls))
           => conn'.out = 0 \/ rst \/ TimesOut]_vars
  BY <1>3 DEF Ends
<1> QED
  BY <1>1, <1>2, <1>4, Invariance, PTL DEF Spec, DropsNoOutput

-----------------------------------------------------------------------------
(* HttpServer: the inductive invariant *)

HttpTyped == stream \in Seq(Units) /\ done \in Nat /\ answers \in Seq(Nat)

\* The stream is what was taken, what is buffered and what the kernel holds.
Conserved == done + conn.in + rx = Len(stream)

\* The connection is shut down with the answer that closes it.
ClosedAfter ==
  \A i \in 1 .. Len(answers) :
    stream[answers[i]] # "keep" => conn.statu \in {"DISCONNECTING", "DISCONNECTED"}

\* While the connection reads, a complete request in the buffer is one that an
\* OnMessage still running will come to.
AllTaken == Reads /\ HasRequest => InMessage

HttpInv ==
  /\ Inv
  /\ HttpTyped
  /\ Conserved
  /\ OneAnswerEach
  /\ ClosedAfter
  /\ AllTaken
  /\ OutputBounded

-----------------------------------------------------------------------------
(* What the methods do to the buffers *)

Reading(c) == c.statu = "CONNECTED" /\ ~c.paused

\* The buffers stay, and reading is not taken up.
Quiet(c, d) == d.in = c.in /\ d.out = c.out /\ (Reading(d) => Reading(c))

LEMMA ReleaseIsQuiet == \A c \in Conn : Quiet(c, Release(c))
  BY DEF Release, Call, Unregister, Quiet, Reading, Conn

LEMMA CallIsQuiet == \A c \in Conn, f \in Frames : Quiet(c, Call(f, c))
  BY DEF Call, Quiet, Reading, Conn

LEMMA AfterShutdownIsQuiet == \A c \in Conn : Quiet(c, AfterShutdown(c))
<1> SUFFICES ASSUME NEW c \in Conn
             PROVE  Quiet(c, AfterShutdown(c))
  OBVIOUS
<1>1. Quiet(c, Update(EnableWrite(c)))
  BY DEF Update, EnableWrite, Quiet, Reading, Conn
<1> QED
  BY <1>1, ReleaseIsQuiet DEF AfterShutdown

LEMMA ShutdownIsQuiet ==
  \A c \in Conn : Quiet(c, ShutdownInLoop(c)) /\ ShutdownInLoop(c).statu # "CONNECTED"
<1> SUFFICES ASSUME NEW c \in Conn
             PROVE  Quiet(c, ShutdownInLoop(c)) /\ ShutdownInLoop(c).statu # "CONNECTED"
  OBVIOUS
<1> DEFINE d == Update(DisableRead([c EXCEPT !.statu = "DISCONNECTING"]))
<1>1. d \in Conn
  <2>1. "DISCONNECTING" \in Statu /\ c.events \ {"IN"} \in SUBSET Events
    BY DEF Statu, Conn
  <2> QED
    BY <2>1 DEF Update, DisableRead, Conn
<1>2. d.in = c.in /\ d.out = c.out /\ d.statu = "DISCONNECTING"
  BY DEF Update, DisableRead, Conn
<1>3. ShutdownInLoop(c) =
        IF c.statu \in {"DISCONNECTING", "DISCONNECTED"} THEN c
        ELSE IF d.in > 0 THEN Call("shutdown", d) ELSE AfterShutdown(d)
  BY DEF ShutdownInLoop
<1> HIDE DEF d
<1>4. Quiet(d, Call("shutdown", d)) /\ Call("shutdown", d).statu = "DISCONNECTING"
  BY <1>1, <1>2, CallIsQuiet DEF Call, Frames, Conn
<1>5. Quiet(d, AfterShutdown(d)) /\ AfterShutdown(d).statu \in {"DISCONNECTING", "DISCONNECTED"}
  BY <1>1, <1>2, AfterShutdownIsQuiet, AfterShutdownAdvances
<1>6. c.statu \in {"DISCONNECTING", "DISCONNECTED"} => Quiet(c, c) /\ c.statu # "CONNECTED"
  BY DEF Quiet
<1> QED
  BY <1>2, <1>3, <1>4, <1>5, <1>6 DEF Quiet, Reading

LEMMA SetInactiveCloseIsQuiet ==
  \A c \in Conn, enable \in BOOLEAN : Quiet(c, SetInactiveCloseInLoop(c, enable))
  BY DEF SetInactiveCloseInLoop, Quiet, Reading, Conn

LEMMA HandleCloseIsQuiet == \A c \in Conn : Quiet(c, HandleClose(c))
<1>1. \A c \in Conn : Quiet(c, c)
  BY DEF Quiet
<1> QED
  BY <1>1, CallIsQuiet, ReleaseIsQuiet DEF HandleClose, Frames

LEMMA HandleAnyIsQuiet == \A c \in Conn : Quiet(c, HandleAny(c))
  BY DEF HandleAny, RefreshTask, Call, Quiet, Reading, Conn

LEMMA TickIsQuiet == \A c \in Conn : Quiet(c, Tick(c))
<1> SUFFICES ASSUME NEW c \in Conn
             PROVE  Quiet(c, Tick(c))
  OBVIOUS
<1> DEFINE d == [c EXCEPT !.left = 0]
<1>1. d \in Conn /\ Quiet(c, d)
  BY TimeoutAssumption DEF Quiet, Reading, Conn
<1>2. Quiet(c, HandleClose(d))
  BY <1>1, HandleCloseIsQuiet DEF Quiet
<1>3. c.left # 1 => Quiet(c, Tick(c))
  BY DEF Tick, Quiet, Reading, Conn
<1> QED
  BY <1>2, <1>3 DEF Tick

LEMMA AfterWriteIsQuiet == \A c \in Conn : Quiet(c, AfterWrite(c))
<1> SUFFICES ASSUME NEW c \in Conn
             PROVE  Quiet(c, AfterWrite(c))
  OBVIOUS
<1> DEFINE d == Update(DisableWrite(c))
<1>1. d \in Conn /\ Quiet(c, d)
  BY DEF Update, DisableWrite, Quiet, Reading, Conn
<1>2. AfterWrite(c) = IF c.out > 0 THEN c
                      ELSE IF d.statu = "DISCONNECTING" THEN Release(d) ELSE d
  BY DEF AfterWrite
<1> HIDE DEF d
<1>3. Quiet(c, Release(d)) /\ Quiet(c, c)
  BY <1>1, ReleaseIsQuiet DEF Quiet
<1> QED
  BY <1>1, <1>2, <1>3

\* Reading is taken up again with the input there is, which the user is given.
LEMMA ResumeReadHandsOver ==
  ASSUME NEW c \in Conn
  PROVE  LET d == ResumeRead(c)
         IN  /\ d.in = c.in /\ d.out = c.out
             /\ Reading(d) => \/ Reading(c)
                              \/ c.in = 0
                              \/ d.calls = <<"resume">> \o c.calls
<1> DEFINE e == Update(EnableRead([c EXCEPT !.paused = FALSE]))
<1>1. e \in Conn
  <2>1. c.events \cup {"IN"} \in SUBSET Events
    BY DEF Conn, Events
  <2> QED
    BY <2>1 DEF Update, EnableRead, Conn
<1>2. e.in = c.in /\ e.out = c.out /\ e.calls = c.calls
  BY DEF Update, EnableRead, Conn
<1>3. ResumeRead(c) = IF ~Resumes(c) THEN AfterWrite(c)
                      ELSE IF e.in > 0 THEN Call("resume", e) ELSE AfterWrite(e)
  BY DEF ResumeRead
<1> HIDE DEF e
<1>4. Quiet(c, AfterWrite(c)) /\ Quiet(e, AfterWrite(e)) /\ Quiet(e, Call("resume", e))
  BY <1>1, AfterWriteIsQuiet, CallIsQuiet DEF Frames
<1>5. Call("resume", e).calls = <<"resume">> \o e.calls
  BY <1>1 DEF Call, Conn
<1>6. c.in \in Nat
  BY DEF Conn
<1> QED
  BY <1>2, <1>3, <1>4, <1>5, <1>6 DEF Quiet

LEMMA ContinueIsQuiet == \A c \in Conn, f \in Frames : Quiet(c, Continue(f, c))
<1> SUFFICES ASSUME NEW c \in Conn, NEW f \in Frames
             PROVE  Quiet(c, Continue(f, c))
  OBVIOUS
<1>1. Quiet(c, c) /\ Quiet(c, AfterClose(c))
  BY DEF AfterClose, Quiet, Reading, Conn
<1>2. Quiet(c, AfterResume(c))
  BY <1>1, AfterWriteIsQuiet DEF AfterResume
<1> QED
  BY <1>1, <1>2, ReleaseIsQuiet, AfterShutdownIsQuiet DEF Continue

\* Only a send within SendInLoop adds to the output.
LEMMA SendWrites ==
  ASSUME NEW c \in Conn, NEW n \in Nat, c.statu = "CONNECTED"
  PROVE  LET d == SendInLoop(c, n)
         IN  d.in = c.in /\ d.out = c.out + n /\ d.statu = c.statu /\ d.calls = c.calls
  BY DEF SendInLoop, Update, EnableWrite, DisableRead, Conn

-----------------------------------------------------------------------------
(* Steps that leave the stream and the answers alone *)

\* Input moves from the kernel to the buffer, output only shrinks, and reading
\* that is taken up finds no input or hands it to OnMessage.
HandsOver ==
  /\ conn'.in + rx' = conn.in + rx
  /\ conn'.out <= conn.out
  /\ Reads' => \/ Reads /\ conn'.in = conn.in
               \/ conn'.in = 0
               \/ InMessage'

LEMMA QuietHandsOver ==
  ASSUME Inv, Quiet(conn, conn'), rx' = rx
  PROVE  HandsOver
<1>1. conn.out \in Nat
  BY DEF Inv, TypeOK, Conn
<1> QED
  BY <1>1 DEF Quiet, Reading, Reads, HandsOver

LEMMA HandlerHandsOver ==
  ASSUME Inv, Handler
  PROVE  HandsOver
<1>1. conn \in Conn /\ rx \in Nat /\ Quiet(conn, conn)
  BY DEF Inv, TypeOK, Quiet
<1>2. CASE HandleReadData
  <2>1. PICK n \in 1 .. rx : /\ conn' = Call("read", [conn EXCEPT !.in = @ + n])
                             /\ rx' = rx - n
    BY <1>2 DEF HandleReadData
  <2>2. conn.calls \in Seq(Frames) /\ "read" \in Frames
    BY <1>1 DEF Conn, Frames
  <2>3. conn'.in = conn.in + n /\ conn'.out = conn.out /\ conn'.calls = <<"read">> \o conn.calls
    BY <1>1, <2>1 DEF Call, Conn
  <2>4. InMessage'
    <3>1. conn'.calls # <<>> /\ conn'.calls[1] = "read"
      BY <2>2, <2>3, PushFrame
    <3> QED
      BY <3>1 DEF InMessage, InCallback
  <2>5. n \in Nat /\ conn.in \in Nat /\ conn.out \in Nat
    BY <1>1 DEF Conn
  <2> QED
    BY <1>1, <2>1, <2>3, <2>4, <2>5 DEF HandsOver
<1>3. CASE HandleWriteData
  <2>1. PICK n \in 1 .. conn.out : conn' = ResumeRead([conn EXCEPT !.out = @ - n])
    BY <1>3 DEF HandleWriteData
  <2> DEFINE c == [conn EXCEPT !.out = @ - n]
  <2>2. conn.out - n \in Nat /\ conn.out - n <= conn.out /\ conn.in \in Nat
    BY <1>1 DEF Conn
  <2>3. /\ c \in Conn /\ c.in = conn.in /\ c.out = conn.out - n /\ c.calls = conn.calls
        /\ c.statu = conn.statu /\ c.paused = conn.paused
    BY <1>1, <2>2 DEF Conn
  <2>4. conn' = ResumeRead(c) /\ rx' = rx
    BY <1>3, <2>1 DEF HandleWriteData
  <2> HIDE DEF c
  <2>5. /\ conn'.in = c.in /\ conn'.out = c.out
        /\ Reading(conn') => Reading(c) \/ c.in = 0 \/ conn'.calls = <<"resume">> \o c.calls
    BY <2>3, <2>4, ResumeReadHandsOver
  <2>6. conn'.calls = <<"resume">> \o c.calls => InMessage'
    <3>1. conn.calls \in Seq(Frames) /\ "resume" \in Frames
      BY <1>1 DEF Conn, Frames
    <3>2. ASSUME conn'.calls = <<"resume">> \o c.calls
          PROVE  conn'.calls # <<>> /\ conn'.calls[1] = "resume"
      BY <2>3, <3>1, <3>2, PushFrame
    <3> QED
      BY <3>2 DEF InMessage, InCallback
  <2>7. Reads' => Reading(conn')
    BY DEF Reads, Reading
  <2>8. Reading(c) => Reads
    BY <2>3 DEF Reads, Reading
  <2> QED
    BY <2>2, <2>3, <2>4, <2>5, <2>6, <2>7, <2>8 DEF HandsOver
<1>4. CASE \/ HandleEvent \/ HandleReadIgnored \/ HandleReadAgain
           \/ HandleWriteIgnored \/ HandleWriteAgain
  BY <1>1, <1>4, QuietHandsOver DEF HandleEvent, HandleReadIgnored, HandleReadAgain,
     HandleWriteIgnored, HandleWriteAgain
<1>5. CASE HandleReadEnd
  BY <1>1, <1>5, ShutdownIsQuiet, QuietHandsOver DEF HandleReadEnd
<1>6. CASE HandleWriteFails
  <2>1. Quiet(conn, WriteFailed(conn))
    BY <1>1, CallIsQuiet, ReleaseIsQuiet DEF WriteFailed, Frames
  <2> QED
    BY <1>6, <2>1, QuietHandsOver DEF HandleWriteFails
<1>7. CASE HandleEventCallback
  BY <1>1, <1>7, HandleAnyIsQuiet, QuietHandsOver DEF HandleEventCallback
<1>8. CASE HandleHangUp
  BY <1>1, <1>8, HandleCloseIsQuiet, QuietHandsOver DEF HandleHangUp
<1>9. CASE RunTimerTask
  BY <1>1, <1>9, TickIsQuiet, QuietHandsOver DEF RunTimerTask
<1> QED
  BY <1>2, <1>3, <1>4, <1>5, <1>6, <1>7, <1>8, <1>9 DEF Handler

\* A fresh connection starts reading with an empty buffer.
LEMMA EstablishedHandsOver ==
  ASSUME Inv, Established
  PROVE  HandsOver
<1>1. conn \in Conn /\ rx' = rx /\ conn' = EstablishedInLoop(conn)
  BY DEF Inv, TypeOK, Established
<1>2. conn'.in = conn.in /\ conn'.out = conn.out
  BY <1>1 DEF EstablishedInLoop, Call, Update, EnableRead, Conn
<1>3. conn.statu = "CONNECTING" => conn.in = 0
  BY DEF Inv, Sound, Registered
<1>4. conn.statu # "CONNECTING" => conn' = conn
  BY <1>1 DEF EstablishedInLoop
<1>5. conn.out \in Nat
  BY <1>1 DEF Conn
<1> QED
  BY <1>1, <1>2, <1>3, <1>4, <1>5 DEF HandsOver, Reads

\* The frame on top goes.
LEMMA PopIsQuiet ==
  ASSUME NEW c \in Conn, Len(c.calls) > 0
  PROVE  LET d == [c EXCEPT !.calls = Tail(@)]
         IN  d \in Conn /\ Quiet(c, d) /\ d.statu = c.statu
<1>1. c.calls \in Seq(Frames) /\ c.calls # <<>>
  BY EmptySeq DEF Conn
<1>2. Tail(c.calls) \in Seq(Frames)
  BY <1>1, PopFrame
<1> QED
  BY <1>2 DEF Quiet, Reading, Conn

LEMMA ReturnHandsOver ==
  ASSUME Inv, Return
  PROVE  HandsOver
<1> DEFINE d == [conn EXCEPT !.calls = Tail(@)]
           f == conn.calls[1]
<1>1. conn \in Conn /\ Len(conn.calls) > 0 /\ Head(conn.calls) = f /\ f \in Frames
  BY InCallbackHasFrame DEF Inv, TypeOK, Return
<1>2. d \in Conn /\ Quiet(conn, d)
  BY <1>1, PopIsQuiet
<1>3. conn' = Continue(f, d) /\ rx' = rx
  BY <1>1 DEF Return
<1> HIDE DEF d, f
<1>4. Quiet(d, conn')
  BY <1>1, <1>2, <1>3, ContinueIsQuiet
<1>5. Quiet(conn, conn')
  BY <1>2, <1>4 DEF Quiet
<1> QED
  BY <1>3, <1>5, QuietHandsOver

\* What such a step keeps, if nothing was left to OnMessage.
LEMMA HandedOver ==
  ASSUME HttpInv, HandsOver, UNCHANGED httpVars, conn' \in Conn, rx' \in Nat,
         ~(Reads /\ HasRequest)
  PROVE  Conserved' /\ AllTaken' /\ OutputBounded'
<1>1. stream' = stream /\ done' = done /\ answers' = answers
  BY DEF httpVars
<1>2. conn \in Conn /\ rx \in Nat /\ done \in Nat
  BY DEF HttpInv, Inv, TypeOK, HttpTyped
<1>3. conn.in \in Nat /\ conn'.in \in Nat /\ conn.out \in Nat /\ conn'.out \in Nat
  BY <1>2 DEF Conn
<1>4. Conserved'
  <2>1. done + conn.in + rx = Len(stream)
    BY DEF HttpInv, Conserved
  <2>2. conn'.in + rx' = conn.in + rx
    BY DEF HandsOver
  <2>3. done' + conn'.in + rx' = done + conn.in + rx
    BY <1>1, <1>2, <1>3, <2>2
  <2> QED
    BY <1>1, <2>1, <2>3 DEF Conserved
<1>5. AllTaken'
  <2>1. conn'.in = conn.in => (HasRequest' <=> HasRequest)
    BY <1>1 DEF HasRequest, Completes
  <2>2. HasRequest' => conn'.in # 0
    BY DEF HasRequest, Completes
  <2> QED
    BY <2>1, <2>2 DEF HandsOver, AllTaken
<1>6. OutputBounded'
  BY <1>3, WaterAssumption, UnitAssumption DEF HttpInv, OutputBounded, HandsOver
<1> QED
  BY <1>4, <1>5, <1>6

-----------------------------------------------------------------------------
(* The steps of HttpServer, one by one *)

\* A connection that is closing goes on closing.
LEMMA NothingAnswered ==
  ASSUME HttpInv, UNCHANGED httpVars, Advances(conn, conn')
  PROVE  HttpTyped' /\ OneAnswerEach' /\ ClosedAfter'
<1>1. stream' = stream /\ done' = done /\ answers' = answers
  BY DEF httpVars
<1>2. HttpTyped' /\ OneAnswerEach'
  BY <1>1 DEF HttpInv, HttpTyped, OneAnswerEach, Answered, DroppedBehind
<1>3. conn.statu \in {"DISCONNECTING", "DISCONNECTED"}
        => conn'.statu \in {"DISCONNECTING", "DISCONNECTED"}
  BY DEF Advances
<1> QED
  BY <1>1, <1>2, <1>3 DEF HttpInv, ClosedAfter

LEMMA LoopStepKeeps ==
  ASSUME HttpInv, LoopStep
  PROVE  HttpInv'
<1>1. Inv /\ UNCHANGED httpVars /\ [Next]_vars
  BY DEF HttpInv, LoopStep, Next, User
<1>2. Inv' /\ Advances(conn, conn')
  BY <1>1, Inductively, StepIsSound
<1>3. ~InCallback
  BY DEF LoopStep, Poll, Established, Elsewhere, Idle, Handler, Callback, HandleEvent,
     HandleReadIgnored, HandleReadData, HandleReadEnd, HandleReadAgain,
     HandleWriteIgnored, HandleWriteData, HandleWriteFails, HandleWriteAgain,
     HandleEventCallback, HandleHangUp, RunTimerTask
<1>4. ~(Reads /\ HasRequest)
  BY <1>3 DEF HttpInv, AllTaken, InMessage
<1>5. HandsOver
  <2>1. CASE Poll
    <3>1. Quiet(conn, conn') /\ rx' = rx
      BY <2>1 DEF Poll, Quiet
    <3> QED
      BY <1>1, <3>1, QuietHandsOver
  <2> QED
    BY <1>1, <2>1, HandlerHandsOver, EstablishedHandsOver DEF LoopStep
<1>6. conn' \in Conn /\ rx' \in Nat
  BY <1>2 DEF Inv, TypeOK
<1> QED
  BY <1>1, <1>2, <1>4, <1>5, <1>6, HandedOver, NothingAnswered DEF HttpInv

LEMMA CallbackReturnsKeeps ==
  ASSUME HttpInv, CallbackReturns
  PROVE  HttpInv'
<1>1. Inv /\ Return /\ UNCHANGED httpVars /\ [Next]_vars
  BY DEF HttpInv, CallbackReturns, Next, User
<1>2. Inv' /\ Advances(conn, conn')
  BY <1>1, Inductively, StepIsSound
<1>3. ~(Reads /\ HasRequest)
  <2>1. HasRequest => conn.in > 0
    <3>1. conn.in \in Nat
      BY <1>1 DEF Inv, TypeOK, Conn
    <3> QED
      BY <3>1 DEF HasRequest, Completes
  <2>2. ~(Dispatches /\ HasRequest)
    BY DEF CallbackReturns
  <2> QED
    BY <2>1, <2>2 DEF HttpInv, AllTaken, Dispatches, Reads
<1>4. conn' \in Conn /\ rx' \in Nat
  BY <1>2 DEF Inv, TypeOK
<1> QED
  BY <1>1, <1>2, <1>3, <1>4, ReturnHandsOver, HandedOver, NothingAnswered DEF HttpInv

\* Within a callback the round of the loop is suspended.
LEMMA InvWithin ==
  ASSUME Inv, InCallback, conn' \in Conn, Sound(conn'), conn'.statu # "CONNECTING",
         UNCHANGED <<batch, rx, fin, rst, room>>
  PROVE  Inv'
<1>1. TypeOK'
  BY DEF Inv, TypeOK
<1>2. Sound(conn)'
  BY DEF Sound, Nesting, Nested, Registered, Watched, Pressure, Lingering, Ended,
     Armed, Within, Innermost, Outermost
<1>3. Reported'
  BY DEF Reported
<1> QED
  BY <1>1, <1>2, <1>3 DEF Inv

LEMMA ConnectedReturnsKeeps ==
  ASSUME HttpInv, ConnectedReturns
  PROVE  HttpInv'
<1> DEFINE d == [conn EXCEPT !.calls = Tail(@)]
<1>1. Inv /\ conn \in Conn /\ Sound(conn)
  BY DEF HttpInv, Inv, TypeOK
<1>2. Len(conn.calls) > 0 /\ conn.calls[1] = "connected" /\ conn.calls \in Seq(Frames)
  BY <1>1 DEF ConnectedReturns, Innermost, Conn
<1>3. InCallback
  BY <1>2, NoFrames DEF InCallback
<1>4. conn.statu # "CONNECTING"
  BY <1>1, <1>3, InCallbackHasFrame
<1>5. d \in Conn /\ Quiet(conn, d) /\ d.statu = conn.statu
  BY <1>1, <1>2, PopIsQuiet
<1>6. Sound(d)
  <2>1. Sound(Continue(conn.calls[1], d))
    BY <1>1, <1>2, ContinueIsSound
  <2> HIDE DEF d
  <2>2. Continue(conn.calls[1], d) = d
    BY <1>2 DEF Continue
  <2> QED
    BY <2>1, <2>2
<1>7. /\ conn' = SetInactiveCloseInLoop(d, TRUE)
      /\ UNCHANGED <<batch, rx, fin, rst, room>> /\ UNCHANGED httpVars
  BY DEF ConnectedReturns
<1> HIDE DEF d
<1>8. conn' \in Conn /\ Sound(conn') /\ Quiet(d, conn') /\ conn'.statu = conn.statu
  BY <1>5, <1>6, <1>7, SetInactiveCloseIsSound, SetInactiveCloseIsQuiet,
     SetInactiveCloseAdvances
<1>9. Inv'
  BY <1>1, <1>3, <1>4, <1>7, <1>8, InvWithin
<1>10. Quiet(conn, conn') /\ Advances(conn, conn')
  BY <1>5, <1>8 DEF Quiet, Advances
<1>11. HandsOver
  BY <1>1, <1>7, <1>10, QuietHandsOver
<1>12. ~(Reads /\ HasRequest)
  BY <1>2 DEF HttpInv, AllTaken, InMessage
<1>13. rx' \in Nat
  BY <1>9 DEF Inv, TypeOK
<1> QED
  BY <1>7, <1>8, <1>9, <1>10, <1>11, <1>12, <1>13, HandedOver, NothingAnswered DEF HttpInv

\* The client's next unit goes to the end of its stream, to where nobody looks
\* yet.
LEMMA ClientSendsKeeps ==
  ASSUME HttpInv, ClientSends
  PROVE  HttpInv'
<1>1. Inv /\ [Next]_vars
  BY DEF HttpInv, ClientSends, Next, Peer
<1>2. Inv'
  BY <1>1, Inductively
<1>3. conn' = conn /\ rx' = rx + 1 /\ done' = done /\ answers' = answers
  BY DEF ClientSends, PeerSends
<1>4. PICK unit \in Units : stream' = Append(stream, unit)
  BY DEF ClientSends
<1>5. stream \in Seq(Units) /\ done \in Nat /\ answers \in Seq(Nat) /\ rx \in Nat
      /\ conn.in \in Nat
  BY DEF HttpInv, HttpTyped, Inv, TypeOK, Conn
<1>6. /\ stream' \in Seq(Units) /\ Len(stream') = Len(stream) + 1
      /\ \A i \in 1 .. Len(stream) : stream'[i] = stream[i]
  BY <1>4, <1>5, AppendProperties
<1> DEFINE n == Len(stream)
           m == Len(answers)
<1>7. n \in Nat /\ m \in Nat /\ done + conn.in + rx = n
  BY <1>5 DEF HttpInv, Conserved
<1>8. \A i \in 1 .. n : stream'[i] = stream[i]
  BY <1>6
<1>9. \A i \in 1 .. m : answers[i] \in 1 .. done
  BY DEF HttpInv, OneAnswerEach
<1>10. Conserved'
  <2> DEFINE p == Len(stream')
  <2>1. p = n + 1
    BY <1>6
  <2> HIDE DEF n, p
  <2>2. done + conn.in + (rx + 1) = p
    BY <1>5, <1>7, <2>1
  <2> QED
    BY <1>3, <2>2 DEF Conserved, p
<1> HIDE DEF n, m
<1>11. \A i \in 1 .. done : i \in 1 .. n
  BY <1>5, <1>7
<1>12. \A i \in 1 .. m : stream'[answers[i]] = stream[answers[i]]
  BY <1>8, <1>9, <1>11
<1>13. \A i \in 1 .. done : stream'[i] = stream[i]
  BY <1>8, <1>11
<1>14. OneAnswerEach'
  BY <1>3, <1>12, <1>13 DEF HttpInv, OneAnswerEach, Answered, DroppedBehind, m
<1>15. ClosedAfter'
  BY <1>3, <1>12 DEF HttpInv, ClosedAfter, m
<1>16. AllTaken'
  <2>1. \A k \in 1 .. conn.in : stream'[done + k] = stream[done + k]
    <3>1. \A k \in 1 .. conn.in : done + k \in 1 .. n
      BY <1>5, <1>7
    <3> QED
      BY <1>8, <3>1
  <2>2. \A k \in 1 .. conn.in : \A j \in 1 .. k - 1 : j \in 1 .. conn.in
    BY <1>5
  <2>3. HasRequest' => HasRequest
    BY <1>3, <2>1, <2>2 DEF HasRequest, Completes
  <2> QED
    BY <1>3, <2>3 DEF HttpInv, AllTaken, Reads, InMessage, InCallback
<1>17. OutputBounded' /\ HttpTyped'
  BY <1>3, <1>5, <1>6 DEF HttpInv, OutputBounded, HttpTyped
<1> QED
  BY <1>2, <1>10, <1>14, <1>15, <1>16, <1>17 DEF HttpInv

LEMMA ClientStepKeeps ==
  ASSUME HttpInv, ClientStep
  PROVE  HttpInv'
<1>1. CASE ClientSends
  BY <1>1, ClientSendsKeeps
<1>2. CASE (PeerShutsDown \/ PeerResets \/ PeerReads) /\ UNCHANGED httpVars
  <2>1. Inv /\ [Next]_vars
    BY <1>2 DEF HttpInv, Next, Peer
  <2>2. Inv'
    BY <2>1, Inductively
  <2>3. conn' = conn /\ rx' = rx /\ stream' = stream /\ done' = done /\ answers' = answers
    BY <1>2 DEF PeerShutsDown, PeerResets, PeerReads, httpVars
  <2>4. Advances(conn, conn')
    BY <2>3 DEF Advances
  <2>5. HttpTyped' /\ OneAnswerEach' /\ ClosedAfter'
    BY <1>2, <2>4, NothingAnswered
  <2>6. Conserved' /\ AllTaken' /\ OutputBounded'
    BY <2>3 DEF HttpInv, Conserved, AllTaken, OutputBounded, Reads, HasRequest, Completes,
       InMessage, InCallback
  <2> QED
    BY <2>2, <2>5, <2>6 DEF HttpInv
<1> QED
  BY <1>1, <1>2 DEF ClientStep

\* OnMessage takes some of the buffer.
LEMMA TakingIsSound ==
  ASSUME NEW c \in Conn, Sound(c), c.statu # "CONNECTING", NEW k \in 0 .. c.in
  PROVE  LET d == [c EXCEPT !.in = @ - k]
         IN  /\ d \in Conn /\ Sound(d) /\ d.in = c.in - k /\ d.out = c.out
             /\ d.statu = c.statu /\ d.paused = c.paused /\ d.calls = c.calls
<1> DEFINE d == [c EXCEPT !.in = @ - k]
<1>1. c.in - k \in Nat
  BY DEF Conn
<1>2. d \in Conn /\ d.calls = c.calls /\ d.statu = c.statu /\ d.in = c.in - k
  BY <1>1 DEF Conn
<1>3. /\ d.added = c.added /\ d.mask = c.mask /\ d.events = c.events /\ d.out = c.out
      /\ d.fd = c.fd /\ d.removals = c.removals /\ d.paused = c.paused
      /\ d.inactive = c.inactive /\ d.left = c.left
  BY DEF Conn
<1> HIDE DEF d
<1>4. Sound(d)
  BY <1>2, <1>3 DEF Sound, Nesting, Registered, Watched, Pressure, Lingering, Ended, Armed,
     Innermost, Within, Outermost
<1> QED
  BY <1>2, <1>3, <1>4 DEF d

\* Where OnMessage runs, and what it finds there.
LEMMA DispatchingFinds ==
  ASSUME HttpInv, Dispatches
  PROVE  /\ conn \in Conn /\ Sound(conn) /\ conn.in \in Nat \ {0}
         /\ stream \in Seq(Units) /\ answers \in Seq(Nat) /\ done \in Nat /\ rx \in Nat
         /\ done + conn.in + rx = Len(stream)
         /\ InCallback /\ conn.statu = "CONNECTED" /\ ~conn.paused
         /\ conn.out \in Nat /\ conn.out < HighWater
         /\ \A i \in 1 .. Len(answers) : stream[answers[i]] = "keep"
<1>1. conn \in Conn /\ Sound(conn) /\ rx \in Nat
  BY DEF HttpInv, Inv, TypeOK
<1>2. conn.statu = "CONNECTED" /\ ~conn.paused /\ conn.in > 0 /\ InCallback
  BY DEF Dispatches, InMessage
<1>3. conn.in \in Nat /\ conn.out \in Nat
  BY <1>1 DEF Conn
<1>4. conn.out < HighWater
  BY <1>1, <1>2 DEF Sound, Pressure
<1>5. \A i \in 1 .. Len(answers) : stream[answers[i]] = "keep"
  BY <1>2 DEF HttpInv, ClosedAfter
<1> QED
  BY <1>1, <1>2, <1>3, <1>4, <1>5 DEF HttpInv, HttpTyped, Conserved

\* The first of several numbers.
LEMMA Least ==
  ASSUME NEW T, T \subseteq Nat, T # {}
  PROVE  \E k \in T : \A j \in T : k <= j
<1>1. PICK k \in T : \A j \in T : ~(<<j, k>> \in OpToRel(<, Nat))
  BY NatLessThanWellFounded, WFMin
<1>2. \A j \in T : ~(j < k)
  BY <1>1 DEF OpToRel
<1> QED
  BY <1>2

\* If no request is complete, none has its last unit in the buffer.
LEMMA PartsOnly ==
  ASSUME NEW n \in Nat, conn.in = n, ~HasRequest, NEW k \in 1 .. n,
         \A j \in 1 .. n : stream[done + j] \in Units
  PROVE  stream[done + k] = "part"
<1> SUFFICES ASSUME stream[done + k] # "part"
             PROVE  FALSE
  OBVIOUS
<1> DEFINE T == {j \in 1 .. n : stream[done + j] # "part"}
<1>1. T \subseteq Nat /\ T # {} /\ T \subseteq 1 .. n
  OBVIOUS
<1>2. PICK first \in T : \A j \in T : first <= j
  BY <1>1, Least
<1>3. first \in 1 .. n /\ stream[done + first] \in Requests
  BY <1>2 DEF Units
<1>4. \A j \in 1 .. first - 1 : j \in 1 .. n /\ ~(first <= j)
  BY <1>3
<1>5. \A j \in 1 .. first - 1 : stream[done + j] = "part"
  BY <1>2, <1>4
<1>6. Completes(first)
  BY <1>3, <1>5 DEF Completes
<1> QED
  BY <1>3, <1>6 DEF HasRequest

LEMMA TakePartsKeeps ==
  ASSUME HttpInv, TakeParts
  PROVE  HttpInv'
<1>1. PICK k \in 1 .. conn.in : conn' = [conn EXCEPT !.in = @ - k] /\ done' = done + k
  BY DEF TakeParts
<1>2. /\ UNCHANGED <<batch, rx, fin, rst, room>> /\ stream' = stream /\ answers' = answers
      /\ Dispatches /\ ~HasRequest /\ Inv
  BY DEF TakeParts, HttpInv
<1> DEFINE n == Len(stream)
           m == Len(answers)
<1>3. /\ conn \in Conn /\ Sound(conn) /\ conn.in \in Nat \ {0}
      /\ stream \in Seq(Units) /\ answers \in Seq(Nat) /\ done \in Nat /\ rx \in Nat
      /\ done + conn.in + rx = n
      /\ InCallback /\ conn.statu = "CONNECTED"
      /\ \A i \in 1 .. m : stream[answers[i]] = "keep"
  BY <1>2, DispatchingFinds
<1>4. k \in Nat /\ k \in 0 .. conn.in /\ n \in Nat
  BY <1>3
<1>5. /\ conn' \in Conn /\ Sound(conn') /\ conn'.in = conn.in - k /\ conn'.out = conn.out
      /\ conn'.statu = conn.statu /\ conn'.calls = conn.calls
  BY <1>1, <1>3, <1>4, TakingIsSound
<1>6. Inv'
  BY <1>2, <1>3, <1>5, InvWithin
<1>7. \A j \in 1 .. conn.in : stream[done + j] = "part"
  <2>1. \A i \in 1 .. n : stream[i] \in Units
    BY <1>3
  <2>2. \A j \in 1 .. conn.in : done + j \in 1 .. n
    BY <1>3, <1>4
  <2> HIDE DEF n
  <2> QED
    BY <1>2, <1>3, <2>1, <2>2, PartsOnly
<1> HIDE DEF n, m
<1>8. \A i \in 1 .. done + k : i \in 1 .. done \/ stream[i] = "part"
  <2>1. \A i \in 1 .. done + k : i \in 1 .. done \/ (i - done \in 1 .. conn.in /\ done + (i - done) = i)
    BY <1>3, <1>4
  <2> QED
    BY <1>7, <2>1
<1>9. OneAnswerEach'
  <2>1. \A i \in 1 .. m : answers[i] \in 1 .. done + k
    BY <1>3, <1>4 DEF HttpInv, OneAnswerEach, m
  <2>2. \A i \in 1 .. done + k : stream[i] \in Requests => i \in 1 .. done
    BY <1>8 DEF Requests
  <2> QED
    BY <1>1, <1>2, <2>1, <2>2 DEF HttpInv, OneAnswerEach, Answered, DroppedBehind, m
<1>10. ClosedAfter'
  BY <1>2, <1>3 DEF ClosedAfter, m
<1>11. AllTaken'
  BY <1>2, <1>5 DEF AllTaken, Dispatches, InMessage, InCallback
<1>12. Conserved' /\ OutputBounded' /\ HttpTyped'
  <2>1. (done + k) + (conn.in - k) + rx = n
    BY <1>3, <1>4
  <2>2. done + k \in Nat
    BY <1>3, <1>4
  <2> QED
    BY <1>1, <1>2, <1>5, <2>1, <2>2
       DEF HttpInv, Conserved, OutputBounded, HttpTyped, n
<1> QED
  BY <1>6, <1>9, <1>10, <1>11, <1>12 DEF HttpInv

\* What an answer does to the connection.
LEMMA AnsweringIsSound ==
  ASSUME HttpInv, Dispatches, NEW k \in 1 .. conn.in, NEW size \in 1 .. MaxResponse,
         NEW d, d = SendInLoop([conn EXCEPT !.in = @ - k], size)
  PROVE  /\ d \in Conn /\ Sound(d) /\ d.in = conn.in - k /\ d.out < HighWater + MaxResponse
         /\ d.statu = "CONNECTED" /\ d.calls = conn.calls
<1> DEFINE c == [conn EXCEPT !.in = @ - k]
<1>1. conn \in Conn /\ Sound(conn) /\ conn.in \in Nat /\ conn.statu = "CONNECTED"
      /\ conn.out \in Nat /\ conn.out < HighWater
  BY DispatchingFinds
<1>2. k \in 0 .. conn.in /\ size \in Nat \ {0}
  BY <1>1, UnitAssumption
<1>3. /\ c \in Conn /\ Sound(c) /\ c.in = conn.in - k /\ c.out = conn.out
      /\ c.statu = conn.statu /\ c.calls = conn.calls
  BY <1>1, <1>2, TakingIsSound
<1> HIDE DEF c
<1>4. d = SendInLoop(c, size)
  BY DEF c
<1>5. d \in Conn /\ Sound(d)
  BY <1>2, <1>3, <1>4, SendIsSound
<1>6. d.in = c.in /\ d.out = c.out + size /\ d.statu = c.statu /\ d.calls = c.calls
  BY <1>1, <1>2, <1>3, <1>4, SendWrites
<1>7. conn.out + size < HighWater + MaxResponse
  BY <1>1, <1>2, WaterAssumption, UnitAssumption
<1> QED
  BY <1>1, <1>3, <1>5, <1>6, <1>7

\* ... and the closing after it.
LEMMA ClosingIsSound ==
  ASSUME NEW c \in Conn, Sound(c), c.statu = "CONNECTED",
         NEW d, d = CloseAfterAnswer(c)
  PROVE  /\ d \in Conn /\ Sound(d) /\ d.in = 0 /\ d.out = c.out
         /\ d.statu \in {"DISCONNECTING", "DISCONNECTED"}
<1> DEFINE e == [c EXCEPT !.in = 0]
<1>1. c.in \in 0 .. c.in /\ c.in - c.in = 0 /\ e = [c EXCEPT !.in = @ - c.in]
  BY DEF Conn
<1>2. e \in Conn /\ Sound(e) /\ e.in = 0 /\ e.out = c.out /\ e.statu = "CONNECTED"
  <2>1. [c EXCEPT !.in = @ - c.in] = e
    BY <1>1
  <2>2. LET f == [c EXCEPT !.in = @ - c.in]
        IN  /\ f \in Conn /\ Sound(f) /\ f.in = c.in - c.in /\ f.out = c.out
            /\ f.statu = c.statu
    BY <1>1, TakingIsSound
  <2> HIDE DEF e
  <2> QED
    BY <1>1, <2>1, <2>2
<1>3. d = ShutdownInLoop(e)
  BY DEF CloseAfterAnswer
<1> HIDE DEF e
<1>4. d \in Conn /\ Sound(d) /\ Quiet(e, d) /\ Advances(e, d) /\ d.statu # "CONNECTED"
  BY <1>2, <1>3, ShutdownIsSound, ShutdownIsQuiet, ShutdownAdvances
<1>5. d.statu \in {"DISCONNECTING", "DISCONNECTED"}
  BY <1>2, <1>4 DEF Advances
<1> QED
  BY <1>2, <1>4, <1>5 DEF Quiet

\* The new answer is the last, to the request that was next.
LEMMA AnswerRequestKeeps ==
  ASSUME HttpInv, AnswerRequest
  PROVE  HttpInv'
<1>1. PICK k \in 1 .. conn.in, size \in 1 .. MaxResponse :
        LET answered == SendInLoop([conn EXCEPT !.in = @ - k], size)
        IN  /\ Completes(k)
            /\ answers' = Append(answers, done + k)
            /\ IF stream[done + k] = "keep"
               THEN conn' = answered /\ done' = done + k
               ELSE conn' = CloseAfterAnswer(answered) /\ done' = done + conn.in
  BY DEF AnswerRequest
<1>2. UNCHANGED <<batch, rx, fin, rst, room>> /\ stream' = stream /\ Dispatches /\ Inv
  BY DEF AnswerRequest, HttpInv
<1> DEFINE n == Len(stream)
           m == Len(answers)
           keeps == stream[done + k] = "keep"
           answered == SendInLoop([conn EXCEPT !.in = @ - k], size)
<1>3. /\ conn.in \in Nat \ {0} /\ stream \in Seq(Units) /\ answers \in Seq(Nat)
      /\ done \in Nat /\ rx \in Nat /\ done + conn.in + rx = n
      /\ InCallback
      /\ \A i \in 1 .. m : stream[answers[i]] = "keep"
  BY <1>2, DispatchingFinds
<1>4. k \in Nat \ {0} /\ k <= conn.in /\ n \in Nat /\ m \in Nat
  BY <1>3
<1>5. /\ answered \in Conn /\ Sound(answered) /\ answered.in = conn.in - k
      /\ answered.out < HighWater + MaxResponse
      /\ answered.statu = "CONNECTED" /\ answered.calls = conn.calls
  BY <1>2, AnsweringIsSound
<1>6. /\ keeps => conn' = answered /\ done' = done + k
      /\ ~keeps => conn' = CloseAfterAnswer(answered) /\ done' = done + conn.in
  BY <1>1
<1> HIDE DEF answered
<1>7. ~keeps => /\ conn' \in Conn /\ Sound(conn') /\ conn'.in = 0
                /\ conn'.out = answered.out
                /\ conn'.statu \in {"DISCONNECTING", "DISCONNECTED"}
  BY <1>5, <1>6, ClosingIsSound
<1>8. Inv'
  BY <1>2, <1>3, <1>5, <1>6, <1>7, InvWithin
<1>9. done' \in Nat /\ done + k <= done'
  BY <1>3, <1>4, <1>6
<1>10. /\ answers' \in Seq(Nat) /\ Len(answers') = m + 1 /\ answers'[m + 1] = done + k
       /\ \A i \in 1 .. m : answers'[i] = answers[i]
  BY <1>1, <1>3, <1>4, AppendProperties
<1> HIDE DEF n
<1>11. Conserved' /\ OutputBounded' /\ HttpTyped'
  <2>1. done' + conn'.in + rx = n
    BY <1>3, <1>4, <1>5, <1>6, <1>7
  <2>2. conn'.out < HighWater + MaxResponse
    BY <1>5, <1>6, <1>7
  <2> QED
    BY <1>2, <1>3, <1>9, <1>10, <2>1, <2>2 DEF Conserved, OutputBounded, HttpTyped, n
<1>12. AllTaken'
  <2>1. keeps => InMessage'
    BY <1>2, <1>5, <1>6 DEF Dispatches, InMessage, InCallback
  <2> QED
    BY <1>7, <2>1 DEF AllTaken, Reads
<1> HIDE DEF m
<1>13. \A i \in 1 .. m + 1 : i \in 1 .. m \/ i = m + 1
  BY <1>4
<1>14. ClosedAfter'
  <2>1. stream[done + k] # "keep" => conn'.statu \in {"DISCONNECTING", "DISCONNECTED"}
    BY <1>7
  <2> QED
    BY <1>2, <1>3, <1>10, <1>13, <2>1 DEF ClosedAfter
<1>15. OneAnswerEach'
  <2>1. \A i \in 1 .. m : answers[i] \in 1 .. done /\ stream[answers[i]] \in Requests
    BY DEF HttpInv, OneAnswerEach, m
  <2>2. stream[done + k] \in Requests /\ \A j \in 1 .. k - 1 : stream[done + j] = "part"
    BY <1>1 DEF Completes
  <2>3. \A i \in 1 .. m + 1 : answers'[i] \in 1 .. done' /\ stream[answers'[i]] \in Requests
    <3>1. \A i \in 1 .. done : i \in 1 .. done'
      BY <1>3, <1>4, <1>9
    <3>2. done + k \in 1 .. done'
      BY <1>3, <1>4, <1>9
    <3> QED
      BY <1>10, <1>13, <2>1, <2>2, <3>1, <3>2
  <2>4. ASSUME NEW i \in 1 .. m + 1, NEW j \in 1 .. m + 1, i < j
        PROVE  answers'[i] < answers'[j] /\ stream[answers'[i]] = "keep"
    <3>1. i \in 1 .. m
      BY <1>4, <2>4
    <3>2. CASE j \in 1 .. m
      BY <1>3, <1>10, <2>4, <3>1, <3>2 DEF HttpInv, OneAnswerEach, m
    <3>3. CASE j = m + 1
      <4>1. answers[i] \in 1 .. done /\ answers[i] < done + k
        BY <1>3, <1>4, <2>1, <3>1
      <4> QED
        BY <1>3, <1>10, <3>1, <3>3, <4>1
    <3> QED
      BY <1>13, <3>2, <3>3
  <2>5. ASSUME NEW u \in 1 .. done', stream[u] \in Requests
        PROVE  \/ \E i \in 1 .. m + 1 : answers'[i] = u
               \/ \E i \in 1 .. m + 1 : answers'[i] < u /\ stream[answers'[i]] # "keep"
    <3>1. m + 1 \in 1 .. m + 1 /\ \A i \in 1 .. m : i \in 1 .. m + 1
      BY <1>4
    <3>2. CASE u \in 1 .. done
      <4>1. Answered(u) \/ DroppedBehind(u)
        BY <2>5, <3>2 DEF HttpInv, OneAnswerEach
      <4> QED
        BY <1>10, <3>1, <4>1 DEF Answered, DroppedBehind, m
    <3>3. CASE u > done /\ u < done + k
      <4>1. u - done \in 1 .. k - 1 /\ done + (u - done) = u
        BY <1>3, <1>4, <3>3
      <4>2. stream[u] = "part"
        BY <2>2, <4>1
      <4> QED
        BY <2>5, <4>2 DEF Requests
    <3>4. CASE u = done + k
      BY <1>10, <3>1, <3>4
    <3>5. CASE u > done + k
      <4>1. ~keeps
        BY <1>3, <1>4, <1>6, <3>5
      <4> QED
        BY <1>10, <3>1, <3>5, <4>1
    <3>6. u \in Nat \ {0}
      BY <1>9
    <3> QED
      BY <1>3, <1>4, <3>2, <3>3, <3>4, <3>5, <3>6
  <2> QED
    BY <1>2, <1>10, <2>3, <2>4, <2>5 DEF OneAnswerEach, Answered, DroppedBehind
<1> QED
  BY <1>8, <1>11, <1>12, <1>14, <1>15 DEF HttpInv

-----------------------------------------------------------------------------
(* The theorems *)

LEMMA HttpInitially == HttpInit => HttpInv
<1> SUFFICES ASSUME HttpInit
             PROVE  HttpInv
  OBVIOUS
<1>1. Inv
  BY Initially DEF HttpInit
<1>2. conn = Fresh /\ rx = 0 /\ stream = <<>> /\ done = 0 /\ answers = <<>>
  BY DEF HttpInit, Init
<1>3. conn.in = 0 /\ conn.out = 0
  BY <1>2 DEF Fresh
<1>4. HttpTyped /\ Len(stream) = 0 /\ Len(answers) = 0
  BY <1>2, EmptySeq DEF HttpTyped
<1>5. Conserved /\ OneAnswerEach /\ ClosedAfter
  BY <1>2, <1>3, <1>4 DEF Conserved, OneAnswerEach, ClosedAfter
<1>6. AllTaken /\ OutputBounded
  BY <1>3, WaterAssumption, UnitAssumption
     DEF AllTaken, HasRequest, Completes, OutputBounded
<1> QED
  BY <1>1, <1>4, <1>5, <1>6 DEF HttpInv

LEMMA HttpInductively == HttpInv /\ [HttpNext]_allVars => HttpInv'
<1> SUFFICES ASSUME HttpInv, [HttpNext]_allVars
             PROVE  HttpInv'
  OBVIOUS
<1>1. CASE UNCHANGED allVars
  <2>1. Inv /\ UNCHANGED vars /\ UNCHANGED httpVars
    BY <1>1 DEF HttpInv, allVars
  <2>2. Inv'
    BY <2>1, Inductively
  <2>3. /\ conn' = conn /\ rx' = rx /\ stream' = stream /\ done' = done
        /\ answers' = answers
    BY <2>1 DEF vars, httpVars
  <2> QED
    BY <2>2, <2>3 DEF HttpInv, HttpTyped, Conserved, OneAnswerEach, Answered,
       DroppedBehind, ClosedAfter, AllTaken, Reads, HasRequest, Completes, InMessage,
       InCallback, OutputBounded
<1> QED
  BY <1>1, LoopStepKeeps, ConnectedReturnsKeeps, AnswerRequestKeeps, TakePartsKeeps,
     CallbackReturnsKeeps, ClientStepKeeps DEF HttpNext, OnMessage

\* Everything below, and the soundness of the connection, with the HTTP server
\* as its user: composed methods keep what the single ones keep.
THEOREM HttpInvariance == HttpSpec => []HttpInv
  BY HttpInitially, HttpInductively, PTL DEF HttpSpec

\* Each request the server has taken is answered once, in its turn, or dropped
\* behind the one that closed the connection.
THEOREM Answering == HttpSpec => []OneAnswerEach
<1>1. HttpInv => OneAnswerEach
  BY DEF HttpInv
<1> QED
  BY <1>1, HttpInvariance, PTL

\* Between rounds no complete request is left in the buffer of a connection
\* that reads on.
THEOREM TakingUp == HttpSpec => []NothingStranded
<1>1. HttpInv => NothingStranded
  BY DEF HttpInv, AllTaken, Reads, NothingStranded, Idle, InMessage
<1> QED
  BY <1>1, HttpInvariance, PTL

\* However many requests come in a burst, less than the high mark and one
\* response waits to be sent.
THEOREM BoundedOutput == HttpSpec => []OutputBounded
<1>1. HttpInv => OutputBounded
  BY DEF HttpInv
<1> QED
  BY <1>1, HttpInvariance, PTL

-----------------------------------------------------------------------------
(* Output that is dropped, with the HTTP server as the only user *)

LEMMA HttpHangUps ==
  ASSUME HttpInv, HangUps, [HttpNext]_allVars
  PROVE  HangUps'
<1>1. CASE LoopStep \/ CallbackReturns \/ UNCHANGED allVars
  <2>1. Inv /\ [Next]_vars
    BY <1>1 DEF HttpInv, LoopStep, CallbackReturns, Next, User, allVars
  <2> QED
    BY <2>1, HangUpsStep
<1>2. CASE ConnectedReturns \/ OnMessage \/ ClientStep
  <2>1. ASSUME batch' = batch, rst' = rst
        PROVE  HangUps'
    BY <2>1 DEF HangUps
  <2>2. CASE ConnectedReturns
    BY <2>1, <2>2 DEF ConnectedReturns
  <2>3. CASE AnswerRequest
    BY <2>1, <2>3 DEF AnswerRequest
  <2>4. CASE TakeParts
    BY <2>1, <2>4 DEF TakeParts
  <2>5. CASE ClientSends \/ PeerShutsDown \/ PeerReads
    BY <2>1, <2>5 DEF ClientSends, PeerSends, PeerShutsDown, PeerReads
  <2>6. CASE PeerResets
    BY <2>6 DEF PeerResets, HangUps
  <2> QED
    BY <1>2, <2>2, <2>3, <2>4, <2>5, <2>6 DEF OnMessage, ClientStep
<1> QED
  BY <1>1, <1>2 DEF HttpNext

\* An answer goes out before the Shutdown behind it closes.
LEMMA AnswerDrains ==
  ASSUME HttpInv, AnswerRequest, conn' \in Conn, Ends
  PROVE  conn'.out = 0
<1>1. PICK k \in 1 .. conn.in, size \in 1 .. MaxResponse :
        LET answered == SendInLoop([conn EXCEPT !.in = @ - k], size)
        IN  conn' = answered \/ conn' = CloseAfterAnswer(answered)
  BY DEF AnswerRequest
<1> DEFINE d == SendInLoop([conn EXCEPT !.in = @ - k], size)
           e == [d EXCEPT !.in = 0]
<1>2. d \in Conn /\ d.calls = conn.calls
  BY AnsweringIsSound DEF AnswerRequest
<1>3. d.fd = conn.fd
  BY DEF SendInLoop, Update, EnableWrite, DisableRead, Conn, HttpInv, Inv, TypeOK
<1>4. conn' = d \/ conn' = ShutdownInLoop(e)
  BY <1>1 DEF CloseAfterAnswer
<1> HIDE DEF d
<1>5. e \in Conn /\ e.calls = conn.calls /\ e.fd = conn.fd
  BY <1>2, <1>3 DEF Conn
<1> HIDE DEF e
<1>6. Drains(conn, conn')
  <2>1. Drains(e, ShutdownInLoop(e))
    BY <1>5, ShutdownDrains
  <2> QED
    BY <1>2, <1>3, <1>4, <1>5, <2>1 DEF Drains
<1> QED
  BY <1>6, DrainsFirst DEF HttpInv

LEMMA HttpStepDrains ==
  ASSUME HttpInv, HangUps, [HttpNext]_allVars, Ends
  PROVE  conn'.out = 0 \/ rst \/ TimesOut
<1>1. Inv /\ conn \in Conn /\ conn' \in Conn
  BY HttpInductively DEF HttpInv, Inv, TypeOK
<1>2. CASE Handler \/ Established \/ Return
  BY <1>1, <1>2, HandlerDrains, UserDrains DEF User
<1>3. CASE ConnectedReturns
  <2> DEFINE d == [conn EXCEPT !.calls = Tail(@)]
             m == Len(conn.calls)
  <2>1. conn.calls \in Seq(Frames) /\ conn.calls # <<>>
    BY <1>1, <1>3, NoFrames DEF ConnectedReturns, Innermost, Conn
  <2>2. Tail(conn.calls) \in Seq(Frames) /\ Len(Tail(conn.calls)) = m - 1 /\ m \in Nat
    BY <2>1, PopFrame
  <2>3. d \in Conn /\ d.fd = conn.fd /\ d.calls = Tail(conn.calls)
    BY <1>1, <2>2 DEF Conn
  <2>4. conn' = SetInactiveCloseInLoop(d, TRUE)
    BY <1>3 DEF ConnectedReturns
  <2> HIDE DEF d, m
  <2>5. conn'.fd = conn.fd /\ conn'.calls = Tail(conn.calls)
    BY <2>3, <2>4 DEF SetInactiveCloseInLoop, Conn
  <2>6. ~(m - 1 > m)
    BY <2>2
  <2> QED
    BY <2>2, <2>5, <2>6 DEF Ends, m
<1>4. CASE TakeParts
  <2>1. conn'.fd = conn.fd /\ conn'.calls = conn.calls
    BY <1>1, <1>4 DEF TakeParts, Conn
  <2> QED
    BY <1>1, <2>1, DrainsFirst DEF Drains
<1>5. CASE Poll \/ ClientStep \/ UNCHANGED allVars
  <2>1. conn' = conn
    BY <1>5 DEF Poll, ClientStep, ClientSends, PeerSends, PeerShutsDown, PeerResets,
       PeerReads, allVars, vars
  <2> QED
    BY <1>1, <2>1, DrainsItself, DrainsFirst
<1>6. \/ Poll \/ Handler \/ Established \/ Return
      \/ ConnectedReturns \/ AnswerRequest \/ TakeParts \/ ClientStep \/ UNCHANGED allVars
  BY DEF HttpNext, LoopStep, OnMessage, CallbackReturns
<1> QED
  BY <1>1, <1>2, <1>3, <1>4, <1>5, <1>6, AnswerDrains

\* The same of the connections of the HTTP server, each of which has idle
\* closing on from its first callback: the answer that closes a connection goes
\* out whole before it does.
THEOREM HttpDraining == HttpSpec => DropsNoOutput
<1>1. ASSUME HttpInit
      PROVE  HangUps
  BY <1>1, EmptySeq DEF HttpInit, Init, HangUps
<1>2. HttpInv /\ HangUps /\ [HttpNext]_allVars => HangUps'
  BY HttpHangUps
<1>3. HttpInv /\ HangUps /\ [HttpNext]_allVars =>
        [(conn.fd /\ ~conn'.fd /\ ~GivesUp(conn.calls)) \/
         (GivesUp(conn'.calls) /\ Len(conn'.calls) > Len(conn.calls))
           => conn'.out = 0 \/ rst \/ TimesOut]_vars
  BY HttpStepDrains DEF Ends
<1> QED
  BY <1>1, <1>2, <1>3, HttpInvariance, PTL DEF HttpSpec, DropsNoOutput

=============================================================================

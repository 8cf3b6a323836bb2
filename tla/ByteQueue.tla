---------------------------- MODULE ByteQueue ----------------------------
(***************************************************************************)
(* What a Buffer promises the code that fills and empties it: a queue of   *)
(* bytes.  What comes out is what went in, in the same order.              *)
(***************************************************************************)
EXTENDS Naturals, Sequences

CONSTANTS
  Byte,      \* bytes
  LF,        \* '\n'
  MaxWrite   \* bound: the longest single write

VARIABLES
  queue,     \* bytes written and not yet read
  result     \* what the last operation returned

vars == <<queue, result>>

Strings == UNION {[1 .. n -> Byte] : n \in 0 .. MaxWrite}

Init ==
  /\ queue = <<>>
  /\ result = <<>>

Write(data) ==
  /\ queue' = queue \o data
  /\ result' = <<>>

Read(len) ==
  /\ len <= Len(queue)
  /\ result' = SubSeq(queue, 1, len)
  /\ queue' = SubSeq(queue, len + 1, Len(queue))

\* Bytes are taken out only up to the end of a line that is complete.
ReadLine ==
  \/ /\ \A i \in 1 .. Len(queue) : queue[i] # LF
     /\ result' = <<>>
     /\ UNCHANGED queue
  \/ \E len \in 1 .. Len(queue) :
       /\ queue[len] = LF
       /\ \A i \in 1 .. len - 1 : queue[i] # LF
       /\ Read(len)

Clear ==
  /\ queue' = <<>>
  /\ result' = <<>>

Next ==
  \/ \E data \in Strings : Write(data)
  \/ \E len \in 0 .. Len(queue) : Read(len)
  \/ ReadLine
  \/ Clear

Spec == Init /\ [][Next]_vars
=============================================================================

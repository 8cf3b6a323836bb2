------------------------------ MODULE Buffer ------------------------------
(***************************************************************************)
(* A Buffer: one array with a reader and a writer offset.  A write that    *)
(* does not fit behind the writer moves the unread bytes to the front when *)
(* that makes room, and enlarges the array when it does not.               *)
(***************************************************************************)
EXTENDS Naturals, Sequences

CONSTANTS
  Byte,         \* bytes
  LF,           \* '\n'
  BUFFER_SIZE,  \* the array's first size
  MaxWrite,     \* bound: the longest single write
  MaxUnread     \* bound: the most unread bytes there ever are

ASSUME ByteAssumption == LF \in Byte
ASSUME SizeAssumption ==
  BUFFER_SIZE \in Nat /\ MaxWrite \in Nat /\ MaxUnread \in Nat

VARIABLES
  cells,    \* _buffer
  reader,   \* _reader_ptr
  writer,   \* _writer_ptr
  result    \* what the last operation returned

vars == <<cells, reader, writer, result>>

Zero == CHOOSE b \in Byte : TRUE    \* resize fills with something

Strings == UNION {[1 .. n -> Byte] : n \in 0 .. MaxWrite}

TypeOK ==
  /\ cells \in Seq(Byte)
  /\ reader \in Nat
  /\ writer \in Nat
  /\ reader <= writer /\ writer <= Len(cells)
  /\ result \in Seq(Byte)

Init ==
  /\ cells = [i \in 1 .. BUFFER_SIZE |-> Zero]
  /\ reader = 0
  /\ writer = 0
  /\ result = <<>>

-----------------------------------------------------------------------------
TailIdleSize == Len(cells) - writer
HeadIdleSize == reader
ReadAbleSize == writer - reader

Unread == SubSeq(cells, reader + 1, writer)

\* std::copy of data to offset "at", which leaves the other cells alone.
CopyTo(to, at, data) ==
  [i \in 1 .. Len(to) |->
     IF i > at /\ i <= at + Len(data) THEN data[i - at] ELSE to[i]]

Resized(to, size) == [i \in 1 .. size |-> IF i <= Len(to) THEN to[i] ELSE Zero]

\* The array and its offsets.
Storage(to, r, w) == [cells |-> to, reader |-> r, writer |-> w]
AsItIs == Storage(cells, reader, writer)
Grown(len) == Storage(Resized(cells, writer + len), reader, writer)

\* Mutant: the array grows although moving the bytes would make room.
EnsureSpaceByGrowing(len) == IF TailIdleSize >= len THEN AsItIs ELSE Grown(len)

\* Mutant: the offsets go to the front and the bytes do not.
EnsureSpaceWithoutMoving(len) ==
  IF TailIdleSize >= len THEN AsItIs
  ELSE IF TailIdleSize + HeadIdleSize >= len
  THEN Storage(cells, 0, ReadAbleSize)
  ELSE Grown(len)

EnsureSpace(len) ==
  IF TailIdleSize >= len THEN AsItIs
  ELSE IF TailIdleSize + HeadIdleSize >= len
  THEN Storage(CopyTo(cells, 0, Unread), 0, ReadAbleSize)
  ELSE Grown(len)

-----------------------------------------------------------------------------
(* The operations *)

\* Write and MoveWriterPtr, as WriteAndPush and its variants call them.
WriteAndPush(data) ==
  LET s == EnsureSpace(Len(data))
  IN  /\ ReadAbleSize + Len(data) <= MaxUnread
      /\ cells' = CopyTo(s.cells, s.writer, data)
      /\ reader' = s.reader
      /\ writer' = s.writer + Len(data)
      /\ result' = <<>>

\* ReadAsStringAndPop; a caller that only moves the reader has no result.
ReadAsStringAndPop(len) ==
  /\ len <= ReadAbleSize
  /\ result' = SubSeq(cells, reader + 1, reader + len)
  /\ reader' = reader + len
  /\ UNCHANGED <<cells, writer>>

\* memchr over the unread bytes: the first LF among them.
FindCRLF(len) ==
  /\ len \in 1 .. ReadAbleSize
  /\ cells[reader + len] = LF
  /\ \A i \in 1 .. len - 1 : cells[reader + i] # LF

GetLine ==
  \/ \E len \in 1 .. ReadAbleSize : FindCRLF(len) /\ ReadAsStringAndPop(len)
  \/ /\ \A i \in 1 .. ReadAbleSize : cells[reader + i] # LF
     /\ result' = <<>>
     /\ UNCHANGED <<cells, reader, writer>>

clear ==
  /\ reader' = 0
  /\ writer' = 0
  /\ result' = <<>>
  /\ UNCHANGED cells

Next ==
  \/ \E data \in Strings : WriteAndPush(data)
  \/ \E len \in 0 .. ReadAbleSize : ReadAsStringAndPop(len)
  \/ GetLine
  \/ clear

Spec == Init /\ [][Next]_vars

-----------------------------------------------------------------------------
(* Properties *)

Abstract == INSTANCE ByteQueue WITH queue <- Unread

\* The Buffer is a queue of bytes: moving them to the front, enlarging the
\* array and taking whole lines out never loses, repeats or reorders a byte.
ImplementsQueue == Abstract!Spec

\* The array does not creep: however reads and writes follow each other, it
\* is never larger than it began or than the most unread bytes there have
\* been and one write.
NoBloat == Len(cells) <= BUFFER_SIZE \/ Len(cells) < MaxUnread + MaxWrite
=============================================================================

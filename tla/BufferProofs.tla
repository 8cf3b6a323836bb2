--------------------------- MODULE BufferProofs ---------------------------
(***************************************************************************)
(* Proofs about Buffer for any bytes, any first size and any longest write:*)
(* the types, the bound on the array's size, and that the unread bytes are *)
(* the queue of ByteQueue.                                                 *)
(***************************************************************************)
EXTENDS Buffer, SequenceTheorems, TLAPS

\* A function on 1 .. n with bytes for values is a sequence of n bytes.
LEMMA BytesAreASeq ==
  ASSUME NEW n \in Nat, NEW f(_), \A i \in 1 .. n : f(i) \in Byte
  PROVE  LET s == [i \in 1 .. n |-> f(i)]
         IN  s \in Seq(Byte) /\ Len(s) = n /\ \A i \in 1 .. n : s[i] = f(i)
  OBVIOUS

LEMMA ZeroIsAByte == Zero \in Byte
  BY ByteAssumption DEF Zero

\* CopyTo puts the data at the offset and changes nothing else.
LEMMA CopyToMeans ==
  ASSUME NEW to \in Seq(Byte), NEW at \in Nat, NEW data \in Seq(Byte),
         at + Len(data) <= Len(to)
  PROVE  LET s == CopyTo(to, at, data)
         IN  /\ s \in Seq(Byte)
             /\ Len(s) = Len(to)
             /\ \A i \in 1 .. Len(data) : s[at + i] = data[i]
             /\ \A i \in 1 .. at : s[i] = to[i]
<1> DEFINE f(i) == IF i > at /\ i <= at + Len(data) THEN data[i - at] ELSE to[i]
           n == Len(to)
           k == Len(data)
           s == CopyTo(to, at, data)
<1>1. n \in Nat /\ k \in Nat /\ at + k <= n
  OBVIOUS
<1>2. (\A i \in 1 .. n : to[i] \in Byte) /\ (\A i \in 1 .. k : data[i] \in Byte)
  BY ElementOfSeq
<1>3. \A i \in 1 .. n : f(i) = IF i > at /\ i <= at + k THEN data[i - at] ELSE to[i]
  OBVIOUS
<1>4. s = [i \in 1 .. n |-> f(i)]
  BY DEF CopyTo
<1> HIDE DEF n, k, f
<1>5. ASSUME NEW i \in 1 .. n PROVE f(i) \in Byte
  <2>1. CASE i > at /\ i <= at + k
    <3>1. i - at \in 1 .. k
      BY <1>1, <2>1
    <3> QED BY <1>2, <1>3, <2>1, <3>1
  <2> QED BY <1>2, <1>3, <2>1
<1>6. s \in Seq(Byte) /\ Len(s) = n /\ \A i \in 1 .. n : s[i] = f(i)
  BY <1>1, <1>4, <1>5
<1> HIDE DEF s
<1>7. ASSUME NEW i \in 1 .. k PROVE s[at + i] = data[i]
  <2>1. at + i \in 1 .. n /\ at + i > at /\ at + i <= at + k /\ (at + i) - at = i
    BY <1>1
  <2> QED BY <1>3, <1>6, <2>1
<1>8. ASSUME NEW i \in 1 .. at PROVE s[i] = to[i]
  <2>1. i \in 1 .. n /\ ~(i > at)
    BY <1>1
  <2> QED BY <1>3, <1>6, <2>1
<1> QED BY <1>6, <1>7, <1>8 DEF s, n, k

\* resize keeps what there was.
LEMMA ResizedMeans ==
  ASSUME NEW to \in Seq(Byte), NEW size \in Nat, Len(to) <= size
  PROVE  LET s == Resized(to, size)
         IN  s \in Seq(Byte) /\ Len(s) = size /\ \A i \in 1 .. Len(to) : s[i] = to[i]
<1> DEFINE f(i) == IF i <= Len(to) THEN to[i] ELSE Zero
           n == Len(to)
           s == Resized(to, size)
<1>1. n \in Nat /\ n <= size
  OBVIOUS
<1>2. \A i \in 1 .. n : to[i] \in Byte
  BY ElementOfSeq
<1>3. \A i \in 1 .. size : f(i) = IF i <= n THEN to[i] ELSE Zero
  OBVIOUS
<1>4. s = [i \in 1 .. size |-> f(i)]
  BY DEF Resized
<1> HIDE DEF n, f
<1>5. \A i \in 1 .. size : f(i) \in Byte
  BY <1>1, <1>2, <1>3, ZeroIsAByte
<1>6. s \in Seq(Byte) /\ Len(s) = size /\ \A i \in 1 .. size : s[i] = f(i)
  BY <1>4, <1>5
<1> HIDE DEF s
<1>7. \A i \in 1 .. n : s[i] = to[i]
  BY <1>1, <1>3, <1>6
<1> QED BY <1>6, <1>7 DEF s, n

\* What lies between a reader and a writer offset, byte by byte.
LEMMA BetweenMeans ==
  ASSUME NEW c \in Seq(Byte), NEW r \in Nat, NEW w \in Nat, r <= w, w <= Len(c)
  PROVE  LET u == SubSeq(c, r + 1, w)
         IN  u \in Seq(Byte) /\ Len(u) = w - r /\ \A i \in 1 .. w - r : u[i] = c[r + i]
<1> DEFINE n == Len(c)
           u == SubSeq(c, r + 1, w)
<1>1. n \in Nat /\ w <= n /\ (\A i \in 1 .. n : c[i] \in Byte)
  BY ElementOfSeq
<1> HIDE DEF n
<1>2. \A i \in r + 1 .. w : i \in 1 .. n
  BY <1>1
<1>3. r + 1 \in Int /\ w \in Int /\ \A i \in r + 1 .. w : c[i] \in Byte
  BY <1>1, <1>2
<1>4. /\ u \in Seq(Byte)
      /\ Len(u) = IF r + 1 <= w THEN w - (r + 1) + 1 ELSE 0
      /\ \A i \in 1 .. w - (r + 1) + 1 : u[i] = c[r + 1 + i - 1]
  BY <1>3, SubSeqProperties
<1> HIDE DEF u
<1>5. Len(u) = w - r
  BY <1>4
<1>6. ASSUME NEW i \in 1 .. w - r PROVE u[i] = c[r + i]
  <2>1. i \in 1 .. w - (r + 1) + 1 /\ r + 1 + i - 1 = r + i
    OBVIOUS
  <2> QED BY <1>4, <2>1
<1> QED BY <1>4, <1>5, <1>6 DEF u

\* A part of a part is a part of the whole.
LEMMA PartOfPart ==
  ASSUME NEW c \in Seq(Byte), NEW r \in Nat, NEW w \in Nat, r <= w, w <= Len(c),
         NEW a \in Nat, NEW b \in Nat, a <= b, b <= w - r
  PROVE  SubSeq(SubSeq(c, r + 1, w), a + 1, b) = SubSeq(c, r + a + 1, r + b)
<1> DEFINE u == SubSeq(c, r + 1, w)
           s == SubSeq(u, a + 1, b)
           t == SubSeq(c, (r + a) + 1, r + b)
           n == Len(c)
<1>1. u \in Seq(Byte) /\ Len(u) = w - r /\ \A i \in 1 .. w - r : u[i] = c[r + i]
  BY BetweenMeans
<1> HIDE DEF u
<1>2. s \in Seq(Byte) /\ Len(s) = b - a /\ \A i \in 1 .. b - a : s[i] = u[a + i]
  BY <1>1, BetweenMeans
<1>3. n \in Nat /\ w <= n
  OBVIOUS
<1>4. r + a \in Nat /\ r + b \in Nat /\ r + a <= r + b /\ r + b <= n
  BY <1>3
<1>5. t \in Seq(Byte) /\ Len(t) = (r + b) - (r + a)
      /\ \A i \in 1 .. (r + b) - (r + a) : t[i] = c[(r + a) + i]
  BY <1>4, BetweenMeans
<1> HIDE DEF s, t, n
<1>6. ASSUME NEW i \in 1 .. b - a PROVE s[i] = t[i]
  <2>1. a + i \in 1 .. w - r /\ i \in 1 .. (r + b) - (r + a) /\ (r + a) + i = r + (a + i)
    OBVIOUS
  <2> QED BY <1>1, <1>2, <1>5, <2>1
<1>7. s = t
  <2>1. Len(s) = Len(t)
    BY <1>2, <1>5
  <2>2. \A i \in 1 .. Len(s) : s[i] = t[i]
    BY <1>2, <1>6
  <2> QED BY <1>2, <1>5, <2>1, <2>2, SeqEqual
<1> QED BY <1>7 DEF s, t, u

\* The unread bytes, one by one.
LEMMA UnreadMeans ==
  ASSUME TypeOK
  PROVE  /\ Unread \in Seq(Byte)
         /\ Len(Unread) = writer - reader
         /\ \A i \in 1 .. writer - reader : Unread[i] = cells[reader + i]
BY BetweenMeans DEF TypeOK, Unread

-----------------------------------------------------------------------------
(* Making room *)

\* EnsureSpace leaves room for the write, keeps the unread bytes, and enlarges
\* the array only when what is unread and the write cannot fit into it.
LEMMA EnsureSpaceMeans ==
  ASSUME TypeOK, NEW len \in Nat
  PROVE  LET s == EnsureSpace(len)
         IN  /\ s.cells \in Seq(Byte) /\ s.reader \in Nat /\ s.writer \in Nat
             /\ s.writer - s.reader = writer - reader
             /\ s.writer + len <= Len(s.cells)
             /\ \A i \in 1 .. writer - reader : s.cells[s.reader + i] = cells[reader + i]
             /\ \/ Len(s.cells) = Len(cells)
                \/ Len(s.cells) < writer - reader + len + len
<1> DEFINE s == EnsureSpace(len)
           n == Len(cells)
<1>1. n \in Nat /\ reader \in Nat /\ writer \in Nat /\ reader <= writer /\ writer <= n
      /\ cells \in Seq(Byte)
  BY DEF TypeOK
<1>2. s = IF n - writer >= len THEN AsItIs
          ELSE IF n - writer + reader >= len
          THEN Storage(CopyTo(cells, 0, Unread), 0, writer - reader)
          ELSE Grown(len)
  BY DEF EnsureSpace, TailIdleSize, HeadIdleSize, ReadAbleSize
<1> HIDE DEF s, n
<1>3. CASE n - writer >= len
  <2>1. s.cells = cells /\ s.reader = reader /\ s.writer = writer
    BY <1>2, <1>3 DEF AsItIs, Storage
  <2>2. writer + len <= n
    BY <1>1, <1>3
  <2> QED BY <1>1, <2>1, <2>2 DEF s, n
<1>4. CASE ~(n - writer >= len) /\ n - writer + reader >= len
  <2> DEFINE c == CopyTo(cells, 0, Unread)
             m == Len(Unread)
  <2>1. s.cells = c /\ s.reader = 0 /\ s.writer = writer - reader
    BY <1>2, <1>4 DEF Storage
  <2>2. Unread \in Seq(Byte) /\ m = writer - reader
        /\ \A i \in 1 .. writer - reader : Unread[i] = cells[reader + i]
    BY UnreadMeans
  <2>3. 0 + m <= n /\ writer - reader \in Nat /\ (writer - reader) + len <= n
    BY <1>1, <1>4, <2>2
  <2>4. c \in Seq(Byte) /\ Len(c) = n /\ \A i \in 1 .. m : c[0 + i] = Unread[i]
    BY <1>1, <2>2, <2>3, CopyToMeans DEF n
  <2> HIDE DEF c, m
  <2>5. \A i \in 1 .. writer - reader : c[0 + i] = cells[reader + i]
    BY <2>2, <2>4
  <2>6. s.cells \in Seq(Byte) /\ s.reader \in Nat /\ s.writer \in Nat /\ Len(s.cells) = n
    BY <2>1, <2>3, <2>4
  <2>7. s.writer - s.reader = writer - reader /\ s.writer + len <= Len(s.cells)
    BY <1>1, <2>1, <2>3, <2>6
  <2> QED BY <2>1, <2>5, <2>6, <2>7 DEF s, n
<1>5. CASE ~(n - writer >= len) /\ ~(n - writer + reader >= len)
  <2> DEFINE c == Resized(cells, writer + len)
  <2>1. s.cells = c /\ s.reader = reader /\ s.writer = writer
    BY <1>2, <1>5 DEF Grown, Storage
  <2>2. writer + len \in Nat /\ n <= writer + len
    BY <1>1, <1>5
  <2>3. c \in Seq(Byte) /\ Len(c) = writer + len /\ \A i \in 1 .. n : c[i] = cells[i]
    BY <1>1, <2>2, ResizedMeans DEF n
  <2> HIDE DEF c
  <2>4. \A i \in 1 .. writer - reader : reader + i \in 1 .. n
    BY <1>1
  <2>5. \A i \in 1 .. writer - reader : c[reader + i] = cells[reader + i]
    BY <2>3, <2>4
  <2>6. writer + len < writer - reader + len + len
    BY <1>1, <1>5
  <2>7. s.writer + len <= Len(s.cells) /\ Len(s.cells) < writer - reader + len + len
    BY <1>1, <2>1, <2>3, <2>6
  <2> QED BY <1>1, <2>1, <2>3, <2>5, <2>7 DEF s
<1> QED BY <1>3, <1>4, <1>5

-----------------------------------------------------------------------------
(* The operations *)

LEMMA StringsAreBytes ==
  ASSUME NEW data \in Strings
  PROVE  data \in Seq(Byte) /\ Len(data) \in 0 .. MaxWrite
<1>1. PICK n \in 0 .. MaxWrite : data \in [1 .. n -> Byte]
  BY DEF Strings
<1>2. n \in Nat
  BY <1>1, SizeAssumption
<1> QED BY <1>1, <1>2

\* A write appends its data to the unread bytes, and keeps the size's bound.
LEMMA WriteAppends ==
  ASSUME TypeOK, NoBloat, NEW data \in Strings, WriteAndPush(data)
  PROVE  TypeOK' /\ NoBloat' /\ Unread' = Unread \o data /\ result' = <<>>
<1> DEFINE s == EnsureSpace(Len(data))
           k == Len(data)
           m == writer - reader
<1>1. data \in Seq(Byte) /\ k \in Nat /\ k <= MaxWrite
  BY StringsAreBytes, SizeAssumption
<1>2. reader \in Nat /\ writer \in Nat /\ reader <= writer /\ cells \in Seq(Byte)
  BY DEF TypeOK
<1>3. /\ s.cells \in Seq(Byte) /\ s.reader \in Nat /\ s.writer \in Nat
      /\ s.writer - s.reader = m
      /\ s.writer + k <= Len(s.cells)
      /\ \A i \in 1 .. m : s.cells[s.reader + i] = cells[reader + i]
      /\ Len(s.cells) = Len(cells) \/ Len(s.cells) < m + k + k
  BY <1>1, EnsureSpaceMeans
<1>4. /\ m + k <= MaxUnread
      /\ cells' = CopyTo(s.cells, s.writer, data)
      /\ reader' = s.reader
      /\ writer' = s.writer + k
      /\ result' = <<>>
  BY DEF WriteAndPush, ReadAbleSize
<1> DEFINE c == CopyTo(s.cells, s.writer, data)
<1>5. /\ c \in Seq(Byte)
      /\ Len(c) = Len(s.cells)
      /\ \A i \in 1 .. k : c[s.writer + i] = data[i]
      /\ \A i \in 1 .. s.writer : c[i] = s.cells[i]
  BY <1>1, <1>3, CopyToMeans
<1> DEFINE n == Len(cells)
           p == Len(c)
<1>6. n \in Nat /\ p \in Nat /\ m \in Nat /\ p = Len(cells')
  BY <1>2, <1>4, <1>5
<1>7. cells' = c /\ s.writer + k <= p /\ (p = n \/ p < m + k + k)
  BY <1>3, <1>4, <1>5
<1> HIDE DEF k, s, c, n, p
<1>8. TypeOK'
  <2>1. reader' \in Nat /\ writer' \in Nat /\ reader' <= writer' /\ writer' <= p
    BY <1>1, <1>3, <1>4, <1>6, <1>7
  <2>2. result' \in Seq(Byte)
    BY <1>4, EmptySeq
  <2> QED BY <1>5, <1>6, <1>7, <2>1, <2>2 DEF TypeOK
<1>9. NoBloat'
  <2>1. n <= BUFFER_SIZE \/ n < MaxUnread + MaxWrite
    BY DEF NoBloat, n
  <2>2. p <= BUFFER_SIZE \/ p < MaxUnread + MaxWrite
    BY <1>1, <1>4, <1>6, <1>7, <2>1, SizeAssumption
  <2> QED BY <1>6, <2>2 DEF NoBloat
<1>11. s.reader \in Nat /\ s.writer \in Nat /\ s.writer = s.reader + m
       /\ m \in Nat /\ k \in Nat
  BY <1>1, <1>3, <1>6
<1>10. Unread' = Unread \o data
  <2> DEFINE u == Unread
             v == Unread'
             w == u \o data
  <2>1. u \in Seq(Byte) /\ Len(u) = m /\ \A i \in 1 .. m : u[i] = cells[reader + i]
    BY UnreadMeans
  <2>2. v \in Seq(Byte) /\ Len(v) = writer' - reader'
        /\ \A i \in 1 .. writer' - reader' : v[i] = cells'[reader' + i]
    BY <1>8, BetweenMeans DEF TypeOK, Unread
  <2>3. w \in Seq(Byte) /\ Len(w) = m + k
        /\ \A i \in 1 .. m + k : w[i] = IF i <= m THEN u[i] ELSE data[i - m]
    <3>1. Len(u) = m /\ Len(data) = k
      BY <2>1 DEF k
    <3> HIDE DEF u, m
    <3>2. /\ w \in Seq(Byte)
          /\ Len(w) = Len(u) + Len(data)
          /\ \A i \in 1 .. Len(u) + Len(data) :
               w[i] = IF i <= Len(u) THEN u[i] ELSE data[i - Len(u)]
      BY <1>1, <2>1, ConcatProperties
    <3> HIDE DEF w
    <3> QED BY <3>1, <3>2
  <2>4. writer' - reader' = m + k
    BY <1>1, <1>3, <1>4, <1>6
  <2> HIDE DEF m, u, v, w
  <2>5. ASSUME NEW i \in 1 .. m + k PROVE v[i] = w[i]
    <3>1. v[i] = c[s.reader + i]
      BY <1>4, <1>7, <2>2, <2>4
    <3>2. CASE i <= m
      <4>1. i \in 1 .. m /\ s.reader + i \in 1 .. s.writer
        BY <1>1, <1>3, <1>6, <3>2
      <4> QED BY <1>3, <1>5, <2>1, <2>3, <3>1, <3>2, <4>1
    <3>3. CASE ~(i <= m)
      <4>1. i - m \in 1 .. k /\ s.reader + i = s.writer + (i - m)
        BY <1>11, <3>3
      <4> QED BY <1>5, <2>3, <3>1, <3>3, <4>1
    <3> QED BY <3>2, <3>3
  <2>6. v = w
    BY <2>2, <2>3, <2>4, <2>5, SeqEqual
  <2> QED BY <2>6 DEF u, v, w
<1> QED BY <1>4, <1>8, <1>9, <1>10

\* A read returns the first unread bytes and leaves the others.
LEMMA ReadTakes ==
  ASSUME TypeOK, NoBloat, NEW len \in Nat, ReadAsStringAndPop(len)
  PROVE  /\ TypeOK' /\ NoBloat'
         /\ len <= Len(Unread)
         /\ result' = SubSeq(Unread, 1, len)
         /\ Unread' = SubSeq(Unread, len + 1, Len(Unread))
<1> DEFINE n == Len(cells)
<1>1. /\ reader \in Nat /\ writer \in Nat /\ reader <= writer /\ writer <= n
      /\ cells \in Seq(Byte) /\ n \in Nat
  BY DEF TypeOK
<1>2. /\ len <= writer - reader
      /\ result' = SubSeq(cells, reader + 1, reader + len)
      /\ reader' = reader + len /\ cells' = cells /\ writer' = writer
  BY DEF ReadAsStringAndPop, ReadAbleSize
<1>3. len <= Len(Unread) /\ Len(Unread) = writer - reader
  BY <1>1, <1>2, UnreadMeans
<1>4. result' = SubSeq(Unread, 1, len)
  <2>1. 0 <= len /\ reader + 0 = reader /\ 0 + 1 = 1
    BY <1>1
  <2>2. SubSeq(SubSeq(cells, reader + 1, writer), 0 + 1, len)
          = SubSeq(cells, reader + 0 + 1, reader + len)
    BY <1>1, <1>2, <2>1, PartOfPart
  <2> QED BY <1>1, <1>2, <2>2 DEF Unread
<1>5. Unread' = SubSeq(Unread, len + 1, Len(Unread))
  <2>1. writer - reader \in Nat /\ reader + (writer - reader) = writer
    BY <1>1
  <2>2. SubSeq(SubSeq(cells, reader + 1, writer), len + 1, writer - reader)
          = SubSeq(cells, reader + len + 1, reader + (writer - reader))
    BY <1>1, <1>2, <2>1, PartOfPart
  <2> QED BY <1>2, <1>3, <2>1, <2>2 DEF Unread
<1>6. TypeOK'
  <2>1. result' \in Seq(Byte)
    BY <1>1, <1>2, BetweenMeans
  <2>2. reader' \in Nat /\ writer' \in Nat /\ reader' <= writer' /\ writer' <= n
    BY <1>1, <1>2
  <2> QED BY <1>1, <1>2, <2>1, <2>2 DEF TypeOK
<1>7. NoBloat'
  BY <1>2 DEF NoBloat
<1> QED BY <1>3, <1>4, <1>5, <1>6, <1>7

\* GetLine takes the bytes up to the first line feed, or nothing.
LEMMA LineTakes ==
  ASSUME TypeOK, NoBloat, GetLine
  PROVE  /\ TypeOK' /\ NoBloat'
         /\ \/ /\ \A i \in 1 .. Len(Unread) : Unread[i] # LF
               /\ result' = <<>> /\ Unread' = Unread
            \/ \E len \in 1 .. Len(Unread) :
                 /\ Unread[len] = LF
                 /\ \A i \in 1 .. len - 1 : Unread[i] # LF
                 /\ result' = SubSeq(Unread, 1, len)
                 /\ Unread' = SubSeq(Unread, len + 1, Len(Unread))
<1>1. writer - reader \in Nat /\ ReadAbleSize = writer - reader
  BY DEF TypeOK, ReadAbleSize
<1>2. Len(Unread) = writer - reader
      /\ \A i \in 1 .. writer - reader : Unread[i] = cells[reader + i]
  BY UnreadMeans
<1>3. CASE \E len \in 1 .. ReadAbleSize : FindCRLF(len) /\ ReadAsStringAndPop(len)
  <2>1. PICK len \in 1 .. writer - reader : FindCRLF(len) /\ ReadAsStringAndPop(len)
    BY <1>1, <1>3
  <2>2. cells[reader + len] = LF /\ \A i \in 1 .. len - 1 : cells[reader + i] # LF
    BY <2>1 DEF FindCRLF
  <2>3. len \in Nat /\ \A i \in 1 .. len - 1 : i \in 1 .. writer - reader
    BY <1>1, <2>1
  <2>4. Unread[len] = LF /\ \A i \in 1 .. len - 1 : Unread[i] # LF
    BY <1>2, <2>1, <2>2, <2>3
  <2> QED BY <1>2, <2>1, <2>3, <2>4, ReadTakes
<1>4. CASE /\ \A i \in 1 .. ReadAbleSize : cells[reader + i] # LF
           /\ result' = <<>>
           /\ UNCHANGED <<cells, reader, writer>>
  <2>1. \A i \in 1 .. Len(Unread) : Unread[i] # LF
    BY <1>1, <1>2, <1>4
  <2>2. TypeOK' /\ NoBloat' /\ Unread' = Unread
    BY <1>4, EmptySeq DEF TypeOK, NoBloat, Unread
  <2> QED BY <1>4, <2>1, <2>2
<1> QED BY <1>3, <1>4 DEF GetLine

\* After clear nothing is unread.
LEMMA ClearDrops ==
  ASSUME TypeOK, NoBloat, clear
  PROVE  TypeOK' /\ NoBloat' /\ Unread' = <<>> /\ result' = <<>>
<1>1. reader' = 0 /\ writer' = 0 /\ cells' = cells /\ result' = <<>>
  BY DEF clear
<1>2. TypeOK'
  BY <1>1, EmptySeq DEF TypeOK
<1>3. NoBloat'
  BY <1>1 DEF NoBloat
<1>4. Unread' = <<>>
  BY <1>1, SubSeqEmpty DEF Unread
<1> QED BY <1>1, <1>2, <1>3, <1>4

-----------------------------------------------------------------------------
(* The theorems *)

Inv == TypeOK /\ NoBloat

LEMMA Initially == Init => Inv /\ Unread = <<>> /\ result = <<>>
<1>. SUFFICES ASSUME Init PROVE Inv /\ Unread = <<>> /\ result = <<>>
  OBVIOUS
<1>1. cells \in Seq(Byte) /\ Len(cells) = BUFFER_SIZE
  BY SizeAssumption, ZeroIsAByte DEF Init
<1>2. reader = 0 /\ writer = 0 /\ result = <<>> /\ result \in Seq(Byte)
  BY EmptySeq DEF Init
<1>3. Unread = <<>>
  BY <1>2, SubSeqEmpty DEF Unread
<1> QED BY <1>1, <1>2, <1>3, SizeAssumption DEF Inv, TypeOK, NoBloat

\* Every step is one of the queue's, or changes nothing of it.
LEMMA StepIsOfTheQueue ==
  ASSUME Inv, [Next]_vars
  PROVE  Inv' /\ [Abstract!Next]_(Abstract!vars)
<1>1. TypeOK /\ NoBloat
  BY DEF Inv
<1>2. ASSUME NEW data \in Strings, WriteAndPush(data)
      PROVE  Inv' /\ Abstract!Next
  <2>1. Inv' /\ Abstract!Write(data)
    BY <1>1, <1>2, WriteAppends DEF Inv, Abstract!Write
  <2>2. data \in Abstract!Strings
    BY DEF Strings, Abstract!Strings
  <2> QED BY <2>1, <2>2 DEF Abstract!Next
<1>3. ASSUME NEW len \in 0 .. ReadAbleSize, ReadAsStringAndPop(len)
      PROVE  Inv' /\ Abstract!Next
  <2>1. len \in Nat
    BY <1>1 DEF TypeOK, ReadAbleSize
  <2>2. Inv' /\ Abstract!Read(len) /\ len <= Len(Unread)
    BY <1>1, <1>3, <2>1, ReadTakes DEF Inv, Abstract!Read
  <2>3. Len(Unread) \in Nat
    BY <1>1, UnreadMeans
  <2>4. len \in 0 .. Len(Unread)
    BY <2>1, <2>2, <2>3
  <2> QED BY <2>2, <2>4 DEF Abstract!Next
<1>4. CASE GetLine
  <2>1. Inv' /\ Abstract!ReadLine
    <3>1. CASE /\ \A i \in 1 .. Len(Unread) : Unread[i] # LF
               /\ result' = <<>> /\ Unread' = Unread
      BY <1>1, <1>4, <3>1, LineTakes DEF Inv, Abstract!ReadLine
    <3>2. CASE \E len \in 1 .. Len(Unread) :
                 /\ Unread[len] = LF
                 /\ \A i \in 1 .. len - 1 : Unread[i] # LF
                 /\ result' = SubSeq(Unread, 1, len)
                 /\ Unread' = SubSeq(Unread, len + 1, Len(Unread))
      <4>1. PICK len \in 1 .. Len(Unread) :
                 /\ Unread[len] = LF
                 /\ \A i \in 1 .. len - 1 : Unread[i] # LF
                 /\ result' = SubSeq(Unread, 1, len)
                 /\ Unread' = SubSeq(Unread, len + 1, Len(Unread))
        BY <3>2
      <4>2. Len(Unread) \in Nat
        BY <1>1, UnreadMeans
      <4>3. len <= Len(Unread)
        BY <4>1, <4>2
      <4>4. Abstract!Read(len)
        BY <4>1, <4>3 DEF Abstract!Read
      <4>5. Abstract!ReadLine
        BY <4>1, <4>4 DEF Abstract!ReadLine
      <4> QED BY <1>1, <1>4, <4>5, LineTakes DEF Inv
    <3> QED BY <1>1, <1>4, <3>1, <3>2, LineTakes
  <2> QED BY <2>1 DEF Abstract!Next
<1>5. CASE clear
  <2>1. Inv' /\ Abstract!Clear
    BY <1>1, <1>5, ClearDrops DEF Inv, Abstract!Clear
  <2> QED BY <2>1 DEF Abstract!Next
<1>6. CASE UNCHANGED vars
  <2>1. Inv' /\ Unread' = Unread /\ result' = result
    BY <1>6 DEF Inv, TypeOK, NoBloat, Unread, vars
  <2> QED BY <2>1 DEF Abstract!vars
<1> QED BY <1>2, <1>3, <1>4, <1>5, <1>6 DEF Next

\* Every operation keeps the offsets in order and inside the array.
THEOREM TypeCorrect == Spec => []TypeOK
<1>1. Inv /\ [Next]_vars => Inv'
  BY StepIsOfTheQueue
<1> QED BY <1>1, Initially, PTL DEF Spec, Inv

\* The array never gets larger than it began, or than the unread bytes and one
\* write: MoveReaderPtr and EnsureSpace together give used space back.
THEOREM BoundedArray == Spec => []NoBloat
<1>1. Inv /\ [Next]_vars => Inv'
  BY StepIsOfTheQueue
<1> QED BY <1>1, Initially, PTL DEF Spec, Inv

\* A Buffer is a queue of bytes, whatever the writes, reads, lines and clears.
THEOREM Refinement == Spec => ImplementsQueue
<1>1. Inv /\ [Next]_vars => Inv'
  BY StepIsOfTheQueue
<1>2. Inv /\ [Next]_vars => [Abstract!Next]_(Abstract!vars)
  BY StepIsOfTheQueue
<1>3. Init => Abstract!Init
  BY Initially DEF Abstract!Init
<1> QED BY <1>1, <1>2, <1>3, Initially, PTL DEF Spec, ImplementsQueue, Abstract!Spec
=============================================================================

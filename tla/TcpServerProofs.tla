-------------------------- MODULE TcpServerProofs --------------------------
(***************************************************************************)
(* Proofs about TcpServer for any number of worker threads, descriptors,   *)
(* connections and waiting calls: the types, and the invariants that tie   *)
(* the table, the task queues, the threads' stacks, the Pollers and the    *)
(* descriptors together, from which the state properties of the module     *)
(* follow.                                                                 *)
(***************************************************************************)
EXTENDS TcpServer, SequenceTheorems, FiniteSetTheorems, TLAPS

(***************************************************************************)
(* The inductive invariant.  Its first half does not look at descriptors   *)
(* and holds whatever is thrown; the second one holds until the catch in   *)
(* NewConnection has closed a descriptor under its owner.                  *)
(***************************************************************************)

Elems(s) == {s[i] : i \in 1 .. Len(s)}
NoRepeat(s) == \A i, j \in 1 .. Len(s) : s[i] = s[j] => i = j

\* A thread is inside of one connection: in a callback, or in a callback in the
\* middle of Release, whose steps are left one by one.
Nested(s) ==
  /\ \A i \in 1 .. Len(s) : s[i].id = s[1].id
  /\ Len(s) <= 4
  /\ Len(s) = 1 => s[1].at \in {"connected", "handler", "catch"}
  /\ Len(s) = 2 => s[1].at = "notify" /\ s[2].at \in {"connected", "handler"}
  /\ Len(s) = 3 => /\ s[1].at = "close" /\ s[2].at = "notify"
                   /\ s[3].at \in {"connected", "handler"}
  /\ Len(s) = 4 => /\ s[1].at = "unregister" /\ s[2].at = "close" /\ s[3].at = "notify"
                   /\ s[4].at \in {"connected", "handler"}

\* ... on the connection's own loop, and the connection is as far as the thread.
Within(l) ==
  LET s == doing[l]
      c == conn[s[1].id]
  IN  s # <<>> =>
        /\ c.loop = l
        /\ Len(s) > 1 => c.statu = "DISCONNECTED"
        /\ s[1].at = "catch" => c.statu = "destroyed"
        /\ s[1].at \in {"connected", "handler"} => c.statu \in {"CONNECTED", "DISCONNECTED"}

Stacks == \A l \in AllLoops : Nested(doing[l]) /\ Within(l)

\* Connections to be made wait with their workers, one lambda for each;
\* removals wait on the main loop, of connections that have ended.
Handed ==
  /\ \A t \in Elems(queue[Main]) :
       t.kind # "new" /\ (t.kind = "remove" => conn[t.id].statu = "DISCONNECTED")
  /\ \A l \in AllLoops \ {Main} :
       /\ NoRepeat(queue[l])
       /\ \A t \in Elems(queue[l]) :
            t.kind = "new" /\ conn[t.id].statu = "accepted" /\ conn[t.id].loop = l

\* Ids are drawn in order, and the waiting calls will find theirs.
Counted ==
  /\ Drawn <= MaxIds
  /\ \A id \in Ids : id >= countId => conn[id].statu = "none"
  /\ \A id \in Ids : conn[id].statu = "none" => ~conn[id].sock

\* Before there are workers none is next.
PoolFresh == pool.created = 0 => pool.next = 0

Ledger ==
  /\ TypeOK
  /\ PoolFresh
  /\ Stacks
  /\ Handed
  /\ Counted
  /\ Registered
  /\ TimersDistinct

\* A connection owns its descriptor from accept to close.
Owns(id) == conn[id].statu = "accepted" \/ conn[id].sock

\* The thread of l has yet to take connection id out of its Poller.
Unregistering(l, id) == Len(doing[l]) = 4 /\ doing[l][1].id = id

Descriptors ==
  /\ \A id \in Ids : Owns(id) => conn[id].fd \in open
  /\ \A a, b \in Ids : Owns(a) /\ Owns(b) /\ conn[a].fd = conn[b].fd => a = b
  /\ \A fd \in open : \E id \in Ids : Owns(id) /\ conn[id].fd = fd

Entries ==
  /\ \A l \in AllLoops, fd \in Fd, id \in Ids :
       poller[l][fd] = id =>
         /\ conn[id].loop = l /\ conn[id].fd = fd /\ conn[id].sock
         /\ conn[id].statu = "CONNECTED" \/ Unregistering(l, id)
  /\ \A id \in Ids : conn[id].statu = "CONNECTED" =>
       conn[id].sock /\ poller[conn[id].loop][conn[id].fd] = id

\* The thread of l closes the descriptor it is about to close, or inside the
\* catch, which has been reached then.
Closings ==
  \A l \in AllLoops :
    /\ Len(doing[l]) >= 3 => conn[doing[l][1].id].sock
    /\ Len(doing[l]) = 1 => doing[l][1].at # "catch"

Belongings == ~caught => Descriptors /\ Entries /\ Closings

Inv == Ledger /\ Belongings

-----------------------------------------------------------------------------
(* Sequences: what a queue or a stack holds *)

LEMMA ElemsAppend ==
  ASSUME NEW S, NEW s \in Seq(S), NEW e \in S
  PROVE  /\ Append(s, e) \in Seq(S)
         /\ Elems(Append(s, e)) = Elems(s) \cup {e}
         /\ NoRepeat(s) /\ e \notin Elems(s) => NoRepeat(Append(s, e))
<1>. DEFINE t == Append(s, e)
<1>1. /\ t \in Seq(S) /\ Len(t) = Len(s) + 1 /\ Len(s) \in Nat
      /\ \A i \in 1 .. Len(s) : t[i] = s[i]
      /\ t[Len(s) + 1] = e
  OBVIOUS
<1>. HIDE DEF t
<1>2. \A i \in 1 .. Len(t) : i \in 1 .. Len(s) \/ i = Len(s) + 1
  BY <1>1
<1>3. \A i \in 1 .. Len(s) : i \in 1 .. Len(t)
  BY <1>1
<1>4. Len(s) + 1 \in 1 .. Len(t)
  BY <1>1
<1>5. Elems(t) = Elems(s) \cup {e}
  BY <1>1, <1>2, <1>3, <1>4 DEF Elems
<1>6. NoRepeat(s) /\ e \notin Elems(s) => NoRepeat(t)
  BY <1>1, <1>2 DEF NoRepeat, Elems
<1>. QED BY <1>1, <1>5, <1>6 DEF t

LEMMA ElemsTail ==
  ASSUME NEW S, NEW s \in Seq(S), s # <<>>
  PROVE  /\ Tail(s) \in Seq(S)
         /\ Len(Tail(s)) = Len(s) - 1
         /\ \A i \in 1 .. Len(Tail(s)) : Tail(s)[i] = s[i + 1]
         /\ Head(s) = s[1] /\ Head(s) \in S /\ Head(s) \in Elems(s)
         /\ Elems(Tail(s)) \subseteq Elems(s)
         /\ Elems(s) = Elems(Tail(s)) \cup {Head(s)}
         /\ NoRepeat(s) => NoRepeat(Tail(s)) /\ Head(s) \notin Elems(Tail(s))
<1>. DEFINE t == Tail(s)
            n == Len(s)
<1>1. t \in Seq(S) /\ Len(t) = n - 1 /\ \A i \in 1 .. Len(t) : t[i] = s[i + 1]
  OBVIOUS
<1>2. n \in Nat /\ n > 0
  BY EmptySeq
<1>3. Head(s) = s[1] /\ s[1] \in S
  BY <1>2
<1>. HIDE DEF t, n
<1>4. \A i \in 1 .. Len(t) : i + 1 \in 1 .. n /\ i + 1 # 1
  BY <1>1, <1>2
<1>5. \A i \in 1 .. n : i = 1 \/ (i - 1 \in 1 .. Len(t) /\ (i - 1) + 1 = i)
  BY <1>1, <1>2
<1>6. 1 \in 1 .. n
  BY <1>2
<1>7. Elems(t) \subseteq Elems(s) /\ s[1] \in Elems(s)
  BY <1>1, <1>4, <1>6 DEF Elems, n
<1>8. Elems(s) \subseteq Elems(t) \cup {s[1]}
  <2>1. SUFFICES ASSUME NEW i \in 1 .. n PROVE s[i] \in Elems(t) \cup {s[1]}
    BY DEF Elems, n
  <2>2. CASE i - 1 \in 1 .. Len(t)
    BY <1>1, <1>5, <2>2 DEF Elems
  <2>. QED BY <1>5, <2>2
<1>9. ASSUME NoRepeat(s) PROVE NoRepeat(t) /\ s[1] \notin Elems(t)
  <2>1. \A i, j \in 1 .. n : s[i] = s[j] => i = j
    BY <1>9 DEF NoRepeat, n
  <2>2. \A i, j \in 1 .. Len(t) : i + 1 = j + 1 => i = j
    BY <1>1
  <2>3. NoRepeat(t)
    BY <1>1, <1>4, <2>1, <2>2 DEF NoRepeat
  <2>4. ASSUME NEW i \in 1 .. Len(t) PROVE t[i] # s[1]
    BY <1>1, <1>4, <1>6, <2>1
  <2>. QED BY <2>3, <2>4 DEF Elems
<1>10. Elems(s) = Elems(t) \cup {s[1]}
  BY <1>7, <1>8
<1>. QED BY <1>1, <1>3, <1>7, <1>9, <1>10 DEF t, n

LEMMA ElemsEmpty == Elems(<<>>) = {} /\ NoRepeat(<<>>)
BY DEF Elems, NoRepeat

LEMMA ElemsOf == ASSUME NEW S, NEW s \in Seq(S), NEW e
                 PROVE  /\ Elems(s) \subseteq S
                        /\ e \in Elems(s) <=> \E i \in 1 .. Len(s) : s[i] = e
BY DEF Elems

LEMMA Depth ==
  ASSUME NEW s \in Seq(Frame), Nested(s)
  PROVE  /\ Len(s) = 0 \/ Len(s) = 1 \/ Len(s) = 2 \/ Len(s) = 3 \/ Len(s) = 4
         /\ s # <<>> <=> Len(s) # 0
         /\ s # <<>> => s[1] \in Frame /\ Head(s) = s[1] /\ s[1].id \in Ids
<1>. DEFINE n == Len(s)
<1>1. n \in Nat /\ (s # <<>> <=> n # 0)
  BY EmptySeq
<1>2. n <= 4
  BY DEF Nested
<1>3. n > 0 => s[1] \in Frame /\ Head(s) = s[1]
  OBVIOUS
<1>4. \A f \in Frame : f.id \in Ids
  BY DEF Frame
<1>. HIDE DEF n
<1>5. n = 0 \/ n = 1 \/ n = 2 \/ n = 3 \/ n = 4
  BY <1>1, <1>2
<1>6. n # 0 => n > 0
  BY <1>1
<1>. QED BY <1>1, <1>3, <1>4, <1>5, <1>6 DEF n

\* A thread leaves what it is inside of.
LEMMA PopFrame ==
  ASSUME NEW s \in Seq(Frame), s # <<>>, Nested(s)
  PROVE  LET t == Tail(s)
         IN  /\ t \in Seq(Frame) /\ Len(t) = Len(s) - 1 /\ Nested(t)
             /\ \A i \in 1 .. Len(t) : t[i] = s[i + 1]
             /\ t # <<>> => /\ Len(s) > 1 /\ t[1].id = s[1].id
                            /\ Len(s) = 2 => t[1].at \in {"connected", "handler"}
                            /\ Len(s) = 3 => t[1].at = "notify"
                            /\ Len(s) = 4 => t[1].at = "close"
             /\ Elems(s) = Elems(t) \cup {s[1]}
<1>. DEFINE t == Tail(s)
            n == Len(s)
<1>1. /\ t \in Seq(Frame) /\ Len(t) = n - 1 /\ \A i \in 1 .. Len(t) : t[i] = s[i + 1]
      /\ Elems(s) = Elems(t) \cup {s[1]}
  BY ElemsTail
<1>2. n \in Nat /\ n > 0 /\ n <= 4
  BY EmptySeq DEF Nested
<1>3. t # <<>> => Len(t) > 0
  BY <1>1, EmptySeq
<1>. HIDE DEF t
<1>4. \A i \in 1 .. n : s[i].id = s[1].id
  BY DEF Nested
<1>. HIDE DEF n
<1>5. \A i \in 1 .. Len(t) : i + 1 \in 1 .. n
  BY <1>1, <1>2
<1>6. CASE n = 1
  <2>1. Len(t) = 0
    BY <1>1, <1>6
  <2>2. \A i \in 1 .. Len(t) : FALSE
    BY <2>1
  <2>3. Nested(t)
    BY <2>1, <2>2 DEF Nested
  <2>4. t = <<>>
    BY <1>3, <2>1
  <2>. QED BY <1>1, <2>3, <2>4 DEF t, n
<1>7. CASE n > 1
  <2>1. 1 \in 1 .. Len(t) /\ t[1] = s[2] /\ 2 \in 1 .. n
    BY <1>1, <1>2, <1>7
  <2>2. t[1].id = s[1].id
    BY <1>4, <2>1
  <2>3. \A i \in 1 .. Len(t) : t[i].id = t[1].id
    BY <1>1, <1>4, <1>5, <2>2
  <2>4. n = 2 => t[1].at \in {"connected", "handler"}
    BY <2>1 DEF Nested, n
  <2>5. n = 3 => t[1].at = "notify" /\ t[2].at \in {"connected", "handler"}
    BY <1>1, <2>1 DEF Nested, n
  <2>6. n = 4 => /\ t[1].at = "close" /\ t[2].at = "notify"
                 /\ t[3].at \in {"connected", "handler"}
    BY <1>1, <2>1 DEF Nested, n
  <2>7. Len(t) = n - 1 /\ (n = 2 \/ n = 3 \/ n = 4)
    BY <1>1, <1>2, <1>7
  <2>8. Nested(t)
    BY <2>3, <2>4, <2>5, <2>6, <2>7 DEF Nested
  <2>. QED BY <1>1, <1>7, <2>2, <2>4, <2>5, <2>6, <2>8 DEF t, n
<1>. QED BY <1>2, <1>6, <1>7

\* It enters a callback.
LEMMA PushFrame ==
  ASSUME NEW f \in Frame, f.at \in {"connected", "handler", "catch"}
  PROVE  LET t == <<f>> \o <<>>
         IN  t \in Seq(Frame) /\ Len(t) = 1 /\ t[1] = f /\ Nested(t) /\ Elems(t) = {f}
<1>. DEFINE t == <<f>> \o <<>>
<1>1. t \in Seq(Frame) /\ Len(t) = 1 /\ t[1] = f
  OBVIOUS
<1>. HIDE DEF t
<1>2. \A i \in 1 .. Len(t) : i = 1
  BY <1>1
<1>3. Nested(t) /\ Elems(t) = {f}
  BY <1>1, <1>2 DEF Nested, Elems
<1>. QED BY <1>1, <1>3 DEF t

Steps(id) == [i \in 1 .. 3 |-> [at |-> ReleaseSteps[i], id |-> id]]

\* It begins a Release.
LEMMA PushRelease ==
  ASSUME NEW s \in Seq(Frame), Nested(s), s # <<>>, s[1].at \in {"connected", "handler"}
  PROVE  LET id == s[1].id
             t == Steps(id) \o s
         IN  /\ id \in Ids
             /\ t \in Seq(Frame) /\ Len(s) = 1 /\ Len(t) = 4 /\ Nested(t)
             /\ t[1] = [at |-> "unregister", id |-> id]
             /\ Elems(t) = Elems(s) \cup {[at |-> "unregister", id |-> id],
                  [at |-> "close", id |-> id], [at |-> "notify", id |-> id]}
<1>. DEFINE id == s[1].id
            r == Steps(id)
            t == r \o s
<1>1. Len(s) = 1 /\ s[1] \in Frame
  <2>1. Len(s) # 2 /\ Len(s) # 3 /\ Len(s) # 4
    BY DEF Nested
  <2>. QED BY <2>1, Depth
<1>2. id \in Ids
  BY <1>1 DEF Frame
<1>. HIDE DEF id
<1>3. /\ r \in Seq(Frame) /\ Len(r) = 3 /\ r[1] = [at |-> "unregister", id |-> id]
      /\ r[2] = [at |-> "close", id |-> id] /\ r[3] = [at |-> "notify", id |-> id]
  <2>1. \A i \in 1 .. 3 : [at |-> ReleaseSteps[i], id |-> id] \in Frame
    BY <1>2 DEF Frame, ReleaseSteps
  <2>2. r \in Seq(Frame) /\ Len(r) = 3
    BY <2>1 DEF Steps
  <2>. QED BY <2>2 DEF Steps, ReleaseSteps
<1>. HIDE DEF r
<1>4. /\ t \in Seq(Frame) /\ Len(t) = 4
      /\ t[1] = r[1] /\ t[2] = r[2] /\ t[3] = r[3] /\ t[4] = s[1]
  <2>1. /\ t \in Seq(Frame) /\ Len(t) = Len(r) + Len(s)
        /\ \A i \in 1 .. Len(r) + Len(s) :
             t[i] = IF i <= Len(r) THEN r[i] ELSE s[i - Len(r)]
    BY <1>3, ConcatProperties
  <2>2. Len(r) + Len(s) = 4 /\ Len(r) = 3
    BY <1>1, <1>3
  <2>3. \A i \in 1 .. 4 : t[i] = IF i <= 3 THEN r[i] ELSE s[i - 3]
    BY <2>1, <2>2
  <2>. HIDE DEF t
  <2>4. t[1] = r[1] /\ t[2] = r[2] /\ t[3] = r[3] /\ t[4] = s[4 - 3]
    BY <2>3
  <2>. QED BY <2>1, <2>2, <2>4
<1>. HIDE DEF t
<1>5. \A i \in 1 .. 4 : i = 1 \/ i = 2 \/ i = 3 \/ i = 4
  OBVIOUS
<1>6. \A i \in 1 .. 4 : t[i].id = id
  BY <1>3, <1>4, <1>5 DEF id
<1>7. Nested(t)
  BY <1>3, <1>4, <1>6 DEF Nested
<1>8. Elems(s) = {s[1]}
  <2>1. \A i \in 1 .. Len(s) : i = 1
    BY <1>1
  <2>. QED BY <1>1, <2>1 DEF Elems
<1>9. Elems(t) = {t[1], t[2], t[3], t[4]}
  BY <1>4, <1>5 DEF Elems
<1>. QED BY <1>1, <1>2, <1>3, <1>4, <1>7, <1>8, <1>9 DEF t, r, id

\* How far a thread is tells what it is inside of.
LEMMA InsideDepth ==
  ASSUME NEW l, doing[l] \in Seq(Frame), Nested(doing[l])
  PROVE  LET s == doing[l]
         IN  /\ s # <<>> <=> Len(s) > 0
             /\ s # <<>> => s[1] \in Frame /\ Head(s) = s[1] /\ Current(l) = s[1].id
                            /\ s[1].id \in Ids
             /\ \A at : Inside(l, at) <=> s # <<>> /\ s[1].at = at
             /\ Inside(l, "unregister") <=> Len(s) = 4
             /\ Inside(l, "close") <=> Len(s) = 3
             /\ Inside(l, "notify") <=> Len(s) = 2
<1>. DEFINE s == doing[l]
            n == Len(s)
<1>1. n \in Nat /\ (s # <<>> <=> n > 0)
  BY EmptySeq
<1>2. /\ s # <<>> => s[1] \in Frame /\ Head(s) = s[1] /\ s[1].id \in Ids
      /\ n = 0 \/ n = 1 \/ n = 2 \/ n = 3 \/ n = 4
  BY Depth
<1>. HIDE DEF n, s
<1>4. /\ n = 1 => s[1].at \in {"connected", "handler", "catch"}
      /\ n = 2 => s[1].at = "notify"
      /\ n = 3 => s[1].at = "close"
      /\ n = 4 => s[1].at = "unregister"
  BY DEF Nested, n, s
<1>5. \A at : Inside(l, at) <=> s # <<>> /\ s[1].at = at
  BY <1>2 DEF Inside, s
<1>6. /\ Inside(l, "unregister") <=> n = 4
      /\ Inside(l, "close") <=> n = 3
      /\ Inside(l, "notify") <=> n = 2
  BY <1>1, <1>2, <1>4, <1>5
<1>. QED BY <1>1, <1>2, <1>5, <1>6 DEF Current, n, s

\* The calls that wait in a queue, by their places in it.
Afters(q) == {i \in 1 .. Len(q) : q[i].kind = "after"}

LEMMA AftersFinite ==
  ASSUME NEW S, NEW q \in Seq(S)
  PROVE  /\ IsFiniteSet(Afters(q))
         /\ Cardinality(Afters(q)) \in Nat
<1>1. Len(q) \in Nat
  OBVIOUS
<1>2. IsFiniteSet(1 .. Len(q))
  BY <1>1, FS_Interval
<1>3. Afters(q) \in SUBSET (1 .. Len(q))
  BY DEF Afters
<1>. QED BY <1>2, <1>3, FS_Subset, FS_CardinalityType

LEMMA AftersAppend ==
  ASSUME NEW S, NEW q \in Seq(S), NEW t \in S
  PROVE  Cardinality(Afters(Append(q, t))) =
           Cardinality(Afters(q)) + IF t.kind = "after" THEN 1 ELSE 0
<1>. DEFINE r == Append(q, t)
            n == Len(q)
<1>1. /\ n \in Nat /\ Len(r) = n + 1 /\ r[n + 1] = t
      /\ \A i \in 1 .. n : r[i] = q[i]
  OBVIOUS
<1>. HIDE DEF r
<1>2. n + 1 \notin Afters(q)
  BY <1>1 DEF Afters
<1>. HIDE DEF n
<1>3. \A i : i \in 1 .. n + 1 <=> i \in 1 .. n \/ i = n + 1
  BY <1>1
<1>4. Afters(r) = IF t.kind = "after" THEN Afters(q) \cup {n + 1} ELSE Afters(q)
  BY <1>1, <1>3 DEF Afters, n
<1>5. CASE t.kind = "after"
  BY <1>2, <1>4, <1>5, AftersFinite, FS_AddElement DEF r
<1>6. CASE t.kind # "after"
  BY <1>4, <1>6, AftersFinite DEF r
<1>. QED BY <1>5, <1>6

LEMMA AftersTail ==
  ASSUME NEW S, NEW q \in Seq(S), q # <<>>
  PROVE  Cardinality(Afters(q)) =
           Cardinality(Afters(Tail(q))) + IF Head(q).kind = "after" THEN 1 ELSE 0
<1>. DEFINE r == Tail(q)
            n == Len(q)
            A == Afters(q) \ {1}
            f == [i \in Afters(r) |-> i + 1]
<1>1. /\ r \in Seq(S) /\ Len(r) = n - 1 /\ Head(q) = q[1]
      /\ \A i \in 1 .. Len(r) : r[i] = q[i + 1]
  BY ElemsTail
<1>2. n \in Nat /\ n > 0
  BY EmptySeq
<1>. HIDE DEF r
<1>3. \A i \in Afters(r) : i \in Nat /\ i + 1 \in A
  <2>. SUFFICES ASSUME NEW i \in Afters(r) PROVE i \in Nat /\ i + 1 \in A
    OBVIOUS
  <2>1. i \in 1 .. Len(r) /\ r[i].kind = "after"
    BY DEF Afters
  <2>2. i \in Nat /\ i + 1 \in 1 .. n /\ i + 1 # 1
    BY <1>1, <1>2, <2>1
  <2>. QED BY <1>1, <2>1, <2>2 DEF Afters
<1>4. \A k \in A : k \in Nat /\ k - 1 \in Afters(r) /\ (k - 1) + 1 = k
  <2>. SUFFICES ASSUME NEW k \in A PROVE k \in Nat /\ k - 1 \in Afters(r) /\ (k - 1) + 1 = k
    OBVIOUS
  <2>1. k \in 1 .. n /\ k # 1 /\ q[k].kind = "after"
    BY DEF Afters
  <2>2. k \in Nat /\ k - 1 \in 1 .. Len(r) /\ (k - 1) + 1 = k
    BY <1>1, <1>2, <2>1
  <2>. QED BY <1>1, <2>1, <2>2 DEF Afters
<1>. HIDE DEF A
<1>5. f \in Bijection(Afters(r), A)
  <2>1. f \in [Afters(r) -> A]
    BY <1>3
  <2>2. \A i, j \in Afters(r) : f[i] = f[j] => i = j
    BY <1>3
  <2>3. \A k \in A : \E i \in Afters(r) : f[i] = k
    BY <1>4
  <2>. QED BY <2>1, <2>2, <2>3 DEF Bijection, Injection, Surjection, IsInjective
<1>6. IsFiniteSet(Afters(r)) /\ IsFiniteSet(Afters(q))
      /\ Cardinality(Afters(q)) \in Nat
  BY <1>1, AftersFinite
<1>. HIDE DEF f
<1>7. Cardinality(A) = Cardinality(Afters(r))
  BY <1>5, <1>6, FS_Bijection DEF ExistsBijection
<1>8. Cardinality(A) = IF 1 \in Afters(q) THEN Cardinality(Afters(q)) - 1
                                          ELSE Cardinality(Afters(q))
  BY <1>6, FS_RemoveElement DEF A
<1>9. 1 \in Afters(q) <=> Head(q).kind = "after"
  BY <1>1, <1>2 DEF Afters
<1>. QED BY <1>6, <1>7, <1>8, <1>9 DEF r

-----------------------------------------------------------------------------
(* What the steps do to queues, stacks and the count *)

LEMMA LoopFacts ==
  /\ Main \in AllLoops
  /\ TypeOK => Loops \subseteq AllLoops
  /\ TypeOK => \A l \in Loops \ {Main} : l \in 0 .. pool.created - 1
BY BoundAssumption DEF AllLoops, Loops, Workers, TypeOK

LEMMA TaskFacts ==
  /\ \A t \in Task : t.kind \in {"new", "remove"} =>
       t.id \in Ids /\ t = [kind |-> t.kind, id |-> t.id]
  /\ \A id \in Ids : [kind |-> "new", id |-> id] \in Task
                     /\ [kind |-> "remove", id |-> id] \in Task
  /\ [kind |-> "after"] \in Task /\ [kind |-> "stop"] \in Task
BY DEF Task

LEMMA FrameFacts ==
  \A id \in Ids : /\ [at |-> "connected", id |-> id] \in Frame
                  /\ [at |-> "handler", id |-> id] \in Frame
                  /\ [at |-> "catch", id |-> id] \in Frame
BY DEF Frame

\* The loop l is handed a task.
LEMMA Hands ==
  ASSUME TypeOK, NEW l \in AllLoops, NEW t \in Task, queue' = Queued(queue, l, t)
  PROVE  /\ queue' \in [AllLoops -> Seq(Task)]
         /\ \A k \in AllLoops \ {l} : queue'[k] = queue[k]
         /\ Elems(queue'[l]) = Elems(queue[l]) \cup {t}
         /\ NoRepeat(queue[l]) /\ t \notin Elems(queue[l]) => NoRepeat(queue'[l])
         /\ WaitingAfters \in Nat
         /\ WaitingAfters' = WaitingAfters + IF l = Main /\ t.kind = "after" THEN 1 ELSE 0
<1>1. queue \in [AllLoops -> Seq(Task)]
  BY DEF TypeOK
<1>2. /\ queue'[l] = Append(queue[l], t)
      /\ \A k \in AllLoops \ {l} : queue'[k] = queue[k]
      /\ queue' \in [AllLoops -> Seq(Task)]
  BY <1>1 DEF Queued
<1>3. /\ Elems(queue'[l]) = Elems(queue[l]) \cup {t}
      /\ NoRepeat(queue[l]) /\ t \notin Elems(queue[l]) => NoRepeat(queue'[l])
  BY <1>1, <1>2, ElemsAppend
<1>4. WaitingAfters = Cardinality(Afters(queue[Main]))
      /\ WaitingAfters' = Cardinality(Afters(queue'[Main]))
  BY DEF WaitingAfters, Afters
<1>5. WaitingAfters \in Nat
  BY <1>1, <1>4, LoopFacts, AftersFinite
<1>6. WaitingAfters' = WaitingAfters + IF l = Main /\ t.kind = "after" THEN 1 ELSE 0
  <2>1. CASE l = Main
    BY <1>1, <1>2, <1>4, <2>1, AftersAppend
  <2>2. CASE l # Main
    BY <1>2, <1>4, <1>5, <2>2, LoopFacts
  <2>. QED BY <2>1, <2>2
<1>. QED BY <1>2, <1>3, <1>5, <1>6

\* The loop l takes a task.
LEMMA Takes ==
  ASSUME TypeOK, NEW l \in AllLoops, queue[l] # <<>>, queue' = Dequeued(l)
  PROVE  /\ queue' \in [AllLoops -> Seq(Task)]
         /\ Head(queue[l]) \in Task
         /\ \A k \in AllLoops \ {l} : queue'[k] = queue[k]
         /\ Elems(queue[l]) = Elems(queue'[l]) \cup {Head(queue[l])}
         /\ NoRepeat(queue[l]) =>
              NoRepeat(queue'[l]) /\ Head(queue[l]) \notin Elems(queue'[l])
         /\ WaitingAfters' \in Nat
         /\ WaitingAfters = WaitingAfters' +
              IF l = Main /\ Head(queue[l]).kind = "after" THEN 1 ELSE 0
<1>1. queue \in [AllLoops -> Seq(Task)] /\ queue[l] \in Seq(Task)
  BY DEF TypeOK
<1>2. /\ queue'[l] = Tail(queue[l])
      /\ \A k \in AllLoops \ {l} : queue'[k] = queue[k]
      /\ queue' \in [AllLoops -> Seq(Task)]
  BY <1>1, ElemsTail DEF Dequeued
<1>3. /\ Elems(queue[l]) = Elems(queue'[l]) \cup {Head(queue[l])}
      /\ Head(queue[l]) \in Task
      /\ NoRepeat(queue[l]) =>
           NoRepeat(queue'[l]) /\ Head(queue[l]) \notin Elems(queue'[l])
  BY <1>1, <1>2, ElemsTail
<1>4. WaitingAfters = Cardinality(Afters(queue[Main]))
      /\ WaitingAfters' = Cardinality(Afters(queue'[Main]))
  BY DEF WaitingAfters, Afters
<1>5. WaitingAfters' \in Nat
  BY <1>2, <1>4, LoopFacts, AftersFinite
<1>6. WaitingAfters = WaitingAfters' +
        IF l = Main /\ Head(queue[l]).kind = "after" THEN 1 ELSE 0
  <2>1. CASE l = Main
    BY <1>1, <1>2, <1>4, <2>1, AftersTail
  <2>2. CASE l # Main
    BY <1>2, <1>4, <1>5, <2>2, LoopFacts
  <2>. QED BY <2>1, <2>2
<1>. QED BY <1>2, <1>3, <1>5, <1>6

LEMMA WaitingIsNat == TypeOK => WaitingAfters \in Nat
<1>1. WaitingAfters = Cardinality(Afters(queue[Main]))
  BY DEF WaitingAfters, Afters
<1>2. TypeOK => queue[Main] \in Seq(Task)
  BY LoopFacts DEF TypeOK
<1>. QED BY <1>1, <1>2, AftersFinite

\* The thread of loop l leaves what it is inside of.
LEMMA Leaves ==
  ASSUME TypeOK, Stacks, NEW l \in AllLoops, doing[l] # <<>>, Leave(l)
  PROVE  /\ doing' \in [AllLoops -> Seq(Frame)]
         /\ \A k \in AllLoops \ {l} : doing'[k] = doing[k]
         /\ Nested(doing'[l]) /\ Len(doing'[l]) = Len(doing[l]) - 1
         /\ Elems(doing[l]) = Elems(doing'[l]) \cup {doing[l][1]}
         /\ doing'[l] # <<>> => /\ Len(doing[l]) > 1
                                /\ doing'[l][1].id = doing[l][1].id
                                /\ doing'[l][1].at # "catch"
<1>1. doing[l] \in Seq(Frame) /\ Nested(doing[l]) /\ doing \in [AllLoops -> Seq(Frame)]
  BY DEF TypeOK, Stacks
<1>2. Tail(doing[l]) \in Seq(Frame)
  BY <1>1, PopFrame
<1>3. /\ doing'[l] = Tail(doing[l])
      /\ \A k \in AllLoops \ {l} : doing'[k] = doing[k]
      /\ doing' \in [AllLoops -> Seq(Frame)]
  BY <1>1, <1>2 DEF Leave
<1>4. Len(doing[l]) > 1 => Len(doing[l]) = 2 \/ Len(doing[l]) = 3 \/ Len(doing[l]) = 4
  <2>. DEFINE n == Len(doing[l])
  <2>1. n = 0 \/ n = 1 \/ n = 2 \/ n = 3 \/ n = 4
    BY <1>1, Depth
  <2>. HIDE DEF n
  <2>2. n > 1 => n = 2 \/ n = 3 \/ n = 4
    BY <2>1
  <2>. QED BY <2>2 DEF n
<1>. QED BY <1>1, <1>3, <1>4, PopFrame

\* It enters a callback.
LEMMA Enters ==
  ASSUME TypeOK, NEW l \in AllLoops, doing[l] = <<>>, NEW f \in Frame,
         f.at \in {"connected", "handler", "catch"}, Enter(l, <<f>>)
  PROVE  /\ doing' \in [AllLoops -> Seq(Frame)]
         /\ \A k \in AllLoops \ {l} : doing'[k] = doing[k]
         /\ Nested(doing'[l]) /\ Len(doing'[l]) = 1 /\ doing'[l][1] = f
         /\ Elems(doing'[l]) = {f}
<1>1. doing \in [AllLoops -> Seq(Frame)]
  BY DEF TypeOK
<1>2. /\ doing'[l] = <<f>> \o <<>>
      /\ \A k \in AllLoops \ {l} : doing'[k] = doing[k]
  BY <1>1 DEF Enter
<1>3. /\ doing'[l] \in Seq(Frame) /\ Nested(doing'[l]) /\ Len(doing'[l]) = 1
      /\ doing'[l][1] = f /\ Elems(doing'[l]) = {f}
  BY <1>2, PushFrame
<1>4. doing' \in [AllLoops -> Seq(Frame)]
  BY <1>1, <1>3 DEF Enter
<1>. QED BY <1>2, <1>3, <1>4

\* The connection a thread is inside of lives on that loop, and is there.
LEMMA FrameOwner ==
  ASSUME TypeOK, Stacks, NEW l \in AllLoops, doing[l] # <<>>
  PROVE  LET id == doing[l][1].id
         IN  /\ id \in Ids /\ conn[id].loop = l
             /\ conn[id].statu \in {"CONNECTED", "DISCONNECTED", "destroyed"}
             /\ \A f \in Elems(doing[l]) : f.id = id
<1>1. doing[l] \in Seq(Frame) /\ Nested(doing[l]) /\ Within(l)
  BY DEF TypeOK, Stacks
<1>2. doing[l][1].id \in Ids
  BY <1>1, Depth
<1>3. \A f \in Elems(doing[l]) : f.id = doing[l][1].id
  BY <1>1 DEF Nested, Elems
<1>4. Len(doing[l]) = 1 \/ Len(doing[l]) > 1
  BY <1>1, Depth
<1>5. Len(doing[l]) = 1 => doing[l][1].at \in {"connected", "handler", "catch"}
  BY <1>1 DEF Nested
<1>. QED BY <1>1, <1>2, <1>3, <1>4, <1>5 DEF Within

LEMMA Has == \A s, e : e \in Elems(s) <=> \E i \in 1 .. Len(s) : s[i] = e
BY DEF Elems

Notifying(id) == [at |-> "notify", id |-> id]
Cancelling(id) == [at |-> "unregister", id |-> id]
Removing(id) == [kind |-> "remove", id |-> id]

\* What is under way, now and after the step.
LEMMA UnderWay ==
  ASSUME NEW id
  PROVE  /\ RemovalUnderWay(id) <=> \/ Notifying(id) \in Elems(doing[conn[id].loop])
                                    \/ Removing(id) \in Elems(queue[Main])
         /\ RemovalUnderWay(id)' <=> \/ Notifying(id) \in Elems(doing'[conn'[id].loop])
                                     \/ Removing(id) \in Elems(queue'[Main])
         /\ CancelUnderWay(id) <=> Cancelling(id) \in Elems(doing[conn[id].loop])
         /\ CancelUnderWay(id)' <=> Cancelling(id) \in Elems(doing'[conn'[id].loop])
<1>. DEFINE e == Notifying(id)
            f == Removing(id)
            g == Cancelling(id)
<1>1. RemovalUnderWay(id) <=> \/ \E i \in 1 .. Len(doing[conn[id].loop]) :
                                   doing[conn[id].loop][i] = e
                              \/ \E i \in 1 .. Len(queue[Main]) : queue[Main][i] = f
  BY DEF RemovalUnderWay, Notifying, Removing
<1>2. RemovalUnderWay(id)' <=> \/ \E i \in 1 .. Len(doing'[conn'[id].loop]) :
                                    doing'[conn'[id].loop][i] = e
                               \/ \E i \in 1 .. Len(queue'[Main]) : queue'[Main][i] = f
  BY DEF RemovalUnderWay, Notifying, Removing
<1>3. CancelUnderWay(id) <=> \E i \in 1 .. Len(doing[conn[id].loop]) :
                               doing[conn[id].loop][i] = g
  BY DEF CancelUnderWay, Cancelling
<1>4. CancelUnderWay(id)' <=> \E i \in 1 .. Len(doing'[conn'[id].loop]) :
                                doing'[conn'[id].loop][i] = g
  BY DEF CancelUnderWay, Cancelling
<1>. HIDE DEF e, f, g
<1>5. QED BY <1>1, <1>2, <1>3, <1>4, Has DEF e, f, g

-----------------------------------------------------------------------------
(* The first half of the invariant *)

LEMMA InitLedger == Init => Ledger
<1>. SUFFICES ASSUME Init PROVE Ledger
  OBVIOUS
<1>1. \A l \in AllLoops : queue[l] = <<>> /\ doing[l] = <<>> /\ Len(doing[l]) = 0
  BY DEF Init
<1>2. TypeOK
  <2>1. (CHOOSE fd \in Fd : TRUE) \in Fd
    BY FdAssumption
  <2>2. conn \in [Ids -> Connection]
    BY <2>1, LoopFacts DEF Init, Connection, Statu
  <2>3. queue \in [AllLoops -> Seq(Task)] /\ doing \in [AllLoops -> Seq(Frame)]
    BY EmptySeq DEF Init
  <2>4. poller \in [AllLoops -> [Fd -> Ids \cup {NoConn}]]
    BY DEF Init
  <2>5. pool \in [count : 0 .. MaxThreads, created : 0 .. MaxThreads, next : Nat]
        /\ ~(pool.created > 0) /\ countId \in 0 .. MaxIds
    BY BoundAssumption DEF Init
  <2>. QED BY <2>2, <2>3, <2>4, <2>5 DEF TypeOK, Init
<1>3. PoolFresh
  BY DEF Init, PoolFresh
<1>4. Stacks
  BY <1>1, EmptySeq DEF Stacks, Nested, Within
<1>5. Handed
  BY <1>1, ElemsEmpty, LoopFacts DEF Handed
<1>6. Counted
  <2>1. Afters(queue[Main]) = {}
    BY <1>1, LoopFacts DEF Afters
  <2>2. WaitingAfters = Cardinality(Afters(queue[Main]))
    BY DEF WaitingAfters, Afters
  <2>3. Drawn = 0
    BY <2>1, <2>2, FS_EmptySet DEF Drawn, Init
  <2>. QED BY <2>3, BoundAssumption DEF Counted, Init
<1>7. Registered /\ TimersDistinct
  BY DEF Registered, TimersDistinct, Init
<1>. QED BY <1>2, <1>3, <1>4, <1>5, <1>6, <1>7 DEF Ledger

\* Steps that touch neither a queue nor a stack nor a connection.
LEMMA QuietLedger ==
  ASSUME Ledger, UNCHANGED <<queue, doing, conn, conns, poller, idle, open>>,
         TypeOK', PoolFresh', countId' >= countId, Drawn' <= MaxIds,
         afters' \subseteq afters
  PROVE  Ledger'
<1>. USE DEF Ledger
<1>1. Stacks'
  BY DEF Stacks, Within
<1>2. Handed'
  BY DEF Handed
<1>3. countId \in Nat /\ countId' \in Nat
  BY DEF TypeOK
<1>4. Counted'
  <2>1. \A id \in Ids : id >= countId' => id >= countId
    BY <1>3 DEF Ids
  <2>. QED BY <2>1 DEF Counted
<1>5. Registered'
  BY DEF Registered, RemovalUnderWay
<1>6. TimersDistinct'
  <2>1. \A id \in Ids : id < countId => id < countId'
    BY <1>3 DEF Ids
  <2>2. afters \subseteq Ids
    BY DEF TypeOK
  <2>. QED BY <2>1, <2>2 DEF TimersDistinct, CancelUnderWay
<1>. QED BY <1>1, <1>2, <1>4, <1>5, <1>6

LEMMA IdFacts == Ids \subseteq Nat /\ \A id : id \in Ids <=> id \in Nat /\ id < MaxIds
BY BoundAssumption DEF Ids

LEMMA SetThreadCountLedger ==
  ASSUME Ledger, NEW n \in 0 .. MaxThreads, SetThreadCount(n) PROVE Ledger'
<1>. USE DEF Ledger, SetThreadCount
<1>1. TypeOK' /\ PoolFresh'
  <2>1. /\ pool' \in [count : 0 .. MaxThreads, created : 0 .. MaxThreads, next : Nat]
        /\ pool'.created = 0 /\ pool'.next = 0
    BY DEF TypeOK, PoolFresh
  <2>. QED BY <2>1 DEF TypeOK, PoolFresh
<1>2. countId' >= countId /\ Drawn' <= MaxIds
  BY DEF Counted, Drawn, WaitingAfters, TypeOK
<1>. QED BY <1>1, <1>2, QuietLedger

LEMMA ConfigureLedger ==
  ASSUME Ledger, EnableInactiveRelease \/ StartServer \/ LeaveLoop \/ AfterRings
  PROVE  Ledger'
<1>. USE DEF Ledger, EnableInactiveRelease, StartServer, LeaveLoop, AfterRings
<1>1. UNCHANGED <<queue, doing, conn, conns, poller, idle, open, countId>>
      /\ afters' \subseteq afters
  OBVIOUS
<1>2. TypeOK' /\ PoolFresh'
  <2>1. /\ pool' \in [count : 0 .. MaxThreads, created : 0 .. MaxThreads, next : Nat]
        /\ pool'.created > 0 => pool'.count = pool'.created /\ pool'.next < pool'.created
        /\ pool'.created = 0 => pool'.next = 0
    <3>1. CASE StartServer
      <4>1. /\ pool' = [pool EXCEPT !.created = pool.count]
            /\ pool.count \in Nat /\ pool.next \in Nat /\ pool.created \in Nat
            /\ pool.created = 0 => pool.next = 0
            /\ pool.created > 0 => pool.count = pool.created /\ pool.next < pool.created
        BY <3>1, BoundAssumption DEF TypeOK, PoolFresh
      <4>2. pool' \in [count : 0 .. MaxThreads, created : 0 .. MaxThreads, next : Nat]
            /\ pool'.created = pool.count /\ pool'.count = pool.count /\ pool'.next = pool.next
        BY <4>1 DEF TypeOK
      <4>3. pool.created = 0 \/ pool.created > 0
        BY <4>1
      <4>. QED BY <4>1, <4>2, <4>3
    <3>2. CASE pool' = pool
      BY <3>2 DEF TypeOK, PoolFresh
    <3>. QED BY <3>1, <3>2
  <2>2. main' \in {"config", "running", "left"} /\ inactive' \in BOOLEAN
    BY DEF TypeOK
  <2>3. afters' \in SUBSET Ids
    BY <1>1 DEF TypeOK
  <2>4. UNCHANGED <<quit, caught>>
    OBVIOUS
  <2>. QED BY <1>1, <2>1, <2>2, <2>3, <2>4 DEF TypeOK, PoolFresh
<1>3. countId' >= countId /\ Drawn' <= MaxIds
  BY <1>1 DEF Counted, Drawn, WaitingAfters, TypeOK
<1>. QED BY <1>1, <1>2, <1>3, QuietLedger

\* An id is drawn.
LEMMA RoomForId ==
  ASSUME Ledger, Room
  PROVE  /\ countId \in Ids /\ Drawn < MaxIds
         /\ conn[countId].statu = "none" /\ ~conn[countId].sock
         /\ Drawn \in Nat
<1>1. countId \in Nat /\ WaitingAfters \in Nat
  BY WaitingIsNat DEF Ledger, TypeOK
<1>2. Drawn < MaxIds /\ Drawn \in Nat /\ countId < MaxIds
  BY <1>1, BoundAssumption DEF Room, Drawn
<1>3. countId \in Ids /\ countId >= countId
  BY <1>1, <1>2, IdFacts
<1>. QED BY <1>2, <1>3 DEF Ledger, Counted

LEMMA AcceptFailsLedger ==
  ASSUME Ledger, NEW fd \in Fd, AcceptAndClose(fd) \/ MakingFailsHere(fd)
  PROVE  Ledger'
<1>. USE DEF Ledger
<1>1. /\ UNCHANGED <<queue, doing, conn, conns, poller, idle, open, pool, afters,
                     main, quit, inactive>>
      /\ countId' = countId + 1 /\ Room /\ caught' \in {caught, TRUE}
  BY DEF AcceptAndClose, MakingFailsHere, MayAccept
<1>2. countId \in Ids /\ Drawn < MaxIds /\ WaitingAfters \in Nat /\ countId \in Nat
  BY <1>1, RoomForId, WaitingIsNat, IdFacts
<1>3. TypeOK' /\ PoolFresh'
  <2>1. countId' \in 0 .. MaxIds
    BY <1>1, <1>2, BoundAssumption, IdFacts
  <2>. QED BY <1>1, <2>1 DEF TypeOK, PoolFresh
<1>4. countId' >= countId /\ Drawn' <= MaxIds
  BY <1>1, <1>2, BoundAssumption DEF Drawn, WaitingAfters
<1>. QED BY <1>1, <1>3, <1>4, QuietLedger

-----------------------------------------------------------------------------
(* Steps that leave a callback or a step of Release behind *)

\* No connection changes its status or its loop.
SameConns ==
  \A id \in Ids : conn'[id].statu = conn[id].statu /\ conn'[id].loop = conn[id].loop

LEMMA TaskIds ==
  ASSUME TypeOK, NEW l \in AllLoops, NEW t \in Elems(queue[l])
  PROVE  t \in Task /\ (t.kind \in {"new", "remove"} =>
                          t.id \in Ids /\ t = [kind |-> t.kind, id |-> t.id])
<1>1. queue[l] \in Seq(Task)
  BY DEF TypeOK
<1>. QED BY <1>1, ElemsOf, TaskFacts

LEMMA HandedKept ==
  ASSUME TypeOK, Handed, SameConns, UNCHANGED queue
  PROVE  Handed'
<1>1. \A t \in Elems(queue[Main]) : t.kind = "remove" => t.id \in Ids
  BY LoopFacts, TaskIds
<1>2. \A l \in AllLoops : \A t \in Elems(queue[l]) : t.kind = "new" => t.id \in Ids
  BY TaskIds
<1>. QED BY <1>1, <1>2 DEF Handed, SameConns

LEMMA CountedKept ==
  ASSUME TypeOK, Counted, SameConns, UNCHANGED <<queue, countId>>,
         \A id \in Ids : conn'[id].sock => conn[id].sock
  PROVE  Counted'
<1>1. Drawn' = Drawn
  BY DEF Drawn, WaitingAfters
<1>. QED BY <1>1 DEF Counted, SameConns

LEMMA LeaveStacks ==
  ASSUME TypeOK, Stacks, SameConns, NEW l \in AllLoops, doing[l] # <<>>, Leave(l)
  PROVE  Stacks'
<1>1. /\ \A k \in AllLoops \ {l} : doing'[k] = doing[k]
      /\ Nested(doing'[l])
      /\ doing'[l] # <<>> => /\ Len(doing[l]) > 1
                             /\ doing'[l][1].id = doing[l][1].id
                             /\ doing'[l][1].at # "catch"
  BY Leaves
<1>2. ASSUME NEW k \in AllLoops PROVE Nested(doing'[k]) /\ Within(k)'
  <2>1. CASE k # l
    BY <1>1, <2>1, FrameOwner DEF Stacks, Within, SameConns
  <2>2. CASE k = l
    <3>1. CASE doing'[l] # <<>>
      <4>. DEFINE id == doing[l][1].id
      <4>1. id \in Ids /\ conn[id].loop = l /\ conn[id].statu = "DISCONNECTED"
        BY <1>1, <3>1, FrameOwner DEF Stacks, Within
      <4>2. conn'[id].loop = l /\ conn'[id].statu = "DISCONNECTED"
        BY <4>1 DEF SameConns
      <4>. QED BY <1>1, <2>2, <3>1, <4>2 DEF Within
    <3>2. CASE doing'[l] = <<>>
      BY <1>1, <2>2, <3>2 DEF Within
    <3>. QED BY <3>1, <3>2
  <2>. QED BY <2>1, <2>2
<1>. QED BY <1>2 DEF Stacks

\* What all frames but the innermost one say stays said.
LEMMA LeaveElems ==
  ASSUME TypeOK, Stacks, NEW l \in AllLoops, doing[l] # <<>>, Leave(l)
  PROVE  /\ \A k \in AllLoops : \A f : f \in Elems(doing'[k]) => f \in Elems(doing[k])
         /\ \A k \in AllLoops : \A f :
              f \in Elems(doing[k]) => f \in Elems(doing'[k]) \/ f = doing[l][1]
BY Leaves

\* The table and the timers, when a thread leaves anything but the steps of
\* Release that are about them.
LEMMA LeaveTables ==
  ASSUME Ledger, SameConns, NEW l \in AllLoops, doing[l] # <<>>, Leave(l)
  PROVE  /\ UNCHANGED <<queue, conns>> /\ doing[l][1].at # "notify" => Registered'
         /\ UNCHANGED <<afters, countId>> /\ doing[l][1].at # "unregister"
              /\ (\A id \in idle' : id \in idle \/ (id \in Ids /\ conn[id].statu = "CONNECTED"))
              => TimersDistinct'
<1>. USE DEF Ledger
<1>1. conn \in [Ids -> Connection] /\ \A id \in Ids : conn[id].loop \in AllLoops
  BY DEF TypeOK, Connection
<1>2. ASSUME UNCHANGED <<queue, conns>>, doing[l][1].at # "notify" PROVE Registered'
  <2>. SUFFICES ASSUME NEW id \in Ids
                PROVE  /\ conn'[id].statu = "CONNECTED" => id \in conns
                       /\ id \in conns => conn'[id].statu = "CONNECTED" \/ RemovalUnderWay(id)'
    BY <1>2 DEF Registered
  <2>1. Notifying(id) # doing[l][1]
    BY <1>2 DEF Notifying
  <2>2. RemovalUnderWay(id) => RemovalUnderWay(id)'
    <3>1. conn'[id].loop = conn[id].loop /\ conn[id].loop \in AllLoops
      BY <1>1 DEF SameConns
    <3>2. Notifying(id) \in Elems(doing[conn[id].loop]) =>
            Notifying(id) \in Elems(doing'[conn[id].loop])
      BY <2>1, <3>1, LeaveElems
    <3>. QED BY <1>2, <3>1, <3>2, UnderWay
  <2>. QED BY <2>2 DEF Registered, SameConns
<1>3. ASSUME UNCHANGED <<afters, countId>>, doing[l][1].at # "unregister",
             \A id \in idle' : id \in idle \/ (id \in Ids /\ conn[id].statu = "CONNECTED")
      PROVE  TimersDistinct'
  <2>1. \A id \in afters : conn'[id].statu = "none" /\ id < countId
    BY DEF TimersDistinct, SameConns, TypeOK
  <2>2. ASSUME NEW id \in idle'
        PROVE  conn'[id].statu = "CONNECTED" \/ CancelUnderWay(id)'
    <3>1. id \in Ids
      BY <1>3 DEF TypeOK
    <3>2. conn'[id].loop = conn[id].loop /\ conn[id].loop \in AllLoops
          /\ conn'[id].statu = conn[id].statu
      BY <1>1, <3>1 DEF SameConns
    <3>3. CASE conn[id].statu = "CONNECTED"
      BY <3>2, <3>3
    <3>4. CASE id \in idle /\ conn[id].statu # "CONNECTED"
      <4>1. Cancelling(id) \in Elems(doing[conn[id].loop])
        BY <3>4, UnderWay DEF TimersDistinct
      <4>2. Cancelling(id) # doing[l][1]
        BY <1>3 DEF Cancelling
      <4>3. Cancelling(id) \in Elems(doing'[conn[id].loop])
        BY <3>2, <4>1, <4>2, LeaveElems
      <4>. QED BY <3>2, <4>3, UnderWay
    <3>. QED BY <1>3, <3>3, <3>4
  <2>. QED BY <1>3, <2>1, <2>2 DEF TimersDistinct
<1>. QED BY <1>2, <1>3

\* The callback returns or throws, or the catch is over.
LEMMA CallbackLedger ==
  ASSUME Ledger, NEW l \in AllLoops,
         ConnectedReturns(l) \/ ConnectedThrows(l) \/ HandlerReturns(l) \/ CatchCloses(l)
  PROVE  Ledger'
<1>. USE DEF Ledger
<1>1. doing[l] \in Seq(Frame) /\ Nested(doing[l])
  BY DEF TypeOK, Stacks
<1>2. doing[l] # <<>> /\ doing[l][1].at \in {"connected", "handler", "catch"}
  BY <1>1, InsideDepth DEF ConnectedReturns, ConnectedThrows, HandlerReturns, CatchCloses
<1>3. Current(l) \in Ids
  BY <1>1, <1>2, InsideDepth
<1>4. /\ Leave(l) /\ open' \subseteq open /\ caught' \in {caught, TRUE}
      /\ UNCHANGED <<main, quit, pool, inactive, countId, queue, conn, conns, poller, afters>>
      /\ idle' \in {idle, idle \cup {Current(l)}}
      /\ idle' # idle => conn[Current(l)].statu = "CONNECTED"
  BY DEF ConnectedReturns, ConnectedThrows, HandlerReturns, CatchCloses
<1>5. SameConns /\ \A id \in Ids : conn'[id].sock => conn[id].sock
  BY <1>4 DEF SameConns
<1>6. TypeOK'
  <2>1. doing' \in [AllLoops -> Seq(Frame)]
    BY <1>2, <1>4, Leaves
  <2>2. open' \in SUBSET Fd /\ caught' \in BOOLEAN /\ idle' \in SUBSET Ids
    BY <1>3, <1>4 DEF TypeOK
  <2>. QED BY <1>4, <2>1, <2>2 DEF TypeOK
<1>7. PoolFresh' /\ Handed' /\ Counted'
  BY <1>4, <1>5, HandedKept, CountedKept DEF PoolFresh
<1>8. Stacks'
  BY <1>2, <1>4, <1>5, LeaveStacks
<1>9. Registered' /\ TimersDistinct'
  <2>1. \A id \in idle' : id \in idle \/ (id \in Ids /\ conn[id].statu = "CONNECTED")
    BY <1>3, <1>4
  <2>. QED BY <1>2, <1>4, <1>5, <2>1, LeaveTables
<1>. QED BY <1>6, <1>7, <1>8, <1>9

LEMMA RemoveEventTyped ==
  ASSUME TypeOK, NEW id \in Ids, RemoveEvent(id)
  PROVE  poller' \in [AllLoops -> [Fd -> Ids \cup {NoConn}]]
<1>1. conn[id].loop \in AllLoops /\ conn[id].fd \in Fd
  BY DEF TypeOK, Connection
<1>. QED BY <1>1 DEF RemoveEvent, TypeOK

LEMMA ReleaseUnregistersLedger ==
  ASSUME Ledger, NEW l \in AllLoops, ReleaseUnregisters(l)
  PROVE  Ledger'
<1>. USE DEF Ledger
<1>. DEFINE id == doing[l][1].id
<1>1. doing[l] \in Seq(Frame) /\ Nested(doing[l])
  BY DEF TypeOK, Stacks
<1>2. doing[l] # <<>> /\ doing[l][1].at = "unregister" /\ Current(l) = id
  BY <1>1, InsideDepth DEF ReleaseUnregisters
<1>3. id \in Ids /\ conn[id].loop = l
  BY <1>2, FrameOwner
<1>. HIDE DEF id
<1>4. /\ Leave(l) /\ RemoveEvent(id) /\ idle' = idle \ {id}
      /\ UNCHANGED <<main, quit, pool, inactive, countId, open, queue, conn, conns,
                     afters, caught>>
  BY <1>2 DEF ReleaseUnregisters
<1>5. SameConns
  BY <1>4 DEF SameConns
<1>6. TypeOK'
  <2>1. doing' \in [AllLoops -> Seq(Frame)]
    BY <1>2, <1>4, Leaves
  <2>2. poller' \in [AllLoops -> [Fd -> Ids \cup {NoConn}]]
    BY <1>3, <1>4, RemoveEventTyped
  <2>. QED BY <1>4, <2>1, <2>2 DEF TypeOK
<1>7. PoolFresh' /\ Handed' /\ Counted'
  BY <1>4, <1>5, HandedKept, CountedKept DEF PoolFresh
<1>8. Stacks'
  BY <1>2, <1>4, <1>5, LeaveStacks
<1>9. Registered'
  BY <1>2, <1>4, <1>5, LeaveTables
<1>10. TimersDistinct'
  <2>1. ASSUME NEW x \in idle', conn[x].statu # "CONNECTED"
        PROVE  CancelUnderWay(x)'
    <3>1. x \in idle /\ x # id /\ x \in Ids
      BY <1>4, <2>1 DEF TypeOK
    <3>2. conn[x].loop \in AllLoops
      BY <3>1 DEF TypeOK, Connection
    <3>3. Cancelling(x) \in Elems(doing[conn[x].loop])
      BY <2>1, <3>1, UnderWay DEF TimersDistinct
    <3>4. Cancelling(x) # doing[l][1]
      BY <3>1 DEF id, Cancelling
    <3>5. Cancelling(x) \in Elems(doing'[conn[x].loop])
      BY <1>2, <1>4, <3>2, <3>3, <3>4, LeaveElems
    <3>. QED BY <1>4, <3>5, UnderWay
  <2>2. UNCHANGED <<afters, conn, countId>>
    BY <1>4
  <2>. QED BY <2>1, <2>2 DEF TimersDistinct
<1>. QED BY <1>6, <1>7, <1>8, <1>9, <1>10

LEMMA ReleaseClosesLedger ==
  ASSUME Ledger, NEW l \in AllLoops, ReleaseCloses(l)
  PROVE  Ledger'
<1>. USE DEF Ledger
<1>. DEFINE id == doing[l][1].id
<1>1. doing[l] \in Seq(Frame) /\ Nested(doing[l])
  BY DEF TypeOK, Stacks
<1>2. doing[l] # <<>> /\ doing[l][1].at = "close" /\ Current(l) = id
  BY <1>1, InsideDepth DEF ReleaseCloses
<1>3. id \in Ids
  BY <1>2, FrameOwner
<1>. HIDE DEF id
<1>4. /\ Leave(l) /\ open' = open \ {conn[id].fd}
      /\ conn' = [conn EXCEPT ![id].sock = FALSE]
      /\ UNCHANGED <<main, quit, pool, inactive, countId, queue, conns, poller, idle,
                     afters, caught>>
  BY <1>2 DEF ReleaseCloses
<1>5. conn' \in [Ids -> Connection] /\ SameConns
      /\ \A x \in Ids : conn'[x].sock => conn[x].sock
  BY <1>3, <1>4 DEF SameConns, TypeOK, Connection
<1>6. TypeOK'
  <2>1. doing' \in [AllLoops -> Seq(Frame)]
    BY <1>2, <1>4, Leaves
  <2>2. open' \in SUBSET Fd
    BY <1>4 DEF TypeOK
  <2>. QED BY <1>4, <1>5, <2>1, <2>2 DEF TypeOK
<1>7. PoolFresh' /\ Handed' /\ Counted'
  BY <1>4, <1>5, HandedKept, CountedKept DEF PoolFresh
<1>8. Stacks'
  BY <1>2, <1>4, <1>5, LeaveStacks
<1>9. Registered' /\ TimersDistinct'
  BY <1>2, <1>4, <1>5, LeaveTables
<1>. QED BY <1>6, <1>7, <1>8, <1>9

LEMMA ReleaseNotifiesLedger ==
  ASSUME Ledger, NEW l \in AllLoops, ReleaseNotifies(l)
  PROVE  Ledger'
<1>. USE DEF Ledger
<1>. DEFINE id == doing[l][1].id
            t == [kind |-> "remove", id |-> id]
<1>1. doing[l] \in Seq(Frame) /\ Nested(doing[l]) /\ Within(l)
  BY DEF TypeOK, Stacks
<1>2. /\ doing[l] # <<>> /\ doing[l][1].at = "notify" /\ Current(l) = id
      /\ Len(doing[l]) = 2
  BY <1>1, InsideDepth DEF ReleaseNotifies
<1>3. id \in Ids /\ conn[id].loop = l /\ conn[id].statu = "DISCONNECTED"
  BY <1>1, <1>2, FrameOwner DEF Within
<1>4. t \in Task /\ t.kind = "remove" /\ t.id = id
  BY <1>3, TaskFacts
<1>. HIDE DEF id, t
<1>5. /\ Leave(l)
      /\ UNCHANGED <<main, quit, pool, inactive, countId, open, conn, poller, idle,
                     afters, caught>>
      /\ \/ l = Main /\ conns' = conns \ {id} /\ UNCHANGED queue
         \/ l # Main /\ queue' = Queued(queue, Main, t) /\ UNCHANGED conns
  BY <1>2 DEF ReleaseNotifies, t
<1>6. SameConns /\ \A x \in Ids : conn'[x].sock => conn[x].sock
  BY <1>5 DEF SameConns
<1>7. doing' \in [AllLoops -> Seq(Frame)]
  BY <1>2, <1>5, Leaves
<1>8. Stacks'
  BY <1>2, <1>5, <1>6, LeaveStacks
<1>9. TimersDistinct' /\ PoolFresh'
  BY <1>2, <1>5, <1>6, LeaveTables DEF TypeOK, PoolFresh
<1>10. \A x \in Ids : x # id /\ RemovalUnderWay(x) =>
         \/ Notifying(x) \in Elems(doing'[conn[x].loop])
         \/ Removing(x) \in Elems(queue[Main])
  <2>. SUFFICES ASSUME NEW x \in Ids, x # id, Notifying(x) \in Elems(doing[conn[x].loop])
                PROVE  Notifying(x) \in Elems(doing'[conn[x].loop])
    BY UnderWay
  <2>1. conn[x].loop \in AllLoops
    BY DEF TypeOK, Connection
  <2>2. Notifying(x) # doing[l][1]
    BY DEF id, Notifying
  <2>. QED BY <1>2, <1>5, <2>1, <2>2, LeaveElems
<1>11. CASE l = Main /\ conns' = conns \ {id} /\ UNCHANGED queue
  <2>1. TypeOK'
    BY <1>5, <1>7, <1>11 DEF TypeOK
  <2>2. Handed' /\ Counted'
    BY <1>5, <1>6, <1>11, HandedKept, CountedKept
  <2>3. Registered'
    <3>1. \A x \in Ids : x # id /\ RemovalUnderWay(x) => RemovalUnderWay(x)'
      BY <1>5, <1>10, <1>11, UnderWay
    <3>. QED BY <1>3, <1>5, <1>11, <3>1 DEF Registered
  <2>. QED BY <1>8, <1>9, <2>1, <2>2, <2>3
<1>12. CASE l # Main /\ queue' = Queued(queue, Main, t) /\ UNCHANGED conns
  <2>1. /\ queue' \in [AllLoops -> Seq(Task)]
        /\ \A k \in AllLoops \ {Main} : queue'[k] = queue[k]
        /\ Elems(queue'[Main]) = Elems(queue[Main]) \cup {t}
        /\ WaitingAfters' = WaitingAfters + 0 /\ WaitingAfters \in Nat
    BY <1>4, <1>12, Hands, LoopFacts
  <2>2. TypeOK'
    BY <1>5, <1>7, <1>12, <2>1 DEF TypeOK
  <2>3. Handed'
    BY <1>3, <1>4, <1>5, <2>1 DEF Handed
  <2>4. Counted'
    <3>1. Drawn' = Drawn
      BY <1>5, <2>1 DEF Drawn, TypeOK
    <3>. QED BY <1>5, <3>1 DEF Counted
  <2>5. Registered'
    <3>1. \A x \in Ids : RemovalUnderWay(x) => RemovalUnderWay(x)'
      <4>1. t = Removing(id)
        BY DEF t, Removing
      <4>. QED BY <1>5, <1>10, <2>1, <4>1, UnderWay
    <3>. QED BY <1>5, <1>12, <3>1 DEF Registered
  <2>. QED BY <1>8, <1>9, <2>2, <2>3, <2>4, <2>5
<1>. QED BY <1>5, <1>11, <1>12

-----------------------------------------------------------------------------
(* Steps that enter a callback, or hand a task over *)

\* What is under way stays so while neither its stack nor the queue shrinks.
LEMMA StillUnderWay ==
  ASSUME NEW x, conn'[x].loop = conn[x].loop,
         Elems(doing[conn[x].loop]) \subseteq Elems(doing'[conn[x].loop])
  PROVE  /\ CancelUnderWay(x) => CancelUnderWay(x)'
         /\ RemovalUnderWay(x) /\ Elems(queue[Main]) \subseteq Elems(queue'[Main])
              => RemovalUnderWay(x)'
BY UnderWay

LEMMA EnterStacks ==
  ASSUME TypeOK, Stacks, NEW l \in AllLoops, doing[l] = <<>>, NEW f \in Frame,
         f.at \in {"connected", "handler", "catch"}, Enter(l, <<f>>),
         conn'[f.id].loop = l,
         f.at = "catch" => conn'[f.id].statu = "destroyed",
         f.at # "catch" => conn'[f.id].statu = "CONNECTED",
         \A k \in AllLoops : doing[k] # <<>> =>
            /\ conn'[doing[k][1].id].statu = conn[doing[k][1].id].statu
            /\ conn'[doing[k][1].id].loop = conn[doing[k][1].id].loop
  PROVE  Stacks'
<1>1. /\ \A k \in AllLoops \ {l} : doing'[k] = doing[k]
      /\ Nested(doing'[l]) /\ Len(doing'[l]) = 1 /\ doing'[l][1] = f
  BY Enters
<1>2. ~(Len(doing'[l]) > 1)
  BY <1>1
<1>3. Within(l)'
  BY <1>1, <1>2 DEF Within
<1>4. ASSUME NEW k \in AllLoops \ {l} PROVE Nested(doing'[k]) /\ Within(k)'
  BY <1>1, <1>4 DEF Stacks, Within
<1>. QED BY <1>1, <1>3, <1>4 DEF Stacks

\* A handler begins.
LEMMA ServeLedger ==
  ASSUME Ledger, NEW l \in AllLoops, NEW id \in Ids, Serve(l, id)
  PROVE  Ledger'
<1>. USE DEF Ledger
<1>. DEFINE f == [at |-> "handler", id |-> id]
<1>1. /\ doing[l] = <<>> /\ conn[id].statu = "CONNECTED" /\ conn[id].loop = l
      /\ Enter(l, <<f>>)
  BY DEF Serve, Free
<1>2. UNCHANGED <<main, quit, pool, inactive, countId, open, queue, conn, conns, poller,
                  idle, afters, caught>>
  BY DEF Serve
<1>3. f \in Frame /\ f.at = "handler" /\ f.id = id
  BY FrameFacts
<1>. HIDE DEF f
<1>4. /\ doing' \in [AllLoops -> Seq(Frame)]
      /\ \A k \in AllLoops \ {l} : doing'[k] = doing[k]
  BY <1>1, <1>3, Enters
<1>5. TypeOK' /\ PoolFresh'
  BY <1>2, <1>4 DEF TypeOK, PoolFresh
<1>6. SameConns
  BY <1>2 DEF SameConns
<1>7. Handed' /\ Counted'
  BY <1>2, <1>6, HandedKept, CountedKept
<1>8. Stacks'
  BY <1>1, <1>2, <1>3, EnterStacks
<1>9. \A x \in Ids : /\ CancelUnderWay(x) => CancelUnderWay(x)'
                     /\ RemovalUnderWay(x) => RemovalUnderWay(x)'
  <2>1. \A k \in AllLoops : Elems(doing[k]) \subseteq Elems(doing'[k])
    BY <1>1, <1>4, ElemsEmpty
  <2>2. \A x \in Ids : conn[x].loop \in AllLoops
    BY DEF TypeOK, Connection
  <2>. QED BY <1>2, <2>1, <2>2, StillUnderWay
<1>10. Registered'
  BY <1>2, <1>9 DEF Registered
<1>11. TimersDistinct'
  <2>1. idle \subseteq Ids
    BY DEF TypeOK
  <2>. QED BY <1>2, <1>9, <2>1 DEF TimersDistinct
<1>. QED BY <1>5, <1>7, <1>8, <1>10, <1>11

\* A connection no thread has been inside of yet becomes another one.
LEMMA FreshConn ==
  ASSUME TypeOK, Stacks, NEW id \in Ids, conn[id].statu \in {"none", "accepted"}
  PROVE  \A k \in AllLoops : doing[k] # <<>> => doing[k][1].id # id
BY FrameOwner

\* The lambda of NewConnection makes its connection, up to what the accept or
\* the taking of the lambda does to count and queues.
LEMMA EstablishLedger ==
  ASSUME Ledger, NEW l \in AllLoops, NEW id \in Ids, NEW fd \in Fd,
         conn[id].statu \in {"none", "accepted"}, id \notin afters,
         doing[l] = <<>>, Establish(id, fd, l),
         UNCHANGED <<main, quit, pool, inactive, idle, afters, caught>>,
         queue' \in [AllLoops -> Seq(Task)], queue'[Main] = queue[Main],
         countId' \in 0 .. MaxIds, countId' >= countId, open' \in SUBSET Fd
  PROVE  /\ TypeOK' /\ PoolFresh' /\ Stacks' /\ Registered' /\ TimersDistinct'
         /\ conn'[id].statu = "CONNECTED"
         /\ \A x \in Ids \ {id} : conn'[x] = conn[x]
<1>. USE DEF Ledger
<1>. DEFINE f == [at |-> "connected", id |-> id]
<1>1. f \in Frame /\ f.at = "connected" /\ f.id = id
  BY FrameFacts
<1>2. Enter(l, <<f>>) /\ conns' = conns \cup {id} /\ poller' = [poller EXCEPT ![l][fd] = id]
  BY DEF Establish
<1>. HIDE DEF f
<1>3. /\ conn' \in [Ids -> Connection]
      /\ conn'[id].statu = "CONNECTED" /\ conn'[id].loop = l
      /\ \A x \in Ids \ {id} : conn'[x] = conn[x]
  <2>1. [statu |-> "CONNECTED", loop |-> l, fd |-> fd, sock |-> TRUE] \in Connection
    BY DEF Connection, Statu
  <2>. QED BY <2>1 DEF Establish, TypeOK
<1>4. /\ doing' \in [AllLoops -> Seq(Frame)]
      /\ \A k \in AllLoops \ {l} : doing'[k] = doing[k]
  BY <1>1, <1>2, Enters
<1>5. TypeOK' /\ PoolFresh'
  <2>1. poller' \in [AllLoops -> [Fd -> Ids \cup {NoConn}]] /\ conns' \in SUBSET Ids
    BY <1>2 DEF TypeOK
  <2>. QED BY <1>3, <1>4, <2>1 DEF TypeOK, PoolFresh
<1>6. Stacks'
  <2>1. \A k \in AllLoops : doing[k] # <<>> => doing[k][1].id \in Ids \ {id}
    BY FreshConn, FrameOwner
  <2>. QED BY <1>1, <1>2, <1>3, <2>1, EnterStacks
<1>7. \A x \in Ids \ {id} : /\ CancelUnderWay(x) => CancelUnderWay(x)'
                            /\ RemovalUnderWay(x) => RemovalUnderWay(x)'
  <2>1. \A k \in AllLoops : Elems(doing[k]) \subseteq Elems(doing'[k])
    BY <1>4, ElemsEmpty
  <2>2. \A x \in Ids : conn[x].loop \in AllLoops
    BY DEF TypeOK, Connection
  <2>. QED BY <1>3, <2>1, <2>2, StillUnderWay
<1>8. Registered'
  BY <1>2, <1>3, <1>7 DEF Registered
<1>9. TimersDistinct'
  <2>1. idle \subseteq Ids /\ afters \subseteq Ids /\ countId \in Nat /\ countId' \in Nat
    BY DEF TypeOK
  <2>2. \A x \in afters : x # id /\ x \in Nat /\ x < countId'
    BY <2>1, IdFacts DEF TimersDistinct
  <2>. QED BY <1>3, <1>7, <2>1, <2>2 DEF TimersDistinct
<1>. QED BY <1>3, <1>5, <1>6, <1>8, <1>9

\* Nobody waits for a connection whose id has not been drawn.
LEMMA FreshId ==
  ASSUME Ledger, countId \in Ids
  PROVE  /\ countId \notin afters
         /\ \A l \in AllLoops : \A t \in Elems(queue[l]) :
              t.kind \in {"new", "remove"} => t.id # countId
<1>. USE DEF Ledger
<1>1. countId \in Nat /\ ~(countId < countId)
  BY DEF TypeOK
<1>2. conn[countId].statu = "none"
  BY <1>1 DEF Counted
<1>3. \A t \in Elems(queue[Main]) : t.kind \in {"new", "remove"} => t.id # countId
  BY <1>2 DEF Handed
<1>4. \A l \in AllLoops \ {Main} : \A t \in Elems(queue[l]) : t.id # countId
  BY <1>2 DEF Handed
<1>. QED BY <1>1, <1>3, <1>4 DEF TimersDistinct

LEMMA DrawnCounted ==
  ASSUME Ledger, Room, countId' = countId + 1, UNCHANGED <<queue>>,
         \A x \in Ids \ {countId} : conn'[x] = conn[x],
         conn'[countId].statu # "none"
  PROVE  Counted' /\ countId' \in 0 .. MaxIds /\ countId' >= countId
<1>1. countId \in Ids /\ Drawn < MaxIds /\ countId \in Nat /\ WaitingAfters \in Nat
  BY RoomForId, WaitingIsNat, IdFacts DEF Ledger
<1>2. Drawn' = Drawn + 1 /\ WaitingAfters' = WaitingAfters
  BY <1>1 DEF Drawn, WaitingAfters
<1>3. Drawn' <= MaxIds
  BY <1>1, <1>2, BoundAssumption DEF Drawn
<1>4. countId' \in 0 .. MaxIds /\ countId' >= countId
  BY <1>1, IdFacts, BoundAssumption
<1>5. \A x \in Ids : x >= countId' => x # countId /\ x >= countId
  BY <1>1, IdFacts
<1>. QED BY <1>3, <1>4, <1>5 DEF Ledger, Counted

LEMMA AcceptHereLedger ==
  ASSUME Ledger, NEW fd \in Fd, AcceptHere(fd)
  PROVE  Ledger'
<1>. USE DEF Ledger
<1>1. /\ doing[Main] = <<>> /\ Room /\ countId' = countId + 1 /\ open' = open \cup {fd}
      /\ Establish(countId, fd, Main)
      /\ UNCHANGED <<main, quit, pool, inactive, queue, idle, afters, caught>>
  BY DEF AcceptHere, MayAccept, Free
<1>2. countId \in Ids /\ conn[countId].statu = "none"
  BY <1>1, RoomForId
<1>3. countId' \in 0 .. MaxIds /\ countId' >= countId /\ open' \in SUBSET Fd
  <2>1. countId \in Nat /\ countId < MaxIds
    BY <1>2, IdFacts
  <2>. QED BY <1>1, <2>1, BoundAssumption DEF TypeOK
<1>4. queue \in [AllLoops -> Seq(Task)] /\ countId \notin afters
  BY <1>2, FreshId DEF TypeOK
<1>5. /\ TypeOK' /\ PoolFresh' /\ Stacks' /\ Registered' /\ TimersDistinct'
      /\ conn'[countId].statu = "CONNECTED"
      /\ \A x \in Ids \ {countId} : conn'[x] = conn[x]
  BY <1>1, <1>2, <1>3, <1>4, LoopFacts, EstablishLedger
<1>6. Counted'
  BY <1>1, <1>5, DrawnCounted
<1>7. Handed'
  <2>1. \A l \in AllLoops : \A t \in Elems(queue[l]) :
          t.kind \in {"new", "remove"} => t.id \in Ids \ {countId}
    BY <1>2, FreshId, TaskIds
  <2>. QED BY <1>1, <1>5, <2>1, LoopFacts DEF Handed
<1>. QED BY <1>5, <1>6, <1>7

\* The connection is counted and its lambda waits with the worker next in turn.
LEMMA AcceptAndHandOverLedger ==
  ASSUME Ledger, NEW fd \in Fd, AcceptAndHandOver(fd)
  PROVE  Ledger'
<1>. USE DEF Ledger
<1>. DEFINE n == NextIdx
            t == [kind |-> "new", id |-> countId]
<1>1. /\ Room /\ countId' = countId + 1 /\ open' = open \cup {fd} /\ pool.created > 0
      /\ pool' = [pool EXCEPT !.next = n]
      /\ conn' = [conn EXCEPT ![countId] = [statu |-> "accepted", loop |-> n, fd |-> fd,
                                            sock |-> FALSE]]
      /\ queue' = Queued(queue, n, t)
      /\ UNCHANGED <<main, quit, inactive, doing, conns, poller, idle, afters, caught>>
  BY DEF AcceptAndHandOver, MayAccept
<1>2. countId \in Ids /\ conn[countId].statu = "none" /\ countId \in Nat /\ countId < MaxIds
  BY <1>1, RoomForId, IdFacts
<1>3. /\ n \in 0 .. pool.created - 1 /\ n \in 0 .. MaxThreads - 1 /\ n \in Nat
      /\ pool.created \in 0 .. MaxThreads
  <2>1. /\ pool.count \in 0 .. MaxThreads /\ pool.created \in 0 .. MaxThreads
        /\ pool.next \in Nat /\ pool.count = pool.created
    BY <1>1 DEF TypeOK
  <2>2. \A a, b \in Nat : b > 0 => a % b \in 0 .. b - 1
    OBVIOUS
  <2>3. pool.count \in Nat /\ pool.count > 0 /\ pool.next + 1 \in Nat
    BY <1>1, <2>1, BoundAssumption
  <2>4. n \in 0 .. pool.count - 1
    BY <2>2, <2>3 DEF NextIdx
  <2>. HIDE DEF n
  <2>. QED BY <1>1, <2>1, <2>4, BoundAssumption
<1>4. n \in AllLoops /\ n # Main
  BY <1>3, MainAssumption DEF AllLoops
<1>5. t \in Task /\ t.kind = "new" /\ t.id = countId
  BY <1>2, TaskFacts
<1>. HIDE DEF n
<1>6. /\ conn' \in [Ids -> Connection]
      /\ conn'[countId].statu = "accepted" /\ conn'[countId].loop = n
      /\ ~conn'[countId].sock
      /\ \A x \in Ids \ {countId} : conn'[x] = conn[x]
  <2>1. [statu |-> "accepted", loop |-> n, fd |-> fd, sock |-> FALSE] \in Connection
    BY <1>4 DEF Connection, Statu
  <2>. QED BY <1>1, <1>2, <2>1 DEF TypeOK
<1>. HIDE DEF t
<1>7. /\ queue' \in [AllLoops -> Seq(Task)]
      /\ \A k \in AllLoops \ {n} : queue'[k] = queue[k]
      /\ Elems(queue'[n]) = Elems(queue[n]) \cup {t}
      /\ NoRepeat(queue[n]) /\ t \notin Elems(queue[n]) => NoRepeat(queue'[n])
      /\ WaitingAfters \in Nat /\ WaitingAfters' = WaitingAfters + 0
  BY <1>1, <1>4, <1>5, Hands
<1>8. TypeOK' /\ PoolFresh'
  <2>1. countId' \in 0 .. MaxIds /\ open' \in SUBSET Fd
    BY <1>1, <1>2, BoundAssumption DEF TypeOK
  <2>2. /\ pool' \in [count : 0 .. MaxThreads, created : 0 .. MaxThreads, next : Nat]
        /\ pool'.created = pool.created /\ pool'.count = pool.count /\ pool'.next = n
    BY <1>1, <1>3 DEF TypeOK
  <2>3. pool'.next < pool'.created /\ pool'.created # 0 /\ pool'.count = pool'.created
    BY <1>1, <1>3, <2>2 DEF TypeOK
  <2>. QED BY <1>1, <1>6, <1>7, <2>1, <2>2, <2>3 DEF TypeOK, PoolFresh
<1>9. \A k \in AllLoops : doing[k] # <<>> => doing[k][1].id \in Ids \ {countId}
  BY <1>2, FreshConn, FrameOwner
<1>10. Stacks'
  BY <1>1, <1>6, <1>9 DEF Stacks, Within
<1>11. \A k \in AllLoops : \A u \in Elems(queue[k]) :
         u.kind \in {"new", "remove"} => u.id \in Ids \ {countId}
  BY <1>2, FreshId, TaskIds
<1>12. Handed'
  <2>1. queue'[Main] = queue[Main]
    BY <1>4, <1>7, LoopFacts
  <2>2. ASSUME NEW k \in AllLoops \ {Main}, k # n
        PROVE  /\ NoRepeat(queue'[k])
               /\ \A u \in Elems(queue'[k]) :
                    u.kind = "new" /\ conn'[u.id].statu = "accepted" /\ conn'[u.id].loop = k
    BY <1>6, <1>7, <1>11, <2>2 DEF Handed
  <2>3. t \notin Elems(queue[n])
    BY <1>4, <1>5, <1>11
  <2>4. NoRepeat(queue'[n])
    BY <1>4, <1>7, <2>3 DEF Handed
  <2>5. \A u \in Elems(queue[n]) :
          u.kind = "new" /\ conn'[u.id].statu = "accepted" /\ conn'[u.id].loop = n
    BY <1>4, <1>6, <1>11 DEF Handed
  <2>6. \A u \in Elems(queue'[n]) :
          u.kind = "new" /\ conn'[u.id].statu = "accepted" /\ conn'[u.id].loop = n
    BY <1>5, <1>6, <1>7, <2>5
  <2>7. \A u \in Elems(queue'[Main]) :
          u.kind # "new" /\ (u.kind = "remove" => conn'[u.id].statu = "DISCONNECTED")
    BY <1>6, <1>11, <2>1, LoopFacts DEF Handed
  <2>. QED BY <2>2, <2>4, <2>6, <2>7 DEF Handed
<1>13. Counted'
  <2>1. Drawn' <= MaxIds
    <3>1. Drawn < MaxIds /\ Drawn \in Nat
      BY <1>1, RoomForId
    <3>2. Drawn' = Drawn + 1
      BY <1>1, <1>2, <1>7 DEF Drawn
    <3>. QED BY <3>1, <3>2, BoundAssumption
  <2>2. \A x \in Ids : x >= countId' => x # countId /\ x >= countId
    BY <1>1, <1>2, IdFacts
  <2>. QED BY <1>6, <2>1, <2>2 DEF Counted
<1>14. \A x \in Ids \ {countId} : /\ CancelUnderWay(x) => CancelUnderWay(x)'
                                  /\ RemovalUnderWay(x) => RemovalUnderWay(x)'
  <2>1. queue'[Main] = queue[Main]
    BY <1>4, <1>7, LoopFacts
  <2>. QED BY <1>1, <1>6, <2>1, StillUnderWay
<1>15. ~(countId \in conns) /\ countId \notin idle /\ countId \notin afters
  <2>1. ~RemovalUnderWay(countId)
    <3>1. Notifying(countId) \notin Elems(doing[conn[countId].loop])
      <4>1. conn[countId].loop \in AllLoops
        BY <1>2 DEF TypeOK, Connection
      <4>2. SUFFICES ASSUME NEW k \in AllLoops, Notifying(countId) \in Elems(doing[k])
                     PROVE FALSE
        BY <4>1
      <4>3. doing[k] # <<>>
        BY <4>2, ElemsEmpty
      <4>. QED BY <1>9, <4>2, <4>3, FrameOwner DEF Notifying
    <3>2. Removing(countId) \notin Elems(queue[Main])
      BY <1>11, LoopFacts DEF Removing
    <3>. QED BY <3>1, <3>2, UnderWay
  <2>2. ~CancelUnderWay(countId)
    <3>1. conn[countId].loop \in AllLoops
      BY <1>2 DEF TypeOK, Connection
    <3>2. SUFFICES ASSUME NEW k \in AllLoops, Cancelling(countId) \in Elems(doing[k])
                   PROVE FALSE
      BY <3>1, UnderWay
    <3>3. doing[k] # <<>>
      BY <3>2, ElemsEmpty
    <3>. QED BY <1>9, <3>2, <3>3, FrameOwner DEF Cancelling
  <2>. QED BY <1>2, <2>1, <2>2, FreshId DEF Registered, TimersDistinct
<1>16. Registered'
  BY <1>1, <1>6, <1>14, <1>15 DEF Registered
<1>17. TimersDistinct'
  <2>1. idle \subseteq Ids \ {countId} /\ afters \subseteq Ids \ {countId}
    BY <1>15 DEF TypeOK
  <2>2. \A x \in afters : x < countId'
    BY <1>1, <1>2, <2>1, IdFacts DEF TimersDistinct
  <2>. QED BY <1>1, <1>6, <1>14, <2>1, <2>2 DEF TimersDistinct
<1>. QED BY <1>8, <1>10, <1>12, <1>13, <1>16, <1>17

\* What a worker takes is the only lambda for its connection.
LEMMA TakesNew ==
  ASSUME Ledger, NEW l \in AllLoops, Pending(l, "new"), queue' = Dequeued(l)
  PROVE  LET id == Head(queue[l]).id
         IN  /\ l # Main /\ doing[l] = <<>>
             /\ id \in Ids /\ conn[id].statu = "accepted" /\ conn[id].loop = l
             /\ queue' \in [AllLoops -> Seq(Task)] /\ queue'[Main] = queue[Main]
             /\ WaitingAfters' = WaitingAfters
             /\ \A u \in Elems(queue'[Main]) : u.kind = "remove" => u.id \in Ids \ {id}
             /\ \A k \in AllLoops \ {Main} : \A u \in Elems(queue'[k]) :
                  u \in Elems(queue[k]) /\ u.id \in Ids \ {id}
             /\ \A k \in AllLoops \ {Main} : NoRepeat(queue'[k])
<1>. USE DEF Ledger
<1>. DEFINE t == Head(queue[l])
            id == t.id
<1>1. doing[l] = <<>> /\ queue[l] # <<>> /\ t.kind = "new"
  BY DEF Pending, Free
<1>2. /\ queue' \in [AllLoops -> Seq(Task)] /\ t \in Task
      /\ \A k \in AllLoops \ {l} : queue'[k] = queue[k]
      /\ Elems(queue[l]) = Elems(queue'[l]) \cup {t}
      /\ NoRepeat(queue[l]) => NoRepeat(queue'[l]) /\ t \notin Elems(queue'[l])
      /\ WaitingAfters' \in Nat
      /\ WaitingAfters = WaitingAfters' + IF l = Main /\ t.kind = "after" THEN 1 ELSE 0
  BY <1>1, Takes
<1>3. l # Main /\ NoRepeat(queue[l])
  BY <1>1, <1>2 DEF Handed
<1>4. id \in Ids /\ conn[id].statu = "accepted" /\ conn[id].loop = l
  BY <1>1, <1>2, <1>3, TaskFacts DEF Handed
<1>. HIDE DEF t, id
<1>5. queue'[Main] = queue[Main] /\ WaitingAfters' = WaitingAfters
  <2>. DEFINE n == WaitingAfters'
  <2>1. n \in Nat /\ WaitingAfters = n + 0
    BY <1>2, <1>3
  <2>2. queue'[Main] = queue[Main]
    BY <1>2, <1>3, LoopFacts
  <2>. HIDE DEF n
  <2>3. WaitingAfters = n
    BY <2>1
  <2>. QED BY <2>2, <2>3 DEF n
<1>6. \A u \in Elems(queue[Main]) : u.kind = "remove" => u.id \in Ids \ {id}
  BY <1>4, LoopFacts, TaskIds DEF Handed
<1>7. ASSUME NEW k \in AllLoops \ {Main}, NEW u \in Elems(queue'[k])
      PROVE  u \in Elems(queue[k]) /\ u.id \in Ids \ {id}
  <2>1. u \in Elems(queue[k])
    BY <1>2
  <2>2. u.kind = "new" /\ u.id \in Ids /\ u = [kind |-> u.kind, id |-> u.id]
        /\ conn[u.id].loop = k
    BY <2>1, TaskIds DEF Handed
  <2>3. t = [kind |-> "new", id |-> id]
    BY <1>1, <1>2, TaskFacts DEF id
  <2>4. CASE k = l
    BY <1>2, <1>3, <2>2, <2>3, <2>4
  <2>5. CASE k # l
    <3>1. u.id # id
      BY <1>4, <2>2, <2>5
    <3>. QED BY <2>1, <2>2, <3>1
  <2>. QED BY <2>4, <2>5
<1>8. \A k \in AllLoops \ {Main} : NoRepeat(queue'[k])
  BY <1>2, <1>3 DEF Handed
<1>. QED BY <1>1, <1>2, <1>3, <1>4, <1>5, <1>6, <1>7, <1>8 DEF t, id

LEMMA NewConnectionLedger ==
  ASSUME Ledger, NEW l \in AllLoops, NewConnection(l)
  PROVE  Ledger'
<1>. USE DEF Ledger
<1>. DEFINE id == Head(queue[l]).id
<1>1. /\ Pending(l, "new") /\ queue' = Dequeued(l)
      /\ Establish(id, conn[id].fd, l)
      /\ UNCHANGED <<main, quit, pool, inactive, countId, open, idle, afters, caught>>
  BY DEF NewConnection
<1>2. /\ l # Main /\ doing[l] = <<>>
      /\ id \in Ids /\ conn[id].statu = "accepted" /\ conn[id].loop = l
      /\ queue' \in [AllLoops -> Seq(Task)] /\ queue'[Main] = queue[Main]
      /\ WaitingAfters' = WaitingAfters
      /\ \A u \in Elems(queue'[Main]) : u.kind = "remove" => u.id \in Ids \ {id}
      /\ \A k \in AllLoops \ {Main} : \A u \in Elems(queue'[k]) :
           u \in Elems(queue[k]) /\ u.id \in Ids \ {id}
      /\ \A k \in AllLoops \ {Main} : NoRepeat(queue'[k])
  BY <1>1, TakesNew
<1>. HIDE DEF id
<1>3. id \notin afters /\ conn[id].fd \in Fd
  BY <1>2 DEF TimersDistinct, TypeOK, Connection
<1>4. countId' \in 0 .. MaxIds /\ countId' >= countId /\ open' \in SUBSET Fd
  BY <1>1 DEF TypeOK
<1>5. /\ TypeOK' /\ PoolFresh' /\ Stacks' /\ Registered' /\ TimersDistinct'
      /\ conn'[id].statu = "CONNECTED"
      /\ \A x \in Ids \ {id} : conn'[x] = conn[x]
  BY <1>1, <1>2, <1>3, <1>4, EstablishLedger
<1>6. Counted'
  <2>1. Drawn' <= MaxIds /\ countId' = countId
    BY <1>1, <1>2 DEF Counted, Drawn
  <2>2. \A x \in Ids : x >= countId => x # id
    BY <1>2 DEF Counted
  <2>3. \A x \in Ids : x = id \/ conn'[x] = conn[x]
    BY <1>5
  <2>4. \A x \in Ids : x >= countId => conn'[x].statu = "none"
    BY <2>2, <2>3 DEF Counted
  <2>5. \A x \in Ids : conn'[x].statu = "none" => ~conn'[x].sock
    BY <1>5, <2>3 DEF Counted
  <2>. QED BY <2>1, <2>4, <2>5 DEF Counted
<1>7. Handed'
  <2>1. \A u \in Elems(queue'[Main]) :
          u.kind # "new" /\ (u.kind = "remove" => conn'[u.id].statu = "DISCONNECTED")
    BY <1>2, <1>5 DEF Handed
  <2>2. ASSUME NEW k \in AllLoops \ {Main}, NEW u \in Elems(queue'[k])
        PROVE  u.kind = "new" /\ conn'[u.id].statu = "accepted" /\ conn'[u.id].loop = k
    <3>1. u \in Elems(queue[k]) /\ conn'[u.id] = conn[u.id]
      BY <1>2, <1>5
    <3>. QED BY <3>1 DEF Handed
  <2>3. \A k \in AllLoops \ {Main} : NoRepeat(queue'[k])
    BY <1>2
  <2>. QED BY <2>1, <2>2, <2>3 DEF Handed
<1>. QED BY <1>5, <1>6, <1>7

LEMMA MakingFailsLedger ==
  ASSUME Ledger, NEW l \in AllLoops, MakingFails(l)
  PROVE  Ledger'
<1>. USE DEF Ledger
<1>. DEFINE id == Head(queue[l]).id
            f == [at |-> "catch", id |-> id]
<1>1. /\ Pending(l, "new") /\ queue' = Dequeued(l)
      /\ open' = open \ {conn[id].fd} /\ conn' = [conn EXCEPT ![id].statu = "destroyed"]
      /\ Enter(l, <<f>>) /\ caught' = TRUE
      /\ UNCHANGED <<main, quit, pool, inactive, countId, conns, poller, idle, afters>>
  BY DEF MakingFails
<1>2. /\ l # Main /\ doing[l] = <<>>
      /\ id \in Ids /\ conn[id].statu = "accepted" /\ conn[id].loop = l
      /\ queue' \in [AllLoops -> Seq(Task)] /\ queue'[Main] = queue[Main]
      /\ WaitingAfters' = WaitingAfters
      /\ \A u \in Elems(queue'[Main]) : u.kind = "remove" => u.id \in Ids \ {id}
      /\ \A k \in AllLoops \ {Main} : \A u \in Elems(queue'[k]) :
           u \in Elems(queue[k]) /\ u.id \in Ids \ {id}
      /\ \A k \in AllLoops \ {Main} : NoRepeat(queue'[k])
  BY <1>1, TakesNew
<1>. HIDE DEF id
<1>3. f \in Frame /\ f.at = "catch" /\ f.id = id
  BY <1>2, FrameFacts
<1>. HIDE DEF f
<1>4. /\ conn' \in [Ids -> Connection]
      /\ conn'[id].statu = "destroyed" /\ conn'[id].loop = l
      /\ \A x \in Ids \ {id} : conn'[x] = conn[x]
  BY <1>1, <1>2 DEF TypeOK, Connection, Statu
<1>5. /\ doing' \in [AllLoops -> Seq(Frame)]
      /\ \A k \in AllLoops \ {l} : doing'[k] = doing[k]
  BY <1>1, <1>2, <1>3, Enters
<1>6. TypeOK' /\ PoolFresh'
  <2>1. open' \in SUBSET Fd
    BY <1>1 DEF TypeOK
  <2>. QED BY <1>1, <1>2, <1>4, <1>5, <2>1 DEF TypeOK, PoolFresh
<1>7. Stacks'
  <2>1. \A k \in AllLoops : doing[k] # <<>> => doing[k][1].id \in Ids \ {id}
    BY <1>2, FreshConn, FrameOwner
  <2>. QED BY <1>1, <1>2, <1>3, <1>4, <2>1, EnterStacks
<1>8. \A x \in Ids \ {id} : /\ CancelUnderWay(x) => CancelUnderWay(x)'
                            /\ RemovalUnderWay(x) => RemovalUnderWay(x)'
  <2>1. \A k \in AllLoops : Elems(doing[k]) \subseteq Elems(doing'[k])
    BY <1>2, <1>5, ElemsEmpty
  <2>2. \A x \in Ids : conn[x].loop \in AllLoops
    BY DEF TypeOK, Connection
  <2>. QED BY <1>2, <1>4, <2>1, <2>2, StillUnderWay
<1>9. id \notin conns /\ id \notin idle /\ id \notin afters
  <2>1. Elems(doing[conn[id].loop]) = {}
    BY <1>2, ElemsEmpty
  <2>2. Removing(id) \notin Elems(queue[Main])
    BY <1>2 DEF Removing, Handed
  <2>. QED BY <1>2, <2>1, <2>2, UnderWay DEF Registered, TimersDistinct
<1>10. Registered'
  BY <1>1, <1>4, <1>8, <1>9 DEF Registered
<1>11. TimersDistinct'
  <2>1. idle \subseteq Ids \ {id} /\ afters \subseteq Ids \ {id}
    BY <1>9 DEF TypeOK
  <2>. QED BY <1>1, <1>4, <1>8, <2>1 DEF TimersDistinct
<1>12. Counted'
  <2>1. Drawn' <= MaxIds /\ countId' = countId
    BY <1>1, <1>2 DEF Counted, Drawn
  <2>2. \A x \in Ids : x >= countId => x # id
    BY <1>2 DEF Counted
  <2>3. \A x \in Ids : x = id \/ conn'[x] = conn[x]
    BY <1>4
  <2>4. \A x \in Ids : x >= countId => conn'[x].statu = "none"
    BY <2>2, <2>3 DEF Counted
  <2>5. \A x \in Ids : conn'[x].statu = "none" => ~conn'[x].sock
    BY <1>4, <2>3 DEF Counted
  <2>. QED BY <2>1, <2>4, <2>5 DEF Counted
<1>13. Handed'
  <2>1. \A u \in Elems(queue'[Main]) :
          u.kind # "new" /\ (u.kind = "remove" => conn'[u.id].statu = "DISCONNECTED")
    BY <1>2, <1>4 DEF Handed
  <2>2. ASSUME NEW k \in AllLoops \ {Main}, NEW u \in Elems(queue'[k])
        PROVE  u.kind = "new" /\ conn'[u.id].statu = "accepted" /\ conn'[u.id].loop = k
    <3>1. u \in Elems(queue[k]) /\ conn'[u.id] = conn[u.id]
      BY <1>2, <1>4
    <3>. QED BY <3>1 DEF Handed
  <2>3. \A k \in AllLoops \ {Main} : NoRepeat(queue'[k])
    BY <1>2
  <2>. QED BY <2>1, <2>2, <2>3 DEF Handed
<1>. QED BY <1>6, <1>7, <1>10, <1>11, <1>12, <1>13

LEMMA ReleaseLedger ==
  ASSUME Ledger, NEW l \in AllLoops, Release(l)
  PROVE  Ledger'
<1>. USE DEF Ledger
<1>. DEFINE s == doing[l]
            id == s[1].id
<1>1. s \in Seq(Frame) /\ Nested(s)
  BY DEF TypeOK, Stacks
<1>2. s # <<>> /\ s[1].at \in {"connected", "handler"} /\ Current(l) = id
  BY <1>1, InsideDepth DEF Release
<1>3. id \in Ids /\ conn[id].loop = l /\ \A f \in Elems(s) : f.id = id
  BY <1>2, FrameOwner
<1>4. /\ conn[id].statu = "CONNECTED"
      /\ conn' = [conn EXCEPT ![id].statu = "DISCONNECTED"]
      /\ doing' = [doing EXCEPT ![l] = Steps(id) \o s]
      /\ UNCHANGED <<main, quit, pool, inactive, countId, open, queue, conns, poller,
                     idle, afters, caught>>
  BY <1>2 DEF Release, Enter, Steps
<1>5. LET t == Steps(id) \o s
      IN  /\ t \in Seq(Frame) /\ Len(t) = 4 /\ Nested(t) /\ t[1] = Cancelling(id)
          /\ Elems(s) \subseteq Elems(t) /\ Notifying(id) \in Elems(t)
          /\ Cancelling(id) \in Elems(t)
  BY <1>1, <1>2, PushRelease DEF Cancelling, Notifying
<1>6. /\ doing' \in [AllLoops -> Seq(Frame)]
      /\ \A k \in AllLoops \ {l} : doing'[k] = doing[k]
      /\ Len(doing'[l]) = 4 /\ Nested(doing'[l]) /\ doing'[l][1] = Cancelling(id)
      /\ \A k \in AllLoops : Elems(doing[k]) \subseteq Elems(doing'[k])
      /\ Notifying(id) \in Elems(doing'[l]) /\ Cancelling(id) \in Elems(doing'[l])
  BY <1>4, <1>5 DEF TypeOK
<1>. HIDE DEF s, id
<1>7. /\ conn' \in [Ids -> Connection]
      /\ conn'[id].statu = "DISCONNECTED" /\ conn'[id].loop = l
      /\ \A x \in Ids \ {id} : conn'[x] = conn[x]
      /\ conn'[id].sock = conn[id].sock
  BY <1>3, <1>4 DEF TypeOK, Connection, Statu
<1>8. TypeOK' /\ PoolFresh'
  BY <1>4, <1>6, <1>7 DEF TypeOK, PoolFresh
<1>9. Stacks'
  <2>1. ASSUME NEW k \in AllLoops \ {l} PROVE Nested(doing'[k]) /\ Within(k)'
    <3>1. CASE doing[k] = <<>>
      BY <1>6, <3>1 DEF Within, Stacks
    <3>2. CASE doing[k] # <<>>
      <4>1. doing[k][1].id \in Ids /\ conn[doing[k][1].id].loop = k
        BY <3>2, FrameOwner
      <4>2. doing[k][1].id # id
        BY <1>3, <4>1
      <4>3. Nested(doing[k]) /\ Within(k)
        BY DEF Stacks
      <4>. QED BY <1>6, <1>7, <4>1, <4>2, <4>3 DEF Within
    <3>. QED BY <3>1, <3>2
  <2>2. Nested(doing'[l]) /\ Within(l)'
    BY <1>6, <1>7 DEF Within, Cancelling
  <2>. QED BY <2>1, <2>2 DEF Stacks
<1>10. Handed'
  <2>1. \A k \in AllLoops \ {Main} : \A u \in Elems(queue[k]) : u.id \in Ids \ {id}
    BY <1>4, TaskIds DEF Handed
  <2>2. \A u \in Elems(queue[Main]) : u.kind = "remove" => u.id \in Ids \ {id}
    BY <1>4, LoopFacts, TaskIds DEF Handed
  <2>. QED BY <1>4, <1>7, <2>1, <2>2 DEF Handed
<1>11. Counted'
  <2>1. Drawn' <= MaxIds /\ countId' = countId
    BY <1>4 DEF Counted, Drawn, WaitingAfters
  <2>2. \A x \in Ids : x >= countId => x # id
    BY <1>3, <1>4 DEF Counted
  <2>3. \A x \in Ids : x = id \/ conn'[x] = conn[x]
    BY <1>7
  <2>4. \A x \in Ids : x >= countId => conn'[x].statu = "none"
    BY <2>2, <2>3 DEF Counted
  <2>5. \A x \in Ids : conn'[x].statu = "none" => ~conn'[x].sock
    BY <1>7, <2>3 DEF Counted
  <2>. QED BY <2>1, <2>4, <2>5 DEF Counted
<1>12. \A x \in Ids : /\ CancelUnderWay(x) => CancelUnderWay(x)'
                      /\ RemovalUnderWay(x) => RemovalUnderWay(x)'
  <2>1. \A x \in Ids : conn[x].loop \in AllLoops /\ conn'[x].loop = conn[x].loop
    BY <1>3, <1>7 DEF TypeOK, Connection
  <2>. QED BY <1>4, <1>6, <2>1, StillUnderWay
<1>13. \A x \in Ids : x = id => CancelUnderWay(x)' /\ RemovalUnderWay(x)'
  BY <1>6, <1>7, UnderWay
<1>14. Registered'
  BY <1>4, <1>7, <1>12, <1>13 DEF Registered
<1>15. TimersDistinct'
  <2>1. idle \subseteq Ids /\ afters \subseteq Ids \ {id}
    BY <1>4 DEF TypeOK, TimersDistinct
  <2>. QED BY <1>4, <1>7, <1>12, <1>13, <2>1 DEF TimersDistinct
<1>. QED BY <1>8, <1>9, <1>10, <1>11, <1>14, <1>15

-----------------------------------------------------------------------------
(* Steps of the main loop's queue alone *)

\* A call is queued for the main loop, or one of its tasks runs.
LEMMA MainQueueLedger ==
  ASSUME Ledger, UNCHANGED <<main, pool, inactive, open, doing, conn, poller, idle,
                             caught>>,
         quit' \in BOOLEAN,
         queue' \in [AllLoops -> Seq(Task)],
         \A k \in AllLoops \ {Main} : queue'[k] = queue[k],
         \A u \in Elems(queue'[Main]) : u \in Elems(queue[Main]) \/ u.kind \in {"after", "stop"},
         countId' \in 0 .. MaxIds, countId' >= countId, Drawn' <= MaxIds,
         conns' \subseteq conns,
         \A x \in conns' : Removing(x) \in Elems(queue[Main]) =>
                             Removing(x) \in Elems(queue'[Main]),
         \A x \in Ids : conn[x].statu = "CONNECTED" => x \in conns',
         afters' \in SUBSET Ids,
         \A x \in afters' : conn[x].statu = "none" /\ x < countId'
  PROVE  Ledger'
<1>. USE DEF Ledger
<1>1. TypeOK' /\ PoolFresh'
  BY DEF TypeOK, PoolFresh
<1>2. Stacks'
  BY DEF Stacks, Within
<1>3. Handed'
  BY LoopFacts DEF Handed
<1>4. Counted'
  <2>1. \A x \in Ids : x >= countId' => x >= countId
    BY IdFacts DEF TypeOK
  <2>. QED BY <2>1 DEF Counted
<1>5. Registered'
  BY UnderWay DEF Registered
<1>6. TimersDistinct'
  BY DEF TimersDistinct, CancelUnderWay
<1>. QED BY <1>1, <1>2, <1>3, <1>4, <1>5, <1>6

LEMMA CallLedger ==
  ASSUME Ledger, RunAfter \/ StopServer
  PROVE  Ledger'
<1>. USE DEF Ledger
<1>1. PICK t \in Task : /\ t.kind \in {"after", "stop"} /\ (t.kind = "after" => Room)
                        /\ queue' = Queued(queue, Main, t)
  <2>1. CASE RunAfter
    <3>. DEFINE u == [kind |-> "after"]
    <3>1. u \in Task /\ u.kind = "after"
      BY TaskFacts
    <3>. QED BY <2>1, <3>1 DEF RunAfter
  <2>2. CASE StopServer
    <3>. DEFINE u == [kind |-> "stop"]
    <3>1. u \in Task /\ u.kind = "stop"
      BY TaskFacts
    <3>. QED BY <2>2, <3>1 DEF StopServer
  <2>. QED BY <2>1, <2>2
<1>2. UNCHANGED <<main, quit, pool, inactive, countId, open, doing, conn, conns, poller, idle,
                  afters, caught>>
  BY DEF RunAfter, StopServer
<1>3. /\ queue' \in [AllLoops -> Seq(Task)]
      /\ \A k \in AllLoops \ {Main} : queue'[k] = queue[k]
      /\ Elems(queue'[Main]) = Elems(queue[Main]) \cup {t}
      /\ WaitingAfters \in Nat
      /\ WaitingAfters' = WaitingAfters + IF t.kind = "after" THEN 1 ELSE 0
  BY <1>1, Hands, LoopFacts
<1>4. countId \in Nat
  BY DEF TypeOK
<1>5. Drawn' <= MaxIds
  <2>1. CASE t.kind = "after"
    <3>1. Drawn < MaxIds /\ Drawn \in Nat
      BY <1>1, <2>1, RoomForId
    <3>2. Drawn' = Drawn + 1
      BY <1>2, <1>3, <1>4, <2>1 DEF Drawn
    <3>. QED BY <3>1, <3>2, BoundAssumption
  <2>2. CASE t.kind # "after"
    BY <1>2, <1>3, <1>4, <2>2 DEF Drawn, Counted
  <2>. QED BY <2>1, <2>2
<1>6. \A x \in afters : conn[x].statu = "none" /\ x < countId
  BY DEF TimersDistinct
<1>7. \A x \in Ids : conn[x].statu = "CONNECTED" => x \in conns
  BY DEF Registered
<1>8. afters \in SUBSET Ids /\ quit \in BOOLEAN /\ countId \in 0 .. MaxIds
  BY DEF TypeOK
<1>. QED BY <1>1, <1>2, <1>3, <1>4, <1>5, <1>6, <1>7, <1>8, MainQueueLedger

LEMMA CallHereLedger ==
  ASSUME Ledger, RunAfterHere
  PROVE  Ledger'
<1>. USE DEF Ledger
<1>1. /\ Room /\ countId' = countId + 1 /\ afters' = afters \cup {countId}
      /\ UNCHANGED <<main, quit, pool, inactive, open, queue, doing, conn, conns, poller,
                     idle, caught>>
  BY DEF RunAfterHere
<1>2. /\ countId \in Ids /\ Drawn < MaxIds /\ conn[countId].statu = "none"
      /\ countId \in Nat /\ WaitingAfters \in Nat
  BY <1>1, RoomForId, WaitingIsNat, IdFacts
<1>3. /\ countId' \in 0 .. MaxIds /\ countId' >= countId /\ Drawn' <= MaxIds
  BY <1>1, <1>2, BoundAssumption, IdFacts DEF Drawn, WaitingAfters
<1>4. \A x \in afters' : conn[x].statu = "none" /\ x < countId'
  <2>1. \A x \in afters : x \in Ids /\ conn[x].statu = "none" /\ x < countId
    BY DEF TypeOK, TimersDistinct
  <2>2. \A x \in afters : x < countId + 1
    BY <1>2, <2>1, IdFacts
  <2>3. countId < countId + 1
    BY <1>2
  <2>. QED BY <1>1, <1>2, <2>1, <2>2, <2>3
<1>5. /\ quit' \in BOOLEAN /\ queue' \in [AllLoops -> Seq(Task)] /\ afters' \in SUBSET Ids
  BY <1>1, <1>2 DEF TypeOK
<1>6. \A x \in Ids : conn[x].statu = "CONNECTED" => x \in conns'
  BY <1>1 DEF Registered
<1>. QED BY <1>1, <1>3, <1>4, <1>5, <1>6, MainQueueLedger

LEMMA TaskLedger ==
  ASSUME Ledger, EraseConnection \/ RunAfterInLoop \/ Stop
  PROVE  Ledger'
<1>. USE DEF Ledger
<1>. DEFINE t == Head(queue[Main])
<1>1. /\ queue[Main] # <<>> /\ queue' = Dequeued(Main)
      /\ UNCHANGED <<main, pool, inactive, open, doing, conn, poller, idle, caught>>
      /\ \/ t.kind = "remove" /\ conns' = conns \ {t.id} /\ UNCHANGED <<quit, countId, afters>>
         \/ /\ t.kind = "after" /\ countId' = countId + 1 /\ afters' = afters \cup {countId}
            /\ UNCHANGED <<quit, conns>>
         \/ t.kind = "stop" /\ quit' = TRUE /\ UNCHANGED <<countId, afters, conns>>
  BY DEF EraseConnection, RunAfterInLoop, Stop, Pending
<1>2. /\ queue' \in [AllLoops -> Seq(Task)] /\ t \in Task
      /\ \A k \in AllLoops \ {Main} : queue'[k] = queue[k]
      /\ Elems(queue[Main]) = Elems(queue'[Main]) \cup {t}
      /\ WaitingAfters' \in Nat
      /\ WaitingAfters = WaitingAfters' + IF t.kind = "after" THEN 1 ELSE 0
  BY <1>1, Takes, LoopFacts
<1>3. /\ \A x \in Ids : conn[x].statu = "CONNECTED" => x \in conns
      /\ \A x \in afters : conn[x].statu = "none" /\ x < countId
      /\ afters \in SUBSET Ids /\ quit \in BOOLEAN /\ countId \in 0 .. MaxIds
      /\ countId \in Nat /\ MaxIds \in Nat
      /\ Drawn <= MaxIds /\ Drawn = countId + WaitingAfters
      /\ \A id \in Ids : id >= countId => conn[id].statu = "none"
  BY BoundAssumption DEF TimersDistinct, Registered, TypeOK, Counted, Drawn
<1>. DEFINE n == WaitingAfters'
            m == WaitingAfters
<1>4. Drawn' = countId' + n
  BY DEF Drawn
<1>5. t.kind = "remove" => t.id \in Ids /\ t = Removing(t.id) /\ conn[t.id].statu = "DISCONNECTED"
  BY <1>2, TaskFacts DEF Removing, Handed
<1>. HIDE DEF t, n, m
<1>6. CASE t.kind = "remove" /\ conns' = conns \ {t.id} /\ UNCHANGED <<quit, countId, afters>>
  <2>1. Drawn' <= MaxIds
    BY <1>2, <1>3, <1>4, <1>6 DEF n, m
  <2>2. conns' \subseteq conns /\ \A x \in Ids : conn[x].statu = "CONNECTED" => x \in conns'
    BY <1>3, <1>5, <1>6
  <2>3. \A x \in conns' : Removing(x) \in Elems(queue[Main]) =>
                            Removing(x) \in Elems(queue'[Main])
    <3>1. \A x \in conns' : Removing(x) # t
      BY <1>6 DEF Removing
    <3>. QED BY <1>2, <3>1
  <2>. QED BY <1>1, <1>2, <1>3, <1>6, <2>1, <2>2, <2>3, MainQueueLedger
<1>7. ASSUME t.kind # "remove"
      PROVE  \A x : Removing(x) \in Elems(queue[Main]) => Removing(x) \in Elems(queue'[Main])
  BY <1>2, <1>7 DEF Removing
<1>8. CASE /\ t.kind = "after" /\ countId' = countId + 1 /\ afters' = afters \cup {countId}
           /\ UNCHANGED <<quit, conns>>
  <2>1. m = n + 1 /\ n \in Nat /\ countId + m <= MaxIds
    BY <1>2, <1>3, <1>8 DEF n, m
  <2>2. countId' + n <= MaxIds /\ countId' <= MaxIds /\ countId < MaxIds /\ countId' >= countId
        /\ countId' \in Nat
    BY <1>3, <1>8, <2>1
  <2>3. countId \in Ids /\ conn[countId].statu = "none"
    BY <1>3, <2>2, IdFacts
  <2>4. \A x \in afters' : conn[x].statu = "none" /\ x < countId'
    <3>1. \A x \in afters : x \in Nat /\ x < countId + 1
      BY <1>3, IdFacts
    <3>2. countId < countId + 1
      BY <1>3
    <3>. QED BY <1>3, <1>8, <2>3, <3>1, <3>2
  <2>5. afters' \in SUBSET Ids /\ countId' \in 0 .. MaxIds
    BY <1>3, <1>8, <2>2, <2>3
  <2>. QED BY <1>1, <1>2, <1>3, <1>4, <1>7, <1>8, <2>2, <2>4, <2>5, MainQueueLedger
<1>9. CASE t.kind = "stop" /\ quit' = TRUE /\ UNCHANGED <<countId, afters, conns>>
  <2>1. Drawn' <= MaxIds
    BY <1>2, <1>3, <1>4, <1>9 DEF n, m
  <2>. QED BY <1>1, <1>2, <1>3, <1>7, <1>9, <2>1, MainQueueLedger
<1>. QED BY <1>1, <1>6, <1>8, <1>9

LEMMA LedgerStep == Ledger /\ [Next]_vars => Ledger'
<1>. SUFFICES ASSUME Ledger, [Next]_vars PROVE Ledger'
  OBVIOUS
<1>1. CASE \E l \in Loops : LoopStep(l)
  <2>1. PICK l \in Loops : LoopStep(l)
    BY <1>1
  <2>2. l \in AllLoops
    BY LoopFacts DEF Ledger
  <2>3. CASE NewConnection(l)
    BY <2>2, <2>3, NewConnectionLedger
  <2>4. CASE MakingFails(l)
    BY <2>2, <2>4, MakingFailsLedger
  <2>5. CASE ConnectedReturns(l) \/ ConnectedThrows(l) \/ HandlerReturns(l) \/ CatchCloses(l)
    BY <2>2, <2>5, CallbackLedger
  <2>6. CASE \E id \in Ids : Serve(l, id)
    BY <2>2, <2>6, ServeLedger
  <2>7. CASE Release(l)
    BY <2>2, <2>7, ReleaseLedger
  <2>8. CASE ReleaseUnregisters(l)
    BY <2>2, <2>8, ReleaseUnregistersLedger
  <2>9. CASE ReleaseCloses(l)
    BY <2>2, <2>9, ReleaseClosesLedger
  <2>10. CASE ReleaseNotifies(l)
    BY <2>2, <2>10, ReleaseNotifiesLedger
  <2>. QED BY <2>1, <2>3, <2>4, <2>5, <2>6, <2>7, <2>8, <2>9, <2>10 DEF LoopStep
<1>2. CASE MainStep
  <2>1. ASSUME NEW fd \in Fd, AcceptHere(fd) PROVE Ledger'
    BY <2>1, AcceptHereLedger
  <2>2. ASSUME NEW fd \in Fd, AcceptAndHandOver(fd) PROVE Ledger'
    BY <2>2, AcceptAndHandOverLedger
  <2>3. ASSUME NEW fd \in Fd, AcceptAndClose(fd) \/ MakingFailsHere(fd) PROVE Ledger'
    BY <2>3, AcceptFailsLedger
  <2>4. CASE EraseConnection \/ RunAfterInLoop \/ Stop
    BY <2>4, TaskLedger
  <2>5. CASE AfterRings \/ LeaveLoop
    BY <2>5, ConfigureLedger
  <2>. QED BY <1>2, <2>1, <2>2, <2>3, <2>4, <2>5 DEF MainStep
<1>3. CASE UserStep
  <2>1. ASSUME NEW n \in 0 .. MaxThreads, SetThreadCount(n) PROVE Ledger'
    BY <2>1, SetThreadCountLedger
  <2>2. CASE EnableInactiveRelease \/ StartServer
    BY <2>2, ConfigureLedger
  <2>3. CASE RunAfter \/ StopServer
    BY <2>3, CallLedger
  <2>4. CASE RunAfterHere
    BY <2>4, CallHereLedger
  <2>. QED BY <1>3, <2>1, <2>2, <2>3, <2>4 DEF UserStep
<1>4. CASE UNCHANGED vars
  <2>1. UNCHANGED <<queue, doing, conn, conns, poller, idle, open, countId, afters>>
        /\ UNCHANGED <<main, quit, pool, inactive, caught>>
    BY <1>4 DEF vars
  <2>2. TypeOK' /\ PoolFresh' /\ countId' >= countId /\ Drawn' <= MaxIds
    BY <2>1 DEF Ledger, TypeOK, PoolFresh, Counted, Drawn, WaitingAfters
  <2>. QED BY <2>1, <2>2, QuietLedger
<1>. QED BY <1>1, <1>2, <1>3, <1>4 DEF Next

-----------------------------------------------------------------------------
(* The second half: who owns a descriptor, while nothing has been caught *)

Belong == Descriptors /\ Entries /\ Closings

LEMMA InitBelong == Init => Belongings
<1>. SUFFICES ASSUME Init PROVE Descriptors /\ Entries /\ Closings
  BY DEF Belongings
<1>1. \A l \in AllLoops : doing[l] = <<>> /\ Len(doing[l]) = 0
  BY DEF Init
<1>2. \A id \in Ids : ~Owns(id) /\ conn[id].statu = "none"
  BY DEF Init, Owns
<1>3. \A l \in AllLoops, fd \in Fd : poller[l][fd] \notin Ids
  BY BoundAssumption DEF Init, NoConn, Ids
<1>4. Closings
  BY <1>1 DEF Closings
<1>. QED BY <1>2, <1>3, <1>4 DEF Descriptors, Entries, Init

\* What the second half takes from the first.
LEMMA LedgerFacts ==
  ASSUME Ledger
  PROVE  /\ \A id \in Ids : conn[id].loop \in AllLoops /\ conn[id].fd \in Fd
         /\ conn \in [Ids -> Connection]
         /\ \A l \in AllLoops : doing[l] \in Seq(Frame) /\ Nested(doing[l]) /\ Within(l)
         /\ NoConn \notin Ids
         /\ \A l \in AllLoops : Len(doing[l]) >= 1 =>
              doing[l][1].id \in Ids /\ conn[doing[l][1].id].loop = l
         /\ \A l \in AllLoops : Len(doing[l]) > 1 =>
              conn[doing[l][1].id].statu = "DISCONNECTED"
<1>1. \A id \in Ids : conn[id].loop \in AllLoops /\ conn[id].fd \in Fd
  BY DEF Ledger, TypeOK, Connection
<1>2. \A l \in AllLoops : doing[l] \in Seq(Frame) /\ Nested(doing[l]) /\ Within(l)
  BY DEF Ledger, TypeOK, Stacks
<1>3. NoConn \notin Ids
  BY BoundAssumption DEF NoConn, Ids
<1>4. ASSUME NEW l \in AllLoops, Len(doing[l]) >= 1
      PROVE  /\ doing[l] # <<>>
             /\ doing[l][1].id \in Ids /\ conn[doing[l][1].id].loop = l
  <2>1. doing[l] # <<>>
    BY <1>2, <1>4, Depth
  <2>. QED BY <2>1, FrameOwner DEF Ledger
<1>5. ASSUME NEW l \in AllLoops, Len(doing[l]) > 1
      PROVE  conn[doing[l][1].id].statu = "DISCONNECTED"
  <2>1. Len(doing[l]) >= 1
    BY <1>5
  <2>. QED BY <1>2, <1>4, <1>5, <2>1 DEF Within
<1>6. conn \in [Ids -> Connection]
  BY DEF Ledger, TypeOK
<1>. QED BY <1>1, <1>2, <1>3, <1>4, <1>5, <1>6

\* A connection in a Poller is live, or its thread is about to take it out.
LEMMA EntryLives ==
  ASSUME Ledger, Belong, NEW l \in AllLoops, NEW fd \in Fd, NEW id \in Ids,
         poller[l][fd] = id
  PROVE  /\ conn[id].loop = l /\ conn[id].fd = fd /\ conn[id].sock
         /\ conn[id].statu \in {"CONNECTED", "DISCONNECTED"}
         /\ conn[id].statu = "DISCONNECTED" => Len(doing[l]) = 4 /\ doing[l][1].id = id
<1>1. /\ conn[id].loop = l /\ conn[id].fd = fd /\ conn[id].sock
      /\ conn[id].statu = "CONNECTED" \/ Unregistering(l, id)
  BY DEF Belong, Entries
<1>2. Unregistering(l, id) => Len(doing[l]) > 1 /\ doing[l][1].id = id
  BY DEF Unregistering
<1>. QED BY <1>1, <1>2, LedgerFacts DEF Unregistering

\* Steps in callbacks, and steps that no connection is part of.
LEMMA QuietBelong ==
  ASSUME Belong, UNCHANGED <<conn, open, poller>>,
         \A k \in AllLoops : \/ doing'[k] = doing[k]
                             \/ /\ Len(doing[k]) \in 0 .. 2 /\ Len(doing'[k]) \in 0 .. 1
                                /\ Len(doing'[k]) = 1 => doing'[k][1].at # "catch"
  PROVE  Belong'
<1>. USE DEF Belong
<1>1. Descriptors'
  BY DEF Descriptors, Owns
<1>2. ASSUME NEW k \in AllLoops, NEW id \in Ids, Unregistering(k, id)
      PROVE  Unregistering(k, id)'
  BY <1>2 DEF Unregistering
<1>3. Entries'
  BY <1>2 DEF Entries
<1>4. Closings'
  <2>1. ASSUME NEW k \in AllLoops
        PROVE  /\ Len(doing'[k]) >= 3 => conn'[doing'[k][1].id].sock
               /\ Len(doing'[k]) = 1 => doing'[k][1].at # "catch"
    <3>1. CASE doing'[k] = doing[k]
      BY <3>1 DEF Closings
    <3>2. CASE Len(doing'[k]) \in 0 .. 1 /\ (Len(doing'[k]) = 1 => doing'[k][1].at # "catch")
      <4>. DEFINE n == Len(doing'[k])
      <4>1. n \in 0 .. 1
        BY <3>2
      <4>. HIDE DEF n
      <4>2. ~(n >= 3)
        BY <4>1
      <4>. QED BY <3>2, <4>2 DEF n
    <3>. QED BY <3>1, <3>2
  <2>. QED BY <2>1 DEF Closings
<1>. QED BY <1>1, <1>3, <1>4

LEMMA CallbackBelong ==
  ASSUME Ledger, Belong, NEW l \in AllLoops,
         \/ ConnectedReturns(l) \/ HandlerReturns(l) \/ ReleaseNotifies(l)
         \/ \E id \in Ids : Serve(l, id)
  PROVE  Belong'
<1>1. doing[l] \in Seq(Frame) /\ Nested(doing[l]) /\ TypeOK /\ Stacks
  BY LedgerFacts DEF Ledger
<1>2. UNCHANGED <<conn, open, poller>>
  BY DEF ConnectedReturns, HandlerReturns, ReleaseNotifies, Serve
<1>3. CASE ConnectedReturns(l) \/ HandlerReturns(l) \/ ReleaseNotifies(l)
  <2>1. doing[l] # <<>> /\ doing[l][1].at \in {"connected", "handler", "notify"} /\ Leave(l)
    BY <1>1, <1>3, InsideDepth DEF ConnectedReturns, HandlerReturns, ReleaseNotifies
  <2>2. Len(doing[l]) = 1 \/ Len(doing[l]) = 2
    <3>1. Len(doing[l]) # 3 /\ Len(doing[l]) # 4
      BY <1>1, <2>1 DEF Nested
    <3>. QED BY <1>1, <2>1, <3>1, Depth
  <2>3. /\ \A k \in AllLoops \ {l} : doing'[k] = doing[k]
        /\ doing'[l] \in Seq(Frame) /\ Len(doing'[l]) = Len(doing[l]) - 1
        /\ doing'[l] # <<>> => doing'[l][1].at # "catch"
    BY <1>1, <2>1, Leaves
  <2>4. Len(doing'[l]) = 1 => doing'[l] # <<>>
    <3>1. Len(<<>>) = 0
      OBVIOUS
    <3>. QED BY <3>1
  <2>5. Len(doing[l]) \in 0 .. 2 /\ Len(doing'[l]) \in 0 .. 1
    BY <2>2, <2>3
  <2>. QED BY <1>2, <2>3, <2>4, <2>5, QuietBelong
<1>4. CASE \E id \in Ids : Serve(l, id)
  <2>1. PICK id \in Ids : Serve(l, id)
    BY <1>4
  <2>. DEFINE f == [at |-> "handler", id |-> id]
  <2>2. doing[l] = <<>> /\ Enter(l, <<f>>) /\ f \in Frame /\ f.at = "handler"
    BY <2>1, FrameFacts DEF Serve, Free
  <2>. HIDE DEF f
  <2>3. /\ \A k \in AllLoops \ {l} : doing'[k] = doing[k]
        /\ Len(doing'[l]) = 1 /\ doing'[l][1] = f
    BY <1>1, <2>2, Enters
  <2>4. Len(doing[l]) \in 0 .. 2 /\ Len(doing'[l]) \in 0 .. 1
    BY <2>2, <2>3
  <2>. QED BY <1>2, <2>2, <2>3, <2>4, QuietBelong
<1>. QED BY <1>3, <1>4

LEMMA ReleaseBelong ==
  ASSUME Ledger, Belong, NEW l \in AllLoops, Release(l)
  PROVE  Belong'
<1>1. doing[l] \in Seq(Frame) /\ Nested(doing[l])
  BY LedgerFacts
<1>2. /\ doing[l] # <<>> /\ doing[l][1].at \in {"connected", "handler"}
      /\ Current(l) = doing[l][1].id
  BY <1>1, InsideDepth DEF Release
<1>3. PICK id \in Ids : id = doing[l][1].id /\ conn[id].loop = l
  BY <1>2, FrameOwner DEF Ledger
<1>4. /\ conn[id].statu = "CONNECTED"
      /\ conn' = [conn EXCEPT ![id].statu = "DISCONNECTED"]
      /\ doing' = [doing EXCEPT ![l] = Steps(id) \o doing[l]]
      /\ UNCHANGED <<open, poller>>
  BY <1>2, <1>3 DEF Release, Enter, Steps
<1>5. LET t == Steps(id) \o doing[l]
      IN  Len(t) = 4 /\ t[1] = Cancelling(id) /\ Len(doing[l]) = 1
  BY <1>1, <1>2, <1>3, PushRelease DEF Cancelling
<1>6. /\ \A k \in AllLoops \ {l} : doing'[k] = doing[k]
      /\ Len(doing'[l]) = 4 /\ doing'[l][1].id = id
  BY <1>4, <1>5 DEF Ledger, TypeOK, Cancelling
<1>7. /\ conn'[id].statu = "DISCONNECTED" /\ conn'[id].loop = l
      /\ \A x \in Ids \ {id} : conn'[x] = conn[x]
      /\ conn'[id].sock = conn[id].sock /\ conn'[id].fd = conn[id].fd
  BY <1>3, <1>4, LedgerFacts DEF Connection
<1>8. conn[id].sock
  BY <1>4 DEF Belong, Entries
<1>9. \A x \in Ids : Owns(x)' <=> Owns(x)
  BY <1>4, <1>7 DEF Owns
<1>10. Descriptors'
  BY <1>4, <1>7, <1>9 DEF Belong, Descriptors
<1>11. Entries'
  <2>1. ASSUME NEW k \in AllLoops, NEW fd \in Fd, NEW x \in Ids, poller'[k][fd] = x
        PROVE  /\ conn'[x].loop = k /\ conn'[x].fd = fd /\ conn'[x].sock
               /\ conn'[x].statu = "CONNECTED" \/ Unregistering(k, x)'
    <3>1. poller[k][fd] = x
      BY <1>4, <2>1
    <3>2. /\ conn[x].loop = k /\ conn[x].fd = fd /\ conn[x].sock
          /\ conn[x].statu \in {"CONNECTED", "DISCONNECTED"}
          /\ conn[x].statu = "DISCONNECTED" => Len(doing[k]) = 4 /\ doing[k][1].id = x
      BY <3>1, EntryLives
    <3>3. CASE x = id
      BY <1>3, <1>6, <1>7, <3>2, <3>3 DEF Unregistering
    <3>4. CASE x # id /\ conn[x].statu = "CONNECTED"
      BY <1>7, <3>2, <3>4
    <3>5. CASE x # id /\ conn[x].statu = "DISCONNECTED"
      <4>1. k # l
        <5>. DEFINE n == Len(doing[l])
        <5>1. n = 1 /\ (k = l => n = 4)
          BY <1>5, <3>2, <3>5
        <5>. HIDE DEF n
        <5>. QED BY <5>1
      <4>. QED BY <1>6, <1>7, <3>2, <3>5, <4>1 DEF Unregistering
    <3>. QED BY <3>2, <3>3, <3>4, <3>5
  <2>2. \A x \in Ids : conn'[x].statu = "CONNECTED" =>
          conn'[x].sock /\ poller'[conn'[x].loop][conn'[x].fd] = x
    BY <1>4, <1>7 DEF Belong, Entries
  <2>. QED BY <2>1, <2>2 DEF Entries
<1>12. Closings'
  <2>1. ASSUME NEW k \in AllLoops
        PROVE  /\ Len(doing'[k]) >= 3 => conn'[doing'[k][1].id].sock
               /\ Len(doing'[k]) = 1 => doing'[k][1].at # "catch"
    <3>1. CASE k = l
      <4>. DEFINE n == Len(doing'[k])
      <4>1. n = 4 /\ doing'[k][1].id = id
        BY <1>6, <3>1
      <4>2. conn'[doing'[k][1].id].sock
        BY <1>7, <1>8, <4>1
      <4>. HIDE DEF n
      <4>3. n # 1
        BY <4>1
      <4>. QED BY <4>2, <4>3 DEF n
    <3>2. CASE k # l
      <4>1. doing'[k] = doing[k]
        BY <1>6, <3>2
      <4>2. Len(doing[k]) >= 3 => Len(doing[k]) >= 1
        BY LedgerFacts
      <4>. QED BY <1>7, <4>1, <4>2, LedgerFacts DEF Belong, Closings
    <3>. QED BY <3>1, <3>2
  <2>. QED BY <2>1 DEF Closings
<1>. QED BY <1>10, <1>11, <1>12 DEF Belong

\* The stacks of other threads, and what they are about to close.
LEMMA OtherStack ==
  ASSUME Ledger, Belong, NEW k \in AllLoops, NEW id \in Ids, conn[id].loop # k
               \/ conn[id].statu \in {"none", "accepted"},
         \A x \in Ids \ {id} : conn'[x] = conn[x],
         doing'[k] = doing[k]
  PROVE  /\ Len(doing'[k]) >= 3 => conn'[doing'[k][1].id].sock
         /\ Len(doing'[k]) = 1 => doing'[k][1].at # "catch"
         /\ \A x \in Ids : Unregistering(k, x) => Unregistering(k, x)'
<1>. DEFINE n == Len(doing[k])
<1>1. n \in Nat
  BY LedgerFacts
<1>2. n >= 3 => doing[k][1].id \in Ids \ {id} /\ conn[doing[k][1].id].sock
  <2>. SUFFICES ASSUME n >= 3
                PROVE  doing[k][1].id \in Ids \ {id} /\ conn[doing[k][1].id].sock
    OBVIOUS
  <2>1. conn[doing[k][1].id].sock
    BY DEF Belong, Closings
  <2>. HIDE DEF n
  <2>2. n >= 1 /\ n > 1
    BY <1>1
  <2>3. /\ doing[k][1].id \in Ids /\ conn[doing[k][1].id].loop = k
        /\ conn[doing[k][1].id].statu = "DISCONNECTED"
    BY <2>2, LedgerFacts DEF n
  <2>. QED BY <2>1, <2>3
<1>3. n = 1 => doing[k][1].at # "catch"
  BY DEF Belong, Closings
<1>. QED BY <1>2, <1>3 DEF Unregistering

\* The steps of Release.
LEMMA Releasing ==
  ASSUME Ledger, NEW l \in AllLoops, ReleaseUnregisters(l) \/ ReleaseCloses(l)
  PROVE  \E id \in Ids :
           /\ id = doing[l][1].id /\ id = Current(l) /\ conn[id].loop = l
           /\ conn[id].statu = "DISCONNECTED"
           /\ Len(doing[l]) = IF ReleaseUnregisters(l) THEN 4 ELSE 3
           /\ \A k \in AllLoops \ {l} : doing'[k] = doing[k]
           /\ Len(doing'[l]) = IF ReleaseUnregisters(l) THEN 3 ELSE 2
           /\ doing'[l][1].id = id
<1>1. doing[l] \in Seq(Frame) /\ Nested(doing[l]) /\ TypeOK /\ Stacks
  BY LedgerFacts DEF Ledger
<1>2. /\ doing[l] # <<>> /\ Leave(l) /\ Current(l) = doing[l][1].id
      /\ Len(doing[l]) = IF ReleaseUnregisters(l) THEN 4 ELSE 3
  BY <1>1, InsideDepth DEF ReleaseUnregisters, ReleaseCloses
<1>3. Len(doing[l]) > 1
  BY <1>2
<1>4. /\ doing[l][1].id \in Ids /\ conn[doing[l][1].id].loop = l
      /\ conn[doing[l][1].id].statu = "DISCONNECTED"
  BY <1>1, <1>2, <1>3, FrameOwner, LedgerFacts
<1>5. /\ \A k \in AllLoops \ {l} : doing'[k] = doing[k]
      /\ doing'[l] \in Seq(Frame) /\ Len(doing'[l]) = Len(doing[l]) - 1
      /\ doing'[l] # <<>> => doing'[l][1].id = doing[l][1].id
  BY <1>1, <1>2, Leaves
<1>6. Len(doing'[l]) = IF ReleaseUnregisters(l) THEN 3 ELSE 2
  BY <1>2, <1>5
<1>7. doing'[l] # <<>>
  BY <1>6
<1>. QED BY <1>2, <1>4, <1>5, <1>6, <1>7

LEMMA ReleaseUnregistersBelong ==
  ASSUME Ledger, Belong, NEW l \in AllLoops, ReleaseUnregisters(l)
  PROVE  Belong'
<1>1. PICK id \in Ids :
        /\ id = doing[l][1].id /\ id = Current(l) /\ conn[id].loop = l
        /\ conn[id].statu = "DISCONNECTED" /\ Len(doing[l]) = 4
        /\ \A k \in AllLoops \ {l} : doing'[k] = doing[k]
        /\ Len(doing'[l]) = 3 /\ doing'[l][1].id = id
  BY Releasing
<1>2. /\ UNCHANGED <<conn, open>>
      /\ poller' = [poller EXCEPT ![l][conn[id].fd] =
                      IF @ = id /\ conn[id].fd \in open THEN NoConn ELSE @]
  BY <1>1 DEF ReleaseUnregisters, RemoveEvent
<1>3. conn[id].sock /\ conn[id].fd \in open
  <2>. DEFINE n == Len(doing[l])
  <2>1. n = 4 /\ (n >= 3 => conn[id].sock)
    BY <1>1 DEF Belong, Closings
  <2>. HIDE DEF n
  <2>2. conn[id].sock
    BY <2>1
  <2>. QED BY <2>2 DEF Belong, Descriptors, Owns
<1>4. /\ poller'[l][conn[id].fd] # id
      /\ \A k \in AllLoops, fd \in Fd : \/ poller'[k][fd] = poller[k][fd]
                                        \/ /\ k = l /\ fd = conn[id].fd
                                           /\ poller[k][fd] = id /\ poller'[k][fd] = NoConn
  BY <1>2, <1>3, LedgerFacts DEF Ledger, TypeOK
<1>5. Descriptors'
  BY <1>2 DEF Belong, Descriptors, Owns
<1>6. Entries'
  <2>1. ASSUME NEW k \in AllLoops, NEW fd \in Fd, NEW x \in Ids, poller'[k][fd] = x
        PROVE  /\ conn'[x].loop = k /\ conn'[x].fd = fd /\ conn'[x].sock
               /\ conn'[x].statu = "CONNECTED" \/ Unregistering(k, x)'
    <3>1. poller[k][fd] = x
      BY <1>4, <2>1, LedgerFacts
    <3>2. /\ conn[x].loop = k /\ conn[x].fd = fd /\ conn[x].sock
          /\ conn[x].statu \in {"CONNECTED", "DISCONNECTED"}
          /\ conn[x].statu = "DISCONNECTED" => Len(doing[k]) = 4 /\ doing[k][1].id = x
      BY <3>1, EntryLives
    <3>3. x # id
      BY <1>1, <1>4, <2>1, <3>2
    <3>4. conn[x].statu = "DISCONNECTED" => k # l /\ Unregistering(k, x)'
      BY <1>1, <3>2, <3>3 DEF Unregistering
    <3>. QED BY <1>2, <3>2, <3>4
  <2>2. ASSUME NEW x \in Ids, conn[x].statu = "CONNECTED"
        PROVE  conn[x].sock /\ poller'[conn[x].loop][conn[x].fd] = x
    <3>1. conn[x].sock /\ poller[conn[x].loop][conn[x].fd] = x /\ x # id
      BY <1>1, <2>2 DEF Belong, Entries
    <3>. QED BY <1>4, <3>1, LedgerFacts
  <2>. QED BY <1>2, <2>1, <2>2 DEF Entries
<1>7. Closings'
  <2>1. ASSUME NEW k \in AllLoops
        PROVE  /\ Len(doing'[k]) >= 3 => conn'[doing'[k][1].id].sock
               /\ Len(doing'[k]) = 1 => doing'[k][1].at # "catch"
    <3>1. CASE k = l
      <4>. DEFINE n == Len(doing'[k])
      <4>1. n = 3 /\ conn'[doing'[k][1].id].sock
        BY <1>1, <1>2, <1>3, <3>1
      <4>. HIDE DEF n
      <4>2. n # 1
        BY <4>1
      <4>. QED BY <4>1, <4>2 DEF n
    <3>2. CASE k # l
      BY <1>1, <1>2, <3>2, OtherStack
    <3>. QED BY <3>1, <3>2
  <2>. QED BY <2>1 DEF Closings
<1>. QED BY <1>5, <1>6, <1>7 DEF Belong

LEMMA ReleaseClosesBelong ==
  ASSUME Ledger, Belong, NEW l \in AllLoops, ReleaseCloses(l)
  PROVE  Belong'
<1>0. ~ReleaseUnregisters(l)
  <2>1. doing[l] \in Seq(Frame) /\ Nested(doing[l])
    BY LedgerFacts
  <2>2. Inside(l, "close") /\ ~Inside(l, "unregister")
    BY <2>1, InsideDepth DEF ReleaseCloses
  <2>. QED BY <2>2 DEF ReleaseUnregisters
<1>1. PICK id \in Ids :
        /\ id = doing[l][1].id /\ id = Current(l) /\ conn[id].loop = l
        /\ conn[id].statu = "DISCONNECTED" /\ Len(doing[l]) = 3
        /\ \A k \in AllLoops \ {l} : doing'[k] = doing[k]
        /\ Len(doing'[l]) = 2
  BY <1>0, Releasing
<1>2. /\ open' = open \ {conn[id].fd} /\ conn' = [conn EXCEPT ![id].sock = FALSE]
      /\ poller' = poller
  BY <1>1 DEF ReleaseCloses
<1>3. /\ ~conn'[id].sock /\ conn'[id].statu = "DISCONNECTED"
      /\ \A x \in Ids \ {id} : conn'[x] = conn[x]
  BY <1>1, <1>2, LedgerFacts DEF Connection
<1>4. Owns(id)
  <2>. DEFINE n == Len(doing[l])
  <2>1. n = 3 /\ (n >= 3 => conn[id].sock)
    BY <1>1 DEF Belong, Closings
  <2>. HIDE DEF n
  <2>2. conn[id].sock
    BY <2>1
  <2>. QED BY <2>2 DEF Owns
<1>5. Descriptors'
  <2>1. \A x \in Ids : Owns(x)' <=> x # id /\ Owns(x)
    BY <1>3 DEF Owns
  <2>2. \A x \in Ids \ {id} : Owns(x) => conn[x].fd # conn[id].fd
    BY <1>4 DEF Belong, Descriptors
  <2>3. \A x \in Ids : Owns(x)' => conn'[x].fd \in open'
    BY <1>2, <1>3, <2>1, <2>2 DEF Belong, Descriptors
  <2>4. \A a, b \in Ids : Owns(a)' /\ Owns(b)' /\ conn'[a].fd = conn'[b].fd => a = b
    BY <1>3, <2>1 DEF Belong, Descriptors
  <2>5. ASSUME NEW fd \in open' PROVE \E x \in Ids : Owns(x)' /\ conn'[x].fd = fd
    <3>1. PICK x \in Ids : Owns(x) /\ conn[x].fd = fd
      BY <1>2, <2>5 DEF Belong, Descriptors
    <3>2. x # id
      BY <1>2, <2>5, <3>1
    <3>. QED BY <1>3, <2>1, <3>1, <3>2
  <2>. QED BY <2>3, <2>4, <2>5 DEF Descriptors
<1>6. Entries'
  <2>1. ASSUME NEW k \in AllLoops, NEW fd \in Fd, NEW x \in Ids, poller'[k][fd] = x
        PROVE  /\ conn'[x].loop = k /\ conn'[x].fd = fd /\ conn'[x].sock
               /\ conn'[x].statu = "CONNECTED" \/ Unregistering(k, x)'
    <3>1. /\ conn[x].loop = k /\ conn[x].fd = fd /\ conn[x].sock
          /\ conn[x].statu \in {"CONNECTED", "DISCONNECTED"}
          /\ conn[x].statu = "DISCONNECTED" => Len(doing[k]) = 4 /\ doing[k][1].id = x
      BY <1>2, <2>1, EntryLives
    <3>2. conn[x].statu = "DISCONNECTED" => k # l
      <4>. DEFINE n == Len(doing[l])
      <4>1. n = 3 /\ (conn[x].statu = "DISCONNECTED" /\ k = l => n = 4)
        BY <1>1, <3>1
      <4>. HIDE DEF n
      <4>. QED BY <4>1
    <3>3. x # id
      BY <1>1, <3>1, <3>2
    <3>4. conn[x].statu = "DISCONNECTED" => Unregistering(k, x)'
      BY <1>1, <3>1, <3>2 DEF Unregistering
    <3>. QED BY <1>3, <3>1, <3>3, <3>4
  <2>2. ASSUME NEW x \in Ids, conn'[x].statu = "CONNECTED"
        PROVE  conn'[x].sock /\ poller'[conn'[x].loop][conn'[x].fd] = x
    BY <1>2, <1>3, <2>2 DEF Belong, Entries
  <2>. QED BY <2>1, <2>2 DEF Entries
<1>7. Closings'
  <2>1. ASSUME NEW k \in AllLoops
        PROVE  /\ Len(doing'[k]) >= 3 => conn'[doing'[k][1].id].sock
               /\ Len(doing'[k]) = 1 => doing'[k][1].at # "catch"
    <3>1. CASE k = l
      <4>. DEFINE n == Len(doing'[k])
      <4>1. n = 2
        BY <1>1, <3>1
      <4>. HIDE DEF n
      <4>2. n # 1 /\ ~(n >= 3)
        BY <4>1
      <4>. QED BY <4>2 DEF n
    <3>2. CASE k # l
      BY <1>1, <1>3, <3>2, OtherStack
    <3>. QED BY <3>1, <3>2
  <2>. QED BY <2>1 DEF Closings
<1>. QED BY <1>5, <1>6, <1>7 DEF Belong

\* A connection takes its descriptor over, from the accept or from its lambda.
LEMMA NewOwner ==
  ASSUME Descriptors, NEW id \in Ids, NEW fd \in Fd, open' = open \cup {fd},
         conn'[id].statu = "accepted" \/ conn'[id].sock, conn'[id].fd = fd,
         \A x \in Ids \ {id} : conn'[x] = conn[x],
         Owns(id) => conn[id].fd = fd,
         \A x \in Ids \ {id} : Owns(x) => conn[x].fd # fd
  PROVE  Descriptors'
<1>1. \A x \in Ids : Owns(x)' <=> x = id \/ Owns(x)
  BY DEF Owns
<1>2. \A x \in Ids : Owns(x)' => conn'[x].fd \in open'
  BY <1>1 DEF Descriptors
<1>3. \A a, b \in Ids : Owns(a)' /\ Owns(b)' /\ conn'[a].fd = conn'[b].fd => a = b
  <2>. SUFFICES ASSUME NEW a \in Ids, NEW b \in Ids, Owns(a)', Owns(b)',
                       conn'[a].fd = conn'[b].fd
                PROVE  a = b
    OBVIOUS
  <2>1. CASE a = id \/ b = id
    BY <1>1, <2>1
  <2>2. CASE a # id /\ b # id
    BY <1>1, <2>2 DEF Descriptors
  <2>. QED BY <2>1, <2>2
<1>4. ASSUME NEW f \in open' PROVE \E x \in Ids : Owns(x)' /\ conn'[x].fd = f
  <2>1. CASE f = fd
    BY <1>1, <2>1
  <2>2. CASE f # fd
    <3>1. PICK x \in Ids : Owns(x) /\ conn[x].fd = f
      BY <1>4, <2>2 DEF Descriptors
    <3>2. x # id
      BY <2>2, <3>1
    <3>. QED BY <1>1, <3>1, <3>2
  <2>. QED BY <2>1, <2>2
<1>. QED BY <1>2, <1>3, <1>4 DEF Descriptors

LEMMA EstablishBelong ==
  ASSUME Ledger, Belong, NEW l \in AllLoops, NEW id \in Ids, NEW fd \in Fd,
         conn[id].statu \in {"none", "accepted"}, doing[l] = <<>>, Establish(id, fd, l),
         open' = open \cup {fd},
         Owns(id) => conn[id].fd = fd,
         \A x \in Ids \ {id} : Owns(x) => conn[x].fd # fd
  PROVE  Belong'
<1>. DEFINE f == [at |-> "connected", id |-> id]
<1>1. f \in Frame /\ f.at = "connected" /\ Enter(l, <<f>>)
  BY FrameFacts DEF Establish
<1>. HIDE DEF f
<1>2. /\ \A k \in AllLoops \ {l} : doing'[k] = doing[k]
      /\ Len(doing'[l]) = 1 /\ doing'[l][1] = f
  BY <1>1, Enters DEF Ledger
<1>3. /\ conn'[id].statu = "CONNECTED" /\ conn'[id].loop = l /\ conn'[id].fd = fd
      /\ conn'[id].sock
      /\ \A x \in Ids \ {id} : conn'[x] = conn[x]
      /\ poller'[l][fd] = id
      /\ \A k \in AllLoops, e \in Fd : (k = l /\ e = fd) \/ poller'[k][e] = poller[k][e]
  BY DEF Establish, Ledger, TypeOK
<1>4. Descriptors'
  BY <1>3, NewOwner DEF Belong
<1>5. Entries'
  <2>1. ASSUME NEW k \in AllLoops, NEW e \in Fd, NEW x \in Ids, poller'[k][e] = x
        PROVE  /\ conn'[x].loop = k /\ conn'[x].fd = e /\ conn'[x].sock
               /\ conn'[x].statu = "CONNECTED" \/ Unregistering(k, x)'
    <3>1. CASE k = l /\ e = fd
      BY <1>3, <2>1, <3>1
    <3>2. CASE poller[k][e] = x
      <4>1. /\ conn[x].loop = k /\ conn[x].fd = e /\ conn[x].sock
            /\ conn[x].statu \in {"CONNECTED", "DISCONNECTED"}
            /\ conn[x].statu = "DISCONNECTED" => Len(doing[k]) = 4 /\ doing[k][1].id = x
        BY <3>2, EntryLives
      <4>2. x # id
        BY <4>1
      <4>3. Len(doing[k]) = 4 => k # l
        <5>. DEFINE n == Len(doing[l])
        <5>1. n = 0 /\ (k = l => Len(doing[k]) = n)
          OBVIOUS
        <5>. HIDE DEF n
        <5>. QED BY <5>1
      <4>. QED BY <1>2, <1>3, <4>1, <4>2, <4>3 DEF Unregistering
    <3>. QED BY <1>3, <2>1, <3>1, <3>2
  <2>2. ASSUME NEW x \in Ids, conn'[x].statu = "CONNECTED"
        PROVE  conn'[x].sock /\ poller'[conn'[x].loop][conn'[x].fd] = x
    <3>1. CASE x = id
      BY <1>3, <3>1
    <3>2. CASE x # id
      <4>1. conn[x].sock /\ poller[conn[x].loop][conn[x].fd] = x /\ conn'[x] = conn[x]
        BY <1>3, <2>2, <3>2 DEF Belong, Entries
      <4>2. conn[x].fd # fd
        BY <3>2, <4>1 DEF Owns
      <4>. QED BY <1>3, <4>1, <4>2, LedgerFacts
    <3>. QED BY <3>1, <3>2
  <2>. QED BY <2>1, <2>2 DEF Entries
<1>6. Closings'
  <2>1. ASSUME NEW k \in AllLoops
        PROVE  /\ Len(doing'[k]) >= 3 => conn'[doing'[k][1].id].sock
               /\ Len(doing'[k]) = 1 => doing'[k][1].at # "catch"
    <3>1. CASE k = l
      <4>. DEFINE n == Len(doing'[k])
      <4>1. n = 1
        BY <1>2, <3>1
      <4>. HIDE DEF n
      <4>2. ~(n >= 3)
        BY <4>1
      <4>. QED BY <1>1, <1>2, <3>1, <4>2 DEF n
    <3>2. CASE k # l
      BY <1>2, <1>3, <3>2, OtherStack
    <3>. QED BY <3>1, <3>2
  <2>. QED BY <2>1 DEF Closings
<1>. QED BY <1>4, <1>5, <1>6 DEF Belong

LEMMA AcceptHereBelong ==
  ASSUME Ledger, Belong, NEW fd \in Fd, AcceptHere(fd)
  PROVE  Belong'
<1>1. /\ doing[Main] = <<>> /\ Room /\ fd \notin open /\ open' = open \cup {fd}
      /\ Establish(countId, fd, Main)
  BY DEF AcceptHere, MayAccept, Free
<1>2. PICK id \in Ids : id = countId /\ conn[id].statu = "none" /\ ~conn[id].sock
  BY <1>1, RoomForId
<1>3. Establish(id, fd, Main)
  BY <1>1, <1>2
<1>4. ~Owns(id) /\ \A x \in Ids : Owns(x) => conn[x].fd # fd
  BY <1>1, <1>2 DEF Owns, Belong, Descriptors
<1>. QED BY <1>1, <1>2, <1>3, <1>4, LoopFacts, EstablishBelong

LEMMA NewConnectionBelong ==
  ASSUME Ledger, Belong, NEW l \in AllLoops, NewConnection(l)
  PROVE  Belong'
<1>1. PICK id \in Ids : /\ id = Head(queue[l]).id /\ doing[l] = <<>>
                        /\ conn[id].statu = "accepted"
  BY TakesNew DEF NewConnection
<1>2. Establish(id, conn[id].fd, l) /\ open' = open
  BY <1>1 DEF NewConnection
<1>3. Owns(id) /\ conn[id].fd \in Fd
  BY <1>1, LedgerFacts DEF Owns
<1>4. conn[id].fd \in open /\ \A x \in Ids \ {id} : Owns(x) => conn[x].fd # conn[id].fd
  BY <1>3 DEF Belong, Descriptors
<1>5. open' = open \cup {conn[id].fd}
  BY <1>2, <1>4
<1>. QED BY <1>1, <1>2, <1>3, <1>4, <1>5, EstablishBelong

LEMMA AcceptAndHandOverBelong ==
  ASSUME Ledger, Belong, NEW fd \in Fd, AcceptAndHandOver(fd)
  PROVE  Belong'
<1>1. Room /\ fd \notin open /\ open' = open \cup {fd} /\ UNCHANGED <<doing, poller>>
  BY DEF AcceptAndHandOver, MayAccept
<1>2. PICK id \in Ids : id = countId /\ conn[id].statu = "none" /\ ~conn[id].sock
  BY <1>1, RoomForId
<1>3. /\ conn'[id].statu = "accepted" /\ conn'[id].fd = fd /\ ~conn'[id].sock
      /\ \A x \in Ids \ {id} : conn'[x] = conn[x]
  BY <1>2, LedgerFacts DEF AcceptAndHandOver
<1>4. ~Owns(id) /\ \A x \in Ids : Owns(x) => conn[x].fd # fd
  BY <1>1, <1>2 DEF Owns, Belong, Descriptors
<1>5. Descriptors'
  BY <1>1, <1>3, <1>4, NewOwner DEF Belong
<1>6. Entries'
  <2>1. ASSUME NEW k \in AllLoops, NEW e \in Fd, NEW x \in Ids, poller'[k][e] = x
        PROVE  /\ conn'[x].loop = k /\ conn'[x].fd = e /\ conn'[x].sock
               /\ conn'[x].statu = "CONNECTED" \/ Unregistering(k, x)'
    <3>1. /\ conn[x].loop = k /\ conn[x].fd = e /\ conn[x].sock
          /\ conn[x].statu = "CONNECTED" \/ Unregistering(k, x)
      BY <1>1, <2>1 DEF Belong, Entries
    <3>2. x # id
      BY <1>2, <3>1
    <3>3. Unregistering(k, x) => Unregistering(k, x)'
      BY <1>1 DEF Unregistering
    <3>. QED BY <1>3, <3>1, <3>2, <3>3
  <2>2. ASSUME NEW x \in Ids, conn'[x].statu = "CONNECTED"
        PROVE  conn'[x].sock /\ poller'[conn'[x].loop][conn'[x].fd] = x
    BY <1>1, <1>3, <2>2 DEF Belong, Entries
  <2>. QED BY <2>1, <2>2 DEF Entries
<1>7. Closings'
  <2>1. ASSUME NEW k \in AllLoops
        PROVE  /\ Len(doing'[k]) >= 3 => conn'[doing'[k][1].id].sock
               /\ Len(doing'[k]) = 1 => doing'[k][1].at # "catch"
    BY <1>1, <1>2, <1>3, OtherStack
  <2>. QED BY <2>1 DEF Closings
<1>. QED BY <1>5, <1>6, <1>7 DEF Belong

LEMMA BelongingsStep == Ledger /\ Belongings /\ [Next]_vars => Belongings'
<1>. SUFFICES ASSUME Ledger, Belongings, [Next]_vars, ~caught' PROVE Belong'
  BY DEF Belongings, Belong
<1>1. CASE \E l \in Loops : LoopStep(l)
  <2>1. PICK l \in Loops : LoopStep(l)
    BY <1>1
  <2>2. l \in AllLoops
    BY LoopFacts DEF Ledger
  <2>3. ~caught /\ ~MakingFails(l) /\ ~ConnectedThrows(l)
    <3>1. ~MakingFails(l) /\ ~ConnectedThrows(l)
      BY DEF MakingFails, ConnectedThrows
    <3>2. CASE NewConnection(l) \/ CatchCloses(l) \/ \E id \in Ids : Serve(l, id)
      <4>1. NewConnection(l) => caught' = caught
        BY DEF NewConnection
      <4>2. CatchCloses(l) => caught' = caught
        BY DEF CatchCloses
      <4>3. \A id \in Ids : Serve(l, id) => caught' = caught
        BY DEF Serve
      <4>4. caught' = caught
        BY <3>2, <4>1, <4>2, <4>3
      <4>. QED BY <3>1, <4>4
    <3>3. CASE ConnectedReturns(l) \/ HandlerReturns(l) \/ Release(l)
      BY <3>1, <3>3 DEF ConnectedReturns, HandlerReturns, Release
    <3>4. CASE ReleaseUnregisters(l) \/ ReleaseCloses(l) \/ ReleaseNotifies(l)
      BY <3>1, <3>4 DEF ReleaseUnregisters, ReleaseCloses, ReleaseNotifies
    <3>. QED BY <2>1, <3>1, <3>2, <3>3, <3>4 DEF LoopStep
  <2>4. Belong
    BY <2>3 DEF Belongings, Belong
  <2>5. ~CatchCloses(l)
    <3>1. doing[l] \in Seq(Frame) /\ Nested(doing[l])
      BY <2>2, LedgerFacts
    <3>2. SUFFICES ASSUME doing[l] # <<>>, doing[l][1].at = "catch" PROVE FALSE
      BY <3>1, InsideDepth DEF CatchCloses
    <3>3. Len(doing[l]) = 1
      <4>1. Len(doing[l]) # 2 /\ Len(doing[l]) # 3 /\ Len(doing[l]) # 4
        BY <3>1, <3>2 DEF Nested
      <4>. QED BY <3>1, <3>2, <4>1, Depth
    <3>. QED BY <2>2, <2>4, <3>2, <3>3 DEF Belong, Closings
  <2>6. CASE NewConnection(l)
    BY <2>2, <2>4, <2>6, NewConnectionBelong
  <2>7. CASE ConnectedReturns(l) \/ HandlerReturns(l) \/ ReleaseNotifies(l)
             \/ \E id \in Ids : Serve(l, id)
    BY <2>2, <2>4, <2>7, CallbackBelong
  <2>8. CASE Release(l)
    BY <2>2, <2>4, <2>8, ReleaseBelong
  <2>9. CASE ReleaseUnregisters(l)
    BY <2>2, <2>4, <2>9, ReleaseUnregistersBelong
  <2>10. CASE ReleaseCloses(l)
    BY <2>2, <2>4, <2>10, ReleaseClosesBelong
  <2>. QED BY <2>1, <2>3, <2>5, <2>6, <2>7, <2>8, <2>9, <2>10 DEF LoopStep
<1>2. CASE \E fd \in Fd : AcceptHere(fd) \/ AcceptAndHandOver(fd)
  <2>1. PICK fd \in Fd : AcceptHere(fd) \/ AcceptAndHandOver(fd)
    BY <1>2
  <2>2. Belong
    BY <2>1 DEF AcceptHere, AcceptAndHandOver, Belongings, Belong
  <2>. QED BY <2>1, <2>2, AcceptHereBelong, AcceptAndHandOverBelong
<1>3. CASE \/ \E fd \in Fd : AcceptAndClose(fd) \/ MakingFailsHere(fd)
           \/ EraseConnection \/ RunAfterInLoop \/ AfterRings \/ Stop \/ LeaveLoop
           \/ UserStep \/ UNCHANGED vars
  <2>1. UNCHANGED <<conn, open, poller, doing>> /\ (caught' = caught \/ caught')
    BY <1>3 DEF AcceptAndClose, MakingFailsHere, EraseConnection, RunAfterInLoop, AfterRings,
                Stop, LeaveLoop, UserStep, SetThreadCount, EnableInactiveRelease, StartServer,
                RunAfter, RunAfterHere, StopServer, vars
  <2>2. Belong
    BY <2>1 DEF Belongings, Belong
  <2>. QED BY <2>1, <2>2, QuietBelong
<1>. QED BY <1>1, <1>2, <1>3 DEF Next, MainStep

-----------------------------------------------------------------------------
(* The theorems *)

\* The inductive invariant holds in every state, for any number of threads,
\* descriptors, connections and waiting calls.
THEOREM Invariance == Spec => []Inv
<1>1. Init => Inv
  BY InitLedger, InitBelong DEF Inv
<1>2. Inv /\ [Next]_vars => Inv'
  BY LedgerStep, BelongingsStep DEF Inv
<1>. QED BY <1>1, <1>2, PTL DEF Spec

\* Every variable stays in its type, for any number of everything.
THEOREM TypeCorrect == Spec => []TypeOK
<1>1. Inv => TypeOK
  BY DEF Inv, Ledger
<1>. QED BY <1>1, Invariance, PTL

\* Every open descriptor has one owner and no owner a closed one, until the
\* catch in NewConnection has been reached.
THEOREM Ownership == Spec => []OneOwner
<1>1. Inv => OneOwner
  <2>. SUFFICES ASSUME Inv, ~caught, NEW fd \in Fd
                PROVE  Cardinality(Owners(fd)) = IF fd \in open THEN 1 ELSE 0
    BY DEF OneOwner
  <2>1. Descriptors
    BY DEF Inv, Belongings
  <2>2. Owners(fd) = {id \in Ids : conn[id].fd = fd /\ Owns(id)}
    BY DEF Owners, Owns
  <2>3. CASE fd \in open
    <3>1. PICK id \in Ids : Owns(id) /\ conn[id].fd = fd
      BY <2>1, <2>3 DEF Descriptors
    <3>2. Owners(fd) = {id}
      BY <2>1, <2>2, <3>1 DEF Descriptors
    <3>. QED BY <2>3, <3>2, FS_Singleton
  <2>4. CASE fd \notin open
    <3>1. Owners(fd) = {}
      BY <2>1, <2>2, <2>4 DEF Descriptors
    <3>. QED BY <2>4, <3>1, FS_EmptySet
  <2>. QED BY <2>3, <2>4
<1>. QED BY <1>1, Invariance, PTL

\* A Poller leads to the connection that owns the descriptor and lives on that
\* loop, and a live connection is in its Poller: no event is for a dead one.
THEOREM Registrations == Spec => []PollersExact
<1>1. Inv => PollersExact
  <2>. SUFFICES ASSUME Inv, ~caught, NEW id \in Ids, NEW l \in Loops, NEW fd \in Fd
                PROVE  /\ poller[l][fd] = id =>
                            conn[id].loop = l /\ conn[id].fd = fd /\ conn[id].sock
                       /\ conn[id].statu = "CONNECTED" =>
                            poller[conn[id].loop][conn[id].fd] = id
    BY DEF PollersExact
  <2>1. Entries /\ l \in AllLoops
    BY LoopFacts DEF Inv, Belongings, Ledger
  <2>. QED BY <2>1 DEF Entries
<1>. QED BY <1>1, Invariance, PTL

\* The table holds a connection until its removal, which is under way once it
\* has ended, whatever is thrown.
THEOREM Registration == Spec => []Registered
<1>1. Inv => Registered
  BY DEF Inv, Ledger
<1>. QED BY <1>1, Invariance, PTL

\* No id is on a wheel twice, for a connection and for a RunAfter call.
THEOREM DistinctTimers == Spec => []TimersDistinct
<1>1. Inv => TimersDistinct
  BY DEF Inv, Ledger
<1>. QED BY <1>1, Invariance, PTL

\* No two Sockets manage one descriptor, as socket.hpp has it, until the catch
\* in NewConnection has been reached.
THEOREM OneSocketUntilCaught == Spec => [](~caught => OneSocketPerFd)
<1>1. Inv => (~caught => OneSocketPerFd)
  BY DEF Inv, Belongings, Descriptors, Owns, OneSocketPerFd
<1>. QED BY <1>1, Invariance, PTL

\* A step of Next changes the Poller of a worker only on that worker's thread.
LEMMA PollerSteps ==
  ASSUME Ledger, [Next]_vars, NEW k \in Workers, poller[k] # poller'[k]
  PROVE  LoopStep(k)
<1>0. k \in AllLoops /\ k # Main
  BY MainAssumption, LoopFacts DEF Ledger, Loops, Workers
<1>1. CASE \E l \in Loops : LoopStep(l)
  <2>1. PICK l \in Loops : LoopStep(l)
    BY <1>1
  <2>2. l \in AllLoops
    BY LoopFacts DEF Ledger
  <2>3. CASE NewConnection(l)
    <3>1. k = l
      BY <1>0, <2>2, <2>3 DEF NewConnection, Establish, Ledger, TypeOK
    <3>. QED BY <2>1, <3>1
  <2>4. CASE ReleaseUnregisters(l)
    <3>1. PICK id \in Ids : id = Current(l) /\ conn[id].loop = l
      BY <2>2, <2>4, Releasing
    <3>2. k = l
      BY <1>0, <2>2, <2>4, <3>1 DEF ReleaseUnregisters, RemoveEvent, Ledger, TypeOK
    <3>. QED BY <2>1, <3>2
  <2>5. CASE ~NewConnection(l) /\ ~ReleaseUnregisters(l)
    <3>1. poller' = poller
      BY <2>1, <2>5 DEF LoopStep, MakingFails, CatchCloses, Serve, ConnectedReturns,
                        ConnectedThrows, HandlerReturns, Release, ReleaseCloses, ReleaseNotifies
    <3>. QED BY <3>1
  <2>. QED BY <2>3, <2>4, <2>5
<1>2. CASE \E fd \in Fd : AcceptHere(fd)
  <2>1. PICK fd \in Fd : AcceptHere(fd)
    BY <1>2
  <2>2. poller'[k] = poller[k]
    BY <1>0, <2>1, LoopFacts DEF AcceptHere, Establish, Ledger, TypeOK
  <2>. QED BY <2>2
<1>3. CASE \/ \E fd \in Fd : AcceptAndHandOver(fd) \/ AcceptAndClose(fd) \/ MakingFailsHere(fd)
           \/ EraseConnection \/ RunAfterInLoop \/ AfterRings \/ Stop \/ LeaveLoop
           \/ UserStep \/ UNCHANGED vars
  <2>1. poller' = poller
    BY <1>3 DEF AcceptAndHandOver, AcceptAndClose, MakingFailsHere, EraseConnection,
                RunAfterInLoop, AfterRings, Stop, LeaveLoop, UserStep, SetThreadCount,
                EnableInactiveRelease, StartServer, RunAfter, RunAfterHere, StopServer, vars
  <2>. QED BY <2>1
<1>. QED BY <1>1, <1>2, <1>3 DEF Next, MainStep

\* While the server lives no other thread takes a descriptor out of a worker's
\* Poller: what the README claims fails with the destructor only.
THEOREM ConfinedWhileItLives == Spec => PollersConfined
<1>1. Inv /\ [Next]_vars => [\A l \in Workers : poller[l] # poller'[l] => LoopStep(l)]_vars
  <2>. SUFFICES ASSUME Inv, [Next]_vars
                PROVE  \A l \in Workers : poller[l] # poller'[l] => LoopStep(l)
    OBVIOUS
  <2>. QED BY PollerSteps DEF Inv
<1>. QED BY <1>1, Invariance, PTL DEF Spec, PollersConfined

=============================================================================

--------------------------- MODULE BlockIOProofs ---------------------------
(***************************************************************************)
(* Proofs about BlockIO, for any ring, any geometry and either mode.       *)
(*                                                                         *)
(* The blocks in use are a row: for a reader that of the master, the queue *)
(* and the two of the thread, for a writer that of the thread, the queue   *)
(* and the two of the master.  The first part is about such rows (Held),   *)
(* the next about windows of the ring (Win); a block that moves along the  *)
(* row, enters it at the end or leaves it at the front keeps the two equal.*)
(*                                                                         *)
(* The second half is about what the blocks hold.  For a reader, the data  *)
(* of the row follow each other (Row) up to where the thread is (Located), *)
(* and a block that is begun knows where its first byte belongs (Flow);    *)
(* a thread that is about to resume may be elsewhere than the master, and  *)
(* what it then holds is junk or dropped (Synced).  For a writer, what is  *)
(* put and what is on its way are all that was written (WriteFlow).        *)
(***************************************************************************)
EXTENDS BlockIO, SequenceTheorems, TLAPS

-----------------------------------------------------------------------------
(* Four holders in a row: a block or none, the queue, and two of a block   *)
(* or none.                                                                 *)

Places == Blocks \cup {NULL}
Cnt(x) == IF x = NULL THEN 0 ELSE 1
Held(a, q, c, d) == Hold(a) \o q \o Hold(c) \o Hold(d)

\* NULL is not a block.
LEMMA PlacesType ==
  /\ NULL \notin Blocks
  /\ \A x \in Places : Hold(x) \in Seq(Blocks) /\ Len(Hold(x)) = Cnt(x) /\ Cnt(x) \in {0, 1}
  /\ \A x \in Blocks : x \in Places /\ Hold(x) = <<x>> /\ Cnt(x) = 1
  /\ NULL \in Places /\ Hold(NULL) = <<>> /\ Cnt(NULL) = 0
<1>1. NULL \notin Blocks
  BY GeometryAssumption DEF NULL, Blocks
<1> QED BY <1>1 DEF Places, Hold, Cnt

\* A row has the length of its parts, and each part has its place in it.
LEMMA HeldType ==
  ASSUME NEW a \in Places, NEW q \in Seq(Blocks), NEW c \in Places, NEW d \in Places
  PROVE  /\ Held(a, q, c, d) \in Seq(Blocks)
         /\ Len(Held(a, q, c, d)) = Cnt(a) + Len(q) + Cnt(c) + Cnt(d)
         /\ a # NULL => Held(a, q, c, d)[1] = a
         /\ \A i \in 1 .. Len(q) : Held(a, q, c, d)[Cnt(a) + i] = q[i]
         /\ c # NULL => Held(a, q, c, d)[Cnt(a) + Len(q) + 1] = c
         /\ d # NULL => Held(a, q, c, d)[Cnt(a) + Len(q) + Cnt(c) + 1] = d
<1> DEFINE A == Hold(a)  C == Hold(c)  D == Hold(d)  AQ == A \o q  AQC == AQ \o C
<1>1. /\ A \in Seq(Blocks) /\ C \in Seq(Blocks) /\ D \in Seq(Blocks) /\ Len(q) \in Nat
      /\ Len(A) = Cnt(a) /\ Len(C) = Cnt(c) /\ Len(D) = Cnt(d)
      /\ Cnt(a) \in {0, 1} /\ Cnt(c) \in {0, 1} /\ Cnt(d) \in {0, 1}
      /\ a # NULL => A[1] = a /\ Cnt(a) = 1
      /\ c # NULL => C[1] = c /\ Cnt(c) = 1
      /\ d # NULL => D[1] = d /\ Cnt(d) = 1
  BY PlacesType DEF Places
<1>c. \A s, t \in Seq(Blocks) :
        /\ s \o t \in Seq(Blocks) /\ Len(s \o t) = Len(s) + Len(t)
        /\ \A i \in 1 .. Len(s) + Len(t) : (s \o t)[i] = IF i <= Len(s) THEN s[i] ELSE t[i - Len(s)]
  BY ConcatProperties
<1> HIDE DEF A, C, D
<1>2. /\ AQ \in Seq(Blocks) /\ Len(AQ) = Cnt(a) + Len(q)
      /\ \A i \in 1 .. Cnt(a) + Len(q) : AQ[i] = IF i <= Cnt(a) THEN A[i] ELSE q[i - Cnt(a)]
  BY <1>1, ConcatProperties
<1> HIDE DEF AQ
<1>3. /\ AQC \in Seq(Blocks) /\ Len(AQC) = Cnt(a) + Len(q) + Cnt(c)
      /\ \A i \in 1 .. Cnt(a) + Len(q) + Cnt(c) :
           AQC[i] = IF i <= Cnt(a) + Len(q) THEN AQ[i] ELSE C[i - (Cnt(a) + Len(q))]
  <2>1. /\ AQC \in Seq(Blocks) /\ Len(AQC) = Len(AQ) + Len(C)
        /\ \A i \in 1 .. Len(AQ) + Len(C) : AQC[i] = IF i <= Len(AQ) THEN AQ[i] ELSE C[i - Len(AQ)]
    BY <1>1, <1>2, <1>c
  <2> QED BY <1>1, <1>2, <2>1
<1> HIDE DEF AQC
<1>4. /\ AQC \o D \in Seq(Blocks) /\ Len(AQC \o D) = Cnt(a) + Len(q) + Cnt(c) + Cnt(d)
      /\ \A i \in 1 .. Cnt(a) + Len(q) + Cnt(c) + Cnt(d) :
           (AQC \o D)[i] = IF i <= Cnt(a) + Len(q) + Cnt(c) THEN AQC[i] ELSE D[i - (Cnt(a) + Len(q) + Cnt(c))]
  <2>1. /\ AQC \o D \in Seq(Blocks) /\ Len(AQC \o D) = Len(AQC) + Len(D)
        /\ \A i \in 1 .. Len(AQC) + Len(D) : (AQC \o D)[i] = IF i <= Len(AQC) THEN AQC[i] ELSE D[i - Len(AQC)]
    BY <1>1, <1>3, <1>c
  <2> QED BY <1>1, <1>3, <2>1
<1>5. Held(a, q, c, d) = AQC \o D
  BY DEF Held, AQC, AQ, A, C, D
<1>6. a # NULL => (AQC \o D)[1] = a
  BY <1>1, <1>2, <1>3, <1>4
<1>7. \A i \in 1 .. Len(q) : (AQC \o D)[Cnt(a) + i] = q[i]
  <2> SUFFICES ASSUME NEW i \in 1 .. Len(q) PROVE (AQC \o D)[Cnt(a) + i] = q[i]
    OBVIOUS
  <2>1. Cnt(a) + i \in 1 .. Cnt(a) + Len(q) /\ (Cnt(a) + i) - Cnt(a) = i /\ ~(Cnt(a) + i <= Cnt(a))
    BY <1>1
  <2>2. AQ[Cnt(a) + i] = q[i]
    BY <1>2, <2>1
  <2>3. AQC[Cnt(a) + i] = q[i]
    BY <1>1, <1>3, <2>1, <2>2
  <2> QED BY <1>1, <1>4, <2>1, <2>3
<1>8. ASSUME c # NULL PROVE (AQC \o D)[Cnt(a) + Len(q) + 1] = c
  <2>1. AQC[Cnt(a) + Len(q) + 1] = C[1]
    BY <1>1, <1>3, <1>8
  <2> QED BY <1>1, <1>4, <1>8, <2>1
<1>9. ASSUME d # NULL PROVE (AQC \o D)[Cnt(a) + Len(q) + Cnt(c) + 1] = d
  <2>1. (AQC \o D)[Cnt(a) + Len(q) + Cnt(c) + 1] = D[1]
    <3> DEFINE n == Cnt(a) + Len(q) + Cnt(c)
    <3>1. n + 1 \in 1 .. n + Cnt(d) /\ ~(n + 1 <= n) /\ (n + 1) - n = 1
      BY <1>1, <1>9
    <3> QED BY <1>4, <3>1
  <2> QED BY <1>1, <1>9, <2>1
<1> QED BY <1>4, <1>5, <1>6, <1>7, <1>8, <1>9

\* How blocks move along the row, and leave and enter it.
LEMMA HeldMoves ==
  ASSUME NEW a \in Places, NEW q \in Seq(Blocks), NEW c \in Places, NEW d \in Places
  PROVE  /\ c # NULL => Held(a, Append(q, c), NULL, d) = Held(a, q, c, d)
         /\ Held(a, q, c, NULL) = Held(a, q, NULL, c)
         /\ q # <<>> => Held(Head(q), Tail(q), c, d) = Held(NULL, q, c, d)
         /\ \A x \in Blocks : Held(a, q, c, x) = Append(Held(a, q, NULL, c), x)
<1>1. /\ Hold(a) \in Seq(Blocks) /\ Hold(c) \in Seq(Blocks) /\ Hold(d) \in Seq(Blocks)
      /\ Hold(a) \o q \in Seq(Blocks) /\ <<>> \in Seq(Blocks)
      /\ (Hold(a) \o q) \o Hold(c) \in Seq(Blocks)
      /\ Hold(NULL) = <<>>
  BY PlacesType, ConcatProperties
<1>2. ASSUME c # NULL PROVE Held(a, Append(q, c), NULL, d) = Held(a, q, c, d)
  <2>1. c \in Blocks /\ Hold(c) = <<c>> /\ Append(q, c) \in Seq(Blocks)
    BY <1>2, PlacesType DEF Places
  <2>2. Append(q, c) = q \o <<c>>
    BY <2>1, AppendIsConcat
  <2>3. Hold(a) \o Append(q, c) = (Hold(a) \o q) \o Hold(c)
    BY <1>1, <2>1, <2>2, ConcatAssociative
  <2>4. (Hold(a) \o Append(q, c)) \o Hold(NULL) = Hold(a) \o Append(q, c)
    BY <1>1, <2>1, <2>3, ConcatEmptySeq
  <2> QED BY <2>3, <2>4 DEF Held
<1>3. Held(a, q, c, NULL) = Held(a, q, NULL, c)
  BY <1>1, ConcatEmptySeq DEF Held
<1>4. ASSUME q # <<>> PROVE Held(Head(q), Tail(q), c, d) = Held(NULL, q, c, d)
  <2>1. Head(q) \in Blocks /\ Hold(Head(q)) = <<Head(q)>> /\ Tail(q) \in Seq(Blocks)
    BY <1>4, PlacesType, HeadTailProperties
  <2>2. Hold(Head(q)) \o Tail(q) = q
    <3>1. Hold(Head(q)) \o Tail(q) \in Seq(Blocks) /\ Len(q) \in Nat /\ Len(q) > 0
      <4>1. Hold(Head(q)) \in Seq(Blocks)
        BY <2>1, PlacesType
      <4>2. Len(q) \in Nat \ {0}
        BY <1>4, EmptySeq
      <4> QED BY <2>1, <4>1, <4>2, ConcatProperties
    <3>2. \A i \in 1 .. Len(q) : (<<Head(q)>> \o Tail(q))[i] = q[i]
      BY <1>4, <2>1, <3>1, HeadTailProperties, ConcatProperties
    <3>3. Len(<<Head(q)>> \o Tail(q)) = Len(q)
      BY <1>4, <2>1, <3>1, HeadTailProperties, ConcatProperties
    <3> QED BY <2>1, <3>1, <3>2, <3>3, SeqEqual
  <2>3. Hold(NULL) \o q = q
    BY <1>1, ConcatEmptySeq
  <2> QED BY <2>2, <2>3 DEF Held
<1>5. ASSUME NEW x \in Blocks PROVE Held(a, q, c, x) = Append(Held(a, q, NULL, c), x)
  <2>1. Held(a, q, NULL, c) = (Hold(a) \o q) \o Hold(c)
    BY <1>1, ConcatEmptySeq DEF Held
  <2>2. Hold(x) = <<x>>
    BY PlacesType
  <2> QED BY <1>1, <2>1, <2>2, AppendIsConcat DEF Held
<1> QED BY <1>2, <1>3, <1>4, <1>5

\* The oldest block leaves the row.
LEMMA HeldRelease ==
  ASSUME NEW a \in Places, NEW q \in Seq(Blocks), NEW c \in Places, NEW d \in Places
  PROVE  /\ a # NULL => Held(NULL, q, c, d) = Tail(Held(a, q, c, d))
         /\ q # <<>> => Held(NULL, Tail(q), c, d) = Tail(Held(NULL, q, c, d))
         /\ c # NULL => Held(NULL, <<>>, NULL, d) = Tail(Held(NULL, <<>>, c, d))
         /\ d # NULL => Held(NULL, <<>>, NULL, NULL) = Tail(Held(NULL, <<>>, NULL, d))
<1>1. ASSUME NEW x \in Blocks, NEW s \in Seq(Blocks), NEW y \in Places, NEW z \in Places
      PROVE  Held(NULL, s, y, z) = Tail(Held(x, s, y, z))
  <2> DEFINE u == Held(x, s, y, z)  v == Held(NULL, s, y, z)
  <2>1. Hold(NULL) = <<>> /\ Hold(x) = <<x>> /\ Hold(y) \in Seq(Blocks) /\ Hold(z) \in Seq(Blocks) /\ <<x>> \in Seq(Blocks)
    BY PlacesType
  <2>2. /\ s \o Hold(y) \in Seq(Blocks) /\ (s \o Hold(y)) \o Hold(z) \in Seq(Blocks)
    BY <2>1, ConcatProperties
  <2>3. v = (s \o Hold(y)) \o Hold(z)
    BY <2>1, ConcatEmptySeq DEF Held
  <2>4. (<<x>> \o s) \o Hold(y) = <<x>> \o (s \o Hold(y))
    BY <2>1, ConcatAssociative
  <2>5. (<<x>> \o (s \o Hold(y))) \o Hold(z) = <<x>> \o ((s \o Hold(y)) \o Hold(z))
    BY <2>1, <2>2, ConcatAssociative
  <2>6. u = <<x>> \o v
    BY <2>1, <2>3, <2>4, <2>5 DEF Held
  <2>7. v \in Seq(Blocks)
    BY <2>2, <2>3
  <2> HIDE DEF u, v
  <2>8. /\ u \in Seq(Blocks) /\ Len(u) = 1 + Len(v) /\ Len(v) \in Nat
        /\ \A i \in 1 .. 1 + Len(v) : u[i] = IF i <= 1 THEN <<x>>[i] ELSE v[i - 1]
    BY <2>1, <2>6, <2>7, ConcatProperties
  <2>9. /\ Tail(u) \in Seq(Blocks) /\ Len(Tail(u)) = Len(v)
        /\ \A i \in 1 .. Len(v) : Tail(u)[i] = u[i + 1]
    BY <2>8, HeadTailProperties, EmptySeq
  <2>10. \A i \in 1 .. Len(v) : Tail(u)[i] = v[i]
    BY <2>8, <2>9
  <2>11. Tail(u) = v
    BY <2>7, <2>9, <2>10, SeqEqual
  <2> QED BY <2>11 DEF u, v
<1>2. a # NULL => Held(NULL, q, c, d) = Tail(Held(a, q, c, d))
  BY <1>1 DEF Places
<1>3. ASSUME NEW s \in Seq(Blocks), s # <<>>, NEW y \in Places, NEW z \in Places
      PROVE  Held(NULL, Tail(s), y, z) = Tail(Held(NULL, s, y, z))
  <2>1. Head(s) \in Blocks /\ Tail(s) \in Seq(Blocks)
    BY <1>3, HeadTailProperties
  <2>2. Held(NULL, s, y, z) = Held(Head(s), Tail(s), y, z)
    <3>1. NULL \in Places
      BY PlacesType
    <3> QED BY <1>3, <3>1, HeldMoves
  <2>3. Held(NULL, Tail(s), y, z) = Tail(Held(Head(s), Tail(s), y, z))
    BY <1>1, <1>3, <2>1
  <2> QED BY <2>2, <2>3
<1>4. <<>> \in Seq(Blocks) /\ NULL \in Places
  BY PlacesType
<1>5. ASSUME NEW y \in Blocks, NEW z \in Places, NEW e \in Seq(Blocks), e = <<>>
      PROVE  Held(NULL, e, NULL, z) = Tail(Held(NULL, e, y, z))
  <2>1. y \in Places /\ y # NULL
    BY PlacesType
  <2>2. Append(e, y) \in Seq(Blocks) /\ Append(e, y) # <<>> /\ Tail(Append(e, y)) = e
    <3>1. Append(e, y) = <<y>> /\ <<y>> # <<>> /\ Tail(<<y>>) = <<>>
      BY <1>5
    <3> QED BY <1>5, <3>1
  <2>3. Held(NULL, Append(e, y), NULL, z) = Held(NULL, e, y, z)
    BY <1>4, <2>1, HeldMoves
  <2>4. Held(NULL, Tail(Append(e, y)), NULL, z) = Tail(Held(NULL, Append(e, y), NULL, z))
    BY <1>3, <1>4, <2>2
  <2> QED BY <2>2, <2>3, <2>4
<1>6. c # NULL => Held(NULL, <<>>, NULL, d) = Tail(Held(NULL, <<>>, c, d))
  BY <1>4, <1>5 DEF Places
<1>7. ASSUME d # NULL PROVE Held(NULL, <<>>, NULL, NULL) = Tail(Held(NULL, <<>>, NULL, d))
  <2>1. d \in Blocks
    BY <1>7 DEF Places
  <2>2. Held(NULL, <<>>, NULL, NULL) = Tail(Held(NULL, <<>>, d, NULL))
    BY <1>4, <1>5, <2>1
  <2>3. Held(NULL, <<>>, d, NULL) = Held(NULL, <<>>, NULL, d)
    BY <1>4, HeldMoves
  <2> QED BY <2>2, <2>3
<1> QED BY <1>2, <1>3, <1>6, <1>7

-----------------------------------------------------------------------------
(* The window of the blocks in use, n of them before position h.           *)

Win(h, n) == [k \in 1 .. n |-> (h - n + k - 1 + SuperBlockCnt) % SuperBlockCnt]
After(h)  == IF h + 1 = SuperBlockCnt THEN 0 ELSE h + 1

\* Its positions, once around the ring, differ from each other and from h.
LEMMA WindowType ==
  ASSUME NEW h \in Blocks, NEW n \in 0 .. SuperBlockCnt
  PROVE  /\ Win(h, n) \in Seq(Blocks) /\ Len(Win(h, n)) = n
         /\ \A k \in 1 .. n : Win(h, n)[k] = IF h - n + k - 1 >= 0 THEN h - n + k - 1 ELSE h - n + k - 1 + SuperBlockCnt
         /\ \A k, l \in 1 .. n : Win(h, n)[k] = Win(h, n)[l] => k = l
         /\ n < SuperBlockCnt => \A k \in 1 .. n : Win(h, n)[k] # h
<1>1. SuperBlockCnt \in Nat \ {0} /\ h \in 0 .. (SuperBlockCnt - 1)
  BY GeometryAssumption DEF Blocks
<1>2. \A x \in 0 .. 2 * SuperBlockCnt - 1 : x % SuperBlockCnt = IF x < SuperBlockCnt THEN x ELSE x - SuperBlockCnt
  BY <1>1
<1>3. ASSUME NEW k \in 1 .. n
      PROVE  /\ Win(h, n)[k] = IF h - n + k - 1 >= 0 THEN h - n + k - 1 ELSE h - n + k - 1 + SuperBlockCnt
             /\ Win(h, n)[k] \in Blocks
  <2>1. h - n + k - 1 + SuperBlockCnt \in 0 .. 2 * SuperBlockCnt - 1
    BY <1>1
  <2>2. Win(h, n)[k] = (h - n + k - 1 + SuperBlockCnt) % SuperBlockCnt
    BY DEF Win
  <2>3. Win(h, n)[k] = IF h - n + k - 1 >= 0 THEN h - n + k - 1 ELSE h - n + k - 1 + SuperBlockCnt
    BY <1>1, <1>2, <2>1, <2>2
  <2> QED BY <1>1, <2>3 DEF Blocks
<1>4. Win(h, n) \in Seq(Blocks) /\ Len(Win(h, n)) = n
  <2> DEFINE w == Win(h, n)
  <2>1. w = [k \in 1 .. n |-> w[k]]
    BY DEF Win
  <2>2. \A k \in 1 .. n : w[k] \in Blocks
    BY <1>3
  <2> HIDE DEF w
  <2>3. w \in Seq(Blocks) /\ Len(w) = n
    BY <1>1, <2>1, <2>2
  <2> QED BY <2>3 DEF w
<1>5. \A k, l \in 1 .. n : Win(h, n)[k] = Win(h, n)[l] => k = l
  BY <1>1, <1>3
<1>6. n < SuperBlockCnt => \A k \in 1 .. n : Win(h, n)[k] # h
  BY <1>1, <1>3
<1> QED BY <1>3, <1>4, <1>5, <1>6

\* A block is handed out: the window gets it as its youngest.
LEMMA WindowGrows ==
  ASSUME NEW h \in Blocks, NEW n \in 0 .. SuperBlockCnt, n < SuperBlockCnt
  PROVE  /\ After(h) \in Blocks
         /\ Win(After(h), n + 1) = Append(Win(h, n), h)
<1>1. SuperBlockCnt \in Nat \ {0} /\ h \in 0 .. (SuperBlockCnt - 1) /\ n + 1 \in 0 .. SuperBlockCnt
  BY GeometryAssumption DEF Blocks
<1>2. After(h) \in Blocks
  BY <1>1 DEF After, Blocks
<1> DEFINE w == Win(h, n)  v == Win(After(h), n + 1)
<1>3. /\ w \in Seq(Blocks) /\ Len(w) = n
      /\ \A k \in 1 .. n : w[k] = IF h - n + k - 1 >= 0 THEN h - n + k - 1 ELSE h - n + k - 1 + SuperBlockCnt
  BY WindowType
<1>4. /\ v \in Seq(Blocks) /\ Len(v) = n + 1
      /\ \A k \in 1 .. n + 1 : v[k] = IF After(h) - (n + 1) + k - 1 >= 0 THEN After(h) - (n + 1) + k - 1
                                      ELSE After(h) - (n + 1) + k - 1 + SuperBlockCnt
  BY <1>1, <1>2, WindowType
<1> HIDE DEF w, v
<1>5. /\ Append(w, h) \in Seq(Blocks) /\ Len(Append(w, h)) = n + 1
      /\ \A k \in 1 .. n : Append(w, h)[k] = w[k]
      /\ Append(w, h)[n + 1] = h
  BY <1>3
<1>6. ASSUME NEW k \in 1 .. n + 1 PROVE v[k] = Append(w, h)[k]
  <2>1. CASE k = n + 1
    <3>1. v[n + 1] = IF After(h) - 1 >= 0 THEN After(h) - 1 ELSE After(h) - 1 + SuperBlockCnt
      BY <1>1, <1>2, <1>4 DEF Blocks
    <3> QED BY <1>1, <1>5, <2>1, <3>1 DEF After
  <2>2. CASE k # n + 1
    <3>1. k \in 1 .. n
      BY <2>2
    <3>2. w[k] = IF h - n + k - 1 >= 0 THEN h - n + k - 1 ELSE h - n + k - 1 + SuperBlockCnt
      BY <1>3, <3>1
    <3>3. v[k] = IF After(h) - (n + 1) + k - 1 >= 0 THEN After(h) - (n + 1) + k - 1
                 ELSE After(h) - (n + 1) + k - 1 + SuperBlockCnt
      BY <1>4
    <3>4. v[k] = w[k]
      BY <1>1, <3>1, <3>2, <3>3 DEF After
    <3> QED BY <1>5, <3>1, <3>4
  <2> QED BY <2>1, <2>2
<1>7. v = Append(w, h)
  BY <1>4, <1>5, <1>6, SeqEqual
<1> QED BY <1>2, <1>7 DEF w, v

\* A block comes back: the window loses its oldest.
LEMMA WindowShrinks ==
  ASSUME NEW h \in Blocks, NEW n \in 1 .. SuperBlockCnt
  PROVE  Win(h, n - 1) = Tail(Win(h, n))
<1>1. SuperBlockCnt \in Nat \ {0} /\ h \in 0 .. (SuperBlockCnt - 1) /\ n - 1 \in 0 .. SuperBlockCnt /\ n \in 0 .. SuperBlockCnt
  BY GeometryAssumption DEF Blocks
<1> DEFINE w == Win(h, n)  v == Win(h, n - 1)
<1>3. /\ w \in Seq(Blocks) /\ Len(w) = n
      /\ \A k \in 1 .. n : w[k] = IF h - n + k - 1 >= 0 THEN h - n + k - 1 ELSE h - n + k - 1 + SuperBlockCnt
  BY <1>1, WindowType
<1>4. /\ v \in Seq(Blocks) /\ Len(v) = n - 1
      /\ \A k \in 1 .. n - 1 : v[k] = IF h - (n - 1) + k - 1 >= 0 THEN h - (n - 1) + k - 1
                                      ELSE h - (n - 1) + k - 1 + SuperBlockCnt
  BY <1>1, WindowType
<1> HIDE DEF w, v
<1>5. /\ Tail(w) \in Seq(Blocks) /\ Len(Tail(w)) = n - 1
      /\ \A k \in 1 .. n - 1 : Tail(w)[k] = w[k + 1]
  BY <1>1, <1>3, HeadTailProperties, EmptySeq
<1>6. ASSUME NEW k \in 1 .. n - 1 PROVE v[k] = Tail(w)[k]
  <2>1. w[k + 1] = IF h - n + (k + 1) - 1 >= 0 THEN h - n + (k + 1) - 1 ELSE h - n + (k + 1) - 1 + SuperBlockCnt
    BY <1>1, <1>3
  <2> QED BY <1>1, <1>4, <1>5, <2>1
<1>7. v = Tail(w)
  BY <1>4, <1>5, <1>6, SeqEqual
<1> QED BY <1>7 DEF w, v

-----------------------------------------------------------------------------
(* Sizes, and what the operations on the ring do to the blocks.            *)

\* The sizes that follow from those of a block.
LEMMA Sizes ==
  ASSUME TypeOK
  PROVE  /\ PartSz \in Nat \ {0} /\ Payload \in Nat \ {0} /\ Split \in Nat \ {0}
         /\ DataSz \in Nat /\ StoredBlock \in Nat /\ CrcBytes \in Nat \ {0}
         /\ Writing => Split = Payload
         /\ BlockSz = Split + CrcBytes + (IF Reading THEN Payload ELSE PartSz)
<1>1. /\ PartSz \in Nat \ {0} /\ minfo.parts \in Nat \ {0} /\ minfo.versz \in Nat
      /\ CrcBytes \in Nat \ {0} /\ minfo.versz > CrcBytes
  BY GeometryAssumption DEF TypeOK, PartSz
<1>2. Payload \in Nat \ {0}
  BY <1>1 DEF Payload
<1>3. \A x, y \in Nat \ {0} : x * y \in Nat \ {0}
  OBVIOUS
<1>4. \A x, y \in Nat \ {0} : x <= y => y \div x \in Nat \ {0}
  OBVIOUS
<1>5. \A x \in Nat, y \in Nat \ {0} : x \div y \in Nat
  OBVIOUS
<1>6. PartCnt \in Nat \ {0}
  BY <1>1, <1>2, <1>4 DEF PartCnt
<1>7. PartCnt * PartSz \in Nat \ {0}
  BY <1>1, <1>3, <1>6
<1>8. Split \in Nat \ {0} /\ (Writing => Split = Payload)
  BY <1>2, <1>7 DEF Split, Reading, Writing
<1>9. DataSz \in Nat
  BY <1>1, <1>3 DEF DataSz, PartSz
<1>10. NumIOs \in Nat
  BY <1>2, <1>5, <1>9 DEF NumIOs
<1>11. NumIOs * CrcBytes \in Nat
  BY <1>1, <1>10
<1>12. StoredBlock \in Nat
  BY <1>9, <1>11 DEF StoredBlock
<1> QED BY <1>1, <1>2, <1>8, <1>9, <1>12 DEF BlockSz

BlockType == [buff : Seq(Int), error_end : Int]

\* A DAL block is read into block b.
LEMMA FillFromType ==
  ASSUME TypeOK, NEW b \in Blocks, NEW blk \in BlockType, NEW ok \in BOOLEAN, ToRead > CrcBytes, FillFrom(b, blk, ok)
  PROVE  /\ block' \in [Blocks -> BlockType] /\ offset' \in Nat
         /\ \A i \in Blocks : i # b => block'[i] = block[i]
         /\ Len(block'[b].buff) <= Len(blk.buff) + Payload
<1> USE DEF BlockType
<1>1. /\ Payload \in Nat \ {0} /\ StoredBlock \in Nat /\ CrcBytes \in Nat \ {0} /\ offset \in Nat
      /\ minfo.versz \in Nat /\ block \in [Blocks -> BlockType]
      /\ Payload = minfo.versz - CrcBytes
  BY Sizes DEF TypeOK, Payload
<1>2. ToRead \in Nat /\ ToRead - CrcBytes \in Nat /\ ToRead - CrcBytes <= Payload
  BY <1>1 DEF ToRead
<1> DEFINE new == IF ok THEN IoData ELSE Junk(ToRead - CrcBytes)
<1>3. new \in Seq(Int) /\ Len(new) = ToRead - CrcBytes
  <2>1. (offset \div minfo.versz) * Payload \in Int
    <3>1. minfo.versz \in Nat \ {0}
      BY <1>1
    <3>2. offset \div minfo.versz \in Int
      BY <1>1, <3>1
    <3> QED BY <1>1, <3>2
  <2>2. IoData \in Seq(Int) /\ Len(IoData) = ToRead - CrcBytes
    BY <1>2, <2>1 DEF IoData
  <2>3. Junk(ToRead - CrcBytes) \in Seq(Int) /\ Len(Junk(ToRead - CrcBytes)) = ToRead - CrcBytes
    BY <1>2 DEF Junk, JUNK
  <2> QED BY <2>2, <2>3
<1> HIDE DEF new
<1>4. blk.buff \in Seq(Int) /\ blk.error_end \in Int
  OBVIOUS
<1>5. blk.buff \o new \in Seq(Int) /\ Len(blk.buff \o new) = Len(blk.buff) + Len(new)
  BY <1>3, <1>4, ConcatProperties
<1> DEFINE r == [buff |-> blk.buff \o new, error_end |-> IF ok THEN blk.error_end ELSE Len(blk.buff \o new)]
<1>6. block' = [block EXCEPT ![b] = r] /\ offset' = offset + ToRead
  BY DEF FillFrom, new
<1>7. r \in BlockType /\ r.buff = blk.buff \o new
  BY <1>4, <1>5
<1> HIDE DEF r
<1>8. Len(blk.buff) \in Nat
  BY <1>4
<1>9. Len(r.buff) <= Len(blk.buff) + Payload
  <2>1. Len(r.buff) = Len(blk.buff) + Len(new)
    BY <1>5, <1>7
  <2>2. Len(new) \in Nat /\ Len(new) <= Payload
    BY <1>2, <1>3
  <2> QED BY <1>1, <1>8, <2>1, <2>2
<1> QED BY <1>1, <1>2, <1>6, <1>7, <1>9

\* Another block is reserved: the data beyond the split move to it.
LEMMA ReservedType ==
  ASSUME TypeOK, NEW b \in Places, ~HasRoom(b), depth > 0
  PROVE  /\ Reserved(b) \in [Blocks -> BlockType]
         /\ \A i \in Blocks : i # b /\ i # head => Reserved(b)[i] = block[i]
         /\ b = NULL => Len(Reserved(b)[head].buff) = 0
         /\ b # NULL => /\ b # head => Len(Reserved(b)[b].buff) = Split
                        /\ Len(Reserved(b)[head].buff) = Fill(b) - Split
                        /\ Fill(b) >= Split
<1> USE DEF BlockType
<1>1. Split \in Nat \ {0} /\ head \in Blocks /\ block \in [Blocks -> BlockType]
  BY Sizes DEF TypeOK
<1>2. Empty \in BlockType /\ Len(Empty.buff) = 0
  BY DEF Empty
<1>3. ASSUME b # NULL
      PROVE  /\ b \in Blocks /\ block[b] \in BlockType /\ Fill(b) \in Nat /\ Fill(b) >= Split
             /\ Moved(b) \in BlockType /\ Len(Moved(b).buff) = Fill(b) - Split
             /\ SubSeq(block[b].buff, 1, Split) \in Seq(Int) /\ Len(SubSeq(block[b].buff, 1, Split)) = Split
  <2>1. b \in Blocks /\ block[b] \in BlockType /\ block[b].buff \in Seq(Int) /\ Fill(b) = Len(block[b].buff) /\ Fill(b) \in Nat
    BY <1>1, <1>3 DEF Places, Fill
  <2>2. Fill(b) >= Split
    BY <1>1, <1>3, <2>1 DEF HasRoom
  <2>3. SubSeq(block[b].buff, 1, Split) \in Seq(Int) /\ Len(SubSeq(block[b].buff, 1, Split)) = Split
    BY <1>1, <2>1, <2>2, SubSeqProperties
  <2>4. Spill(b) \in Seq(Int) /\ Len(Spill(b)) = Fill(b) - Split
    BY <1>1, <2>1, <2>2, SubSeqProperties DEF Spill
  <2>5. Junk(Fill(b) - Split) \in Seq(Int) /\ Len(Junk(Fill(b) - Split)) = Fill(b) - Split
    BY <1>1, <2>1, <2>2 DEF Junk, JUNK
  <2>6. \/ Moved(b) = Empty /\ Fill(b) = Split
        \/ Moved(b) = [buff |-> Junk(Fill(b) - Split), error_end |-> Fill(b) - Split]
        \/ Moved(b) = [buff |-> Spill(b), error_end |-> 0]
    BY <1>3 DEF Moved
  <2>7. Moved(b) \in BlockType /\ Len(Moved(b).buff) = Fill(b) - Split
    <3>1. CASE Moved(b) = Empty /\ Fill(b) = Split
      BY <1>1, <1>2, <2>1, <3>1
    <3>2. CASE Moved(b) = [buff |-> Junk(Fill(b) - Split), error_end |-> Fill(b) - Split]
      BY <1>1, <2>1, <2>5, <3>2
    <3>3. CASE Moved(b) = [buff |-> Spill(b), error_end |-> 0]
      BY <2>4, <3>3
    <3> QED BY <2>6, <3>1, <3>2, <3>3
  <2> QED BY <2>1, <2>2, <2>3, <2>7
<1>4. b = NULL => Moved(b) = Empty
  BY DEF Moved
<1>5. NULL \notin Blocks
  BY PlacesType
<1>6. /\ Reserved(b)[head] = Moved(b)
      /\ \A i \in Blocks : i # b /\ i # head => Reserved(b)[i] = block[i]
      /\ b # NULL /\ b # head => Reserved(b)[b] = [block[b] EXCEPT !.buff = SubSeq(@, 1, Split)]
  BY <1>1, <1>3 DEF Reserved
<1>7. Moved(b) \in BlockType
  BY <1>2, <1>3, <1>4
<1>8. \A i \in Blocks : Reserved(b)[i] \in BlockType
  <2> TAKE i \in Blocks
  <2>1. CASE i # b /\ i # head
    BY <1>1, <1>6, <2>1
  <2>2. CASE i = head
    BY <1>6, <1>7, <2>2
  <2>3. CASE i = b /\ i # head
    BY <1>3, <1>5, <1>6, <2>3
  <2> QED BY <2>1, <2>2, <2>3
<1>9. Reserved(b) = [i \in Blocks |-> Reserved(b)[i]]
  BY DEF Reserved
<1>10. Reserved(b) \in [Blocks -> BlockType]
  BY <1>8, <1>9
<1>11. b # NULL /\ b # head => Len(Reserved(b)[b].buff) = Split
  BY <1>3, <1>6
<1> QED BY <1>2, <1>3, <1>4, <1>6, <1>10, <1>11

\* The first block after a seek is filled with what will be thrown away.
LEMMA AlignedType ==
  ASSUME TypeOK, NEW b \in Blocks
  PROVE  /\ Aligned(b) \in [Blocks -> BlockType] /\ JunkBlocks(Trim) \in Nat \ {0}
         /\ \A i \in Blocks : i # b => Aligned(b)[i] = block[i]
         /\ Len(Aligned(b)[b].buff) <= Split
<1> USE DEF BlockType
<1>1. Payload \in Nat \ {0} /\ Split \in Nat \ {0} /\ goffset \in Nat /\ block \in [Blocks -> BlockType]
  BY Sizes DEF TypeOK
<1>2. Trim \in Nat
  BY <1>1 DEF Trim
<1>3. \A x \in Nat, y \in Nat \ {0} : x \div y \in Nat /\ x - (x \div y) * y \in 0 .. y - 1
  OBVIOUS
<1>4. Trim \div Split \in Nat /\ Trim - (Trim \div Split) * Split \in 0 .. Split - 1
  BY <1>1, <1>2, <1>3
<1>5. JunkBlocks(Trim) \in Nat \ {0} /\ JunkBlocks(Trim) - 1 = Trim \div Split
  BY <1>4 DEF JunkBlocks
<1>6. Falsefill(Trim) \in Nat /\ Falsefill(Trim) <= Split
  <2>1. Falsefill(Trim) = Split - (Trim - (Trim \div Split) * Split)
    BY <1>5 DEF Falsefill
  <2> DEFINE x == Trim - (Trim \div Split) * Split
  <2>2. x \in 0 .. Split - 1 /\ Falsefill(Trim) = Split - x
    BY <1>4, <2>1
  <2> HIDE DEF x
  <2> QED BY <1>1, <2>2
<1>7. Junk(Falsefill(Trim)) \in Seq(Int) /\ Len(Junk(Falsefill(Trim))) = Falsefill(Trim)
  BY <1>6 DEF Junk, JUNK
<1> QED BY <1>1, <1>5, <1>6, <1>7 DEF Aligned

-----------------------------------------------------------------------------
(* The inductive invariant.                                                *)

\* The master empties the queue or waits for the pause, after it gave its block
\* back; or it is past its last block.
Cleared == {"seek_unblock", "seek_wait", "seek_drain", "restart_drain", "restart_wait", "go"}
Ending  == {"completion", "last_drain", "join", "closed"}

\* Where a reader holds a work package, and a junk block.
ReaderInv ==
  Reading =>
    /\ tpc # "abort" /\ push = NULL /\ mpc \notin {"enqueue", "close_enqueue"}
    /\ tpc \in {"work", "loop"} => cur_work = NULL
    /\ tpc = "junked" => junk > 0 /\ (res = 0 <=> cur_work # NULL)
    /\ junk > 0 => tpc \in {"work", "loop", "junked"}
    /\ first => junk > 0 \/ (tpc = "halted" /\ cur_work = NULL)
    /\ tpc = "exit" => cur_work = NULL /\ iob = NULL

\* A reader that resumes is alone with the ring.
ResumeInv ==
  Reading /\ ~Aborting /\ (junk > 0 \/ (tpc = "halted" /\ ~Flagged("HALT"))) => queue = <<>> /\ miob = NULL

\* What the master has done when it is at some place of a call on a read handle.
MasterInv ==
  Reading =>
    /\ mpc = "start" => con_flags = {"HALT"} /\ tpc = "halted" /\ queue = <<>>
    /\ mpc \in {"start", "dequeue", "null", "failed"} \cup Cleared \cup Ending => miob = NULL
    /\ mpc \in {"parked", "seek_release"} \cup Cleared => Flagged("HALT")
    /\ mpc \in {"seek_drain", "go"} => tpc = "halted" /\ ~Flagged("ABORT")
    /\ mpc \in {"restart_wait", "go"} => queue = <<>>
    /\ mpc \in {"last_drain", "join", "closed"} => tpc \in {"term", "exit"}
    /\ mpc \in {"join", "closed"} => queue = <<>>

FlagInv ==
  /\ Flagged("FINISHED") => mpc \in Ending
  /\ Aborting => Flagged("ABORT")

\* A write handle is never paused or aborted but by its master.
WriterInv ==
  Writing =>
    /\ junk = 0 /\ tpc \in {"halted", "work", "term", "abort", "exit"}
    /\ Aborting \/ mpc \in {"start", "idle", "enqueue", "close", "close_enqueue", "join", "closed"}
    /\ tpc = "work" <=> cur_work # NULL
    /\ push # NULL <=> mpc \in {"enqueue", "close_enqueue"}
    /\ mpc \in {"start", "join", "closed"} => miob = NULL
    /\ ~Aborting =>
         /\ con_flags = IF mpc = "start" THEN {"HALT"} ELSE IF mpc \in {"join", "closed"} THEN {"FINISHED"} ELSE {}
         /\ tpc # "abort"
         /\ tpc \in {"term", "exit"} => Flagged("FINISHED") /\ queue = <<>>

\* What is enqueued for a writer fits into one IO.
FullInv ==
  Writing =>
    /\ ~Aborting => /\ \A i \in 1 .. Len(queue) : Fill(queue[i]) <= Split
                    /\ cur_work # NULL => Fill(cur_work) <= Split
                    /\ push # NULL => Fill(push) <= Split
    /\ mpc \in {"idle", "enqueue"} /\ miob # NULL =>
         Fill(miob) <= Split - 1 + IF written % PartSz = 0 THEN PartSz ELSE written % PartSz

FitInv == \A b \in Blocks : Fill(b) <= IF Reading THEN Split + Payload ELSE Split + PartSz

\* RingOrder, and the number of blocks held also when their order is lost.
RingInv ==
  \/ Aborting
  \/ Len(Holders) = InUse /\ (NoMoreReserves \/ Holders = Window)

\* Aborting gives every block back, those of the thread once too often.
BackInv ==
  /\ mpc # "stuck"
  /\ mpc = "abort_join" => depth + (IF Reading THEN Cnt(cur_work) + Cnt(iob) ELSE 0) >= SuperBlockCnt

CtlInv  == ReaderInv /\ ResumeInv /\ MasterInv /\ FlagInv /\ WriterInv
BlockInv == TypeOK /\ CtlInv /\ FullInv /\ FitInv /\ RingInv /\ BackInv

-----------------------------------------------------------------------------
(* Type correctness.                                                       *)

\* The initial values have their types.
LEMMA TypeInit == Init => TypeOK
<1> SUFFICES ASSUME Init PROVE TypeOK
  OBVIOUS
<1>1. /\ SuperBlockCnt \in Nat \ {0} /\ NULL \in Int
      /\ \A g \in Geometries : g \in Nat \X (Nat \ {0}) \X (Nat \ {0}) /\ g[1] > CrcBytes
  BY GeometryAssumption DEF NULL
<1>2. /\ minfo \in [versz : Nat, partsz : Nat \ {0}, parts : Nat \ {0}] /\ minfo.versz > CrcBytes
  BY <1>1 DEF Init
<1>3. block \in [Blocks -> [buff : Seq(Int), error_end : Int]]
  BY DEF Init, Empty
<1>4. dmode \in Modes /\ head \in Blocks /\ depth \in 0 .. SuperBlockCnt
  BY <1>1 DEF Init, Blocks
<1> QED BY <1>2, <1>3, <1>4 DEF Init, TypeOK, ThreadPcs, MasterPcs

\* The ring after a step of release_ioblock() or reserve_ioblock().
LEMMA RingType ==
  ASSUME TypeOK
  PROVE  /\ Release(depth) \in 0 .. SuperBlockCnt
         /\ \A d \in 0 .. SuperBlockCnt : Release(d) \in 0 .. SuperBlockCnt
         /\ NextHead \in Blocks /\ NextHead = After(head)
         /\ depth > 0 => depth - 1 \in 0 .. SuperBlockCnt
         /\ \A b \in Places : Cnt(b) \in {0, 1}
BY GeometryAssumption DEF TypeOK, Release, NextHead, After, Blocks, Cnt

\* A handle reads or writes.
LEMMA EitherMode == TypeOK => (Reading \/ Writing) /\ ~(Reading /\ Writing)
BY GeometryAssumption DEF TypeOK, Reading, Writing

\* Every step of the reader thread keeps the types.
LEMMA TypeReader == TypeOK /\ ReaderInv /\ Reader => TypeOK'
<1> SUFFICES ASSUME TypeOK, ReaderInv, Reader PROVE TypeOK'
  OBVIOUS
<1> USE DEF BlockType
<1>0. /\ TypeOK /\ SuperBlockCnt \in Nat /\ NULL \notin Blocks
      /\ Release(depth) \in 0 .. SuperBlockCnt
      /\ \A d \in 0 .. SuperBlockCnt : Release(d) \in 0 .. SuperBlockCnt
      /\ NextHead \in Blocks
      /\ depth > 0 => depth - 1 \in 0 .. SuperBlockCnt
  BY RingType, PlacesType, GeometryAssumption
<1>1. ASSUME NEW flags \in SUBSET {"HALT", "FINISHED", "ABORT"}, NEW w \in Blocks \cup {NULL}, Loop(flags, w)
      PROVE  /\ con_flags' \subseteq {"HALT", "FINISHED", "ABORT"} /\ first' \in BOOLEAN
             /\ tpc' \in ThreadPcs /\ cur_work' \in Blocks \cup {NULL} /\ queue' \in Seq(Blocks)
  <2>1. w # NULL => Append(queue, w) \in Seq(Blocks)
    BY DEF TypeOK
  <2> QED BY <1>0, <1>1, <2>1 DEF Loop, TypeOK, ThreadPcs
<1>2. CASE read_produce_end
  BY <1>0, <1>2 DEF read_produce_end, Produced, ringVars, tqVars, masterVars, TypeOK, ThreadPcs
<1>3. CASE read_produce_fill
  <2>1. /\ block' \in [Blocks -> BlockType] /\ offset' \in Nat
    <3>1. Empty \in BlockType
      BY DEF Empty
    <3>2. CASE HasRoom(iob)
      <4>1. iob \in Blocks /\ block[iob] \in BlockType
        BY <3>2 DEF HasRoom, TypeOK
      <4> QED BY <1>3, <3>2, <4>1, FillFromType DEF read_produce_fill
    <3>3. CASE ~HasRoom(iob)
      <4>1. head \in Blocks
        BY DEF TypeOK
      <4> QED BY <1>3, <3>1, <3>3, <4>1, FillFromType DEF read_produce_fill
    <3> QED BY <3>2, <3>3
  <2>2. iob' \in Blocks \cup {NULL} /\ head' \in Blocks /\ depth' \in 0 .. SuperBlockCnt
    BY <1>0, <1>3 DEF read_produce_fill, Reserve, TypeOK
  <2> QED BY <1>3, <2>1, <2>2 DEF read_produce_fill, tqVars, masterVars, TypeOK, ThreadPcs
<1>4. CASE read_produce_push
  <2>1. block' \in [Blocks -> BlockType]
    BY <1>4, ReservedType DEF read_produce_push, Reserve, TypeOK, Places
  <2> QED BY <1>0, <1>4, <2>1 DEF read_produce_push, Reserve, Produced, tqVars, stateVars, masterVars, TypeOK, ThreadPcs
<1>5. CASE read_produce_last
  BY <1>0, <1>5 DEF read_produce_last, Produced, ringVars, tqVars, stateVars, masterVars, TypeOK, ThreadPcs
<1>6. CASE producer_post
  <2>1. PICK flags \in SUBSET {"HALT", "FINISHED", "ABORT"} : Loop(flags, cur_work)
    BY <1>6 DEF producer_post, TypeOK
  <2> QED BY <1>0, <1>1, <1>6, <2>1 DEF producer_post, ringVars, stateVars, masterVars, TypeOK
<1>7. CASE producer_wake
  BY <1>0, <1>1, <1>7 DEF producer_wake, ringVars, stateVars, masterVars, TypeOK
<1>8. CASE read_resume_stay
  BY <1>0, <1>1, <1>8 DEF read_resume_stay, AfterPrev, stateVars, masterVars, TypeOK
<1>9. /\ AfterPrev \in 0 .. SuperBlockCnt /\ AfterIob \in 0 .. SuperBlockCnt
      /\ Reseek => offset' \in Nat
  <2>1. AfterPrev \in 0 .. SuperBlockCnt
    BY <1>0 DEF AfterPrev, TypeOK
  <2>2. IoCount * minfo.versz \in Nat
    <3>1. Payload \in Nat \ {0} /\ goffset \in Nat /\ minfo.versz \in Nat
      BY Sizes DEF TypeOK
    <3>2. IoCount \in Nat
      BY <3>1 DEF IoCount
    <3> QED BY <3>1, <3>2
  <2> QED BY <1>0, <2>1, <2>2 DEF AfterIob, Reseek
<1>10. CASE read_resume_seek
  BY <1>0, <1>1, <1>9, <1>10 DEF read_resume_seek, stateVars, masterVars, TypeOK
<1>11. CASE read_resume_align
  <2>1. \A b \in Blocks : Aligned(b) \in [Blocks -> BlockType]
    BY AlignedType
  <2>2. JunkBlocks(Trim) \in Nat /\ head \in Blocks
    BY AlignedType DEF TypeOK
  <2>3. /\ block' \in [Blocks -> BlockType] /\ iob' \in Blocks \cup {NULL}
        /\ depth' \in 0 .. SuperBlockCnt /\ head' \in Blocks
    <3>1. CASE iob = NULL \/ Curdata # 0
      <4>1. AfterIob > 0 /\ depth' = AfterIob - 1 /\ head' = NextHead /\ iob' = head /\ block' = Aligned(head)
        BY <1>11, <3>1 DEF read_resume_align
      <4> QED BY <1>0, <1>9, <2>1, <2>2, <4>1
    <3>2. CASE ~(iob = NULL \/ Curdata # 0)
      BY <1>0, <1>9, <1>11, <2>1, <3>2 DEF read_resume_align, TypeOK
    <3> QED BY <3>1, <3>2
  <2> QED BY <1>0, <1>9, <1>11, <2>2, <2>3 DEF read_resume_align, tqVars, stateVars, masterVars, TypeOK, ThreadPcs
<1>12. CASE junk_block
  <2>1. junk' \in Nat /\ depth' \in 0 .. SuperBlockCnt /\ head' = head /\ block' = block
    <3>1. junk > 0 /\ (res = 0 => junk' = junk - 1) /\ (res # 0 => junk' = 0)
      BY <1>12 DEF junk_block, ReaderInv
    <3> QED BY <1>0, <1>12, <3>1 DEF junk_block, Released, ringVars, TypeOK
  <2> QED BY <1>0, <1>1, <1>12, <2>1 DEF junk_block, tqVars, stateVars, masterVars, TypeOK, ThreadPcs
<1>13. CASE read_term
  BY <1>0, <1>13 DEF read_term, tqVars, masterVars, TypeOK, ThreadPcs
<1> QED BY <1>2, <1>3, <1>4, <1>5, <1>6, <1>7, <1>8, <1>10, <1>11, <1>12, <1>13 DEF Reader

\* Every step of the writer thread keeps the types.
LEMMA TypeWriter == TypeOK /\ Writer => TypeOK'
<1> SUFFICES ASSUME TypeOK, Writer PROVE TypeOK'
  OBVIOUS
<1>1. CASE consumer_take
  <2>1. Head(queue) \in Blocks /\ Tail(queue) \in Seq(Blocks)
    BY <1>1, HeadTailProperties DEF consumer_take, TypeOK
  <2> QED BY <1>1, <2>1 DEF consumer_take, ringVars, stateVars, masterVars, TypeOK, ThreadPcs
<1>2. CASE consumer_quit
  BY <1>2 DEF consumer_quit, ringVars, tqVars, stateVars, masterVars, TypeOK, ThreadPcs
<1>3. CASE write_consume
  <2>1. con_flags' \subseteq {"HALT", "FINISHED", "ABORT"}
    BY <1>3 DEF write_consume, TypeOK
  <2>2. depth' \in 0 .. SuperBlockCnt /\ head' = head /\ block' = block
    BY <1>3, RingType DEF write_consume, Released
  <2> QED BY <1>3, <2>1, <2>2 DEF write_consume, masterVars, TypeOK, ThreadPcs
<1>4. CASE write_term
  BY <1>4 DEF write_term, ringVars, tqVars, masterVars, TypeOK, ThreadPcs
<1> QED BY <1>1, <1>2, <1>3, <1>4 DEF Writer

\* Every step of the master keeps the types: what it takes from the queue is a block,
\* and what it has to push is one.
LEMMA TypeMaster == TypeOK /\ ReaderInv /\ WriterInv /\ (Call \/ InCall) => TypeOK'
<1> SUFFICES ASSUME TypeOK, ReaderInv, WriterInv, Call \/ InCall PROVE TypeOK'
  OBVIOUS
<1> USE DEF BlockType
<1>0. /\ Release(depth) \in 0 .. SuperBlockCnt /\ SuperBlockCnt \in Nat
      /\ NextHead \in Blocks
      /\ depth > 0 => depth - 1 \in 0 .. SuperBlockCnt
      /\ queue # <<>> => Head(queue) \in Blocks /\ Tail(queue) \in Seq(Blocks)
      /\ \A b \in Blocks : Append(queue, b) \in Seq(Blocks)
      /\ <<>> \in Seq(Blocks)
      /\ miob \in Places /\ head \in Blocks
  BY RingType, HeadTailProperties, GeometryAssumption DEF TypeOK, Places
<1>1. CASE read_stripes
  BY <1>0, <1>1 DEF read_stripes, Released, ringVars, threadAlone, tqVars, threadVars, stateVars, TypeOK, MasterPcs
<1>2. CASE park \/ ne_close \/ start \/ wait_for_pause \/ terminate_thread \/ ne_abort \/ abort_unhalt \/ join
  BY <1>2
     DEF park, ne_close, start, wait_for_pause, terminate_thread, ne_abort, abort_unhalt, join, Goto,
         ringVars, threadAlone, tqVars, threadVars, stateVars, TypeOK, MasterPcs
<1>3. ASSUME NEW off \in PartStarts, ne_seek(off) \/ unpark(off)
      PROVE  TypeOK'
  <2>1. off \in Nat
    <3>1. PartSz \in Nat /\ minfo.parts \in Nat
      BY Sizes DEF TypeOK
    <3>2. PICK k \in 0 .. (minfo.parts - 1) : off = PartSz * k
      BY DEF PartStarts
    <3>3. k \in Nat
      BY <3>1
    <3> QED BY <3>1, <3>2, <3>3
  <2> QED BY <1>0, <1>3, <2>1 DEF ne_seek, unpark, Released, ringVars, threadAlone, tqVars, threadVars, stateVars, TypeOK, MasterPcs
<1>4. CASE write_reserve \/ terminate_split
  <2>1. block' \in [Blocks -> BlockType]
    BY <1>0, <1>4, ReservedType DEF write_reserve, terminate_split, Reserve
  <2> QED BY <1>0, <1>4, <2>1
          DEF write_reserve, terminate_split, Reserve, threadAlone, tqVars, threadVars, stateVars, TypeOK, MasterPcs
<1>5. ASSUME NEW n \in 1 .. PartSz, ne_write(n)
      PROVE  TypeOK'
  <2>1. [i \in 1 .. n |-> written + i] \in Seq(Int) /\ n \in Nat /\ written + n \in Nat
    <3>1. n \in Nat /\ written \in Nat
      BY Sizes DEF TypeOK
    <3> QED BY <3>1
  <2> DEFINE data == [i \in 1 .. n |-> written + i]
  <2> HIDE DEF data
  <2>2. \A b \in Blocks : block[b].buff \o data \in Seq(Int) /\ block[b] \in BlockType
    BY <2>1, ConcatProperties DEF TypeOK, data
  <2>3. block' = [block EXCEPT ![miob].buff = @ \o data] /\ block \in [Blocks -> BlockType]
    BY <1>5 DEF ne_write, data, TypeOK
  <2>4. block' \in [Blocks -> BlockType]
    BY <2>2, <2>3
  <2> QED BY <1>5, <2>1, <2>4 DEF ne_write, threadAlone, tqVars, threadVars, stateVars, TypeOK, MasterPcs
<1>6. CASE dequeue \/ abort_drain
  <2>1. miob' \in Blocks \cup {NULL} /\ queue' \in Seq(Blocks) /\ mpc' \in MasterPcs
    BY <1>0, <1>6 DEF dequeue, abort_drain, TypeOK, MasterPcs
  <2> QED BY <1>6, <2>1 DEF dequeue, abort_drain, ringVars, threadAlone, tqVars, threadVars, stateVars, TypeOK
<1>11. CASE enqueue
  <2>1. push' \in Blocks \cup {NULL} /\ mpc' \in MasterPcs
    BY <1>11 DEF enqueue, MasterPcs
  <2>2. push # NULL => queue' \in Seq(Blocks)
    BY <1>0, <1>11 DEF enqueue, TypeOK
  <2>3. push # NULL
    BY <1>11, EitherMode DEF enqueue, ReaderInv, WriterInv
  <2> QED BY <1>11, <2>1, <2>2, <2>3 DEF enqueue, ringVars, threadAlone, threadVars, stateVars, TypeOK
<1>7. CASE seek_release \/ abort_release
  BY <1>0, <1>7
     DEF seek_release, abort_release, Goto, Released, ringVars, threadAlone, tqVars, threadVars, stateVars, masterVars, TypeOK, MasterPcs
<1>8. CASE seek_unblock \/ drain \/ wait_for_completion \/ last_drain
  BY <1>0, <1>8
     DEF seek_unblock, drain, wait_for_completion, last_drain, DropOne, Goto, Released, ringVars, threadAlone, tqVars,
         threadVars, stateVars, TypeOK, MasterPcs
<1>9. CASE seek_go
  BY <1>0, <1>9 DEF seek_go, ringVars, threadVars, TypeOK, MasterPcs
<1>10. CASE terminate_last
  <2>1. depth' \in 0 .. SuperBlockCnt /\ UNCHANGED <<head, block>>
    BY <1>0, <1>10 DEF terminate_last, Released, ringVars, TypeOK
  <2>2. queue' \in Seq(Blocks)
    BY <1>0, <1>10 DEF terminate_last, TypeOK, Places
  <2> QED BY <1>10, <2>1, <2>2 DEF terminate_last, threadAlone, threadVars, stateVars, TypeOK
<1> QED BY <1>1, <1>2, <1>3, <1>4, <1>5, <1>6, <1>7, <1>8, <1>9, <1>10, <1>11 DEF Call, InCall

-----------------------------------------------------------------------------
(* Control: who is where, with which flags.                                *)

\* How the thread leaves its loop.
LEMMA LoopEffect ==
  ASSUME NEW flags, NEW w, Loop(flags, w)
  PROVE  /\ con_flags' = flags /\ first' = FALSE
         /\ tpc' \in {"work", "halted", "term"}
         /\ tpc' = "work" => first \/ (~("ABORT" \in flags) /\ cur_work' = NULL)
         /\ tpc' = "halted" => "HALT" \in flags /\ "FINISHED" \notin flags
         /\ first => tpc' = "work" /\ cur_work' = w
         /\ \/ cur_work' = w /\ queue' = queue
            \/ /\ cur_work' = NULL /\ "ABORT" \notin flags /\ ("HALT" \in flags => "FINISHED" \in flags)
               /\ queue' = IF w = NULL THEN queue ELSE Append(queue, w)
BY DEF Loop

\* What every step of a reader leaves as it was.
LEMMA ReaderKeeps ==
  ASSUME Reader
  PROVE  /\ Reading /\ UNCHANGED <<dmode, minfo, mpc, miob, push, written>>
         /\ con_flags \subseteq con_flags'
         /\ "FINISHED" \in con_flags' => "FINISHED" \in con_flags
<1>1. CASE producer_post \/ producer_wake \/ read_resume_stay \/ read_resume_seek \/ junk_block
  <2>1. PICK flags \in {con_flags, con_flags \cup {"HALT"}, con_flags \cup {"ABORT"}} : con_flags' = flags
    BY <1>1 DEF producer_post, producer_wake, read_resume_stay, read_resume_seek, junk_block, Loop, tqVars
  <2> QED BY <1>1, <2>1
          DEF producer_post, producer_wake, read_resume_stay, read_resume_seek, junk_block, Resuming, masterVars
<1>2. CASE read_produce_end \/ read_produce_fill \/ read_produce_push \/ read_produce_last \/ read_resume_align \/ read_term
  BY <1>2 DEF read_produce_end, read_produce_fill, read_produce_push, read_produce_last, read_resume_align, read_term,
              Resuming, masterVars, tqVars
<1> QED BY <1>1, <1>2 DEF Reader

\* The reader thread keeps the control invariant.
LEMMA CtlReader ==
  ASSUME BlockInv, Reader
  PROVE  CtlInv'
<1>0. /\ TypeOK /\ ReaderInv /\ ResumeInv /\ MasterInv /\ FlagInv /\ Reading /\ ~Writing
      /\ UNCHANGED <<dmode, minfo, mpc, miob, push, written>>
      /\ con_flags \subseteq con_flags'
      /\ "FINISHED" \in con_flags' => "FINISHED" \in con_flags
      /\ junk \in Nat /\ NULL \notin Blocks
      /\ JunkBlocks(Trim) \in Nat \ {0}
  <2>1. JunkBlocks(Trim) \in Nat \ {0}
    <3>1. 0 \in Blocks
      BY GeometryAssumption DEF Blocks
    <3> QED BY <3>1, AlignedType DEF BlockInv
  <2> QED BY <2>1, ReaderKeeps, EitherMode, PlacesType DEF BlockInv, CtlInv, TypeOK
<1>w. WriterInv' /\ Reading' /\ (Aborting <=> Aborting')
  BY <1>0 DEF WriterInv, Writing, Reading, Aborting
<1>f. FlagInv'
  BY <1>0, <1>w DEF FlagInv, Flagged
<1>n. ~(tpc = "halted" /\ mpc \in {"start", "seek_drain", "go"})
  <2> SUFFICES ASSUME tpc = "halted", mpc \in {"start", "seek_drain", "go"} PROVE FALSE
    OBVIOUS
  <2>1. Flagged("HALT") /\ ~Flagged("FINISHED") /\ ~Flagged("ABORT")
    BY <1>0 DEF MasterInv, FlagInv, Flagged, Cleared, Ending
  <2> QED BY <2>1 DEF Reader, read_produce_end, read_produce_fill, read_produce_push, read_produce_last,
                      producer_post, producer_wake, read_resume_stay, read_resume_seek, read_resume_align, Resuming,
                      junk_block, read_term
<1>p. mpc \notin {"start", "seek_drain", "go"}
  BY <1>0, <1>n DEF MasterInv
<1>1. CASE read_produce_end \/ read_produce_fill \/ read_produce_push \/ read_produce_last
  <2>1. /\ tpc \in {"work", "loop"} /\ UNCHANGED <<junk, queue, con_flags, first>>
        /\ \/ tpc' = "loop" /\ UNCHANGED cur_work
           \/ /\ tpc' = (IF junk = 0 THEN "post" ELSE "junked")
              /\ (res' = 0 /\ cur_work' # NULL) \/ (res' = 2 /\ cur_work' = NULL)
    BY <1>1 DEF read_produce_end, read_produce_fill, read_produce_push, read_produce_last, Produced, HasRoom, tqVars
  <2>2. ReaderInv'
    BY <1>0, <1>w, <2>1 DEF ReaderInv
  <2>3. ResumeInv'
    BY <1>0, <1>w, <2>1 DEF ResumeInv, Flagged
  <2>4. MasterInv'
    BY <1>0, <1>w, <1>p, <2>1 DEF MasterInv, Flagged
  <2> QED BY <1>w, <1>f, <2>2, <2>3, <2>4 DEF CtlInv
<1>2. CASE producer_post \/ producer_wake
  <2>1. PICK flags : /\ Loop(flags, cur_work) /\ tpc \in {"post", "halted"} /\ UNCHANGED <<junk, iob, res>>
    BY <1>2 DEF producer_post, producer_wake
  <2>2. junk = 0
    BY <1>0, <2>1 DEF ReaderInv
  <2>e. /\ con_flags' = flags /\ first' = FALSE
        /\ tpc' \in {"work", "halted", "term"}
        /\ tpc' = "work" => first \/ cur_work' = NULL
        /\ tpc' = "halted" => "HALT" \in flags /\ "FINISHED" \notin flags
        /\ first => cur_work' = cur_work
        /\ queue' = queue \/ ("HALT" \in flags => "FINISHED" \in flags)
    BY <2>1, LoopEffect
  <2>3. ReaderInv'
    BY <1>0, <1>w, <2>1, <2>2, <2>e DEF ReaderInv
  <2>4. ResumeInv'
    BY <1>0, <1>w, <2>1, <2>2, <2>e DEF ResumeInv, Flagged
  <2>5. mpc \in {"restart_wait", "go"} => queue' = queue
    <3>1. mpc = "restart_wait" => "HALT" \in flags /\ "FINISHED" \notin flags
      BY <1>0, <2>e DEF MasterInv, FlagInv, Flagged, Cleared, Ending
    <3> QED BY <1>p, <2>e, <3>1
  <2>6. MasterInv'
    BY <1>0, <1>w, <1>p, <2>1, <2>e, <2>5 DEF MasterInv, Flagged
  <2> QED BY <1>w, <1>f, <2>3, <2>4, <2>6 DEF CtlInv
<1>3. CASE read_resume_stay \/ read_resume_seek \/ junk_block
  <2>1. \/ /\ Loop(con_flags, NULL) \/ Loop(con_flags \cup {"ABORT"}, NULL)
           /\ junk' \in {0, junk}
           /\ tpc \in {"halted", "junked"}
           /\ junk' = 0
        \/ /\ tpc = "junked" /\ tpc' = "work" /\ cur_work' = NULL /\ UNCHANGED <<first, con_flags, queue>>
           /\ junk' > 0 /\ junk > 0
    BY <1>0, <1>3 DEF read_resume_stay, read_resume_seek, junk_block, Resuming, ReaderInv, tqVars
  <2>2. CASE junk' = 0 /\ tpc \in {"halted", "junked"} /\ (Loop(con_flags, NULL) \/ Loop(con_flags \cup {"ABORT"}, NULL))
    <3>1. /\ first' = FALSE /\ tpc' \in {"work", "halted", "term"} /\ cur_work' = NULL /\ queue' = queue
          /\ tpc' = "halted" => "HALT" \in con_flags'
      BY <2>2, LoopEffect
    <3>2. ReaderInv'
      BY <1>0, <1>w, <2>2, <3>1 DEF ReaderInv
    <3>3. ResumeInv'
      BY <1>0, <1>w, <2>2, <3>1 DEF ResumeInv, Flagged
    <3>4. MasterInv'
      BY <1>0, <1>w, <1>p, <2>2, <3>1 DEF MasterInv, Flagged
    <3> QED BY <1>w, <1>f, <3>2, <3>3, <3>4 DEF CtlInv
  <2>3. CASE /\ tpc = "junked" /\ tpc' = "work" /\ cur_work' = NULL /\ UNCHANGED <<first, con_flags, queue>>
             /\ junk' > 0 /\ junk > 0
    <3>2. ReaderInv'
      BY <1>0, <1>w, <2>3 DEF ReaderInv
    <3>3. ResumeInv'
      BY <1>0, <1>w, <2>3 DEF ResumeInv, Flagged
    <3>4. MasterInv'
      BY <1>0, <1>w, <1>p, <2>3 DEF MasterInv, Flagged
    <3> QED BY <1>w, <1>f, <3>2, <3>3, <3>4 DEF CtlInv
  <2> QED BY <2>1, <2>2, <2>3
<1>4. CASE read_resume_align
  <2>1. /\ tpc = "halted" /\ ~Flagged("HALT") /\ tpc' = "work" /\ cur_work' = NULL
        /\ UNCHANGED <<first, con_flags, queue>> /\ junk' = JunkBlocks(Trim) /\ junk' > 0
    BY <1>0, <1>4 DEF read_resume_align, Resuming, tqVars
  <2>2. ReaderInv'
    BY <1>0, <1>w, <2>1 DEF ReaderInv
  <2>3. ResumeInv'
    BY <1>0, <1>w, <2>1 DEF ResumeInv, Flagged
  <2>4. MasterInv'
    BY <1>0, <1>w, <1>p, <2>1 DEF MasterInv, Flagged
  <2> QED BY <1>w, <1>f, <2>2, <2>3, <2>4 DEF CtlInv
<1>5. CASE read_term
  <2>1. /\ tpc = "term" /\ tpc' = "exit" /\ cur_work' = NULL /\ iob' = NULL
        /\ UNCHANGED <<first, con_flags, queue, junk>>
    BY <1>5 DEF read_term, tqVars
  <2>2. ReaderInv'
    BY <1>0, <1>w, <2>1 DEF ReaderInv
  <2>3. ResumeInv'
    BY <1>0, <1>w, <2>1 DEF ResumeInv, Flagged
  <2>4. MasterInv'
    BY <1>0, <1>w, <1>p, <2>1 DEF MasterInv, Flagged
  <2> QED BY <1>w, <1>f, <2>2, <2>3, <2>4 DEF CtlInv
<1> QED BY <1>1, <1>2, <1>3, <1>4, <1>5 DEF Reader

\* What every step of a writer leaves as it was; it never finds a block too big
\* for an IO.
LEMMA WriterKeeps ==
  ASSUME BlockInv, Writer
  PROVE  /\ Writing /\ ~Reading
         /\ UNCHANGED <<dmode, minfo, mpc, miob, push, written, head, block, first, iob, junk>>
         /\ con_flags \subseteq con_flags'
         /\ "FINISHED" \in con_flags' => "FINISHED" \in con_flags
         /\ ~Aborting => con_flags' = con_flags
<1>1. Writing /\ ~Reading /\ TypeOK
  BY EitherMode DEF BlockInv, Writer, consumer_take, consumer_quit, write_consume, write_term
<1>2. CASE consumer_take \/ consumer_quit \/ write_term
  BY <1>1, <1>2 DEF consumer_take, consumer_quit, write_term, ringVars, tqVars, stateVars, masterVars
<1>3. CASE write_consume
  <2>1. ~Aborting => ~(Len(block[cur_work].buff) > Payload)
    <3> SUFFICES ASSUME ~Aborting PROVE ~(Len(block[cur_work].buff) > Payload)
      OBVIOUS
    <3>1. cur_work \in Blocks /\ cur_work # NULL
      BY <1>1, <1>3, PlacesType DEF write_consume, BlockInv, CtlInv, WriterInv, TypeOK
    <3>3. Fill(cur_work) <= Split /\ Split = Payload
      BY <1>1, <3>1, Sizes DEF BlockInv, FullInv
    <3>4. Fill(cur_work) \in Nat /\ Payload \in Nat
      BY <1>1, <3>1, Sizes DEF TypeOK, Fill
    <3> QED BY <3>3, <3>4 DEF Fill
  <2>2. con_flags' = con_flags \/ (con_flags' = con_flags \cup {"ABORT"} /\ Len(block[cur_work].buff) > Payload)
    BY <1>3 DEF write_consume
  <2> QED BY <1>1, <1>3, <2>1, <2>2 DEF write_consume, Released, masterVars
<1> QED BY <1>2, <1>3 DEF Writer

\* The writer thread keeps the control invariant.
LEMMA CtlWriter ==
  ASSUME BlockInv, Writer
  PROVE  CtlInv'
<1>0. /\ TypeOK /\ WriterInv /\ FlagInv /\ Writing /\ ~Reading
      /\ UNCHANGED <<dmode, mpc, miob, push, written, junk>>
      /\ con_flags \subseteq con_flags'
      /\ "FINISHED" \in con_flags' => "FINISHED" \in con_flags
      /\ ~Aborting => con_flags' = con_flags
  BY WriterKeeps DEF BlockInv, CtlInv
<1>w. ~Reading' /\ Writing' /\ (Aborting <=> Aborting')
  BY <1>0 DEF Writing, Reading, Aborting
<1>r. ReaderInv' /\ ResumeInv' /\ MasterInv'
  BY <1>w DEF ReaderInv, ResumeInv, MasterInv
<1>f. FlagInv'
  BY <1>0, <1>w DEF FlagInv, Flagged
<1>1. CASE consumer_take
  <2>1. tpc = "halted" /\ tpc' = "work" /\ queue # <<>> /\ queue' = Tail(queue) /\ cur_work' # NULL
    <3>1. tpc = "halted" /\ tpc' = "work" /\ queue # <<>> /\ queue' = Tail(queue) /\ cur_work' = Head(queue)
      BY <1>1 DEF consumer_take
    <3>2. queue \in Seq(Blocks)
      BY <1>0 DEF TypeOK
    <3>3. Head(queue) \in Blocks
      BY <3>1, <3>2, HeadTailProperties
    <3> QED BY <3>1, <3>3, PlacesType
  <2>2. WriterInv'
    BY <1>0, <1>w, <2>1 DEF WriterInv, Flagged
  <2> QED BY <1>r, <1>f, <2>2 DEF CtlInv
<1>2. CASE consumer_quit
  <2>1. /\ tpc = "halted" /\ UNCHANGED <<cur_work, queue>>
        /\ tpc' = (IF Flagged("ABORT") THEN "abort" ELSE "term")
        /\ Flagged("ABORT") \/ (Flagged("FINISHED") /\ queue = <<>>)
    BY <1>2 DEF consumer_quit, tqVars
  <2>2. ~Aborting => ~Flagged("ABORT")
    BY <1>0 DEF WriterInv, Flagged
  <2>3. WriterInv'
    BY <1>0, <1>w, <2>1, <2>2 DEF WriterInv, Flagged
  <2> QED BY <1>r, <1>f, <2>3 DEF CtlInv
<1>3. CASE write_consume
  <2>1. tpc = "work" /\ tpc' = "halted" /\ cur_work' = NULL /\ UNCHANGED queue
    BY <1>3 DEF write_consume
  <2>2. WriterInv'
    BY <1>0, <1>w, <2>1 DEF WriterInv, Flagged
  <2> QED BY <1>r, <1>f, <2>2 DEF CtlInv
<1>4. CASE write_term
  <2>1. tpc \in {"term", "abort"} /\ tpc' = "exit" /\ UNCHANGED <<cur_work, queue>>
    BY <1>4 DEF write_term, tqVars
  <2>2. WriterInv'
    BY <1>0, <1>w, <2>1 DEF WriterInv, Flagged
  <2> QED BY <1>r, <1>f, <2>2 DEF CtlInv
<1> QED BY <1>1, <1>2, <1>3, <1>4 DEF Writer

\* Who holds the blocks, oldest first, and the window of the ring.
LEMMA HoldersHeld ==
  ASSUME TypeOK
  PROVE  /\ Reading => Holders = Held(miob, queue, cur_work, iob)
         /\ Writing => Holders = Held(cur_work, queue, push, miob)
         /\ Window = Win(head, InUse) /\ InUse \in 0 .. SuperBlockCnt
         /\ miob \in Places /\ cur_work \in Places /\ iob \in Places /\ push \in Places /\ queue \in Seq(Blocks)
         /\ Holders \in Seq(Blocks)
<1>1. /\ Reading => Holders = Held(miob, queue, cur_work, iob)
      /\ Writing => Holders = Held(cur_work, queue, push, miob)
  BY EitherMode DEF Holders, Held
<1>2. miob \in Places /\ cur_work \in Places /\ iob \in Places /\ push \in Places /\ queue \in Seq(Blocks)
  BY DEF TypeOK, Places
<1>3. Window = Win(head, InUse)
  BY DEF Window, Win
<1>4. InUse \in 0 .. SuperBlockCnt
  BY GeometryAssumption DEF TypeOK, InUse
<1>5. Holders \in Seq(Blocks)
  <2>1. CASE Reading
    BY <1>1, <1>2, <2>1, HeldType
  <2>2. CASE Writing
    BY <1>1, <1>2, <2>2, HeldType
  <2> QED BY <2>1, <2>2, EitherMode
<1> QED BY <1>1, <1>2, <1>3, <1>4, <1>5

\* When the master has joined the thread, every block is back.
LEMMA JoinBack ==
  ASSUME BlockInv, join
  PROVE  mpc' # "stuck"
<1>1. /\ TypeOK /\ tpc = "exit" /\ NULL \in Places /\ <<>> \in Seq(Blocks) /\ Cnt(NULL) = 0
      /\ SuperBlockCnt \in Nat /\ depth \in 0 .. SuperBlockCnt
  BY PlacesType, GeometryAssumption DEF BlockInv, join, TypeOK
<1>2. CASE mpc = "join"
  <2>1. ~Aborting
    BY <1>2 DEF Aborting
  <2>2. Len(Held(NULL, <<>>, NULL, NULL)) = 0
    <3>1. Hold(NULL) = <<>> /\ <<>> \o <<>> = <<>>
      BY <1>1, PlacesType, ConcatEmptySeq
    <3> QED BY <3>1 DEF Held
  <2>3. Holders = Held(NULL, <<>>, NULL, NULL)
    <3>1. CASE Reading
      BY <1>1, <1>2, <3>1, HoldersHeld DEF BlockInv, CtlInv, ReaderInv, MasterInv, Ending
    <3>2. CASE Writing
      BY <1>1, <1>2, <2>1, <3>2, HoldersHeld DEF BlockInv, CtlInv, WriterInv
    <3> QED BY <1>1, <3>1, <3>2, EitherMode
  <2>4. InUse = 0
    BY <2>1, <2>2, <2>3 DEF BlockInv, RingInv
  <2>5. depth = SuperBlockCnt
    BY <1>1, <2>4 DEF InUse
  <2> QED BY <1>2, <2>5 DEF join, Goto
<1>3. CASE mpc = "abort_join"
  <2>1. depth + (IF Reading THEN Cnt(cur_work) + Cnt(iob) ELSE 0) >= SuperBlockCnt
    BY <1>3 DEF BlockInv, BackInv
  <2>2. Reading => cur_work = NULL /\ iob = NULL
    BY <1>1 DEF BlockInv, CtlInv, ReaderInv
  <2>3. depth = SuperBlockCnt
    BY <1>1, <2>1, <2>2
  <2> QED BY <1>3, <2>3 DEF join, Goto
<1> QED BY <1>2, <1>3 DEF join

\* The master leaves the thread alone.
LEMMA MasterKeeps ==
  ASSUME Call \/ InCall
  PROVE  UNCHANGED <<dmode, minfo, tpc, first, offset, iob, cur_work, junk, res>>
BY DEF Call, InCall, read_stripes, park, ne_seek, unpark, write_reserve, ne_write, ne_close, ne_abort, start, dequeue,
       seek_release, seek_unblock, wait_for_pause, drain, seek_go, enqueue, terminate_split, terminate_last,
       terminate_thread, wait_for_completion, last_drain, abort_unhalt, abort_drain, abort_release, join,
       DropOne, Goto, threadAlone, threadVars

\* The master keeps the control invariant.
LEMMA CtlMaster ==
  ASSUME BlockInv, Call \/ InCall
  PROVE  CtlInv'
<1>0. /\ TypeOK /\ ReaderInv /\ ResumeInv /\ MasterInv /\ FlagInv /\ WriterInv
      /\ UNCHANGED <<dmode, tpc, first, iob, cur_work, junk, res>>
      /\ NULL \notin Blocks
      /\ (Reading /\ ~Writing) \/ (Writing /\ ~Reading)
      /\ queue # <<>> => Head(queue) \in Blocks
      /\ miob \in Blocks \cup {NULL} /\ head \in Blocks
  BY MasterKeeps, EitherMode, PlacesType, HeadTailProperties DEF BlockInv, CtlInv, TypeOK
<1>w. (Reading <=> Reading') /\ (Writing <=> Writing')
  BY <1>0 DEF Reading, Writing
<1> USE DEF Flagged, Aborting, Cleared, Ending, CtlInv
<1>1. CASE read_stripes
  BY <1>0, <1>w, <1>1 DEF read_stripes, tqVars, ReaderInv, ResumeInv, MasterInv, FlagInv, WriterInv
<1>2. CASE park
  BY <1>0, <1>w, <1>2 DEF park, TqFree, ReaderInv, ResumeInv, MasterInv, FlagInv, WriterInv
<1>3. ASSUME NEW off, ne_seek(off)
      PROVE  CtlInv'
  BY <1>0, <1>w, <1>3 DEF ne_seek, TqFree, ReaderInv, ResumeInv, MasterInv, FlagInv, WriterInv
<1>4. ASSUME NEW off, unpark(off)
      PROVE  CtlInv'
  BY <1>0, <1>w, <1>4 DEF unpark, tqVars, ReaderInv, ResumeInv, MasterInv, FlagInv, WriterInv
<1>5. CASE write_reserve \/ terminate_split
  BY <1>0, <1>w, <1>5 DEF write_reserve, terminate_split, tqVars, ReaderInv, ResumeInv, MasterInv, FlagInv, WriterInv
<1>6. ASSUME NEW n, ne_write(n)
      PROVE  CtlInv'
  BY <1>0, <1>w, <1>6 DEF ne_write, tqVars, ReaderInv, ResumeInv, MasterInv, FlagInv, WriterInv
<1>7. CASE ne_close
  BY <1>0, <1>w, <1>7 DEF ne_close, Goto, tqVars, ReaderInv, ResumeInv, MasterInv, FlagInv, WriterInv
<1>8. CASE ne_abort \/ abort_unhalt
  BY <1>0, <1>w, <1>8 DEF ne_abort, abort_unhalt, TqFree, ReaderInv, ResumeInv, MasterInv, FlagInv, WriterInv
<1>9. CASE start
  BY <1>0, <1>w, <1>9 DEF start, TqFree, ReaderInv, ResumeInv, MasterInv, FlagInv, WriterInv
<1>10. CASE dequeue
  BY <1>0, <1>w, <1>10 DEF dequeue, TqFree, ReaderInv, ResumeInv, MasterInv, FlagInv, WriterInv
<1>11. CASE seek_release
  BY <1>0, <1>w, <1>11 DEF seek_release, tqVars, ReaderInv, ResumeInv, MasterInv, FlagInv, WriterInv
<1>12. CASE seek_unblock \/ drain \/ wait_for_completion \/ last_drain
  BY <1>0, <1>w, <1>12
     DEF seek_unblock, drain, wait_for_completion, last_drain, DropOne, Goto, TqFree, tqVars,
         ReaderInv, ResumeInv, MasterInv, FlagInv, WriterInv
<1>13. CASE wait_for_pause
  BY <1>0, <1>w, <1>13 DEF wait_for_pause, Goto, TqFree, tqVars, ReaderInv, ResumeInv, MasterInv, FlagInv, WriterInv
<1>14. CASE seek_go
  BY <1>0, <1>w, <1>14 DEF seek_go, TqFree, ReaderInv, ResumeInv, MasterInv, FlagInv, WriterInv
<1>15. CASE enqueue
  BY <1>0, <1>w, <1>15 DEF enqueue, TqFree, ReaderInv, ResumeInv, MasterInv, FlagInv, WriterInv
<1>16. CASE terminate_last
  BY <1>0, <1>w, <1>16 DEF terminate_last, TqFree, ReaderInv, ResumeInv, MasterInv, FlagInv, WriterInv
<1>17. CASE terminate_thread
  BY <1>0, <1>w, <1>17 DEF terminate_thread, TqFree, ReaderInv, ResumeInv, MasterInv, FlagInv, WriterInv
<1>18. CASE abort_drain
  BY <1>0, <1>w, <1>18 DEF abort_drain, TqFree, ReaderInv, ResumeInv, MasterInv, FlagInv, WriterInv
<1>19. CASE abort_release
  BY <1>0, <1>w, <1>19
     DEF abort_release, Goto, tqVars, masterVars, ReaderInv, ResumeInv, MasterInv, FlagInv, WriterInv
<1>20. CASE join
  <2>1. mpc' # "stuck"
    BY <1>20, JoinBack
  <2> QED BY <1>0, <1>w, <1>20, <2>1 DEF join, Goto, tqVars, ReaderInv, ResumeInv, MasterInv, FlagInv, WriterInv
<1> QED BY <1>1, <1>2, <1>3, <1>4, <1>5, <1>6, <1>7, <1>8, <1>9, <1>10, <1>11, <1>12, <1>13, <1>14, <1>15, <1>16,
           <1>17, <1>18, <1>19, <1>20 DEF Call, InCall

-----------------------------------------------------------------------------
(* How much is in a block.                                                 *)

\* The sizes of a block never change.
LEMMA SizesKept ==
  ASSUME UNCHANGED <<dmode, minfo>>
  PROVE  /\ Reading' = Reading /\ Writing' = Writing /\ Split' = Split /\ Payload' = Payload /\ PartSz' = PartSz
         /\ DataSz' = DataSz
<1>1. Reading' = Reading /\ Writing' = Writing /\ Payload' = Payload /\ PartSz' = PartSz /\ DataSz' = DataSz
  BY DEF Reading, Writing, Payload, PartSz, DataSz
<1>2. PartCnt' = PartCnt
  BY <1>1 DEF PartCnt
<1> QED BY <1>1, <1>2 DEF Split

\* While a writer reserves blocks, no two of those in use are the same, and
\* none of them is the next to be handed out.
LEMMA WriterDistinct ==
  ASSUME TypeOK, Writing, Holders = Window
  PROVE  /\ miob # NULL => cur_work # miob /\ push # miob /\ \A i \in 1 .. Len(queue) : queue[i] # miob
         /\ depth > 0 => /\ miob # head /\ cur_work # head /\ push # head
                         /\ \A i \in 1 .. Len(queue) : queue[i] # head
<1> DEFINE n == InUse  w == Win(head, InUse)
<1>1. /\ w = Held(cur_work, queue, push, miob) /\ n \in 0 .. SuperBlockCnt /\ head \in Blocks
      /\ miob \in Places /\ cur_work \in Places /\ push \in Places /\ queue \in Seq(Blocks)
      /\ NULL \notin Blocks /\ SuperBlockCnt \in Nat /\ Len(queue) \in Nat
      /\ depth > 0 => n < SuperBlockCnt
  BY HoldersHeld, PlacesType, GeometryAssumption DEF TypeOK, InUse
<1>2. /\ Len(w) = n
      /\ \A k, l \in 1 .. n : w[k] = w[l] => k = l
      /\ n < SuperBlockCnt => \A k \in 1 .. n : w[k] # head
  BY <1>1, WindowType
<1>3. /\ Len(w) = Cnt(cur_work) + Len(queue) + Cnt(push) + Cnt(miob)
      /\ cur_work # NULL => w[1] = cur_work
      /\ \A i \in 1 .. Len(queue) : w[Cnt(cur_work) + i] = queue[i]
      /\ push # NULL => w[Cnt(cur_work) + Len(queue) + 1] = push
      /\ miob # NULL => w[Cnt(cur_work) + Len(queue) + Cnt(push) + 1] = miob
  BY <1>1, HeldType
<1>4. \A x \in Places : Cnt(x) = (IF x = NULL THEN 0 ELSE 1)
  BY DEF Cnt
<1> HIDE DEF n, w
<1>5. ASSUME miob # NULL
      PROVE  cur_work # miob /\ push # miob /\ \A i \in 1 .. Len(queue) : queue[i] # miob
  <2> DEFINE m == Cnt(cur_work) + Len(queue) + Cnt(push) + 1
  <2>1. m \in 1 .. n /\ w[m] = miob
    BY <1>1, <1>2, <1>3, <1>4, <1>5
  <2>2. ASSUME cur_work # NULL PROVE cur_work # miob
    <3>1. 1 \in 1 .. n /\ 1 # m /\ w[1] = cur_work
      BY <1>1, <1>2, <1>3, <1>4, <1>5, <2>2
    <3> QED BY <1>2, <2>1, <3>1
  <2>3. ASSUME push # NULL PROVE push # miob
    <3> DEFINE k == Cnt(cur_work) + Len(queue) + 1
    <3>1. k \in 1 .. n /\ k # m /\ w[k] = push
      BY <1>1, <1>2, <1>3, <1>4, <1>5, <2>3
    <3> QED BY <1>2, <2>1, <3>1
  <2>4. ASSUME NEW i \in 1 .. Len(queue) PROVE queue[i] # miob
    <3> DEFINE k == Cnt(cur_work) + i
    <3>1. k \in 1 .. n /\ k # m /\ w[k] = queue[i]
      BY <1>1, <1>2, <1>3, <1>4, <1>5
    <3> QED BY <1>2, <2>1, <3>1
  <2> QED BY <1>5, <2>2, <2>3, <2>4
<1>6. ASSUME depth > 0
      PROVE  miob # head /\ cur_work # head /\ push # head /\ \A i \in 1 .. Len(queue) : queue[i] # head
  <2>1. \A k \in 1 .. n : w[k] # head
    BY <1>1, <1>2, <1>6
  <2>2. head # NULL
    BY <1>1
  <2>3. ASSUME miob # NULL PROVE miob # head
    <3> DEFINE k == Cnt(cur_work) + Len(queue) + Cnt(push) + 1
    <3>1. k \in 1 .. n /\ w[k] = miob
      BY <1>1, <1>2, <1>3, <1>4, <2>3
    <3> QED BY <2>1, <3>1
  <2>4. ASSUME cur_work # NULL PROVE cur_work # head
    <3>1. 1 \in 1 .. n /\ w[1] = cur_work
      BY <1>1, <1>2, <1>3, <1>4, <2>4
    <3> QED BY <2>1, <3>1
  <2>5. ASSUME push # NULL PROVE push # head
    <3> DEFINE k == Cnt(cur_work) + Len(queue) + 1
    <3>1. k \in 1 .. n /\ w[k] = push
      BY <1>1, <1>2, <1>3, <1>4, <2>5
    <3> QED BY <2>1, <3>1
  <2>6. ASSUME NEW i \in 1 .. Len(queue) PROVE queue[i] # head
    <3> DEFINE k == Cnt(cur_work) + i
    <3>1. k \in 1 .. n /\ w[k] = queue[i]
      BY <1>1, <1>2, <1>3, <1>4
    <3> QED BY <2>1, <3>1
  <2> QED BY <2>2, <2>3, <2>4, <2>5, <2>6
<1> QED BY <1>5, <1>6

\* The remainder of a number that is written as a multiple and a rest.
LEMMA Remainder ==
  ASSUME NEW p \in Nat \ {0}, NEW q \in Nat, NEW r \in 0 .. p - 1, NEW x \in Nat, x = p * q + r
  PROVE  (x % p) = r
<1> DEFINE d == x \div p  m == (x % p)
<1>1. d \in Nat /\ m \in 0 .. p - 1 /\ x = p * d + m
  OBVIOUS
<1> HIDE DEF d, m
<1>2. \A a \in Int : a >= 1 => p * a >= p
  <2> SUFFICES ASSUME NEW a \in Int, a >= 1 PROVE p * a >= p
    OBVIOUS
  <2>1. a - 1 \in Nat /\ p * a = p * (a - 1) + p
    OBVIOUS
  <2>2. p * (a - 1) >= 0
    BY <2>1
  <2> QED BY <2>1, <2>2
<1>3. p * (q - d) = m - r /\ p * (d - q) = r - m /\ q - d \in Int /\ d - q \in Int
  BY <1>1
<1>4. ~(q - d >= 1) /\ ~(d - q >= 1)
  BY <1>1, <1>2, <1>3
<1>5. q = d
  BY <1>1, <1>4
<1>6. p * q = p * d
  BY <1>5
<1> QED BY <1>1, <1>6 DEF m

\* n more bytes of a part of p bytes.
LEMMA PartStep ==
  ASSUME NEW p \in Nat \ {0}, NEW w \in Nat, NEW n \in Nat, n <= p - (w % p)
  PROVE  (w + n) % p = IF (w % p) + n = p THEN 0 ELSE (w % p) + n
<1> DEFINE k == w \div p  m == (w % p)  x == w + n
<1>1. k \in Nat /\ m \in 0 .. p - 1 /\ w = p * k + m /\ x \in Nat /\ n <= p - m
  OBVIOUS
<1>x. x = w + n
  OBVIOUS
<1> SUFFICES (x % p) = IF m + n = p THEN 0 ELSE m + n
  OBVIOUS
<1> HIDE DEF k, m, x
<1>2. CASE m + n = p
  <2>1. p * (k + 1) = p * k + p
    BY <1>1
  <2>2. x = p * (k + 1) + 0 /\ k + 1 \in Nat /\ 0 \in 0 .. p - 1
    BY <1>1, <1>x, <1>2, <2>1
  <2>3. (x % p) = 0
    BY <1>1, <2>2, Remainder
  <2> QED BY <1>2, <2>3
<1>3. CASE m + n # p
  <2>1. x = p * k + (m + n) /\ m + n \in 0 .. p - 1
    BY <1>1, <1>x, <1>3
  <2>2. (x % p) = m + n
    BY <1>1, <2>1, Remainder
  <2> QED BY <1>3, <2>2
<1> QED BY <1>2, <1>3

\* The bytes of a part go into a block that had room when the part began.
LEMMA WriteFits ==
  ASSUME BlockInv, NEW n \in 1 .. PartSz, ne_write(n), miob # NULL
  PROVE  /\ miob \in Blocks /\ mpc = "idle" /\ mpc' = "idle" /\ miob' = miob
         /\ \A i \in Blocks : i # miob => block'[i] = block[i]
         /\ Len(block'[miob].buff) \in Nat
         /\ Len(block'[miob].buff) <= Split - 1 + IF written' % PartSz = 0 THEN PartSz ELSE written' % PartSz
         /\ Len(block'[miob].buff) <= Split + PartSz
<1>1. /\ TypeOK /\ Writing /\ miob \in Blocks /\ written \in Nat /\ block \in [Blocks -> BlockType]
      /\ Split \in Nat \ {0} /\ PartSz \in Nat \ {0} /\ n \in Nat /\ n > 0
  <2>1. TypeOK /\ Writing
    BY DEF BlockInv, ne_write
  <2>2. Split \in Nat \ {0} /\ PartSz \in Nat \ {0}
    BY <2>1, Sizes
  <2>3. miob \in Blocks /\ written \in Nat /\ block \in [Blocks -> BlockType]
    BY <2>1 DEF TypeOK, BlockType
  <2>4. n \in Nat /\ n > 0
    BY <2>2
  <2> QED BY <2>1, <2>2, <2>3, <2>4
<1>2. /\ mpc = "idle" /\ mpc' = "idle" /\ miob' = miob /\ written' = written + n /\ n <= PartSz - (written % PartSz)
      /\ written % PartSz # 0 \/ HasRoom(miob)
      /\ block' = [block EXCEPT ![miob].buff = @ \o [i \in 1 .. n |-> written + i]]
  BY DEF ne_write
<1>3. /\ \A i \in Blocks : i # miob => block'[i] = block[i]
      /\ Len(block'[miob].buff) = Fill(miob) + n
      /\ Fill(miob) \in Nat
  <2> DEFINE data == [i \in 1 .. n |-> written + i]
  <2>1. data \in Seq(Int) /\ Len(data) = n
    BY <1>1
  <2> HIDE DEF data
  <2>2. block[miob].buff \in Seq(Int) /\ block[miob] \in BlockType
    BY <1>1 DEF BlockType
  <2>3. Len(block[miob].buff \o data) = Len(block[miob].buff) + n
    BY <2>1, <2>2, ConcatProperties
  <2>4. block' = [block EXCEPT ![miob].buff = @ \o data]
    BY <1>2 DEF data
  <2>5. block'[miob].buff = block[miob].buff \o data
    BY <1>1, <2>2, <2>4 DEF BlockType
  <2> QED BY <1>1, <2>2, <2>3, <2>4, <2>5 DEF Fill
<1> DEFINE m == written % PartSz
<1>4. m \in 0 .. PartSz - 1
  BY <1>1
<1>5. written' % PartSz = IF m + n = PartSz THEN 0 ELSE m + n
  BY <1>1, <1>2, PartStep
<1>6. Fill(miob) <= Split - 1 + IF m = 0 THEN PartSz ELSE m
  BY <1>1, <1>2 DEF BlockInv, FullInv
<1>7. m # 0 \/ Fill(miob) < Split
  BY <1>2 DEF HasRoom
<1> DEFINE v == written' % PartSz
<1>8. v = (IF m + n = PartSz THEN 0 ELSE m + n) /\ n <= PartSz - m
  BY <1>2, <1>5
<1> HIDE DEF m, v
<1>9. /\ Fill(miob) + n <= Split - 1 + IF v = 0 THEN PartSz ELSE v
      /\ Fill(miob) + n <= Split + PartSz /\ Fill(miob) + n \in Nat
  BY <1>1, <1>3, <1>4, <1>6, <1>7, <1>8
<1> QED BY <1>1, <1>2, <1>3, <1>9 DEF v

\* No step puts more into a block than its buffer holds.
LEMMA FitNext ==
  ASSUME BlockInv, BlockInv => TypeOK', Next
  PROVE  FitInv'
<1> DEFINE lim == IF Reading THEN Split + Payload ELSE Split + PartSz
<1>1. /\ TypeOK /\ UNCHANGED <<dmode, minfo>>
      /\ \A b \in Blocks : Fill(b) <= lim
      /\ Split \in Nat \ {0} /\ Payload \in Nat \ {0} /\ PartSz \in Nat \ {0}
      /\ block \in [Blocks -> BlockType] /\ head \in Blocks
      /\ \A b \in Blocks : Fill(b) \in Nat
      /\ (Reading /\ ~Writing) \/ (Writing /\ ~Reading)
  <2>1. UNCHANGED <<dmode, minfo>>
    BY ReaderKeeps, WriterKeeps, MasterKeeps DEF Next
  <2>2. TypeOK /\ block \in [Blocks -> BlockType] /\ head \in Blocks
    BY DEF BlockInv, TypeOK, BlockType
  <2>3. \A b \in Blocks : Fill(b) \in Nat
    BY <2>2 DEF Fill, BlockType
  <2> QED BY <2>1, <2>2, <2>3, Sizes, EitherMode DEF BlockInv, FitInv
<1>2. lim' = lim
  BY <1>1, SizesKept
<1>3. lim \in Nat /\ lim >= Split + 1 /\ (Reading => lim = Split + Payload) /\ (Writing => lim = Split + PartSz)
  BY <1>1
<1>4. SUFFICES \A b \in Blocks : Len(block'[b].buff) <= lim
  BY <1>2 DEF FitInv, Fill
<1> HIDE DEF lim
<1>5. CASE block' = block
  BY <1>1, <1>5 DEF Fill
<1>6. CASE read_produce_fill
  <2>1. /\ Reading /\ ToRead > CrcBytes
        /\ \E ok \in BOOLEAN :
             \/ HasRoom(iob) /\ FillFrom(iob, block[iob], ok)
             \/ FillFrom(head, Empty, ok)
    BY <1>6 DEF read_produce_fill
  <2>2. PICK ok \in BOOLEAN : (HasRoom(iob) /\ FillFrom(iob, block[iob], ok)) \/ FillFrom(head, Empty, ok)
    BY <2>1
  <2>3. Empty \in BlockType /\ Len(Empty.buff) = 0
    BY DEF Empty, BlockType
  <2>4. PICK b \in Blocks, blk \in BlockType : FillFrom(b, blk, ok) /\ Len(blk.buff) \in Nat /\ Len(blk.buff) <= Split
    <3>1. CASE HasRoom(iob) /\ FillFrom(iob, block[iob], ok)
      <4>1. iob \in Blocks /\ block[iob] \in BlockType /\ Len(block[iob].buff) < Split /\ Len(block[iob].buff) \in Nat
        BY <1>1, <3>1 DEF HasRoom, Fill, TypeOK
      <4> QED BY <1>1, <3>1, <4>1
    <3>2. CASE FillFrom(head, Empty, ok)
      BY <1>1, <2>3, <3>2
    <3> QED BY <2>2, <3>1, <3>2
  <2>5. /\ \A i \in Blocks : i # b => block'[i] = block[i]
        /\ Len(block'[b].buff) <= Len(blk.buff) + Payload /\ block'[b] \in BlockType
    BY <1>1, <2>1, <2>4, FillFromType
  <2>6. Len(block'[b].buff) \in Nat
    BY <2>5 DEF BlockType
  <2>7. Len(block'[b].buff) <= lim
    BY <1>1, <1>3, <2>1, <2>4, <2>5, <2>6
  <2> QED BY <1>1, <2>5, <2>7 DEF Fill
<1>7. ASSUME NEW b \in Places, ~HasRoom(b), depth > 0, block' = Reserved(b)
      PROVE  \A i \in Blocks : Len(block'[i].buff) <= lim
  <2>1. /\ \A i \in Blocks : i # b /\ i # head => block'[i] = block[i]
        /\ b = NULL => Len(block'[head].buff) = 0
        /\ b # NULL => /\ b # head => Len(block'[b].buff) = Split
                       /\ Len(block'[head].buff) = Fill(b) - Split
    BY <1>1, <1>7, ReservedType
  <2>2. b # NULL => b \in Blocks
    BY <1>7 DEF Places
  <2>3. Len(block'[head].buff) <= lim
    BY <1>1, <1>3, <2>1, <2>2
  <2>4. b # NULL /\ b # head => Len(block'[b].buff) <= lim
    BY <1>1, <1>3, <2>1
  <2>5. NULL \notin Blocks
    BY PlacesType
  <2> QED BY <1>1, <2>1, <2>3, <2>4, <2>5 DEF Fill
<1>8. CASE read_produce_push
  BY <1>1, <1>7, <1>8 DEF read_produce_push, Reserve, TypeOK, Places
<1>9. CASE write_reserve \/ terminate_split
  BY <1>1, <1>7, <1>9 DEF write_reserve, terminate_split, Reserve, TypeOK, Places
<1>10. CASE read_resume_align
  <2>1. PICK b \in Blocks : block' = Aligned(b)
    BY <1>1, <1>10 DEF read_resume_align, TypeOK
  <2>2. /\ \A i \in Blocks : i # b => block'[i] = block[i]
        /\ Len(block'[b].buff) <= Split /\ block'[b] \in BlockType
    BY <1>1, <2>1, AlignedType
  <2>3. Len(block'[b].buff) \in Nat
    BY <2>2 DEF BlockType
  <2>4. Len(block'[b].buff) <= lim
    BY <1>1, <1>3, <2>2, <2>3
  <2> QED BY <1>1, <2>2, <2>4 DEF Fill
<1>11. ASSUME NEW n \in 1 .. PartSz, ne_write(n)
       PROVE  \A i \in Blocks : Len(block'[i].buff) <= lim
  <2>1. CASE miob = NULL
    <3>1. block' = block
      BY <1>1, <1>11, <2>1, PlacesType DEF ne_write
    <3> QED BY <1>5, <3>1
  <2>2. CASE miob # NULL
    <3>1. Len(block'[miob].buff) <= lim
      <4>1. Len(block'[miob].buff) \in Nat /\ Len(block'[miob].buff) <= Split + PartSz
        BY <1>11, <2>2, WriteFits
      <4>2. Writing
        BY <1>11 DEF ne_write
      <4> QED BY <1>1, <1>3, <4>1, <4>2
    <3> QED BY <1>1, <1>11, <2>2, <3>1, WriteFits DEF Fill
  <2> QED BY <2>1, <2>2
<1>12. \/ block' = block \/ read_produce_fill \/ read_produce_push \/ write_reserve \/ terminate_split
       \/ read_resume_align \/ \E n \in 1 .. PartSz : ne_write(n)
  BY WriterKeeps
     DEF Next, Reader, Call, InCall, read_produce_end, read_produce_last, producer_post, producer_wake, read_resume_stay,
         read_resume_seek, junk_block, Released, read_term, read_stripes, park, ne_seek, unpark, ne_close, ne_abort,
         start, dequeue, seek_release, seek_unblock, wait_for_pause, drain, seek_go, enqueue, terminate_last,
         terminate_thread, wait_for_completion, last_drain, abort_unhalt, abort_drain, abort_release, join,
         DropOne, Goto, ringVars
<1> QED BY <1>5, <1>6, <1>8, <1>9, <1>10, <1>11, <1>12

\* What a writer has to say of the blocks, in the next state.
FullNextGoal ==
  /\ ~Aborting' => /\ \A i \in 1 .. Len(queue') : Len(block'[queue'[i]].buff) <= Split
                   /\ cur_work' # NULL => Len(block'[cur_work'].buff) <= Split
                   /\ push' # NULL => Len(block'[push'].buff) <= Split
  /\ mpc' \in {"idle", "enqueue"} /\ miob' # NULL =>
       Len(block'[miob'].buff) <= Split - 1 + IF written' % PartSz = 0 THEN PartSz ELSE written' % PartSz

\* The order of a writer that is not being aborted and still has a block.
LEMMA WriterInOrder ==
  ASSUME BlockInv, Writing, mpc \in {"idle", "close"}, miob # NULL \/ mpc = "idle"
  PROVE  ~Aborting /\ Holders = Window
<1>1. ~Aborting /\ ~Reading
  BY EitherMode DEF Aborting, BlockInv
<1>2. ~NoMoreReserves
  BY <1>1 DEF NoMoreReserves
<1> QED BY <1>1, <1>2 DEF BlockInv, RingInv

\* An abort is never undone.
LEMMA AbortStays ==
  ASSUME BlockInv, Next
  PROVE  Aborting => Aborting'
<1>1. CASE Reader \/ Writer
  BY <1>1, ReaderKeeps, WriterKeeps DEF Aborting
<1>2. CASE join
  BY <1>2, JoinBack DEF join, Goto, Aborting
<1>3. CASE Call \/ InCall
  BY <1>2, <1>3
     DEF Call, InCall, read_stripes, park, ne_seek, unpark, write_reserve, ne_write, ne_close, ne_abort, start, dequeue,
         seek_release, seek_unblock, wait_for_pause, drain, seek_go, enqueue, terminate_split, terminate_last,
         terminate_thread, wait_for_completion, last_drain, abort_unhalt, abort_drain, abort_release,
         DropOne, Goto, tqVars, masterVars, Aborting
<1> QED BY <1>1, <1>3 DEF Next

\* A block is reserved: what leaves the block in hand stays small, the rest
\* goes to the next.
LEMMA ReserveIsSmall ==
  ASSUME BlockInv, Writing, mpc \in {"idle", "close"}, miob # NULL \/ mpc = "idle", ~HasRoom(miob), depth > 0,
         block' = Reserved(miob), queue' = queue, cur_work' = cur_work
  PROVE  /\ \A i \in 1 .. Len(queue') : Len(block'[queue'[i]].buff) <= Split
         /\ cur_work' # NULL => Len(block'[cur_work'].buff) <= Split
         /\ miob # NULL => Len(block'[miob].buff) <= Split /\ Len(block'[head].buff) = Fill(miob) - Split
         /\ miob = NULL => Len(block'[head].buff) = 0
<1>1. ~Aborting /\ Holders = Window /\ TypeOK
  BY WriterInOrder DEF BlockInv
<1>2. /\ miob # NULL => cur_work # miob /\ push # miob /\ \A i \in 1 .. Len(queue) : queue[i] # miob
      /\ miob # head /\ cur_work # head /\ push # head
      /\ \A i \in 1 .. Len(queue) : queue[i] # head
  BY <1>1, WriterDistinct
<1>3. /\ \A i \in 1 .. Len(queue) : queue[i] \in Blocks
      /\ cur_work # NULL => cur_work \in Blocks
      /\ miob \in Places /\ NULL \notin Blocks /\ Split \in Nat /\ head \in Blocks
  BY <1>1, PlacesType, Sizes DEF TypeOK, Places
<1>4. /\ \A i \in Blocks : i # miob /\ i # head => block'[i] = block[i]
      /\ miob = NULL => Len(block'[head].buff) = 0
      /\ miob # NULL => Len(block'[miob].buff) = Split /\ Len(block'[head].buff) = Fill(miob) - Split
  BY <1>1, <1>2, <1>3, ReservedType
<1>5. /\ \A i \in 1 .. Len(queue) : Fill(queue[i]) <= Split
      /\ cur_work # NULL => Fill(cur_work) <= Split
  BY <1>1 DEF BlockInv, FullInv
<1>6. ASSUME NEW i \in 1 .. Len(queue') PROVE Len(block'[queue'[i]].buff) <= Split
  <2>1. i \in 1 .. Len(queue) /\ queue'[i] = queue[i] /\ queue[i] \in Blocks /\ queue[i] # miob /\ queue[i] # head
    BY <1>2, <1>3, <1>6
  <2>2. block'[queue[i]] = block[queue[i]]
    BY <1>4, <2>1
  <2> QED BY <1>5, <2>1, <2>2 DEF Fill
<1>7. ASSUME cur_work' # NULL PROVE Len(block'[cur_work'].buff) <= Split
  <2>1. cur_work \in Blocks /\ cur_work # miob /\ cur_work # head
    BY <1>2, <1>3, <1>7
  <2>2. block'[cur_work] = block[cur_work]
    BY <1>4, <2>1
  <2> QED BY <1>5, <1>7, <2>2 DEF Fill
<1> QED BY <1>3, <1>4, <1>6, <1>7

\* What the writer thread takes from the queue is small enough for one IO.
LEMMA FullWriter ==
  ASSUME BlockInv, Writer
  PROVE  FullNextGoal
<1>1. /\ Writing /\ UNCHANGED <<mpc, miob, push, written, block>> /\ (Aborting' <=> Aborting) /\ TypeOK
      /\ queue \in Seq(Blocks)
  BY WriterKeeps DEF Aborting, BlockInv, TypeOK
<1>2. /\ ~Aborting => /\ \A i \in 1 .. Len(queue) : Fill(queue[i]) <= Split
                      /\ cur_work # NULL => Fill(cur_work) <= Split
                      /\ push # NULL => Fill(push) <= Split
      /\ mpc \in {"idle", "enqueue"} /\ miob # NULL =>
           Fill(miob) <= Split - 1 + IF written % PartSz = 0 THEN PartSz ELSE written % PartSz
  BY <1>1 DEF BlockInv, FullInv
<1>3. SUFFICES ~Aborting => /\ \A i \in 1 .. Len(queue') : Fill(queue'[i]) <= Split
                            /\ cur_work' # NULL => Fill(cur_work') <= Split
  BY <1>1, <1>2 DEF FullNextGoal, Fill
<1>4. CASE consumer_take
  <2>1. cur_work' = Head(queue) /\ queue' = Tail(queue) /\ queue # <<>>
    BY <1>4 DEF consumer_take
  <2>2. /\ Len(queue) \in Nat \ {0} /\ Head(queue) = queue[1] /\ Len(Tail(queue)) = Len(queue) - 1
        /\ \A i \in 1 .. Len(queue) - 1 : Tail(queue)[i] = queue[i + 1] /\ i + 1 \in 1 .. Len(queue)
    <3>1. Len(queue) \in Nat \ {0}
      BY <1>1, <2>1, EmptySeq
    <3> QED BY <1>1, <2>1, <3>1, HeadTailProperties
  <2> QED BY <1>2, <2>1, <2>2
<1>5. CASE consumer_quit \/ write_term
  BY <1>2, <1>5 DEF consumer_quit, write_term, tqVars
<1>6. CASE write_consume
  BY <1>2, <1>6 DEF write_consume
<1> QED BY <1>4, <1>5, <1>6 DEF Writer

\* What the master enqueues for a writer is small enough for one IO.
LEMMA FullMaster ==
  ASSUME BlockInv, Call \/ InCall, Writing
  PROVE  FullNextGoal
<1>1. /\ UNCHANGED <<cur_work, minfo>> /\ TypeOK /\ WriterInv /\ ~Reading
      /\ queue \in Seq(Blocks) /\ Split \in Nat \ {0} /\ PartSz \in Nat \ {0} /\ head \in Blocks /\ NULL \notin Blocks
      /\ \A b \in Blocks : Fill(b) \in Nat
  <2>1. TypeOK /\ WriterInv
    BY DEF BlockInv, CtlInv
  <2>2. \A b \in Blocks : Fill(b) \in Nat
    BY <2>1 DEF TypeOK, Fill
  <2> QED BY <2>1, <2>2, MasterKeeps, Sizes, EitherMode, PlacesType DEF TypeOK
<1>2. /\ ~Aborting => /\ \A i \in 1 .. Len(queue) : Fill(queue[i]) <= Split
                      /\ cur_work # NULL => Fill(cur_work) <= Split
                      /\ push # NULL => Fill(push) <= Split
      /\ mpc \in {"idle", "enqueue"} /\ miob # NULL =>
           Fill(miob) <= Split - 1 + IF written % PartSz = 0 THEN PartSz ELSE written % PartSz
  BY DEF BlockInv, FullInv
<1>3. Aborting => Aborting'
  BY AbortStays DEF Next
<1>4. ASSUME NEW x \in Blocks, Fill(x) <= Split, queue' = Append(queue, x), block' = block, ~Aborting
      PROVE  \A i \in 1 .. Len(queue') : Len(block'[queue'[i]].buff) <= Split
  <2>1. /\ Len(queue') = Len(queue) + 1 /\ Len(queue) \in Nat
        /\ \A i \in 1 .. Len(queue) + 1 : queue'[i] = IF i = Len(queue) + 1 THEN x ELSE queue[i]
    BY <1>1, <1>4
  <2> QED BY <1>2, <1>4, <2>1 DEF Fill
<1>5. CASE write_reserve
  <2>1. /\ mpc = "idle" /\ ~HasRoom(miob) /\ depth > 0 /\ block' = Reserved(miob) /\ queue' = queue
        /\ miob' = head /\ push' = miob /\ written' = written /\ written % PartSz = 0
    BY <1>5 DEF write_reserve, Reserve, tqVars
  <2>2. /\ \A i \in 1 .. Len(queue') : Len(block'[queue'[i]].buff) <= Split
        /\ cur_work' # NULL => Len(block'[cur_work'].buff) <= Split
        /\ miob # NULL => Len(block'[miob].buff) <= Split /\ Len(block'[head].buff) = Fill(miob) - Split
        /\ miob = NULL => Len(block'[head].buff) = 0
    BY <1>1, <2>1, ReserveIsSmall
  <2>3. Len(block'[head].buff) <= Split - 1 + PartSz
    <3>1. CASE miob = NULL
      BY <1>1, <2>2, <3>1
    <3>2. CASE miob # NULL
      <4>1. Fill(miob) <= Split - 1 + PartSz /\ Fill(miob) \in Nat
        BY <1>1, <1>2, <2>1, <3>2 DEF TypeOK
      <4> QED BY <1>1, <2>2, <3>2, <4>1
    <3> QED BY <3>1, <3>2
  <2> QED BY <2>1, <2>2, <2>3 DEF FullNextGoal
<1>6. CASE terminate_split
  <2>1. /\ mpc = "close" /\ miob # NULL /\ ~HasRoom(miob) /\ depth > 0 /\ block' = Reserved(miob) /\ queue' = queue
        /\ push' = miob /\ mpc' = "close_enqueue"
    BY <1>6 DEF terminate_split, Reserve, tqVars
  <2>2. /\ \A i \in 1 .. Len(queue') : Len(block'[queue'[i]].buff) <= Split
        /\ cur_work' # NULL => Len(block'[cur_work'].buff) <= Split
        /\ Len(block'[miob].buff) <= Split
    BY <1>1, <2>1, ReserveIsSmall
  <2> QED BY <2>1, <2>2 DEF FullNextGoal
<1>7. ASSUME NEW n \in 1 .. PartSz, ne_write(n) PROVE FullNextGoal
  <2>1. /\ mpc = "idle" /\ UNCHANGED <<mpc, miob, push, queue>>
    BY <1>7 DEF ne_write, tqVars
  <2>2. CASE miob = NULL
    <3>1. block' = block
      BY <1>1, <1>7, <2>2 DEF ne_write, TypeOK
    <3> QED BY <1>1, <1>2, <2>1, <2>2, <3>1, <1>3 DEF FullNextGoal, Fill
  <2>3. CASE miob # NULL
    <3>1. /\ \A i \in Blocks : i # miob => block'[i] = block[i]
          /\ Len(block'[miob].buff) <= Split - 1 + IF written' % PartSz = 0 THEN PartSz ELSE written' % PartSz
      BY <1>7, <2>3, WriteFits
    <3>2. ~Aborting /\ Holders = Window
      BY <2>1, WriterInOrder
    <3>3. cur_work # miob /\ push # miob /\ \A i \in 1 .. Len(queue) : queue[i] # miob
      BY <1>1, <2>3, <3>2, WriterDistinct
    <3>4. /\ \A i \in 1 .. Len(queue) : queue[i] \in Blocks
          /\ cur_work # NULL => cur_work \in Blocks
          /\ push # NULL => push \in Blocks
      BY <1>1 DEF TypeOK
    <3>5. ASSUME NEW x \in Blocks, x # miob, Fill(x) <= Split PROVE Len(block'[x].buff) <= Split
      BY <3>1, <3>5 DEF Fill
    <3>6. \A i \in 1 .. Len(queue') : Len(block'[queue'[i]].buff) <= Split
      BY <1>2, <2>1, <3>2, <3>3, <3>4, <3>5
    <3>7. (cur_work' # NULL => Len(block'[cur_work'].buff) <= Split) /\ (push' # NULL => Len(block'[push'].buff) <= Split)
      BY <1>1, <1>2, <2>1, <3>2, <3>3, <3>4, <3>5
    <3> QED BY <2>1, <3>1, <3>6, <3>7 DEF FullNextGoal
  <2> QED BY <2>2, <2>3
<1>8. CASE enqueue
  <2>1. /\ push \in Blocks /\ block' = block /\ push' = NULL /\ UNCHANGED <<miob, written>>
        /\ mpc' \in {"idle", "enqueue"} => mpc \in {"idle", "enqueue"}
        /\ queue' = queue \/ queue' = Append(queue, push)
    BY <1>1, <1>8 DEF enqueue, ringVars, WriterInv, TypeOK
  <2>2. ~Aborting
    BY <1>8 DEF enqueue, Aborting
  <2>3. \A i \in 1 .. Len(queue') : Len(block'[queue'[i]].buff) <= Split
    <3>1. CASE queue' = queue
      BY <1>2, <2>1, <2>2, <3>1 DEF Fill
    <3>2. CASE queue' = Append(queue, push)
      BY <1>1, <1>2, <1>4, <2>1, <2>2, <3>2
    <3> QED BY <2>1, <3>1, <3>2
  <2> QED BY <1>1, <1>2, <2>1, <2>2, <2>3 DEF FullNextGoal, Fill
<1>9. CASE terminate_last
  <2>1. /\ mpc = "close" /\ miob \in Blocks /\ Fill(miob) < Split /\ block' = block /\ miob' = NULL /\ push' = push
        /\ queue' = queue \/ queue' = Append(queue, miob)
    BY <1>1, <1>9 DEF terminate_last, Released, HasRoom, TypeOK, ringVars
  <2>2. ~Aborting
    BY <2>1 DEF Aborting
  <2>3. \A i \in 1 .. Len(queue') : Len(block'[queue'[i]].buff) <= Split
    <3>1. CASE queue' = queue
      BY <1>2, <2>1, <2>2, <3>1 DEF Fill
    <3>2. CASE queue' = Append(queue, miob)
      BY <1>1, <1>4, <2>1, <2>2, <3>2
    <3> QED BY <2>1, <3>1, <3>2
  <2> QED BY <1>1, <1>2, <2>1, <2>2, <2>3 DEF FullNextGoal, Fill
<1>10. CASE start
  <2>1. UNCHANGED <<queue, block, push>> /\ miob' = NULL
    BY <1>1, <1>10 DEF start, ringVars, WriterInv
  <2> QED BY <1>1, <1>2, <1>3, <2>1 DEF FullNextGoal, Fill
<1>11. ASSUME UNCHANGED <<queue, block, push>>, mpc' \notin {"idle", "enqueue"} PROVE FullNextGoal
  BY <1>1, <1>2, <1>3, <1>11 DEF FullNextGoal, Fill
<1>12. CASE ne_close \/ terminate_thread \/ ne_abort \/ abort_unhalt \/ join
  <2>1. UNCHANGED <<queue, block, push>> /\ mpc' \notin {"idle", "enqueue"}
    BY <1>1, <1>12 DEF ne_close, terminate_thread, ne_abort, abort_unhalt, join, Goto, ringVars, tqVars
  <2> QED BY <1>11, <2>1
<1>13. CASE abort_drain \/ abort_release
  <2>1. Aborting' /\ mpc' \notin {"idle", "enqueue"}
    BY <1>13 DEF abort_drain, abort_release, Goto, masterVars, Aborting
  <2> QED BY <2>1 DEF FullNextGoal
<1>14. \/ write_reserve \/ terminate_split \/ (\E n \in 1 .. PartSz : ne_write(n)) \/ enqueue \/ terminate_last \/ start
       \/ ne_close \/ terminate_thread \/ ne_abort \/ abort_unhalt \/ join \/ abort_drain \/ abort_release
  BY <1>1 DEF Call, InCall, WriterInv, Aborting, read_stripes, park, ne_seek, unpark, dequeue, seek_release, seek_unblock,
              wait_for_pause, drain, seek_go, wait_for_completion, last_drain
<1> QED BY <1>5, <1>6, <1>7, <1>8, <1>9, <1>10, <1>12, <1>13, <1>14

\* A step keeps what is known of the blocks of a writer.
LEMMA FullNext ==
  ASSUME BlockInv, Next
  PROVE  FullInv'
<1>1. UNCHANGED <<dmode, minfo>>
  BY ReaderKeeps, WriterKeeps, MasterKeeps DEF Next
<1>2. /\ Split' = Split /\ PartSz' = PartSz /\ (Writing' <=> Writing) /\ (Reading' <=> Reading) /\ (Reading => ~Writing)
  BY <1>1, SizesKept, EitherMode DEF BlockInv
<1>3. Writing => FullNextGoal
  BY <1>2, ReaderKeeps, FullWriter, FullMaster DEF Next
<1> QED BY <1>2, <1>3 DEF FullNextGoal, FullInv, Fill

-----------------------------------------------------------------------------
(* The ring and the order of the holders.                                  *)

\* The row s holds as many blocks as the ring has handed out, and unless it no
\* longer matters they are the ones it has handed out, oldest first.
RingPart(s, h, d, any) == Len(s) = SuperBlockCnt - d /\ (any \/ s = Win(h, SuperBlockCnt - d))

\* The oldest block is given back.
LEMMA PartReleases ==
  ASSUME NEW s \in Seq(Blocks), NEW h \in Blocks, NEW d \in 0 .. SuperBlockCnt, NEW any \in BOOLEAN,
         RingPart(s, h, d, any), s # <<>>
  PROVE  /\ Release(d) = d + 1 /\ Release(d) \in 0 .. SuperBlockCnt /\ Tail(s) \in Seq(Blocks)
         /\ RingPart(Tail(s), h, Release(d), any)
<1> DEFINE n == SuperBlockCnt - d
<1>1. SuperBlockCnt \in Nat /\ Len(s) = n /\ (any \/ s = Win(h, n))
  BY GeometryAssumption DEF RingPart
<1>2. Len(s) \in Nat \ {0} /\ Tail(s) \in Seq(Blocks) /\ Len(Tail(s)) = Len(s) - 1
  <2>1. Len(s) \in Nat \ {0}
    BY EmptySeq
  <2> QED BY <2>1, HeadTailProperties
<1>3. n \in 1 .. SuperBlockCnt /\ d < SuperBlockCnt /\ d + 1 \in 0 .. SuperBlockCnt /\ SuperBlockCnt - (d + 1) = n - 1
  BY <1>1, <1>2
<1>4. Release(d) = d + 1
  BY <1>3 DEF Release
<1> HIDE DEF n
<1>5. ~any => Tail(s) = Win(h, n - 1)
  BY <1>1, <1>3, WindowShrinks
<1> QED BY <1>1, <1>2, <1>3, <1>4, <1>5 DEF RingPart

\* The next block is handed out.
LEMMA PartReserves ==
  ASSUME NEW s \in Seq(Blocks), NEW h \in Blocks, NEW d \in 0 .. SuperBlockCnt, d > 0, RingPart(s, h, d, FALSE)
  PROVE  RingPart(Append(s, h), After(h), d - 1, FALSE)
<1> DEFINE n == SuperBlockCnt - d
<1>1. SuperBlockCnt \in Nat /\ Len(s) = n /\ s = Win(h, n)
  BY GeometryAssumption DEF RingPart
<1>2. n \in 0 .. SuperBlockCnt /\ n < SuperBlockCnt /\ SuperBlockCnt - (d - 1) = n + 1
  BY <1>1
<1> HIDE DEF n
<1>3. Append(s, h) = Win(After(h), n + 1)
  BY <1>1, <1>2, WindowGrows
<1>4. Len(Append(s, h)) = n + 1
  BY <1>1
<1> QED BY <1>2, <1>3, <1>4 DEF RingPart

\* RingInv in these words, now and in the next state.
LEMMA RingAsPart ==
  ASSUME BlockInv, UNCHANGED dmode
  PROVE  /\ ~Aborting => RingPart(Holders, head, depth, NoMoreReserves)
         /\ (~Aborting' => RingPart(Holders', head', depth', NoMoreReserves')) => RingInv'
         /\ Reading => Holders' = Held(miob', queue', cur_work', iob')
         /\ Writing => Holders' = Held(cur_work', queue', push', miob')
         /\ NoMoreReserves \in BOOLEAN /\ (NoMoreReserves')  \in BOOLEAN
<1>1. TypeOK /\ Window = Win(head, InUse) /\ RingInv
  BY HoldersHeld DEF BlockInv
<1>2. (Reading' <=> Reading) /\ (Reading => ~Writing)
  BY <1>1, EitherMode DEF Reading
<1>3. ~Aborting => RingPart(Holders, head, depth, NoMoreReserves)
  BY <1>1 DEF RingInv, RingPart, InUse
<1>4. Window' = Win(head', SuperBlockCnt - depth') /\ InUse' = SuperBlockCnt - depth'
  BY DEF Window, Win, InUse
<1>5. (~Aborting' => RingPart(Holders', head', depth', NoMoreReserves')) => RingInv'
  BY <1>4 DEF RingInv, RingPart
<1>6. /\ Reading => Holders' = Held(miob', queue', cur_work', iob')
      /\ Writing => Holders' = Held(cur_work', queue', push', miob')
  BY <1>2 DEF Holders, Held, Hold
<1>7. NoMoreReserves \in BOOLEAN /\ (NoMoreReserves') \in BOOLEAN
  BY DEF NoMoreReserves
<1> QED BY <1>3, <1>5, <1>6, <1>7

\* A part that is in order is also counted.
LEMMA PartWeaken ==
  ASSUME NEW s, NEW h, NEW d, NEW any \in BOOLEAN, RingPart(s, h, d, FALSE)
  PROVE  RingPart(s, h, d, any)
BY DEF RingPart

\* The reader thread moves its blocks along the row.
LEMMA RingReader ==
  ASSUME BlockInv, Reader
  PROVE  RingInv'
<1>1. /\ TypeOK /\ Reading /\ UNCHANGED <<dmode, mpc, miob>> /\ (Aborting' <=> Aborting)
      /\ ReaderInv /\ ResumeInv
      /\ miob \in Places /\ cur_work \in Places /\ iob \in Places /\ queue \in Seq(Blocks)
      /\ head \in Blocks /\ depth \in 0 .. SuperBlockCnt /\ NextHead = After(head) /\ After(head) \in Blocks
      /\ NULL \in Places /\ NULL \notin Blocks /\ SuperBlockCnt \in Nat
      /\ Holders = Held(miob, queue, cur_work, iob) /\ Holders' = Held(miob, queue', cur_work', iob')
  <2>1. /\ TypeOK /\ Reading /\ UNCHANGED <<dmode, mpc, miob>> /\ ReaderInv /\ ResumeInv
    BY ReaderKeeps DEF BlockInv, CtlInv
  <2>2. NextHead = After(head) /\ After(head) \in Blocks
    BY <2>1, RingType
  <2>3. Holders = Held(miob, queue, cur_work, iob) /\ Holders' = Held(miob, queue', cur_work', iob')
    BY <2>1, HoldersHeld, RingAsPart
  <2>4. Aborting' <=> Aborting
    BY <2>1 DEF Aborting
  <2> QED BY <2>1, <2>2, <2>3, <2>4, PlacesType, GeometryAssumption DEF TypeOK, Places
<1> SUFFICES ASSUME ~Aborting PROVE RingPart(Holders', head', depth', NoMoreReserves')
  BY <1>1, RingAsPart
<1>any. NoMoreReserves' \in BOOLEAN
  BY RingAsPart, <1>1
<1>2. RingPart(Held(miob, queue, cur_work, iob), head, depth, FALSE)
  <2>1. tpc # "exit"
    BY DEF Reader, read_produce_end, read_produce_fill, read_produce_push, read_produce_last, producer_post, producer_wake,
           read_resume_stay, read_resume_seek, read_resume_align, Resuming, junk_block, read_term
  <2> QED BY <1>1, <2>1, RingAsPart DEF NoMoreReserves
<1>3. SUFFICES RingPart(Held(miob, queue', cur_work', iob'), head', depth', FALSE) \/ read_term
  <2>1. ASSUME RingPart(Held(miob, queue', cur_work', iob'), head', depth', FALSE)
        PROVE  RingPart(Holders', head', depth', NoMoreReserves')
    BY <1>1, <1>any, <2>1, PartWeaken
  <2>2. ASSUME read_term PROVE RingPart(Holders', head', depth', NoMoreReserves')
    <3>1. /\ queue' = queue /\ cur_work' = NULL /\ iob' = NULL /\ tpc' = "exit"
          /\ depth' = LET d == IF cur_work = NULL THEN depth ELSE Release(depth)
                      IN  IF iob = NULL THEN d ELSE Release(d)
      BY <2>2 DEF read_term, tqVars
    <3>2. NoMoreReserves'
      BY <1>1, <3>1 DEF NoMoreReserves, Reading
    <3>3. Len(Held(miob, queue, cur_work, iob)) = SuperBlockCnt - depth
      BY <1>2 DEF RingPart
    <3>4. Len(Held(miob, queue, cur_work, iob)) = Cnt(miob) + Len(queue) + Cnt(cur_work) + Cnt(iob)
      BY <1>1, HeldType
    <3>5. Len(Held(miob, queue, NULL, NULL)) = Cnt(miob) + Len(queue) + Cnt(NULL) + Cnt(NULL)
      BY <1>1, HeldType
    <3>6. /\ Cnt(miob) \in {0, 1} /\ Len(queue) \in Nat /\ Cnt(NULL) = 0
          /\ Cnt(cur_work) = (IF cur_work = NULL THEN 0 ELSE 1) /\ Cnt(iob) = (IF iob = NULL THEN 0 ELSE 1)
      BY <1>1 DEF Cnt
    <3>7. depth' = depth + Cnt(cur_work) + Cnt(iob)
      BY <1>1, <3>1, <3>3, <3>4, <3>6 DEF Release
    <3>8. Len(Held(miob, queue, NULL, NULL)) = SuperBlockCnt - depth'
      BY <1>1, <3>3, <3>4, <3>5, <3>6, <3>7
    <3> QED BY <1>1, <3>1, <3>2, <3>8 DEF RingPart
  <2> QED BY <2>1, <2>2
<1> DEFINE H == Held(miob, queue, cur_work, iob)  G == Held(miob, queue', cur_work', iob')
<1>4. H \in Seq(Blocks)
  BY <1>1, HeldType
<1>5. ASSUME G = H, UNCHANGED <<head, depth>> PROVE RingPart(G, head', depth', FALSE)
  BY <1>2, <1>5
<1>6. ASSUME G = Append(H, head), head' = After(head), depth > 0, depth' = depth - 1
      PROVE  RingPart(G, head', depth', FALSE)
  BY <1>1, <1>2, <1>4, <1>6, PartReserves
<1>m. /\ \A c, d \in Places : Held(miob, queue, c, NULL) = Held(miob, queue, NULL, c)
      /\ \A c \in Places, x \in Blocks : Held(miob, queue, c, x) = Append(Held(miob, queue, NULL, c), x)
      /\ \A c, d \in Places : c # NULL => Held(miob, Append(queue, c), NULL, d) = Held(miob, queue, c, d)
  <2>0. miob \in Places /\ queue \in Seq(Blocks)
    BY <1>1
  <2>1. ASSUME NEW c \in Places, NEW d \in Places
        PROVE  /\ Held(miob, queue, c, NULL) = Held(miob, queue, NULL, c)
               /\ c # NULL => Held(miob, Append(queue, c), NULL, d) = Held(miob, queue, c, d)
               /\ \A x \in Blocks : Held(miob, queue, c, x) = Append(Held(miob, queue, NULL, c), x)
    BY <2>0, HeldMoves
  <2> QED BY <1>1, <2>1
<1>7. CASE read_produce_end
  <2>1. cur_work = NULL /\ UNCHANGED <<head, depth, queue>>
    BY <1>1, <1>7 DEF read_produce_end, ReaderInv, ringVars, tqVars
  <2>2. (cur_work' = iob /\ iob' = NULL) \/ (cur_work' = NULL /\ iob' = iob)
    BY <1>7 DEF read_produce_end, Produced
  <2>3. G = H
    BY <1>1, <1>m, <2>1, <2>2
  <2> QED BY <1>5, <2>1, <2>3
<1>8. CASE read_produce_fill
  <2>1. UNCHANGED <<queue, cur_work>>
    BY <1>8 DEF read_produce_fill, tqVars
  <2>2. \/ UNCHANGED <<iob, head, depth>>
        \/ iob = NULL /\ Reserve(NULL) /\ iob' = head
    BY <1>8 DEF read_produce_fill
  <2>3. CASE UNCHANGED <<iob, head, depth>>
    BY <1>5, <2>1, <2>3
  <2>4. CASE iob = NULL /\ Reserve(NULL) /\ iob' = head
    <3>1. G = Append(H, head)
      BY <1>1, <1>m, <2>1, <2>4
    <3>2. head' = After(head) /\ depth > 0 /\ depth' = depth - 1
      BY <1>1, <2>4 DEF Reserve
    <3> QED BY <1>6, <3>1, <3>2
  <2> QED BY <2>2, <2>3, <2>4
<1>9. CASE read_produce_push
  <2>1. cur_work = NULL /\ iob # NULL /\ queue' = queue /\ cur_work' = iob /\ iob' = head /\ Reserve(iob)
    BY <1>1, <1>9 DEF read_produce_push, Produced, ReaderInv, tqVars
  <2>2. G = Append(H, head)
    BY <1>1, <1>m, <2>1
  <2>3. head' = After(head) /\ depth > 0 /\ depth' = depth - 1
    BY <1>1, <2>1 DEF Reserve
  <2> QED BY <1>6, <2>2, <2>3
<1>10. CASE read_produce_last
  <2>1. cur_work = NULL /\ UNCHANGED <<head, depth, queue>> /\ cur_work' = iob /\ iob' = NULL
    BY <1>1, <1>10 DEF read_produce_last, Produced, ReaderInv, ringVars, tqVars
  <2>2. G = H
    BY <1>1, <1>m, <2>1
  <2> QED BY <1>5, <2>1, <2>2
<1>11. CASE producer_post \/ producer_wake
  <2>1. PICK flags : Loop(flags, cur_work)
    BY <1>11 DEF producer_post, producer_wake
  <2>2. UNCHANGED <<head, depth, iob>>
    BY <1>11 DEF producer_post, producer_wake, ringVars
  <2>3. \/ cur_work' = cur_work /\ queue' = queue
        \/ cur_work' = NULL /\ queue' = IF cur_work = NULL THEN queue ELSE Append(queue, cur_work)
    BY <2>1, LoopEffect
  <2>4. G = H
    BY <1>1, <1>m, <2>2, <2>3
  <2> QED BY <1>5, <2>2, <2>4
<1>r. /\ \A c, d \in Places : c # NULL => Held(NULL, <<>>, NULL, d) = Tail(Held(NULL, <<>>, c, d))
      /\ \A d \in Places : d # NULL => Held(NULL, <<>>, NULL, NULL) = Tail(Held(NULL, <<>>, NULL, d))
      /\ \A x \in Blocks : Held(NULL, <<>>, NULL, x) = Append(Held(NULL, <<>>, NULL, NULL), x)
  <2>1. <<>> \in Seq(Blocks)
    OBVIOUS
  <2>2. ASSUME NEW c \in Places, NEW d \in Places
        PROVE  /\ c # NULL => Held(NULL, <<>>, NULL, d) = Tail(Held(NULL, <<>>, c, d))
               /\ d # NULL => Held(NULL, <<>>, NULL, NULL) = Tail(Held(NULL, <<>>, NULL, d))
    BY <1>1, HeldRelease
  <2>3. \A x \in Blocks : Held(NULL, <<>>, NULL, x) = Append(Held(NULL, <<>>, NULL, NULL), x)
    BY <1>1, <2>1, HeldMoves
  <2> QED BY <1>1, <2>2, <2>3
<1>e. \A c, d \in Places : c # NULL \/ d # NULL => Held(NULL, <<>>, c, d) # <<>>
  <2>0. <<>> \in Seq(Blocks) /\ Len(<<>>) = 0
    OBVIOUS
  <2>1. ASSUME NEW e \in Seq(Blocks), Len(e) = 0, NEW c \in Places, NEW d \in Places, c # NULL \/ d # NULL
        PROVE  Held(NULL, e, c, d) # <<>>
    <3>1. Len(Held(NULL, e, c, d)) = Cnt(NULL) + Len(e) + Cnt(c) + Cnt(d)
      BY <1>1, HeldType
    <3>2. Cnt(NULL) = 0 /\ Cnt(c) \in {0, 1} /\ Cnt(d) \in {0, 1} /\ (Cnt(c) = 1 \/ Cnt(d) = 1)
      BY <2>1 DEF Cnt
    <3> QED BY <2>0, <2>1, <3>1, <3>2
  <2> QED BY <2>0, <2>1
<1>12. ASSUME queue = <<>>, miob = NULL
       PROVE  /\ AfterPrev \in 0 .. SuperBlockCnt /\ RingPart(Held(NULL, <<>>, NULL, iob), head, AfterPrev, FALSE)
              /\ iob # NULL => /\ Release(AfterPrev) \in 0 .. SuperBlockCnt
                               /\ RingPart(Held(NULL, <<>>, NULL, NULL), head, Release(AfterPrev), FALSE)
  <2>0. <<>> \in Seq(Blocks)
    BY <1>1, <1>12
  <2>1. AfterPrev \in 0 .. SuperBlockCnt /\ RingPart(Held(NULL, <<>>, NULL, iob), head, AfterPrev, FALSE)
    <3>1. CASE cur_work = NULL
      BY <1>1, <1>2, <1>12, <3>1 DEF AfterPrev
    <3>2. CASE cur_work # NULL
      <4>1. Held(NULL, <<>>, NULL, iob) = Tail(Held(NULL, <<>>, cur_work, iob)) /\ Held(NULL, <<>>, cur_work, iob) # <<>>
        BY <1>1, <1>r, <1>e, <3>2
      <4>2. Held(NULL, <<>>, cur_work, iob) \in Seq(Blocks) /\ RingPart(Held(NULL, <<>>, cur_work, iob), head, depth, FALSE)
        BY <1>2, <1>4, <1>12
      <4>3. Release(depth) \in 0 .. SuperBlockCnt /\ RingPart(Tail(Held(NULL, <<>>, cur_work, iob)), head, Release(depth), FALSE)
        BY <1>1, <4>1, <4>2, PartReleases
      <4> QED BY <3>2, <4>1, <4>3 DEF AfterPrev
    <3> QED BY <3>1, <3>2
  <2>2. ASSUME iob # NULL
        PROVE  /\ Release(AfterPrev) \in 0 .. SuperBlockCnt
               /\ RingPart(Held(NULL, <<>>, NULL, NULL), head, Release(AfterPrev), FALSE)
    <3> DEFINE s == Held(NULL, <<>>, NULL, iob)
    <3>1. s # <<>> /\ Held(NULL, <<>>, NULL, NULL) = Tail(s)
      BY <1>1, <1>r, <1>e, <2>2
    <3>2. s \in Seq(Blocks)
      BY <1>1, <2>0, HeldType
    <3> HIDE DEF s
    <3> QED BY <1>1, <2>1, <3>1, <3>2, PartReleases DEF s
  <2> QED BY <2>1, <2>2
<1>13. ASSUME Resuming
       PROVE  queue = <<>> /\ miob = NULL
  BY <1>1, <1>13 DEF Resuming, ResumeInv
<1>c. Curdata # 0 => iob # NULL
  BY DEF Curdata
<1>14. CASE read_resume_stay
  <2>1. Resuming /\ depth' = AfterPrev /\ UNCHANGED <<head, iob>> /\ Loop(con_flags, NULL)
    BY <1>14 DEF read_resume_stay
  <2>2. cur_work' = NULL /\ queue' = queue
    BY <2>1, LoopEffect
  <2> QED BY <1>12, <1>13, <2>1, <2>2
<1>15. CASE read_resume_seek
  <2>1. Resuming /\ depth' = AfterIob /\ UNCHANGED head /\ Loop(con_flags, NULL) /\ iob' = IF Curdata # 0 THEN NULL ELSE iob
    BY <1>15 DEF read_resume_seek
  <2>2. cur_work' = NULL /\ queue' = queue
    BY <2>1, LoopEffect
  <2> QED BY <1>12, <1>13, <1>c, <2>1, <2>2 DEF AfterIob
<1>16. CASE read_resume_align
  <2>1. Resuming /\ queue' = queue /\ cur_work' = NULL
    BY <1>16 DEF read_resume_align, tqVars
  <2>2. \/ /\ iob = NULL \/ Curdata # 0
           /\ AfterIob > 0 /\ depth' = AfterIob - 1 /\ head' = NextHead /\ iob' = head
        \/ /\ iob # NULL /\ Curdata = 0
           /\ depth' = AfterIob /\ iob' = iob /\ head' = head
    BY <1>16 DEF read_resume_align
  <2>3. CASE iob # NULL /\ Curdata = 0 /\ depth' = AfterIob /\ iob' = iob /\ head' = head
    BY <1>12, <1>13, <2>1, <2>3 DEF AfterIob
  <2>4. CASE /\ iob = NULL \/ Curdata # 0
             /\ AfterIob > 0 /\ depth' = AfterIob - 1 /\ head' = NextHead /\ iob' = head
    <3> DEFINE s == Held(NULL, <<>>, NULL, NULL)  d == AfterIob
    <3>1. d \in 0 .. SuperBlockCnt /\ RingPart(s, head, d, FALSE)
      <4>1. CASE Curdata = 0
        BY <1>12, <1>13, <2>1, <2>4, <4>1 DEF AfterIob
      <4>2. CASE Curdata # 0
        BY <1>12, <1>13, <1>c, <2>1, <4>2 DEF AfterIob
      <4> QED BY <4>1, <4>2
    <3>2. s \in Seq(Blocks)
      <4>1. <<>> \in Seq(Blocks)
        OBVIOUS
      <4> QED BY <1>1, <4>1, HeldType
    <3>3. Held(miob, queue', cur_work', iob') = Append(s, head)
      BY <1>1, <1>r, <1>13, <2>1, <2>4
    <3> HIDE DEF s, d
    <3>4. d > 0 /\ depth' = d - 1 /\ head' = After(head)
      BY <1>1, <2>4 DEF d
    <3>5. RingPart(Append(s, head), After(head), d - 1, FALSE)
      BY <1>1, <3>1, <3>2, <3>4, PartReserves
    <3> QED BY <3>3, <3>4, <3>5
  <2> QED BY <2>2, <2>3, <2>4
<1>17. CASE junk_block
  <2>1. /\ tpc = "junked" /\ junk > 0 /\ (res = 0 <=> cur_work # NULL)
        /\ IF res = 0 THEN Released ELSE UNCHANGED ringVars
        /\ iob' = iob
    BY <1>1, <1>17 DEF junk_block, ReaderInv
  <2>2. queue = <<>> /\ miob = NULL
    BY <1>1, <2>1 DEF ResumeInv
  <2>3. cur_work' = NULL /\ queue' = queue
    <3>1. CASE cur_work' = NULL /\ UNCHANGED tqVars
      BY <3>1 DEF tqVars
    <3>2. CASE \E flags : Loop(flags, NULL)
      BY <3>2, LoopEffect
    <3> QED BY <1>17, <3>1, <3>2 DEF junk_block
  <2>4. head' = head /\ depth' = AfterPrev
    BY <2>1 DEF Released, ringVars, AfterPrev
  <2> QED BY <1>12, <2>1, <2>2, <2>3, <2>4
<1> QED BY <1>7, <1>8, <1>9, <1>10, <1>11, <1>14, <1>15, <1>16, <1>17 DEF Reader

\* The writer thread takes the oldest block and gives it back.
LEMMA RingWriter ==
  ASSUME BlockInv, Writer
  PROVE  RingInv'
<1>1. /\ TypeOK /\ Writing /\ ~Reading /\ UNCHANGED <<dmode, mpc, miob, push, head>> /\ (Aborting' <=> Aborting)
      /\ WriterInv
      /\ miob \in Places /\ cur_work \in Places /\ push \in Places /\ queue \in Seq(Blocks)
      /\ head \in Blocks /\ depth \in 0 .. SuperBlockCnt /\ NULL \in Places
      /\ Holders = Held(cur_work, queue, push, miob) /\ Holders' = Held(cur_work', queue', push, miob)
  <2>1. TypeOK /\ Writing /\ ~Reading /\ UNCHANGED <<dmode, mpc, miob, push, head>> /\ WriterInv
    BY WriterKeeps DEF BlockInv, CtlInv
  <2>2. Holders = Held(cur_work, queue, push, miob) /\ Holders' = Held(cur_work', queue', push, miob)
    BY <2>1, HoldersHeld, RingAsPart
  <2>3. Aborting' <=> Aborting
    BY <2>1 DEF Aborting
  <2> QED BY <2>1, <2>2, <2>3, PlacesType DEF TypeOK, Places
<1> SUFFICES ASSUME ~Aborting PROVE RingPart(Holders', head', depth', NoMoreReserves')
  BY <1>1, RingAsPart
<1>2. NoMoreReserves' = NoMoreReserves
  BY <1>1 DEF NoMoreReserves, Reading
<1> DEFINE H == Held(cur_work, queue, push, miob)  G == Held(cur_work', queue', push, miob)
<1>3. RingPart(H, head, depth, NoMoreReserves) /\ NoMoreReserves \in BOOLEAN /\ H \in Seq(Blocks)
  <2>1. H \in Seq(Blocks)
    BY <1>1, HeldType
  <2> QED BY <1>1, <2>1, RingAsPart
<1>4. ASSUME G = H, depth' = depth PROVE RingPart(Holders', head', depth', NoMoreReserves')
  BY <1>1, <1>2, <1>3, <1>4
<1>5. CASE consumer_take
  <2>1. cur_work = NULL /\ queue # <<>> /\ cur_work' = Head(queue) /\ queue' = Tail(queue) /\ depth' = depth
    BY <1>1, <1>5 DEF consumer_take, WriterInv, ringVars
  <2>2. G = H
    BY <1>1, <2>1, HeldMoves
  <2> QED BY <1>4, <2>1, <2>2
<1>6. CASE consumer_quit \/ write_term
  BY <1>4, <1>6 DEF consumer_quit, write_term, ringVars, tqVars
<1>7. CASE write_consume
  <2>1. cur_work # NULL /\ cur_work' = NULL /\ queue' = queue /\ depth' = Release(depth)
    BY <1>1, <1>7 DEF write_consume, WriterInv, Released
  <2>2. G = Tail(H)
    BY <1>1, <2>1, HeldRelease
  <2>3. H # <<>>
    <3>1. Len(H) = Cnt(cur_work) + Len(queue) + Cnt(push) + Cnt(miob)
      BY <1>1, HeldType
    <3>2. Cnt(cur_work) = 1 /\ Len(queue) \in Nat /\ Cnt(push) \in {0, 1} /\ Cnt(miob) \in {0, 1} /\ Len(<<>>) = 0
      BY <1>1, <2>1 DEF Cnt
    <3> QED BY <3>1, <3>2
  <2> HIDE DEF H, G
  <2>4. RingPart(Tail(H), head, Release(depth), NoMoreReserves)
    BY <1>1, <1>3, <2>3, PartReleases
  <2> QED BY <1>1, <1>2, <2>1, <2>2, <2>4 DEF G
<1> QED BY <1>5, <1>6, <1>7 DEF Writer

\* The master of a read handle takes the oldest block from the queue, and gives
\* back the one in hand or, having none, the oldest of the queue.
LEMMA RingReadMaster ==
  ASSUME BlockInv, Call \/ InCall, Reading
  PROVE  RingInv'
<1>1. /\ TypeOK /\ ~Writing /\ UNCHANGED <<dmode, tpc, cur_work, iob>>
      /\ MasterInv /\ ReaderInv
      /\ miob \in Places /\ cur_work \in Places /\ iob \in Places /\ queue \in Seq(Blocks)
      /\ head \in Blocks /\ depth \in 0 .. SuperBlockCnt /\ NULL \in Places
      /\ Holders = Held(miob, queue, cur_work, iob) /\ Holders' = Held(miob', queue', cur_work, iob)
      /\ Aborting => Aborting'
  <2>1. TypeOK /\ ~Writing /\ UNCHANGED <<dmode, tpc, cur_work, iob>> /\ MasterInv /\ ReaderInv
    BY MasterKeeps, EitherMode DEF BlockInv, CtlInv
  <2>2. Holders = Held(miob, queue, cur_work, iob) /\ Holders' = Held(miob', queue', cur_work, iob)
    BY <2>1, HoldersHeld, RingAsPart
  <2>3. Aborting => Aborting'
    BY AbortStays DEF Next
  <2> QED BY <2>1, <2>2, <2>3, PlacesType DEF TypeOK, Places
<1> SUFFICES ASSUME ~Aborting' PROVE RingPart(Holders', head', depth', NoMoreReserves')
  BY <1>1, RingAsPart
<1>2. NoMoreReserves' = NoMoreReserves
  BY <1>1 DEF NoMoreReserves, Reading
<1> DEFINE H == Held(miob, queue, cur_work, iob)  G == Held(miob', queue', cur_work, iob)
<1>3. RingPart(H, head, depth, NoMoreReserves) /\ NoMoreReserves \in BOOLEAN /\ H \in Seq(Blocks)
  <2>1. H \in Seq(Blocks)
    BY <1>1, HeldType
  <2> QED BY <1>1, <2>1, RingAsPart
<1>4. ASSUME G = H, UNCHANGED <<head, depth>> PROVE RingPart(Holders', head', depth', NoMoreReserves')
  BY <1>1, <1>2, <1>3, <1>4
<1>5. ASSUME G = Tail(H), miob # NULL \/ queue # <<>>, Released
      PROVE  RingPart(Holders', head', depth', NoMoreReserves')
  <2>1. H # <<>>
    <3>1. Len(H) = Cnt(miob) + Len(queue) + Cnt(cur_work) + Cnt(iob)
      BY <1>1, HeldType
    <3>2. /\ Cnt(miob) \in {0, 1} /\ Len(queue) \in Nat /\ Cnt(cur_work) \in {0, 1} /\ Cnt(iob) \in {0, 1}
          /\ Cnt(miob) = 1 \/ Len(queue) > 0
      <4>1. queue # <<>> => Len(queue) > 0
        BY <1>1, EmptySeq
      <4> QED BY <1>1, <1>5, <4>1 DEF Cnt
    <3>3. Len(<<>>) = 0
      OBVIOUS
    <3> QED BY <3>1, <3>2, <3>3
  <2>2. depth' = Release(depth) /\ head' = head
    BY <1>5 DEF Released
  <2> HIDE DEF H, G
  <2>3. RingPart(Tail(H), head, Release(depth), NoMoreReserves)
    BY <1>1, <1>3, <2>1, PartReleases
  <2> QED BY <1>1, <1>2, <1>5, <2>2, <2>3 DEF G
<1>6. CASE read_stripes \/ (\E off \in PartStarts : unpark(off)) \/ seek_release \/ terminate_last
  <2>1. /\ miob' = NULL /\ queue' = queue
        /\ IF miob = NULL THEN UNCHANGED ringVars ELSE Released
    BY <1>1, <1>6 DEF read_stripes, unpark, seek_release, terminate_last, tqVars
  <2>2. CASE miob = NULL
    BY <1>4, <2>1, <2>2 DEF ringVars
  <2>3. CASE miob # NULL
    <3>1. G = Tail(H)
      BY <1>1, <2>1, <2>3, HeldRelease
    <3> QED BY <1>5, <2>1, <2>3, <3>1
  <2> QED BY <2>2, <2>3
<1>7. CASE dequeue
  <2>1. UNCHANGED <<head, depth>> /\ mpc = "dequeue"
    BY <1>7 DEF dequeue, ringVars
  <2>2. CASE UNCHANGED <<queue, miob>>
    BY <1>4, <2>1, <2>2
  <2>3. CASE queue # <<>> /\ miob' = Head(queue) /\ queue' = Tail(queue)
    <3>1. miob = NULL
      BY <1>1, <2>1 DEF MasterInv
    <3>2. G = H
      BY <1>1, <2>3, <3>1, HeldMoves
    <3> QED BY <1>4, <2>1, <3>2
  <2> QED BY <1>7, <2>2, <2>3 DEF dequeue
<1>8. ASSUME DropOne, miob = NULL PROVE RingPart(Holders', head', depth', NoMoreReserves')
  <2>1. queue # <<>> /\ queue' = Tail(queue) /\ Released /\ miob' = miob
    BY <1>8 DEF DropOne
  <2>2. G = Tail(H)
    BY <1>1, <1>8, <2>1, HeldRelease
  <2> QED BY <1>5, <2>1, <2>2
<1>9. CASE seek_unblock \/ drain \/ wait_for_completion \/ last_drain
  <2>1. miob = NULL
    BY <1>1, <1>9 DEF seek_unblock, drain, wait_for_completion, last_drain, MasterInv, Cleared, Ending
  <2>2. DropOne \/ UNCHANGED <<miob, queue, head, depth>>
    BY <1>9 DEF seek_unblock, drain, wait_for_completion, last_drain, Goto, ringVars, tqVars
  <2> QED BY <1>4, <1>8, <2>1, <2>2
<1>10. CASE start \/ park \/ (\E off \in PartStarts : ne_seek(off)) \/ wait_for_pause \/ seek_go \/ ne_close \/ terminate_thread \/ join
  <2>1. UNCHANGED <<miob, queue, head, depth>>
    BY <1>10 DEF start, park, ne_seek, wait_for_pause, seek_go, ne_close, terminate_thread, join, Goto, ringVars, tqVars
  <2> QED BY <1>4, <2>1
<1>11. CASE ne_abort \/ abort_unhalt \/ abort_drain \/ abort_release
  BY <1>11 DEF ne_abort, abort_unhalt, abort_drain, abort_release, Goto, masterVars, Aborting
<1>12. ~enqueue
  BY <1>1 DEF enqueue, ReaderInv
<1> QED BY <1>1, <1>6, <1>7, <1>9, <1>10, <1>11, <1>12
        DEF Call, InCall, write_reserve, ne_write, terminate_split

\* The master of a write handle takes the next block of the ring, and hands on
\* the one before it.
LEMMA RingWriteMaster ==
  ASSUME BlockInv, Call \/ InCall, Writing
  PROVE  RingInv'
<1>1. /\ TypeOK /\ ~Reading /\ UNCHANGED <<dmode, tpc, cur_work>>
      /\ WriterInv
      /\ miob \in Places /\ cur_work \in Places /\ push \in Places /\ queue \in Seq(Blocks)
      /\ head \in Blocks /\ depth \in 0 .. SuperBlockCnt /\ NULL \in Places /\ NULL \notin Blocks
      /\ NextHead = After(head)
      /\ Holders = Held(cur_work, queue, push, miob) /\ Holders' = Held(cur_work, queue', push', miob')
      /\ Aborting => Aborting'
  <2>1. TypeOK /\ ~Reading /\ UNCHANGED <<dmode, tpc, cur_work>> /\ WriterInv
    BY MasterKeeps, EitherMode DEF BlockInv, CtlInv
  <2>2. Holders = Held(cur_work, queue, push, miob) /\ Holders' = Held(cur_work, queue', push', miob')
    BY <2>1, HoldersHeld, RingAsPart
  <2>3. Aborting => Aborting'
    BY AbortStays DEF Next
  <2>4. NextHead = After(head)
    BY <2>1, RingType
  <2> QED BY <2>1, <2>2, <2>3, <2>4, PlacesType DEF TypeOK, Places
<1> SUFFICES ASSUME ~Aborting' PROVE RingPart(Holders', head', depth', NoMoreReserves')
  BY <1>1, RingAsPart
<1>any. NoMoreReserves \in BOOLEAN /\ (NoMoreReserves') \in BOOLEAN
  BY <1>1, RingAsPart
<1>2. /\ NoMoreReserves <=> mpc \in {"close", "join", "closed"} /\ miob = NULL
      /\ NoMoreReserves' <=> mpc' \in {"close", "join", "closed"} /\ miob' = NULL
  BY <1>1 DEF NoMoreReserves, Reading
<1> DEFINE H == Held(cur_work, queue, push, miob)  G == Held(cur_work, queue', push', miob')
<1>3. RingPart(H, head, depth, NoMoreReserves) /\ H \in Seq(Blocks)
  <2>1. H \in Seq(Blocks)
    BY <1>1, HeldType
  <2> QED BY <1>1, <2>1, RingAsPart
<1>4. ASSUME G = H, UNCHANGED <<head, depth>>, NoMoreReserves => NoMoreReserves'
      PROVE  RingPart(Holders', head', depth', NoMoreReserves')
  <2> HIDE DEF H, G
  <2>1. RingPart(H, head, depth, NoMoreReserves')
    BY <1>3, <1>4 DEF RingPart
  <2> QED BY <1>1, <1>4, <2>1 DEF G
<1>5. CASE write_reserve \/ terminate_split
  <2>1. /\ ~NoMoreReserves /\ push = NULL /\ queue' = queue /\ push' = miob /\ miob' = head
        /\ depth > 0 /\ depth' = depth - 1 /\ head' = After(head)
    BY <1>1, <1>2, <1>5 DEF write_reserve, terminate_split, WriterInv, Reserve, tqVars
  <2>2. G = Append(H, head)
    <3>1. Held(cur_work, queue, miob, head) = Append(Held(cur_work, queue, NULL, miob), head)
      BY <1>1, HeldMoves
    <3> QED BY <2>1, <3>1
  <2>3. RingPart(H, head, depth, FALSE)
    BY <1>3, <2>1 DEF RingPart
  <2> HIDE DEF H, G
  <2>4. RingPart(Append(H, head), After(head), depth - 1, FALSE)
    BY <1>1, <1>3, <2>1, <2>3, PartReserves
  <2>5. RingPart(Append(H, head), After(head), depth - 1, NoMoreReserves')
    BY <1>any, <2>4, PartWeaken
  <2> QED BY <1>1, <2>1, <2>2, <2>5 DEF G
<1>6. CASE enqueue
  <2>1. /\ ~NoMoreReserves /\ push # NULL /\ con_flags = {} /\ UNCHANGED <<head, depth, miob>>
        /\ push' = NULL /\ queue' = Append(queue, push)
    BY <1>1, <1>2, <1>6 DEF enqueue, WriterInv, Aborting, ringVars
  <2>2. G = H
    BY <1>1, <2>1, HeldMoves
  <2> QED BY <1>4, <2>1, <2>2
<1>7. CASE terminate_last
  <2>1. /\ mpc = "close" /\ mpc' = mpc /\ miob # NULL /\ miob' = NULL /\ push = NULL /\ push' = NULL /\ con_flags = {}
        /\ NoMoreReserves' /\ ~NoMoreReserves
    BY <1>1, <1>2, <1>7 DEF terminate_last, WriterInv, Aborting
  <2>2. CASE queue' = Append(queue, miob) /\ UNCHANGED ringVars
    <3>1. Held(cur_work, Append(queue, miob), NULL, NULL) = Held(cur_work, queue, miob, NULL)
      BY <1>1, <2>1, HeldMoves
    <3>2. Held(cur_work, queue, miob, NULL) = Held(cur_work, queue, NULL, miob)
      BY <1>1, HeldMoves
    <3>3. G = H
      BY <2>1, <2>2, <3>1, <3>2
    <3> QED BY <1>4, <2>1, <2>2, <3>3 DEF ringVars
  <2>3. CASE queue' = queue /\ Released
    <3>1. Len(H) = Cnt(cur_work) + Len(queue) + Cnt(NULL) + Cnt(miob)
      BY <1>1, <2>1, HeldType
    <3>2. Len(G) = Cnt(cur_work) + Len(queue) + Cnt(NULL) + Cnt(NULL)
      BY <1>1, <2>1, <2>3, HeldType
    <3>3. /\ Cnt(cur_work) \in {0, 1} /\ Len(queue) \in Nat /\ Cnt(NULL) = 0 /\ Cnt(miob) = 1 /\ SuperBlockCnt \in Nat
          /\ Len(H) = SuperBlockCnt - depth
      BY <1>1, <1>3, <2>1, GeometryAssumption DEF Cnt, RingPart
    <3>4. depth' = depth + 1
      BY <1>1, <2>3, <3>1, <3>3 DEF Released, Release
    <3>5. Len(G) = SuperBlockCnt - depth'
      BY <1>1, <3>1, <3>2, <3>3, <3>4
    <3> QED BY <1>1, <2>1, <3>5 DEF RingPart
  <2> QED BY <1>7, <2>1, <2>2, <2>3 DEF terminate_last
<1>8. CASE start \/ (\E n \in 1 .. PartSz : ne_write(n)) \/ ne_close \/ terminate_thread \/ join
  <2>1. UNCHANGED <<miob, push, queue, head, depth>>
    BY <1>8 DEF start, ne_write, ne_close, terminate_thread, join, Goto, ringVars, tqVars
  <2>2. mpc \in {"close", "join", "closed"} => mpc' \in {"close", "join", "closed"}
    BY <1>1, <1>8, JoinBack DEF start, ne_write, ne_close, terminate_thread, join, Goto
  <2>3. NoMoreReserves => NoMoreReserves'
    BY <1>2, <2>1, <2>2
  <2> QED BY <1>4, <2>1, <2>3
<1>9. CASE ne_abort \/ abort_unhalt \/ abort_drain \/ abort_release
  BY <1>9 DEF ne_abort, abort_unhalt, abort_drain, abort_release, Goto, masterVars, Aborting
<1>10. ~Aborting
  BY <1>1
<1> QED BY <1>1, <1>5, <1>6, <1>7, <1>8, <1>9, <1>10
        DEF Call, InCall, WriterInv, read_stripes, park, ne_seek, unpark, dequeue, seek_release, seek_unblock,
            wait_for_pause, drain, seek_go, wait_for_completion, last_drain

-----------------------------------------------------------------------------
(* Every block comes back.                                                 *)

\* Giving blocks back once too often does not matter: a full ring stays full.
LEMMA ReleaseEnough ==
  ASSUME TypeOK
  PROVE  /\ \A d \in 0 .. SuperBlockCnt : /\ Release(d) \in 0 .. SuperBlockCnt
                                          /\ Release(d) >= SuperBlockCnt \/ Release(d) = d + 1
         /\ \A b \in Places : Cnt(b) = IF b = NULL THEN 0 ELSE 1
         /\ SuperBlockCnt \in Nat /\ depth \in 0 .. SuperBlockCnt
BY GeometryAssumption DEF Release, Cnt, TypeOK

\* After an abort has given every block back, a reader that still holds some takes
\* no more than it gives.
LEMMA BackReader ==
  ASSUME BlockInv, Reader, mpc = "abort_join"
  PROVE  depth' + Cnt(cur_work') + Cnt(iob') >= SuperBlockCnt
<1>1. /\ TypeOK /\ Reading /\ ReaderInv /\ Flagged("ABORT")
      /\ cur_work \in Places /\ iob \in Places /\ head \in Blocks /\ head # NULL
      /\ SuperBlockCnt \in Nat /\ depth \in 0 .. SuperBlockCnt
      /\ depth + Cnt(cur_work) + Cnt(iob) >= SuperBlockCnt
  <2>1. TypeOK /\ Reading /\ ReaderInv /\ Flagged("ABORT")
    BY ReaderKeeps DEF BlockInv, CtlInv, FlagInv, Aborting
  <2>2. depth + Cnt(cur_work) + Cnt(iob) >= SuperBlockCnt
    <3>1. depth + (Cnt(cur_work) + Cnt(iob)) >= SuperBlockCnt
      BY <2>1 DEF BlockInv, BackInv
    <3>2. Cnt(cur_work) \in Nat /\ Cnt(iob) \in Nat /\ depth \in Nat
      BY <2>1 DEF Cnt, TypeOK
    <3> QED BY <3>1, <3>2
  <2> QED BY <2>1, <2>2, PlacesType, GeometryAssumption DEF TypeOK, Places
<1>2. /\ \A d \in 0 .. SuperBlockCnt : /\ Release(d) \in 0 .. SuperBlockCnt
                                       /\ Release(d) >= SuperBlockCnt \/ Release(d) = d + 1
      /\ Cnt(cur_work) = (IF cur_work = NULL THEN 0 ELSE 1)
      /\ Cnt(iob) = (IF iob = NULL THEN 0 ELSE 1)
      /\ Cnt(NULL) = 0 /\ Cnt(head) = 1
  BY <1>1, ReleaseEnough DEF Cnt
<1>3. /\ AfterPrev \in 0 .. SuperBlockCnt
      /\ AfterPrev + Cnt(iob) >= SuperBlockCnt
      /\ Release(AfterPrev) >= SuperBlockCnt \/ Release(AfterPrev) = AfterPrev + 1
      /\ Release(AfterPrev) \in 0 .. SuperBlockCnt
  <2>1. AfterPrev \in 0 .. SuperBlockCnt /\ AfterPrev + Cnt(iob) >= SuperBlockCnt
    <3>1. CASE cur_work = NULL
      BY <1>1, <1>2, <3>1 DEF AfterPrev
    <3>2. CASE cur_work # NULL
      <4>1. AfterPrev = Release(depth)
        BY <3>2 DEF AfterPrev
      <4>2. Release(depth) >= SuperBlockCnt \/ Release(depth) = depth + 1
        BY <1>1, <1>2
      <4>3. Release(depth) \in 0 .. SuperBlockCnt
        BY <1>1, <1>2
      <4> QED BY <1>1, <1>2, <3>2, <4>1, <4>2, <4>3
    <3> QED BY <3>1, <3>2
  <2> QED BY <1>2, <2>1
<1>4. iob # NULL => Release(AfterPrev) >= SuperBlockCnt
  BY <1>1, <1>2, <1>3
<1>c. Curdata # 0 => iob # NULL
  BY DEF Curdata
<1>5. CASE read_produce_end \/ read_produce_last
  <2>1. cur_work = NULL /\ depth' = depth /\ ((cur_work' = iob /\ iob' = NULL) \/ (cur_work' = NULL /\ iob' = iob))
    BY <1>1, <1>5 DEF read_produce_end, read_produce_last, Produced, ReaderInv, ringVars
  <2> QED BY <1>1, <1>2, <2>1
<1>6. CASE read_produce_fill
  <2>1. /\ cur_work' = cur_work
        /\ (iob' = iob /\ depth' = depth) \/ (iob = NULL /\ iob' = head /\ depth' = depth - 1)
    BY <1>6 DEF read_produce_fill, Reserve
  <2> QED BY <1>1, <1>2, <2>1
<1>7. CASE read_produce_push
  <2>1. cur_work = NULL /\ iob # NULL /\ cur_work' = iob /\ iob' = head /\ depth' = depth - 1
    BY <1>1, <1>7 DEF read_produce_push, Produced, ReaderInv, Reserve
  <2> QED BY <1>1, <1>2, <2>1
<1>8. CASE producer_post \/ producer_wake
  <2>1. PICK flags : Loop(flags, cur_work) /\ "ABORT" \in flags
    <3>1. /\ producer_post => \E f \in {con_flags, con_flags \cup {"HALT"}} : Loop(f, cur_work)
          /\ producer_wake => Loop(con_flags, cur_work)
      BY DEF producer_post, producer_wake
    <3> QED BY <1>1, <1>8, <3>1 DEF Flagged
  <2>2. cur_work' = cur_work
    BY <2>1, LoopEffect
  <2>3. depth' = depth /\ iob' = iob
    BY <1>8 DEF producer_post, producer_wake, ringVars
  <2> QED BY <1>1, <2>2, <2>3
<1>9. CASE read_resume_stay
  <2>1. depth' = AfterPrev /\ iob' = iob /\ Loop(con_flags, NULL)
    BY <1>9 DEF read_resume_stay
  <2>2. cur_work' = NULL
    BY <2>1, LoopEffect
  <2> QED BY <1>2, <1>3, <2>1, <2>2
<1>10. CASE read_resume_seek
  <2>1. depth' = AfterIob /\ iob' = (IF Curdata # 0 THEN NULL ELSE iob) /\ Loop(con_flags, NULL)
    BY <1>10 DEF read_resume_seek
  <2>2. cur_work' = NULL
    BY <2>1, LoopEffect
  <2> QED BY <1>2, <1>3, <1>4, <1>c, <2>1, <2>2 DEF AfterIob
<1>11. CASE read_resume_align
  <2>1. /\ cur_work' = NULL
        /\ \/ (iob = NULL \/ Curdata # 0) /\ depth' = AfterIob - 1 /\ iob' = head
           \/ Curdata = 0 /\ depth' = AfterIob /\ iob' = iob
    BY <1>11 DEF read_resume_align
  <2> QED BY <1>1, <1>2, <1>3, <1>4, <1>c, <2>1 DEF AfterIob
<1>12. CASE junk_block
  <2>1. res = 0 <=> cur_work # NULL
    BY <1>1, <1>12 DEF junk_block, ReaderInv
  <2>2. depth' = AfterPrev /\ iob' = iob
    BY <1>12, <2>1 DEF junk_block, Released, ringVars, AfterPrev
  <2>3. cur_work' = NULL
    <3>1. CASE \E flags : Loop(flags, NULL)
      BY <3>1, LoopEffect
    <3> QED BY <1>12, <3>1 DEF junk_block
  <2> QED BY <1>2, <1>3, <2>2, <2>3
<1>13. CASE read_term
  <2>1. cur_work' = NULL /\ iob' = NULL /\ depth' = IF iob = NULL THEN AfterPrev ELSE Release(AfterPrev)
    BY <1>13 DEF read_term, AfterPrev
  <2> QED BY <1>2, <1>3, <1>4, <2>1
<1> QED BY <1>5, <1>6, <1>7, <1>8, <1>9, <1>10, <1>11, <1>12, <1>13 DEF Reader

\* A step keeps what is known of the blocks that are given back.
LEMMA BackNext ==
  ASSUME BlockInv, Next
  PROVE  BackInv'
<1>1. /\ TypeOK /\ UNCHANGED dmode /\ SuperBlockCnt \in Nat /\ depth \in 0 .. SuperBlockCnt
      /\ Cnt(cur_work') \in Nat /\ Cnt(iob') \in Nat
      /\ mpc # "stuck"
  <2>1. UNCHANGED dmode
    BY ReaderKeeps, WriterKeeps, MasterKeeps DEF Next
  <2> QED BY <2>1, GeometryAssumption DEF BlockInv, BackInv, TypeOK, Cnt
<1>2. (Reading' <=> Reading) /\ (Reading => ~Writing)
  BY <1>1, EitherMode DEF Reading
<1>3. CASE Reader
  <2>1. mpc' = mpc /\ Reading
    BY <1>3, ReaderKeeps
  <2>2. mpc = "abort_join" => depth' + Cnt(cur_work') + Cnt(iob') >= SuperBlockCnt
    BY <1>3, BackReader
  <2>3. mpc = "abort_join" => depth' + (Cnt(cur_work') + Cnt(iob')) >= SuperBlockCnt
    <3>1. depth' \in Nat
      BY <1>3, TypeReader DEF BlockInv, CtlInv, TypeOK
    <3> QED BY <1>1, <2>2, <3>1
  <2> QED BY <1>1, <1>2, <2>1, <2>3 DEF BackInv, Cnt
<1>4. CASE Writer
  <2>1. mpc' = mpc /\ ~Reading
    BY <1>4, WriterKeeps
  <2>2. depth' = depth \/ depth' = Release(depth)
    BY <1>4 DEF Writer, consumer_take, consumer_quit, write_consume, write_term, Released, ringVars
  <2>3. mpc = "abort_join" => depth >= SuperBlockCnt
    BY <1>1, <2>1 DEF BlockInv, BackInv
  <2>4. mpc = "abort_join" => depth' >= SuperBlockCnt /\ depth' \in Nat
    BY <1>1, <2>2, <2>3 DEF Release
  <2> QED BY <1>1, <1>2, <2>1, <2>4 DEF BackInv
<1>5. CASE join
  BY <1>1, <1>5, JoinBack DEF join, Goto, BackInv
<1>6. CASE abort_release
  <2>1. mpc' # "stuck" /\ (mpc' = "abort_join" => depth' = SuperBlockCnt)
    BY <1>6 DEF abort_release, Goto, ringVars, masterVars
  <2> QED BY <1>1, <2>1 DEF BackInv, Cnt
<1>7. CASE Call \/ InCall
  <2>1. ~join /\ ~abort_release => mpc' \notin {"stuck", "abort_join"}
    BY <1>1, <1>7
       DEF Call, InCall, read_stripes, park, ne_seek, unpark, write_reserve, ne_write, ne_close, ne_abort, start, dequeue,
           seek_release, seek_unblock, wait_for_pause, drain, seek_go, enqueue, terminate_split, terminate_last,
           terminate_thread, wait_for_completion, last_drain, abort_unhalt, abort_drain, DropOne, Goto
  <2> QED BY <1>5, <1>6, <2>1 DEF BackInv
<1> QED BY <1>3, <1>4, <1>7 DEF Next

-----------------------------------------------------------------------------
(* The invariant and the theorem.                                          *)

\* The initial state.
LEMMA BlockInit == Init => BlockInv
<1> SUFFICES ASSUME Init PROVE BlockInv
  OBVIOUS
<1>1. TypeOK /\ SuperBlockCnt \in Nat \ {0} /\ head \in Blocks
  BY TypeInit, GeometryAssumption DEF TypeOK
<1>2. CtlInv
  BY DEF Init, CtlInv, ReaderInv, ResumeInv, MasterInv, FlagInv, WriterInv, Flagged, Aborting, Cleared, Ending
<1>3. \A b \in Blocks : Fill(b) = 0
  BY DEF Init, Empty, Fill
<1>4. FullInv /\ FitInv
  <2>1. Split \in Nat /\ PartSz \in Nat /\ Payload \in Nat
    BY <1>1, Sizes
  <2> QED BY <1>3, <2>1 DEF Init, FullInv, FitInv
<1>5. RingInv
  <2>1. InUse = 0 /\ Window = <<>>
    <3>1. InUse = 0
      BY <1>1 DEF Init, InUse
    <3>2. Window \in Seq(Blocks) /\ Len(Window) = 0
      BY <1>1, <3>1, HoldersHeld, WindowType
    <3> QED BY <3>1, <3>2, EmptySeq
  <2>2. Holders = <<>>
    <3>1. <<>> \o <<>> = <<>>
      OBVIOUS
    <3> QED BY <3>1 DEF Init, Holders, Hold
  <2>3. Len(<<>>) = 0
    OBVIOUS
  <2> QED BY <2>1, <2>2, <2>3 DEF RingInv
<1>6. BackInv
  BY DEF Init, BackInv
<1> QED BY <1>1, <1>2, <1>4, <1>5, <1>6 DEF BlockInv

\* A step.
LEMMA BlockNext == BlockInv /\ [Next]_vars => BlockInv'
<1> SUFFICES ASSUME BlockInv, [Next]_vars PROVE BlockInv'
  OBVIOUS
<1>1. CASE Next
  <2>1. TypeOK /\ ReaderInv /\ WriterInv
    BY DEF BlockInv, CtlInv
  <2>2. TypeOK'
    BY <1>1, <2>1, TypeReader, TypeWriter, TypeMaster DEF Next
  <2>3. CtlInv'
    BY <1>1, CtlReader, CtlWriter, CtlMaster DEF Next
  <2>4. FullInv' /\ FitInv' /\ BackInv'
    BY <1>1, <2>2, FullNext, FitNext, BackNext
  <2>5. RingInv'
    BY <1>1, <2>1, EitherMode, RingReader, RingWriter, RingReadMaster, RingWriteMaster DEF Next
  <2> QED BY <2>2, <2>3, <2>4, <2>5 DEF BlockInv
<1>2. CASE UNCHANGED vars
  <2>1. UNCHANGED <<dmode, minfo, head, depth, block, con_flags, queue, tpc, first, iob, cur_work, junk, res, offset,
                    goffset, mpc, miob, push, target, written>>
    BY <1>2 DEF vars, ringVars, tqVars, threadVars, stateVars, masterVars
  <2>2. UNCHANGED <<Split, Payload, PartSz, Reading, Writing>>
    BY <2>1, SizesKept
  <2>3. UNCHANGED <<Holders, Window, InUse, NoMoreReserves, Aborting>>
    BY <2>1 DEF Holders, Window, InUse, NoMoreReserves, Aborting, Hold, Reading
  <2>4. TypeOK'
    BY <2>1 DEF BlockInv, TypeOK
  <2>5. CtlInv'
    BY <2>1 DEF BlockInv, CtlInv, ReaderInv, ResumeInv, MasterInv, FlagInv, WriterInv, Flagged, Aborting, Reading, Writing
  <2>6. FullInv' /\ FitInv'
    BY <2>1, <2>2, <2>3 DEF BlockInv, FullInv, FitInv, Fill
  <2>7. RingInv' /\ BackInv'
    BY <2>1, <2>2, <2>3 DEF BlockInv, RingInv, BackInv, Cnt
  <2> QED BY <2>4, <2>5, <2>6, <2>7 DEF BlockInv
<1> QED BY <1>1, <1>2

\* What the invariant says of the blocks.
LEMMA BlockSafe == BlockInv => BlocksAreSafe
<1> SUFFICES ASSUME BlockInv PROVE BlocksAreSafe
  OBVIOUS
<1>1. RingOrder
  BY DEF BlockInv, RingInv, RingOrder
<1>2. BufferFits
  <2>1. /\ CrcBytes \in Nat /\ Split \in Nat /\ Payload \in Nat /\ PartSz \in Nat
        /\ BlockSz = Split + CrcBytes + (IF Reading THEN Payload ELSE PartSz)
    BY Sizes DEF BlockInv
  <2>2. \A b \in Blocks : Fill(b) \in Nat /\ Fill(b) <= IF Reading THEN Split + Payload ELSE Split + PartSz
    BY DEF BlockInv, FitInv, TypeOK, Fill
  <2> QED BY <2>1, <2>2 DEF BufferFits
<1>3. BlocksComeBack
  BY DEF BlockInv, BackInv, BlocksComeBack
<1> QED BY <1>1, <1>2, <1>3 DEF BlocksAreSafe

\* release_ioblock() gives a block back without naming it (ioqueue.c).  For every size of the
\* ring, every geometry and both modes: until an abort, the blocks held by the master, the queue
\* and the thread are the ones the ring has handed out, oldest first; no block is written beyond
\* its buffer; and destroy_ioqueue() finds all of them back, after an abort as well.
THEOREM RingCorrect == Spec => []BlocksAreSafe
<1>1. Init => BlockInv
  BY BlockInit
<1>2. BlockInv /\ [Next]_vars => BlockInv'
  BY BlockNext
<1>3. BlockInv => BlocksAreSafe
  BY BlockSafe
<1> QED BY <1>1, <1>2, <1>3, PTL DEF Spec

-----------------------------------------------------------------------------
(* The ThreadQueue never fills up.                                         *)

\* Until an abort the queue is a part of the row of the holders.
LEMMA QueueInRing == BlockInv /\ ~Aborting => QueueFits
<1> SUFFICES ASSUME BlockInv, ~Aborting PROVE QueueFits
  OBVIOUS
<1>1. /\ TypeOK /\ Len(Holders) = InUse /\ InUse \in 0 .. SuperBlockCnt /\ SuperBlockCnt \in Nat
      /\ miob \in Places /\ cur_work \in Places /\ iob \in Places /\ push \in Places /\ queue \in Seq(Blocks)
      /\ Reading => Holders = Held(miob, queue, cur_work, iob)
      /\ Writing => Holders = Held(cur_work, queue, push, miob)
      /\ Reading \/ Writing
  BY HoldersHeld, EitherMode, GeometryAssumption DEF BlockInv, RingInv
<1>2. \A b \in Places : Cnt(b) \in {0, 1}
  BY DEF Cnt
<1>3. /\ Len(Held(miob, queue, cur_work, iob)) = Cnt(miob) + Len(queue) + Cnt(cur_work) + Cnt(iob)
      /\ Len(Held(cur_work, queue, push, miob)) = Cnt(cur_work) + Len(queue) + Cnt(push) + Cnt(miob)
  BY <1>1, HeldType
<1>4. Len(queue) \in Nat
  BY <1>1
<1>5. CASE Reading
  BY <1>1, <1>2, <1>3, <1>4, <1>5 DEF QueueFits
<1>6. CASE Writing
  BY <1>1, <1>2, <1>3, <1>4, <1>6 DEF QueueFits
<1> QED BY <1>1, <1>5, <1>6

\* An aborted queue takes nothing more.
LEMMA QueueShut ==
  ASSUME BlockInv, Next, Aborting
  PROVE  queue' = queue \/ queue' = <<>>
<1>1. Flagged("ABORT")
  BY DEF BlockInv, CtlInv, FlagInv
<1>2. CASE Reader
  <2>1. ASSUME NEW flags, NEW w, Loop(flags, w), con_flags \subseteq flags PROVE queue' = queue
    BY <1>1, <2>1, LoopEffect DEF Flagged
  <2>2. con_flags \subseteq con_flags'
    BY <1>2, ReaderKeeps
  <2>3. CASE queue' = queue
    BY <2>3
  <2>4. CASE \E flags, w : Loop(flags, w)
    <3>1. PICK flags, w : Loop(flags, w)
      BY <2>4
    <3>2. con_flags' = flags
      BY <3>1, LoopEffect
    <3> QED BY <2>1, <2>2, <3>1, <3>2
  <2> QED BY <1>2, <2>3, <2>4
          DEF Reader, read_produce_end, read_produce_fill, read_produce_push, read_produce_last, producer_post, producer_wake,
              read_resume_stay, read_resume_seek, read_resume_align, junk_block, read_term, tqVars
<1>3. CASE Writer
  BY <1>1, <1>3 DEF Writer, consumer_take, consumer_quit, write_consume, write_term, tqVars
<1>4. CASE Call \/ InCall
  BY <1>4 DEF Call, InCall, Aborting, read_stripes, park, ne_seek, unpark, write_reserve, ne_write, ne_close, ne_abort,
              start, dequeue, seek_release, seek_unblock, wait_for_pause, drain, seek_go, enqueue, terminate_split,
              terminate_last, terminate_thread, wait_for_completion, last_drain, abort_unhalt, abort_drain, abort_release,
              join, Goto, tqVars
<1> QED BY <1>2, <1>3, <1>4 DEF Next

\* tq_enqueue() never waits for room (ne.c sets max_qdepth to QDEPTH, one more than
\* SUPER_BLOCK_CNT): the queue never holds more blocks than the ring has, also while it is
\* aborted and blocks are given back too often; and every variable keeps its type.
THEOREM QueueNeverFull == Spec => [](TypeOK /\ QueueFits)
<1> DEFINE J == BlockInv /\ (Aborting => QueueFits)
<1>1. Init => J
  <2> SUFFICES ASSUME Init PROVE J
    OBVIOUS
  <2>1. BlockInv
    BY BlockInit
  <2>2. ~Aborting
    BY DEF Init, Aborting
  <2> QED BY <2>1, <2>2
<1>2. J /\ [Next]_vars => J'
  <2> SUFFICES ASSUME J, [Next]_vars PROVE J'
    OBVIOUS
  <2>1. BlockInv'
    BY BlockNext
  <2>2. QueueFits
    BY QueueInRing
  <2>3. ASSUME Aborting' PROVE QueueFits'
    <3>1. CASE UNCHANGED vars
      BY <2>2, <3>1 DEF vars, tqVars, QueueFits
    <3>2. CASE Next /\ Aborting
      <4>1. queue' = queue \/ queue' = <<>>
        BY <3>2, QueueShut
      <4>2. SuperBlockCnt \in Nat /\ Len(<<>>) = 0
        BY GeometryAssumption
      <4> QED BY <2>2, <4>1, <4>2 DEF QueueFits
    <3>3. CASE Next /\ ~Aborting
      <4>1. ~Reader /\ ~Writer
        BY <2>3, <3>3, ReaderKeeps, WriterKeeps DEF Aborting
      <4>2. ne_abort
        BY <2>3, <3>3, <4>1
           DEF Next, Call, InCall, Aborting, read_stripes, park, ne_seek, unpark, write_reserve, ne_write, ne_close,
               start, dequeue, seek_release, seek_unblock, wait_for_pause, drain, seek_go, enqueue, terminate_split,
               terminate_last, terminate_thread, wait_for_completion, last_drain, abort_unhalt, abort_drain, abort_release,
               join, DropOne, Goto
      <4> QED BY <2>2, <4>2 DEF ne_abort, QueueFits
    <3> QED BY <3>1, <3>2, <3>3
  <2> QED BY <2>1, <2>3
<1>3. J => TypeOK /\ QueueFits
  <2> SUFFICES ASSUME J PROVE TypeOK /\ QueueFits
    OBVIOUS
  <2> QED BY QueueInRing DEF BlockInv
<1> QED BY <1>1, <1>2, <1>3, PTL DEF Spec

-----------------------------------------------------------------------------
(* Blocks in a row that follow each other in the data.                     *)

\* The block holds the data behind position a, up to what is marked bad.
Bytes(blk, a) == \A i \in 1 .. Len(blk.buff) : i > blk.error_end => blk.buff[i] = a + i

\* The blocks of the row s hold the data from a to d, each from the place that at gives it.
Row(s, at, a, d, blk) ==
  /\ \A n \in 1 .. Len(s) : Bytes(blk[s[n]], at[s[n]])
  /\ \A n \in 1 .. Len(s) - 1 : at[s[n + 1]] = at[s[n]] + Len(blk[s[n]].buff)
  /\ IF Len(s) = 0 THEN d = a ELSE at[s[1]] = a /\ d = at[s[Len(s)]] + Len(blk[s[Len(s)]].buff)

Ats == [Blocks -> Int]

\* The first block of a row holds its first data, and the others are a row too.
LEMMA RowTail ==
  ASSUME NEW s \in Seq(Blocks), s # <<>>, NEW blk \in [Blocks -> BlockType], NEW at \in Ats, NEW a \in Int, NEW d \in Int,
         Row(s, at, a, d, blk)
  PROVE  /\ s[1] \in Blocks /\ Len(blk[s[1]].buff) \in Nat /\ Bytes(blk[s[1]], a)
         /\ Row(Tail(s), at, a + Len(blk[s[1]].buff), d, blk)
         /\ Tail(s) \in Seq(Blocks) /\ Len(Tail(s)) = Len(s) - 1 /\ \A n \in 1 .. Len(Tail(s)) : Tail(s)[n] = s[n + 1]
<1>1. /\ Len(s) \in Nat \ {0} /\ Tail(s) \in Seq(Blocks) /\ Len(Tail(s)) = Len(s) - 1
      /\ \A n \in 1 .. Len(s) - 1 : Tail(s)[n] = s[n + 1]
  BY EmptySeq, HeadTailProperties
<1>2. \A n \in 1 .. Len(s) : s[n] \in Blocks
  OBVIOUS
<1>3. s[1] \in Blocks /\ Len(blk[s[1]].buff) \in Nat
  BY <1>1, <1>2 DEF BlockType
<1>4. /\ \A n \in 1 .. Len(s) : Bytes(blk[s[n]], at[s[n]])
      /\ \A n \in 1 .. Len(s) - 1 : at[s[n + 1]] = at[s[n]] + Len(blk[s[n]].buff)
      /\ at[s[1]] = a /\ d = at[s[Len(s)]] + Len(blk[s[Len(s)]].buff)
  BY <1>1 DEF Row
<1>5. Row(Tail(s), at, a + Len(blk[s[1]].buff), d, blk)
  <2> DEFINE t == Tail(s)  e == a + Len(blk[s[1]].buff)
  <2>1. \A n \in 1 .. Len(t) : Bytes(blk[t[n]], at[t[n]])
    BY <1>1, <1>4
  <2>2. \A n \in 1 .. Len(t) - 1 : at[t[n + 1]] = at[t[n]] + Len(blk[t[n]].buff)
    <3> TAKE n \in 1 .. Len(t) - 1
    <3>1. n + 1 \in 1 .. Len(s) - 1 /\ t[n] = s[n + 1] /\ t[n + 1] = s[(n + 1) + 1]
      BY <1>1
    <3> QED BY <1>4, <3>1
  <2>3. CASE Len(s) = 1
    BY <1>1, <1>4, <2>1, <2>2, <2>3 DEF Row
  <2>4. CASE Len(s) # 1
    <3>1. 1 \in 1 .. Len(s) - 1 /\ 1 + 1 = 2 /\ (Len(s) - 1) \in 1 .. Len(s) - 1 /\ (Len(s) - 1) + 1 = Len(s)
      BY <1>1, <2>4
    <3>2. at[s[2]] = at[s[1]] + Len(blk[s[1]].buff)
      BY <1>4, <3>1
    <3>3. Len(t) # 0 /\ t[1] = s[2] /\ t[Len(t)] = s[Len(s)]
      BY <1>1, <3>1
    <3>4. at[t[1]] = e /\ d = at[t[Len(t)]] + Len(blk[t[Len(t)]].buff)
      BY <1>4, <3>2, <3>3
    <3> HIDE DEF t, e
    <3>5. Row(t, at, e, d, blk)
      BY <2>1, <2>2, <3>3, <3>4 DEF Row
    <3> QED BY <3>5 DEF t, e
  <2> QED BY <2>3, <2>4
<1> QED BY <1>1, <1>3, <1>4, <1>5

\* The row goes on with another block.
LEMMA RowAppend ==
  ASSUME NEW s \in Seq(Blocks), NEW x \in Blocks, \A n \in 1 .. Len(s) : s[n] # x,
         NEW blk \in [Blocks -> BlockType], NEW new \in [Blocks -> BlockType],
         \A n \in 1 .. Len(s) : new[s[n]] = blk[s[n]],
         NEW at \in Ats, NEW a \in Int, NEW d \in Int,
         Row(s, at, a, d, blk), Bytes(new[x], d)
  PROVE  /\ [at EXCEPT ![x] = d] \in Ats
         /\ Row(Append(s, x), [at EXCEPT ![x] = d], a, d + Len(new[x].buff), new)
<1> DEFINE t == Append(s, x)  to == [at EXCEPT ![x] = d]  n == Len(s)
<1>1. /\ n \in Nat /\ Len(t) = n + 1 /\ t[n + 1] = x /\ \A i \in 1 .. n : t[i] = s[i] /\ s[i] \in Blocks
      /\ to \in Ats /\ to[x] = d /\ \A i \in 1 .. n : to[s[i]] = at[s[i]]
  BY DEF Ats
<1> HIDE DEF t, to, n
<1>2. /\ \A i \in 1 .. n : Bytes(blk[s[i]], at[s[i]])
      /\ \A i \in 1 .. n - 1 : at[s[i + 1]] = at[s[i]] + Len(blk[s[i]].buff)
      /\ IF n = 0 THEN d = a ELSE at[s[1]] = a /\ d = at[s[n]] + Len(blk[s[n]].buff)
      /\ \A i \in 1 .. n : new[s[i]] = blk[s[i]]
  BY DEF Row, n
<1>3. \A i \in 1 .. n + 1 : Bytes(new[t[i]], to[t[i]])
  <2> TAKE i \in 1 .. n + 1
  <2>1. CASE i = n + 1
    BY <1>1, <2>1
  <2>2. CASE i # n + 1
    <3>1. i \in 1 .. n
      BY <1>1, <2>2
    <3> QED BY <1>1, <1>2, <3>1
  <2> QED BY <2>1, <2>2
<1>4. \A i \in 1 .. n : to[t[i + 1]] = to[t[i]] + Len(new[t[i]].buff)
  <2> TAKE i \in 1 .. n
  <2>1. CASE i = n
    BY <1>1, <1>2, <2>1
  <2>2. CASE i # n
    <3>1. i \in 1 .. n - 1 /\ i + 1 \in 1 .. n
      BY <1>1, <2>2
    <3> QED BY <1>1, <1>2, <3>1
  <2> QED BY <2>1, <2>2
<1>5. to[t[1]] = a
  <2>1. CASE n = 0
    BY <1>1, <1>2, <2>1
  <2>2. CASE n # 0
    <3>1. 1 \in 1 .. n
      BY <1>1, <2>2
    <3> QED BY <1>1, <1>2, <2>2, <3>1
  <2> QED BY <2>1, <2>2
<1>6. Row(t, to, a, d + Len(new[x].buff), new)
  BY <1>1, <1>3, <1>4, <1>5 DEF Row
<1> QED BY <1>1, <1>6 DEF t, to

\* A row is one also when other blocks have changed.
LEMMA RowSame ==
  ASSUME NEW s \in Seq(Blocks), NEW blk, NEW new, NEW at, NEW a, NEW d,
         Row(s, at, a, d, blk), \A n \in 1 .. Len(s) : new[s[n]] = blk[s[n]]
  PROVE  Row(s, at, a, d, new)
<1>1. Len(s) \in Nat /\ (Len(s) # 0 => Len(s) \in 1 .. Len(s)) /\ \A n \in 1 .. Len(s) - 1 : n \in 1 .. Len(s)
  OBVIOUS
<1>2. \A n \in 1 .. Len(s) : Bytes(new[s[n]], at[s[n]])
  BY DEF Row
<1>3. \A n \in 1 .. Len(s) - 1 : at[s[n + 1]] = at[s[n]] + Len(new[s[n]].buff)
  BY <1>1 DEF Row
<1> QED BY <1>1, <1>2, <1>3 DEF Row

\* An empty row.
LEMMA RowEmpty ==
  ASSUME NEW at, NEW a, NEW d, NEW blk
  PROVE  Row(<<>>, at, a, d, blk) <=> d = a
<1>1. Len(<<>>) = 0
  OBVIOUS
<1> QED BY <1>1 DEF Row

-----------------------------------------------------------------------------
(* Where in the block a reader is.                                         *)

\* Whole parts.
Whole(n) == \E m \in Int : n = m * PartSz

\* k IOs, d bytes of data, have been read.
Located(k, d) ==
  /\ offset = d + k * CrcBytes
  /\ \/ d = k * Payload /\ d < DataSz
     \/ d = DataSz /\ k = NumIOs

\* Multiples of a positive number are apart by no less than it, in their order.
LEMMA Multiples ==
  ASSUME NEW p \in Nat \ {0}, NEW i \in Int, NEW j \in Int
  PROVE  /\ i * p \in Int /\ (i + j) * p = i * p + j * p /\ (i - j) * p = i * p - j * p
         /\ i <= j => i * p <= j * p
         /\ i < j => i * p + p <= j * p
         /\ i * p < j * p => i < j
<1>1. i * p \in Int /\ j * p \in Int /\ (i + j) * p = i * p + j * p /\ (i - j) * p = i * p - j * p
  OBVIOUS
<1>2. ASSUME NEW n \in Nat PROVE n * p >= 0 /\ (n # 0 => n * p >= p)
  <2>1. n * p >= 0
    OBVIOUS
  <2>2. CASE n = 0
    BY <2>1, <2>2
  <2>3. CASE n # 0
    <3>1. n - 1 \in Nat /\ n * p = (n - 1) * p + p
      BY <2>3
    <3>2. (n - 1) * p >= 0
      BY <3>1
    <3>3. (n - 1) * p \in Int
      BY <3>1
    <3> QED BY <2>1, <3>1, <3>2, <3>3
  <2> QED BY <2>2, <2>3
<1>3. i <= j => i * p <= j * p
  <2> SUFFICES ASSUME i <= j PROVE i * p <= j * p
    OBVIOUS
  <2>1. j - i \in Nat /\ (j - i) * p = j * p - i * p
    OBVIOUS
  <2>2. (j - i) * p >= 0
    BY <1>2, <2>1
  <2> QED BY <1>1, <2>1, <2>2
<1>4. i < j => i * p + p <= j * p
  <2> SUFFICES ASSUME i < j PROVE i * p + p <= j * p
    OBVIOUS
  <2>1. j - i \in Nat /\ j - i # 0 /\ (j - i) * p = j * p - i * p
    OBVIOUS
  <2>2. (j - i) * p >= p
    BY <1>2, <2>1
  <2> QED BY <1>1, <2>1, <2>2
<1>5. i * p < j * p => i < j
  <2> SUFFICES ASSUME j <= i PROVE j * p <= i * p
    BY <1>1
  <2>1. i - j \in Nat /\ (i - j) * p = i * p - j * p
    OBVIOUS
  <2>2. (i - j) * p >= 0
    BY <1>2, <2>1
  <2> QED BY <1>1, <2>1, <2>2
<1> QED BY <1>1, <1>3, <1>4, <1>5

\* Division.
LEMMA Divided ==
  ASSUME NEW x \in Nat, NEW p \in Nat \ {0}
  PROVE  /\ x \div p \in Nat /\ x % p \in 0 .. p - 1 /\ x = (x \div p) * p + (x % p)
         /\ \A q \in Int, r \in 0 .. p - 1 : x = q * p + r => x \div p = q /\ x % p = r
<1> DEFINE e == x \div p  m == x % p
<1>1. e \in Nat /\ m \in 0 .. p - 1 /\ x = e * p + m
  OBVIOUS
<1> HIDE DEF e, m
<1>2. ASSUME NEW q \in Int, NEW r \in 0 .. p - 1, x = q * p + r
      PROVE  e = q /\ m = r
  <2>1. q * p + p <= e * p \/ e * p + p <= q * p \/ q = e
    <3>1. q < e => q * p + p <= e * p
      BY <1>1, Multiples
    <3>2. e < q => e * p + p <= q * p
      BY <1>1, Multiples
    <3>3. q < e \/ e < q \/ q = e
      BY <1>1
    <3> QED BY <3>1, <3>2, <3>3
  <2>2. q * p \in Int /\ e * p \in Int
    BY <1>1
  <2>3. q = e
    BY <1>1, <1>2, <2>1, <2>2
  <2>4. q * p = e * p
    BY <2>3
  <2>5. m = r
    BY <1>1, <1>2, <2>2, <2>4
  <2> QED BY <2>3, <2>5
<1>3. \A q \in Int, r \in 0 .. p - 1 : x = q * p + r => e = q /\ m = r
  BY <1>2
<1>4. e = x \div p /\ m = x % p
  BY DEF e, m
<1> QED BY <1>1, <1>3, <1>4

\* The sizes again: how many IOs there are, and what a block takes.
LEMMA ReadSizes ==
  ASSUME TypeOK
  PROVE  /\ PartSz \in Nat \ {0} /\ Payload \in Nat \ {0} /\ Split \in Nat \ {0} /\ CrcBytes \in Nat \ {0}
         /\ DataSz \in Nat \ {0} /\ NumIOs \in Nat \ {0} /\ StoredBlock \in Nat
         /\ StoredBlock = DataSz + NumIOs * CrcBytes /\ NumIOs * CrcBytes \in Nat
         /\ minfo.versz \in Nat \ {0} /\ minfo.versz = Payload + CrcBytes
         /\ (NumIOs - 1) * Payload < DataSz /\ DataSz <= NumIOs * Payload /\ (NumIOs - 1) * Payload \in Int
         /\ NumIOs * Payload = (NumIOs - 1) * Payload + Payload
         /\ Whole(DataSz)
         /\ Reading => Whole(Split) /\ Payload < Split + PartSz
<1>1. /\ PartSz \in Nat \ {0} /\ Payload \in Nat \ {0} /\ Split \in Nat \ {0} /\ CrcBytes \in Nat \ {0}
      /\ StoredBlock \in Nat /\ PartSz = minfo.partsz
      /\ minfo.parts \in Nat \ {0} /\ minfo.versz \in Nat
  BY Sizes DEF TypeOK, PartSz
<1>2. minfo.versz = Payload + CrcBytes /\ minfo.versz \in Nat \ {0}
  BY <1>1 DEF Payload
<1>3. DataSz = minfo.parts * PartSz /\ DataSz \in Nat \ {0}
  <2>1. DataSz = minfo.parts * PartSz
    BY <1>1 DEF DataSz
  <2>2. \A x, y \in Nat \ {0} : x * y \in Nat \ {0}
    OBVIOUS
  <2> QED BY <1>1, <2>1, <2>2
<1>4. Whole(DataSz)
  BY <1>1, <1>3 DEF Whole
<1> DEFINE x == DataSz + Payload - 1
<1>5. x \in Nat /\ NumIOs = x \div Payload
  BY <1>1, <1>3 DEF NumIOs
<1> DEFINE n == NumIOs  r == x % Payload
<1>6. n \in Nat /\ r \in 0 .. Payload - 1 /\ x = n * Payload + r
  BY <1>1, <1>5, Divided
<1> HIDE DEF n, r
<1>7. n * Payload \in Int /\ (n - 1) * Payload \in Int /\ n * Payload = (n - 1) * Payload + Payload
  BY <1>1, <1>6
<1>8. (n - 1) * Payload < DataSz /\ DataSz <= n * Payload
  BY <1>1, <1>3, <1>6, <1>7
<1>9. n # 0
  <2>1. n = 0 => n * Payload = 0
    BY <1>1
  <2> QED BY <1>1, <1>3, <1>8, <2>1
<1>10. n * CrcBytes \in Nat /\ StoredBlock = DataSz + n * CrcBytes
  BY <1>1, <1>6 DEF StoredBlock, n
<1>11. Reading => Whole(Split) /\ Payload < Split + PartSz
  <2> SUFFICES ASSUME Reading PROVE Whole(Split) /\ Payload < Split + PartSz
    OBVIOUS
  <2>1. Split = PartCnt * PartSz
    BY DEF Split
  <2>2. CASE PartSz > Payload
    <3>1. PartCnt = 1
      BY <2>2 DEF PartCnt
    <3> QED BY <1>1, <2>1, <2>2, <3>1 DEF Whole
  <2>3. CASE ~(PartSz > Payload)
    <3> DEFINE c == PartCnt
    <3>1. c = Payload \div PartSz
      BY <2>3 DEF PartCnt
    <3>2. c \in Nat /\ Payload % PartSz \in 0 .. PartSz - 1 /\ Payload = c * PartSz + (Payload % PartSz)
      BY <1>1, <3>1, Divided
    <3>3. Split = c * PartSz
      BY <2>1
    <3> HIDE DEF c
    <3> QED BY <1>1, <3>2, <3>3 DEF Whole
  <2> QED BY <2>2, <2>3
<1> QED BY <1>1, <1>2, <1>3, <1>4, <1>6, <1>7, <1>8, <1>9, <1>10, <1>11 DEF n

\* Sums of whole parts, and what lies between two of them.
LEMMA Wholes ==
  ASSUME TypeOK, NEW x \in Int, NEW y \in Int, Whole(x), Whole(y)
  PROVE  /\ Whole(x + y) /\ Whole(x - y)
         /\ x < y => x + PartSz <= y
         /\ x > 0 => x % PartSz = 0
<1>1. PICK i \in Int, j \in Int : x = i * PartSz /\ y = j * PartSz
  BY DEF Whole
<1>2. PartSz \in Nat \ {0}
  BY ReadSizes
<1>3. x + y = (i + j) * PartSz /\ x - y = (i - j) * PartSz
  BY <1>1, <1>2, Multiples
<1>4. i + j \in Int /\ i - j \in Int
  OBVIOUS
<1>5. x < y => x + PartSz <= y
  BY <1>1, <1>2, Multiples
<1>6. x > 0 => x % PartSz = 0
  <2> SUFFICES ASSUME x > 0 PROVE x % PartSz = 0
    OBVIOUS
  <2>1. x \in Nat /\ x = i * PartSz + 0 /\ 0 \in 0 .. PartSz - 1
    BY <1>1, <1>2
  <2>2. \A q \in Int, r \in 0 .. PartSz - 1 : x = q * PartSz + r => x % PartSz = r
    BY <1>2, <2>1, Divided
  <2>3. x = i * PartSz + 0 => x % PartSz = 0
    BY <1>2, <2>1, <2>2, Zenon
  <2> QED BY <2>1, <2>3
<1> QED BY <1>3, <1>4, <1>5, <1>6 DEF Whole

CrcsTo(k) == [i \in IOs |-> IF i < k THEN 1 ELSE 0]

\* Where a reader is: before IO k, or at the end.
LEMMA AtIO ==
  ASSUME TypeOK, NEW k \in Nat, NEW d \in Nat, Located(k, d)
  PROVE  /\ d < DataSz <=> offset < StoredBlock
         /\ d <= DataSz /\ (k - 1) * Payload < d + 1 /\ d <= k * Payload /\ k * Payload \in Nat
         /\ d < DataSz => /\ d = k * Payload /\ k < NumIOs /\ k \in IOs /\ offset \div minfo.versz = k
                          /\ StoredBlock - offset = (DataSz - d) + (NumIOs - k) * CrcBytes
         /\ d = DataSz => k = NumIOs /\ offset = StoredBlock
         /\ (k - 1) * Payload \in Int /\ k * Payload = (k - 1) * Payload + Payload
<1>1. /\ Payload \in Nat \ {0} /\ CrcBytes \in Nat \ {0} /\ DataSz \in Nat \ {0} /\ NumIOs \in Nat \ {0}
      /\ StoredBlock = DataSz + NumIOs * CrcBytes /\ NumIOs * CrcBytes \in Nat
      /\ minfo.versz \in Nat \ {0} /\ minfo.versz = Payload + CrcBytes
      /\ (NumIOs - 1) * Payload < DataSz /\ DataSz <= NumIOs * Payload /\ (NumIOs - 1) * Payload \in Int
      /\ NumIOs * Payload = (NumIOs - 1) * Payload + Payload
  BY ReadSizes
<1>2. /\ offset = d + k * CrcBytes
      /\ (d = k * Payload /\ d < DataSz) \/ (d = DataSz /\ k = NumIOs)
  BY DEF Located
<1>3. k * Payload \in Nat /\ k * CrcBytes \in Nat /\ k * Payload = (k - 1) * Payload + Payload /\ (k - 1) * Payload \in Int
  <2>1. k * Payload \in Nat /\ k * CrcBytes \in Nat
    BY <1>1
  <2>2. k = (k - 1) + 1 /\ k - 1 \in Int /\ ((k - 1) + 1) * Payload = (k - 1) * Payload + 1 * Payload /\ (k - 1) * Payload \in Int
    BY <1>1, Multiples
  <2>3. 1 * Payload = Payload
    BY <1>1
  <2> QED BY <2>1, <2>2, <2>3
<1>4. ASSUME d < DataSz
      PROVE  /\ d = k * Payload /\ k < NumIOs /\ k \in IOs /\ offset \div minfo.versz = k /\ offset < StoredBlock
             /\ StoredBlock - offset = (DataSz - d) + (NumIOs - k) * CrcBytes
  <2>1. d = k * Payload
    BY <1>1, <1>2, <1>4
  <2>2. k < NumIOs
    <3>1. k * Payload < NumIOs * Payload
      BY <1>1, <1>3, <1>4, <2>1
    <3> QED BY <1>1, <3>1, Multiples
  <2>3. k \in IOs
    BY <1>1, <2>2 DEF IOs
  <2>4. offset = k * minfo.versz
    <3>1. k * (Payload + CrcBytes) = k * Payload + k * CrcBytes
      BY <1>1
    <3> QED BY <1>1, <1>2, <2>1, <3>1
  <2>5. offset \div minfo.versz = k
    <3>1. offset = k * minfo.versz + 0 /\ 0 \in 0 .. minfo.versz - 1 /\ offset \in Nat
      BY <1>1, <1>2, <1>3, <2>4
    <3> QED BY <1>1, <3>1, Divided
  <2>6. /\ (NumIOs - k) * CrcBytes = NumIOs * CrcBytes - k * CrcBytes
        /\ k * CrcBytes + CrcBytes <= NumIOs * CrcBytes
    BY <1>1, <2>2, Multiples
  <2>7. offset < StoredBlock /\ StoredBlock - offset = (DataSz - d) + (NumIOs - k) * CrcBytes
    BY <1>1, <1>2, <1>3, <1>4, <2>6
  <2> QED BY <2>1, <2>2, <2>3, <2>5, <2>7
<1>5. ASSUME ~(d < DataSz)
      PROVE  d = DataSz /\ k = NumIOs /\ offset = StoredBlock
  BY <1>1, <1>2, <1>5
<1>6. /\ d < DataSz <=> offset < StoredBlock
      /\ d = DataSz => k = NumIOs /\ offset = StoredBlock
  <2>1. CASE d < DataSz
    BY <1>1, <1>4, <2>1
  <2>2. CASE ~(d < DataSz)
    BY <1>1, <1>5, <2>2
  <2> QED BY <2>1, <2>2
<1>7. d <= DataSz /\ (k - 1) * Payload < d + 1 /\ d <= k * Payload
  <2>1. CASE d < DataSz
    BY <1>1, <1>3, <1>4, <2>1
  <2>2. CASE ~(d < DataSz)
    BY <1>1, <1>3, <1>5, <2>2
  <2> QED BY <2>1, <2>2
<1> QED BY <1>3, <1>4, <1>6, <1>7

\* The next IO: n bytes of data, full unless it is the last.
LEMMA NextIO ==
  ASSUME TypeOK, NEW k \in Nat, NEW d \in Nat, Located(k, d)
  PROVE  /\ ToRead = 0 => d = DataSz
         /\ ToRead > CrcBytes => d < DataSz
         /\ d < DataSz => \E n \in Nat \ {0} :
              /\ ToRead = n + CrcBytes /\ n <= Payload
              /\ IoData = [i \in 1 .. n |-> d + i]
              /\ \/ d + n = (k + 1) * Payload /\ d + n < DataSz
                 \/ d + n = DataSz /\ k + 1 = NumIOs
              /\ offset + ToRead = (d + n) + (k + 1) * CrcBytes
<1>1. /\ Payload \in Nat \ {0} /\ CrcBytes \in Nat \ {0} /\ DataSz \in Nat \ {0} /\ NumIOs \in Nat \ {0}
      /\ minfo.versz \in Nat \ {0} /\ minfo.versz = Payload + CrcBytes
      /\ (NumIOs - 1) * Payload < DataSz /\ DataSz <= NumIOs * Payload /\ (NumIOs - 1) * Payload \in Int
      /\ NumIOs * Payload = (NumIOs - 1) * Payload + Payload
      /\ StoredBlock \in Nat /\ offset \in Nat
  BY ReadSizes DEF TypeOK
<1>2. /\ d < DataSz <=> offset < StoredBlock
      /\ d <= DataSz
      /\ d < DataSz => /\ d = k * Payload /\ k < NumIOs /\ offset \div minfo.versz = k
                       /\ StoredBlock - offset = (DataSz - d) + (NumIOs - k) * CrcBytes
      /\ d = DataSz => offset = StoredBlock
  BY AtIO
<1>3. ToRead = IF minfo.versz > StoredBlock - offset THEN StoredBlock - offset ELSE minfo.versz
  BY DEF ToRead
<1>4. d = DataSz => ToRead = 0
  BY <1>1, <1>2, <1>3
<1>5. ASSUME d < DataSz
      PROVE  \E n \in Nat \ {0} :
              /\ ToRead = n + CrcBytes /\ n <= Payload
              /\ IoData = [i \in 1 .. n |-> d + i]
              /\ \/ d + n = (k + 1) * Payload /\ d + n < DataSz
                 \/ d + n = DataSz /\ k + 1 = NumIOs
              /\ offset + ToRead = (d + n) + (k + 1) * CrcBytes
  <2>1. /\ (k + 1) * Payload = d + Payload /\ (k + 1) * CrcBytes = k * CrcBytes + CrcBytes /\ k * CrcBytes \in Nat
    BY <1>1, <1>2, <1>5
  <2>o. offset = d + k * CrcBytes
    BY DEF Located
  <2>i. ASSUME NEW n \in Nat \ {0}, ToRead = n + CrcBytes PROVE IoData = [i \in 1 .. n |-> d + i]
    <3>1. ToRead - CrcBytes = n /\ (offset \div minfo.versz) * Payload = d
      BY <1>1, <1>2, <1>5, <2>i
    <3> QED BY <3>1 DEF IoData
  <2>2. CASE k + 1 = NumIOs
    <3> DEFINE n == DataSz - d
    <3>1. n \in Nat \ {0} /\ d + n = DataSz
      BY <1>1, <1>5
    <3>2. (NumIOs - k) * CrcBytes = CrcBytes
      <4>1. NumIOs - k = 1
        BY <1>1, <2>2
      <4> QED BY <1>1, <4>1
    <3>3. n <= Payload
      BY <1>1, <2>1, <2>2
    <3>4. ToRead = n + CrcBytes
      BY <1>1, <1>2, <1>3, <1>5, <3>2, <3>3
    <3>5. IoData = [i \in 1 .. n |-> d + i]
      BY <2>i, <3>1, <3>4
    <3>6. offset + ToRead = (d + n) + (k + 1) * CrcBytes
      BY <1>1, <2>1, <2>o, <3>1, <3>4
    <3> HIDE DEF n
    <3> QED BY <2>2, <3>1, <3>3, <3>4, <3>5, <3>6
  <2>3. CASE k + 1 # NumIOs
    <3>1. k + 1 <= NumIOs - 1 /\ k + 1 \in Int /\ NumIOs - 1 \in Int
      BY <1>1, <1>2, <1>5, <2>3
    <3>2. (k + 1) * Payload <= (NumIOs - 1) * Payload
      BY <1>1, <3>1, Multiples
    <3>3. d + Payload < DataSz
      BY <1>1, <2>1, <3>2
    <3>4. (NumIOs - k) * CrcBytes > CrcBytes /\ (NumIOs - k) * CrcBytes \in Int
      <4>1. 1 < NumIOs - k /\ NumIOs - k \in Int /\ 1 \in Int
        BY <1>1, <3>1
      <4>2. 1 * CrcBytes + CrcBytes <= (NumIOs - k) * CrcBytes /\ (NumIOs - k) * CrcBytes \in Int /\ 1 * CrcBytes = CrcBytes
        BY <1>1, <4>1, Multiples
      <4> QED BY <1>1, <4>2
    <3>5. ToRead = Payload + CrcBytes
      BY <1>1, <1>2, <1>3, <1>5, <3>3, <3>4
    <3>6. IoData = [i \in 1 .. Payload |-> d + i]
      BY <1>1, <2>i, <3>5
    <3>7. offset + ToRead = (d + Payload) + (k + 1) * CrcBytes
      BY <1>1, <2>1, <2>o, <3>5
    <3> QED BY <1>1, <2>1, <3>3, <3>5, <3>6, <3>7
  <2> QED BY <2>2, <2>3
<1>6. d < DataSz => ToRead # 0
  <2> SUFFICES ASSUME d < DataSz PROVE ToRead # 0
    OBVIOUS
  <2>1. PICK n \in Nat \ {0} : ToRead = n + CrcBytes
    BY <1>5
  <2> QED BY <1>1, <2>1
<1>7. d < DataSz \/ d = DataSz
  BY <1>1, <1>2
<1>8. ToRead > CrcBytes => d < DataSz
  BY <1>1, <1>4, <1>7
<1>9. ToRead = 0 => d = DataSz
  BY <1>6, <1>7
<1> QED BY <1>5, <1>8, <1>9

\* Where a seek goes.
LEMMA SeekTarget ==
  ASSUME TypeOK, goffset < DataSz
  PROVE  /\ IoCount \in Nat /\ Trim \in 0 .. Payload - 1 /\ goffset = IoCount * Payload + Trim
         /\ IoCount * Payload \in Nat /\ IoCount * Payload < DataSz
         /\ IoCount * minfo.versz = IoCount * Payload + IoCount * CrcBytes
         /\ IoCount * CrcBytes \in Nat /\ IoCount * minfo.versz \in Nat
<1>1. Payload \in Nat \ {0} /\ CrcBytes \in Nat \ {0} /\ minfo.versz = Payload + CrcBytes /\ goffset \in Nat /\ DataSz \in Nat
  BY ReadSizes DEF TypeOK
<1> DEFINE c == IoCount
<1>2. c \in Nat /\ Trim \in 0 .. Payload - 1 /\ goffset = c * Payload + Trim
  BY <1>1, Divided DEF IoCount, Trim
<1> HIDE DEF c
<1>3. c * Payload \in Nat /\ c * CrcBytes \in Nat /\ c * minfo.versz = c * Payload + c * CrcBytes
  BY <1>1, <1>2
<1> QED BY <1>1, <1>2, <1>3 DEF c

\* read_resume() takes a seek for none only when the block in progress begins where it goes to;
\* this is where the parts must not divide the CRC.
LEMMA SeekSeen ==
  ASSUME TypeOK, NEW k \in Nat, NEW d \in Nat, Located(k, d), goffset < DataSz, Whole(goffset),
         CrcBytes % PartSz # 0, Curdata \in Nat, Whole(d - Curdata), d - Curdata > (k - 1) * Payload, ~IsSeek
  PROVE  d - Curdata = goffset
<1> DEFINE c == IoCount  s == d - Curdata
<1>1. /\ Payload \in Nat \ {0} /\ CrcBytes \in Nat \ {0} /\ goffset \in Nat /\ s \in Int
  BY ReadSizes DEF TypeOK
<1>2. /\ c \in Nat /\ Trim \in 0 .. Payload - 1 /\ goffset = c * Payload + Trim
      /\ c * Payload \in Nat /\ c * CrcBytes \in Nat /\ c * minfo.versz = c * Payload + c * CrcBytes
  BY SeekTarget
<1>3. /\ d <= k * Payload /\ k * Payload = (k - 1) * Payload + Payload /\ (k - 1) * Payload \in Int /\ k * Payload \in Nat
      /\ offset = d + k * CrcBytes /\ k * CrcBytes \in Nat
  <2>1. offset = d + k * CrcBytes /\ k * CrcBytes \in Nat
    BY <1>1 DEF Located
  <2> QED BY <2>1, AtIO
<1>4. s + k * CrcBytes = goffset + c * CrcBytes
  <2>1. offset - Curdata = c * minfo.versz + Trim
    BY DEF IsSeek
  <2> QED BY <1>1, <1>2, <1>3, <2>1
<1>5. s <= d /\ s > (k - 1) * Payload /\ Whole(s)
  OBVIOUS
<1> HIDE DEF c, s
<1>6. c = k => s = goffset
  <2> SUFFICES ASSUME c = k PROVE s = goffset
    OBVIOUS
  <2>1. c * CrcBytes = k * CrcBytes
    OBVIOUS
  <2> QED BY <1>1, <1>2, <1>3, <1>4, <2>1
<1>7. ~(k < c)
  <2> SUFFICES ASSUME k < c PROVE FALSE
    OBVIOUS
  <2>1. k * Payload + Payload <= c * Payload /\ k * CrcBytes + CrcBytes <= c * CrcBytes
    BY <1>1, <1>2, Multiples
  <2> QED BY <1>1, <1>2, <1>3, <1>4, <1>5, <2>1
<1>8. ~(c < k)
  <2> SUFFICES ASSUME c < k PROVE FALSE
    OBVIOUS
  <2>1. c * CrcBytes + CrcBytes <= k * CrcBytes
    BY <1>1, <1>2, Multiples
  <2>2. goffset > s
    BY <1>1, <1>2, <1>3, <1>4, <2>1
  <2>3. CASE c < k - 1
    <3>1. c * Payload + Payload <= (k - 1) * Payload
      BY <1>1, <1>2, <2>3, Multiples
    <3> QED BY <1>1, <1>2, <1>3, <1>5, <2>2, <3>1
  <2>4. CASE c = k - 1
    <3>1. (k - 1) * CrcBytes = k * CrcBytes - CrcBytes /\ c * CrcBytes = (k - 1) * CrcBytes
      BY <1>1, <2>4
    <3>2. goffset - s = CrcBytes
      BY <1>1, <1>2, <1>3, <1>4, <3>1
    <3>3. Whole(CrcBytes)
      BY <1>1, <1>5, <3>2, Wholes
    <3> QED BY <1>1, <3>3, Wholes
  <2> QED BY <1>2, <2>3, <2>4
<1>9. s = goffset
  BY <1>2, <1>6, <1>7, <1>8
<1> QED BY <1>9 DEF s

\* Where the junk begins that read_resume() reads before the target.
LEMMA AlignPlace ==
  ASSUME TypeOK, Reading, goffset < DataSz, Whole(goffset)
  PROVE  /\ JunkBlocks(Trim) \in Nat \ {0} /\ Falsefill(Trim) \in 1 .. Split
         /\ JunkBlocks(Trim) * Split \in Nat
         /\ IoCount * Payload - Falsefill(Trim) = goffset - JunkBlocks(Trim) * Split
         /\ Whole(goffset - JunkBlocks(Trim) * Split)
<1>1. /\ Split \in Nat \ {0} /\ Whole(Split) /\ PartSz \in Nat \ {0} /\ goffset \in Nat
      /\ IoCount \in Nat /\ Trim \in Nat /\ goffset = IoCount * Payload + Trim /\ IoCount * Payload \in Nat
  <2>1. Split \in Nat \ {0} /\ Whole(Split) /\ PartSz \in Nat \ {0} /\ Payload \in Nat \ {0} /\ goffset \in Nat
    BY ReadSizes DEF TypeOK
  <2>2. IoCount \in Nat /\ Trim \in 0 .. Payload - 1 /\ goffset = IoCount * Payload + Trim /\ IoCount * Payload \in Nat
    BY SeekTarget
  <2> QED BY <2>1, <2>2
<1> DEFINE q == Trim \div Split  r == Trim % Split  j == JunkBlocks(Trim)
<1>2. q \in Nat /\ r \in 0 .. Split - 1 /\ Trim = q * Split + r
  BY <1>1, Divided
<1>3. j = q + 1
  BY DEF JunkBlocks
<1>4. Falsefill(Trim) = Split - (Trim - (j - 1) * Split)
  BY DEF Falsefill
<1> HIDE DEF q, r, j
<1>5. j \in Nat \ {0} /\ j * Split = q * Split + Split /\ (j - 1) * Split = q * Split /\ q * Split \in Nat
  BY <1>1, <1>2, <1>3
<1>6. Falsefill(Trim) \in 1 .. Split /\ IoCount * Payload - Falsefill(Trim) = goffset - j * Split /\ j * Split \in Nat
  BY <1>1, <1>2, <1>4, <1>5
<1>7. Whole(j * Split)
  <2>1. PICK m \in Int : Split = m * PartSz
    BY <1>1 DEF Whole
  <2>2. j * (m * PartSz) = (j * m) * PartSz /\ j * m \in Int
    BY <1>1, <1>5
  <2> QED BY <2>1, <2>2 DEF Whole
<1>8. Whole(goffset - j * Split)
  BY <1>1, <1>5, <1>6, <1>7, Wholes
<1> QED BY <1>5, <1>6, <1>8 DEF j

\* The next IO is read into block b.
LEMMA Filled ==
  ASSUME TypeOK, NEW k \in Nat, NEW d \in Nat, Located(k, d), d < DataSz, UNCHANGED <<dmode, minfo>>,
         NEW b \in Blocks, NEW blk \in BlockType, NEW ok \in BOOLEAN, FillFrom(b, blk, ok)
  PROVE  \E n \in Nat \ {0} :
           /\ n <= Payload /\ (Located(k + 1, d + n))' /\ d + n <= DataSz
           /\ Len(block'[b].buff) = Len(blk.buff) + n
           /\ \A s \in Int : d = s + Len(blk.buff) /\ Bytes(blk, s) => Bytes(block'[b], s)
           /\ ok => block'[b].error_end = blk.error_end
           /\ \A i \in Blocks : i # b => block'[i] = block[i]
           /\ crcsumchk' = IF ok THEN [crcsumchk EXCEPT ![k] = @ + 1] ELSE crcsumchk
           /\ data_error' = (data_error \/ ~ok) /\ faulted' = (faulted \/ ~ok)
<1> USE DEF BlockType
<1>1. PICK n \in Nat \ {0} :
        /\ ToRead = n + CrcBytes /\ n <= Payload
        /\ IoData = [i \in 1 .. n |-> d + i]
        /\ \/ d + n = (k + 1) * Payload /\ d + n < DataSz
           \/ d + n = DataSz /\ k + 1 = NumIOs
        /\ offset + ToRead = (d + n) + (k + 1) * CrcBytes
  BY NextIO
<1>2. CrcBytes \in Nat /\ block \in [Blocks -> BlockType] /\ DataSz \in Nat /\ ToRead - CrcBytes = n
      /\ blk.buff \in Seq(Int) /\ blk.error_end \in Int /\ Len(blk.buff) \in Nat
  <2>1. CrcBytes \in Nat /\ DataSz \in Nat
    BY ReadSizes
  <2>2. ToRead - CrcBytes = n
    BY <1>1, <2>1
  <2>3. block \in [Blocks -> BlockType]
    BY DEF TypeOK
  <2>4. blk.buff \in Seq(Int) /\ blk.error_end \in Int
    OBVIOUS
  <2>5. Len(blk.buff) \in Nat
    BY <2>4
  <2> QED BY <2>1, <2>2, <2>3, <2>4, <2>5
<1>3. Payload' = Payload /\ DataSz' = DataSz /\ NumIOs' = NumIOs
  BY SizesKept DEF NumIOs
<1> DEFINE new == IF ok THEN IoData ELSE Junk(ToRead - CrcBytes)
<1>4. new \in Seq(Int) /\ Len(new) = n /\ (ok => \A i \in 1 .. n : new[i] = d + i)
  <2>1. IoData \in Seq(Int) /\ Len(IoData) = n /\ \A i \in 1 .. n : IoData[i] = d + i
    BY <1>1
  <2>2. Junk(ToRead - CrcBytes) \in Seq(Int) /\ Len(Junk(ToRead - CrcBytes)) = n
    BY <1>2 DEF Junk, JUNK
  <2> QED BY <2>1, <2>2
<1> HIDE DEF new
<1> DEFINE buff == blk.buff \o new  e == IF ok THEN blk.error_end ELSE Len(buff)
<1>5. /\ buff \in Seq(Int) /\ Len(buff) = Len(blk.buff) + n
      /\ \A i \in 1 .. Len(blk.buff) + n : buff[i] = IF i <= Len(blk.buff) THEN blk.buff[i] ELSE new[i - Len(blk.buff)]
  <2>1. \A u, v \in Seq(Int) :
          /\ u \o v \in Seq(Int) /\ Len(u \o v) = Len(u) + Len(v)
          /\ \A i \in 1 .. Len(u) + Len(v) : (u \o v)[i] = IF i <= Len(u) THEN u[i] ELSE v[i - Len(u)]
    BY ConcatProperties
  <2> DEFINE u == blk.buff
  <2>2. u \in Seq(Int) /\ buff = u \o new
    BY <1>2
  <2> HIDE DEF u, buff
  <2>3. /\ buff \in Seq(Int) /\ Len(buff) = Len(u) + n
        /\ \A i \in 1 .. Len(u) + n : buff[i] = IF i <= Len(u) THEN u[i] ELSE new[i - Len(u)]
    BY <1>4, <2>1, <2>2
  <2> QED BY <2>3 DEF u
<1>6. /\ block' = [block EXCEPT ![b] = [buff |-> buff, error_end |-> e]]
      /\ offset' = offset + ToRead
      /\ crcsumchk' = IF ok THEN [crcsumchk EXCEPT ![offset \div minfo.versz] = @ + 1] ELSE crcsumchk
      /\ data_error' = (data_error \/ ~ok) /\ faulted' = (faulted \/ ~ok)
  BY DEF FillFrom, new
<1> HIDE DEF buff, e
<1>7. block'[b].buff = buff /\ block'[b].error_end = e /\ \A i \in Blocks : i # b => block'[i] = block[i]
  BY <1>2, <1>6
<1>8. ASSUME NEW s \in Int, d = s + Len(blk.buff), Bytes(blk, s)
      PROVE  Bytes(block'[b], s)
  <2> SUFFICES ASSUME NEW i \in 1 .. Len(blk.buff) + n, i > e PROVE buff[i] = s + i
    BY <1>5, <1>7 DEF Bytes
  <2>1. ok /\ i > blk.error_end
    BY <1>5 DEF e
  <2>2. CASE i <= Len(blk.buff)
    <3>1. i \in 1 .. Len(blk.buff)
      BY <1>2, <2>2
    <3> QED BY <1>5, <1>8, <2>1, <2>2, <3>1 DEF Bytes
  <2>3. CASE ~(i <= Len(blk.buff))
    <3>1. i - Len(blk.buff) \in 1 .. n
      BY <1>2, <2>3
    <3>2. buff[i] = d + (i - Len(blk.buff))
      BY <1>4, <1>5, <2>1, <2>3, <3>1
    <3> QED BY <1>2, <1>8, <3>2
  <2> QED BY <2>2, <2>3
<1>9. (Located(k + 1, d + n))'
  BY <1>1, <1>3, <1>6 DEF Located
<1>10. d + n <= DataSz
  BY <1>1, <1>2
<1>11. offset \div minfo.versz = k
  BY AtIO
<1>12. ok => block'[b].error_end = blk.error_end
  BY <1>7 DEF e
<1>13. Len(block'[b].buff) = Len(blk.buff) + n
  BY <1>5, <1>7
<1> QED BY <1>1, <1>6, <1>7, <1>8, <1>9, <1>10, <1>11, <1>12, <1>13

\* Another block is reserved: what begins at s in block b goes on in the new one behind the split.
LEMMA ReservedBytes ==
  ASSUME TypeOK, NEW b \in Blocks, ~HasRoom(b), depth > 0, b # head, NEW s \in Int, Bytes(block[b], s)
  PROVE  /\ Reserved(b) \in [Blocks -> BlockType]
         /\ \A i \in Blocks : i # b /\ i # head => Reserved(b)[i] = block[i]
         /\ Bytes(Reserved(b)[b], s) /\ Len(Reserved(b)[b].buff) = Split
         /\ Reserved(b)[b].error_end = block[b].error_end
         /\ Bytes(Reserved(b)[head], s + Split) /\ Len(Reserved(b)[head].buff) = Fill(b) - Split
         /\ block[b].error_end <= Split => Reserved(b)[head].error_end = 0
         /\ Fill(b) \in Nat /\ Fill(b) >= Split
<1> USE DEF BlockType
<1>1. /\ Split \in Nat \ {0} /\ head \in Blocks /\ block \in [Blocks -> BlockType] /\ b # NULL /\ b \in Places
      /\ block[b].buff \in Seq(Int) /\ block[b].error_end \in Int /\ Fill(b) = Len(block[b].buff) /\ Fill(b) \in Nat
  <2>1. block \in [Blocks -> BlockType] /\ head \in Blocks
    BY DEF TypeOK
  <2>2. block[b].buff \in Seq(Int) /\ block[b].error_end \in Int
    BY <2>1
  <2>3. Fill(b) = Len(block[b].buff) /\ Fill(b) \in Nat
    BY <2>2 DEF Fill
  <2> QED BY <2>1, <2>2, <2>3, Sizes, PlacesType DEF Places
<1>2. /\ Reserved(b) \in [Blocks -> BlockType] /\ Len(Reserved(b)[b].buff) = Split
      /\ Len(Reserved(b)[head].buff) = Fill(b) - Split /\ Fill(b) >= Split
      /\ \A i \in Blocks : i # b /\ i # head => Reserved(b)[i] = block[i]
  BY <1>1, ReservedType
<1>3. Reserved(b)[head] = Moved(b) /\ Reserved(b)[b] = [block[b] EXCEPT !.buff = SubSeq(@, 1, Split)]
  BY <1>1 DEF Reserved
<1>4. Reserved(b)[b].buff = SubSeq(block[b].buff, 1, Split) /\ Reserved(b)[b].error_end = block[b].error_end
  BY <1>1, <1>3
<1>5. Bytes(Reserved(b)[b], s)
  <2>1. \A i \in 1 .. Split : SubSeq(block[b].buff, 1, Split)[i] = block[b].buff[i] /\ i \in 1 .. Len(block[b].buff)
    BY <1>1, <1>2
  <2> QED BY <1>2, <1>4, <2>1 DEF Bytes
<1>6. Bytes(Moved(b), s + Split) /\ (block[b].error_end <= Split => Moved(b).error_end = 0)
  <2>1. CASE Fill(b) = Split
    <3>1. Moved(b) = Empty
      BY <2>1 DEF Moved
    <3>2. Len(Empty.buff) = 0 /\ Empty.error_end = 0
      BY DEF Empty
    <3> QED BY <3>1, <3>2 DEF Bytes
  <2>2. CASE Fill(b) # Split /\ block[b].error_end > Split
    <3> DEFINE n == Fill(b) - Split
    <3>1. Moved(b) = [buff |-> Junk(n), error_end |-> n]
      BY <1>1, <2>2 DEF Moved
    <3>2. n \in Nat
      BY <1>1, <1>2
    <3> HIDE DEF n
    <3>3. Len(Junk(n)) = n
      BY <3>2 DEF Junk
    <3> QED BY <1>1, <2>2, <3>1, <3>2, <3>3 DEF Bytes
  <2>3. CASE Fill(b) # Split /\ ~(block[b].error_end > Split)
    <3>1. Moved(b) = [buff |-> Spill(b), error_end |-> 0]
      BY <1>1, <2>3 DEF Moved
    <3>2. /\ Len(Spill(b)) = Fill(b) - Split
          /\ \A i \in 1 .. Fill(b) - Split : Spill(b)[i] = block[b].buff[Split + i]
      <4>1. Spill(b) = SubSeq(block[b].buff, Split + 1, Fill(b)) /\ Fill(b) <= Len(block[b].buff) /\ Split + 1 <= Fill(b)
            /\ Split + 1 \in Int /\ Fill(b) \in Int
        BY <1>1, <1>2, <2>3 DEF Spill
      <4>5. \A i \in Split + 1 .. Fill(b) : i \in 1 .. Len(block[b].buff)
        BY <1>1, <1>2
      <4>6. \A i \in Split + 1 .. Fill(b) : block[b].buff[i] \in Int
        BY <1>1, <4>5
      <4>2. \A i \in 1 .. Fill(b) - Split : (Split + 1) + i - 1 = Split + i
        BY <1>1, <1>2
      <4>3. /\ Len(Spill(b)) = Fill(b) - (Split + 1) + 1
            /\ \A i \in 1 .. Fill(b) - (Split + 1) + 1 : Spill(b)[i] = block[b].buff[(Split + 1) + i - 1]
        BY <4>1, <4>6, SubSeqProperties
      <4>4. Fill(b) - (Split + 1) + 1 = Fill(b) - Split
        BY <1>1
      <4> QED BY <4>2, <4>3, <4>4
    <3>3. ASSUME NEW i \in 1 .. Fill(b) - Split PROVE Spill(b)[i] = (s + Split) + i
      <4>1. Split + i \in 1 .. Len(block[b].buff) /\ Split + i > block[b].error_end
        BY <1>1, <1>2, <2>3
      <4>2. block[b].buff[Split + i] = s + (Split + i)
        BY <4>1 DEF Bytes
      <4> QED BY <1>1, <3>2, <4>2
    <3> QED BY <3>1, <3>2, <3>3 DEF Bytes
  <2> QED BY <2>1, <2>2, <2>3
<1> QED BY <1>1, <1>2, <1>3, <1>4, <1>5, <1>6

\* The holders but the last.
ReadRow  == Held(miob, queue, NULL, cur_work)
WriteRow == Held(cur_work, queue, NULL, push)

\* A row with one more block behind it, or with none.
RowAnd(f, y) == IF y = NULL THEN f ELSE Append(f, y)

\* The holders are such a row.
LEMMA HoldersAnd ==
  ASSUME TypeOK
  PROVE  /\ Reading => Holders = RowAnd(ReadRow, iob)
         /\ Writing => Holders = RowAnd(WriteRow, miob)
         /\ ReadRow \in Seq(Blocks) /\ WriteRow \in Seq(Blocks)
<1>1. /\ Reading => Holders = Held(miob, queue, cur_work, iob)
      /\ Writing => Holders = Held(cur_work, queue, push, miob)
      /\ miob \in Places /\ cur_work \in Places /\ iob \in Places /\ push \in Places /\ queue \in Seq(Blocks)
      /\ NULL \in Places
  BY HoldersHeld, PlacesType
<1>2. ASSUME NEW a \in Places, NEW c \in Places, NEW y \in Places
      PROVE  Held(a, queue, c, y) = RowAnd(Held(a, queue, NULL, c), y)
  <2>1. CASE y = NULL
    BY <1>1, <2>1, HeldMoves DEF RowAnd
  <2>2. CASE y # NULL
    <3>1. y \in Blocks
      BY <2>2 DEF Places
    <3> QED BY <1>1, <2>2, <3>1, HeldMoves DEF RowAnd
  <2> QED BY <2>1, <2>2
<1>3. ReadRow \in Seq(Blocks) /\ WriteRow \in Seq(Blocks)
  BY <1>1, HeldType DEF ReadRow, WriteRow
<1> QED BY <1>1, <1>2, <1>3 DEF ReadRow, WriteRow

\* No two of the blocks in use are the same, and the next one is none of them.
LEMMA RowDistinct ==
  ASSUME BlockInv, ~Aborting, ~NoMoreReserves, NEW f \in Seq(Blocks), NEW y \in Places, Holders = RowAnd(f, y)
  PROVE  /\ y # NULL => \A n \in 1 .. Len(f) : f[n] # y
         /\ depth > 0 => y # head /\ \A n \in 1 .. Len(f) : f[n] # head
<1>1. TypeOK /\ Holders = Win(head, InUse) /\ InUse \in 0 .. SuperBlockCnt /\ head \in Blocks /\ NULL \notin Blocks
      /\ SuperBlockCnt \in Nat /\ depth \in 0 .. SuperBlockCnt
  BY HoldersHeld, PlacesType, GeometryAssumption DEF BlockInv, RingInv, TypeOK
<1>2. /\ \A k, l \in 1 .. InUse : Win(head, InUse)[k] = Win(head, InUse)[l] => k = l
      /\ InUse < SuperBlockCnt => \A k \in 1 .. InUse : Win(head, InUse)[k] # head
      /\ Len(Win(head, InUse)) = InUse
  BY <1>1, WindowType
<1>3. depth > 0 => InUse < SuperBlockCnt
  BY <1>1 DEF InUse
<1> DEFINE h == RowAnd(f, y)
<1>4. Len(h) = InUse
  BY <1>1, <1>2
<1>5. \A k, l \in 1 .. Len(h) : h[k] = h[l] => k = l
  BY <1>1, <1>2
<1>6. depth > 0 => \A k \in 1 .. Len(h) : h[k] # head
  BY <1>1, <1>2, <1>3
<1>7. CASE y = NULL
  <2>1. h = f
    BY <1>7 DEF RowAnd
  <2> QED BY <1>1, <1>6, <1>7, <2>1
<1>8. CASE y # NULL
  <2>1. y \in Blocks
    BY <1>8 DEF Places
  <2>2. Len(f) \in Nat /\ Len(h) = Len(f) + 1 /\ h[Len(f) + 1] = y /\ \A n \in 1 .. Len(f) : h[n] = f[n]
    BY <1>8, <2>1 DEF RowAnd
  <2> HIDE DEF h
  <2>3. \A n \in 1 .. Len(f) : n \in 1 .. Len(h) /\ Len(f) + 1 \in 1 .. Len(h) /\ n # Len(f) + 1
    BY <2>2
  <2>4. \A n \in 1 .. Len(f) : f[n] # y
    BY <1>5, <2>2, <2>3
  <2>5. depth > 0 => y # head /\ \A n \in 1 .. Len(f) : f[n] # head
    BY <1>6, <2>2, <2>3
  <2> QED BY <2>4, <2>5
<1> QED BY <1>7, <1>8

-----------------------------------------------------------------------------
(* What a reader hands on.                                                 *)

\* The master may use the block: whole parts, and no error without a cause.
Sound(blk, fault) == Len(blk.buff) > 0 /\ Whole(Len(blk.buff)) /\ (~fault => blk.error_end = 0)
Deliverable(b) == Sound(block[b], faulted)

\* junk blocks that are still to be made
JunkDue == IF tpc = "junked" THEN junk - 1 ELSE junk

\* The blocks with the master, in the queue and about to be enqueued hold the data from a to s,
\* where the block in progress begins.  While junk is due that is where the seek went, less the
\* junk; otherwise it is behind the last IO but one, so that read_resume() can tell a seek.
Flow(k, d, s, a, at) ==
  /\ s = d - Curdata
  /\ Row(ReadRow, at, a, s, block)
  /\ iob # NULL => Bytes(block[iob], s)
  /\ iob # NULL /\ ~faulted =>
       IF junk > 0 /\ tpc \in {"work", "loop"} THEN block[iob].error_end <= Split ELSE block[iob].error_end = 0
  /\ Whole(s)
  /\ s + Split > (k - 1) * Payload
  /\ tpc \notin {"work", "loop"} \/ (tpc = "work" /\ junk = 0) => s > (k - 1) * Payload
  /\ tpc = "loop" => iob # NULL /\ Fill(iob) > 0
  /\ junk = 0 => \A n \in 1 .. Len(ReadRow) : Deliverable(ReadRow[n])
  /\ junk > 0 => /\ s = goffset - JunkDue * Split
                 /\ tpc = "junked" => res = 0
                 /\ tpc = "work" => d < DataSz
  /\ tpc = "post" /\ res = 2 => d = DataSz /\ s = d /\ cur_work = NULL

\* read_resume() is due or under way.
Resumes == junk > 0 \/ (tpc = "halted" /\ ~Flagged("HALT"))

\* What the master reads next is where the row begins, or where the thread is about to seek; and
\* the thread has halted itself only at the end of the data.
Synced(d, s, a) ==
  mpc \in {"idle", "dequeue"} =>
    /\ Flagged("HALT") => tpc = "halted" /\ d = DataSz /\ s = d /\ cur_work = NULL
    /\ IF Resumes THEN goffset = iob_offset ELSE a = iob_offset

Live == ~Aborting /\ tpc \notin {"term", "exit"}

Placed(k, d)  == Located(k, d) /\ (continuous /\ ~faulted => crcsumchk = CrcsTo(k))
Tracked(k, d) == Live => \E s, a \in Int, at \in Ats : Flow(k, d, s, a, at) /\ Synced(d, s, a)
Following == \E k, d \in Nat : Placed(k, d) /\ Tracked(k, d)

Seeking == {"seek_release"} \cup Cleared
ReadState ==
  /\ data_error => faulted
  /\ handle # "committed" /\ mpc # "null"
  /\ Flagged("ABORT") => Aborting
  /\ tpc \in {"term", "exit"} => Flagged("ABORT") \/ Flagged("FINISHED")
  /\ CrcBytes % PartSz # 0
  /\ goffset < DataSz /\ Whole(goffset)
  /\ mpc \in Seeking => target < DataSz /\ Whole(target)
  /\ mpc = "dequeue" => iob_offset < DataSz
  /\ mpc = "idle" => iob_datasz = IF miob = NULL THEN 0 ELSE Fill(miob)
  /\ mpc = "start" => iob_offset = 0 /\ iob_datasz = 0 /\ goffset = 0

\* What all the steps of a reader are given.
ReadGiven(k, d) == BlockInv /\ Reading /\ ReadState /\ Placed(k, d) /\ Tracked(k, d)

\* What the reader thread leaves as it was, and the types of what it deals with.
LEMMA ReaderGiven ==
  ASSUME NEW k \in Nat, NEW d \in Nat, ReadGiven(k, d), Reader
  PROVE  /\ TypeOK /\ ReaderInv /\ ResumeInv /\ FlagInv /\ Located(k, d)
         /\ block \in [Blocks -> BlockType] /\ head \in Blocks /\ depth \in 0 .. SuperBlockCnt /\ NULL \notin Blocks
         /\ iob \in Places /\ miob \in Places /\ cur_work \in Places /\ queue \in Seq(Blocks) /\ NULL \in Places
         /\ ReadRow \in Seq(Blocks) /\ junk \in Nat /\ goffset \in Nat /\ Curdata \in Nat /\ d <= DataSz
         /\ tpc # "exit" /\ (iob # NULL => iob \in Blocks /\ Curdata = Fill(iob))
         /\ UNCHANGED <<dmode, minfo, mpc, miob, push, written, goffset, iob_offset, iob_datasz, target>>
         /\ UNCHANGED <<Payload, DataSz, NumIOs, PartSz, Split, Reading>>
         /\ (Aborting' <=> Aborting)
         /\ (Live' => Live)
         /\ \A x : Whole(x) <=> Whole(x)'
         /\ \A n : (CrcsTo(n))' = CrcsTo(n) /\ NoCrcs' = NoCrcs /\ CrcSum' = CrcSum
<1>1. /\ BlockInv /\ TypeOK /\ Reading /\ Located(k, d)
  BY DEF ReadGiven, BlockInv, Placed
<1>2. /\ ReaderInv /\ ResumeInv /\ FlagInv
  BY <1>1 DEF BlockInv, CtlInv
<1>3. /\ block \in [Blocks -> BlockType] /\ head \in Blocks /\ depth \in 0 .. SuperBlockCnt /\ NULL \notin Blocks
      /\ iob \in Places /\ miob \in Places /\ cur_work \in Places /\ queue \in Seq(Blocks) /\ NULL \in Places
      /\ junk \in Nat /\ goffset \in Nat
  BY <1>1, PlacesType DEF TypeOK, BlockType, Places
<1>4. iob # NULL => iob \in Blocks /\ Curdata = Fill(iob) /\ Fill(iob) \in Nat
  BY <1>3 DEF Places, Curdata, Fill, BlockType
<1>5. Curdata \in Nat
  BY <1>4 DEF Curdata
<1>6. ReadRow \in Seq(Blocks) /\ d <= DataSz
  BY <1>1, HoldersAnd, AtIO
<1>7. UNCHANGED <<dmode, minfo, mpc, miob, push, written>>
  BY ReaderKeeps
<1>8. UNCHANGED <<goffset, iob_offset, iob_datasz, target>>
  BY DEF Reader, read_produce_end, read_produce_fill, read_produce_push, read_produce_last, producer_post, producer_wake,
         read_resume_stay, read_resume_seek, read_resume_align, junk_block, read_term, stateVars, masterVars
<1>9. UNCHANGED <<Payload, DataSz, NumIOs, PartSz, Split, Reading>>
  BY <1>7, SizesKept DEF NumIOs
<1>10. tpc # "exit" /\ (tpc = "term" => tpc' = "exit")
  BY DEF Reader, read_produce_end, read_produce_fill, read_produce_push, read_produce_last, producer_post, producer_wake,
         read_resume_stay, read_resume_seek, read_resume_align, Resuming, junk_block, read_term
<1>11. Aborting' <=> Aborting
  BY <1>7 DEF Aborting
<1>12. Live' => Live
  BY <1>10, <1>11 DEF Live
<1>13. \A x : Whole(x) <=> Whole(x)'
  BY <1>9 DEF Whole
<1>14. \A n : (CrcsTo(n))' = CrcsTo(n) /\ NoCrcs' = NoCrcs /\ CrcSum' = CrcSum
  BY <1>9 DEF CrcsTo, NoCrcs, CrcSum, IOs
<1> QED BY <1>1, <1>2, <1>3, <1>4, <1>5, <1>6, <1>7, <1>8, <1>9, <1>10, <1>11, <1>12, <1>13, <1>14

\* The blocks before the one in progress are others than that one and than the next.
LEMMA ReadRowApart ==
  ASSUME BlockInv, Reading, Live
  PROVE  /\ iob # NULL => \A n \in 1 .. Len(ReadRow) : ReadRow[n] # iob
         /\ depth > 0 => iob # head /\ \A n \in 1 .. Len(ReadRow) : ReadRow[n] # head
         /\ ReadRow \in Seq(Blocks) /\ \A n \in 1 .. Len(ReadRow) : ReadRow[n] \in Blocks
<1>1. TypeOK
  BY DEF BlockInv
<1>2. Holders = RowAnd(ReadRow, iob) /\ ReadRow \in Seq(Blocks) /\ iob \in Places
  BY <1>1, HoldersAnd, HoldersHeld
<1>3. ~Aborting /\ ~NoMoreReserves
  BY DEF Live, NoMoreReserves
<1> QED BY <1>2, <1>3, RowDistinct

\* What may be delivered then.
LEMMA SoundNext ==
  ASSUME UNCHANGED PartSz, NEW n
  PROVE  (Deliverable(ReadRow[n]))' <=> Sound(block'[ReadRow'[n]], faulted')
BY DEF Deliverable, Sound, Whole

\* read_produce() reads an IO.
LEMMA FollowFill ==
  ASSUME NEW k \in Nat, NEW d \in Nat, ReadGiven(k, d), read_produce_fill
  PROVE  Following'
<1>r. Reader
  BY DEF Reader
<1>1. /\ TypeOK /\ Located(k, d) /\ block \in [Blocks -> BlockType] /\ head \in Blocks /\ iob \in Places
      /\ NULL \notin Blocks /\ junk \in Nat /\ Curdata \in Nat
      /\ (iob # NULL => iob \in Blocks /\ Curdata = Fill(iob))
      /\ UNCHANGED <<dmode, minfo, mpc, miob, goffset, iob_offset>>
      /\ UNCHANGED <<Payload, DataSz, NumIOs, PartSz, Split, Reading>>
      /\ (Live' => Live)
      /\ \A x : Whole(x) <=> Whole(x)'
      /\ \A n : (CrcsTo(n))' = CrcsTo(n)
      /\ BlockInv /\ Reading /\ Placed(k, d) /\ Tracked(k, d)
  BY <1>r, ReaderGiven DEF ReadGiven
<1>2. /\ tpc \in {"work", "loop"} /\ tpc' = "loop" /\ ToRead > CrcBytes
      /\ UNCHANGED <<con_flags, queue, cur_work, junk, res, continuous>>
  BY DEF read_produce_fill, tqVars
<1>3. d < DataSz
  BY <1>1, <1>2, NextIO
<1>e. Empty \in BlockType /\ Len(Empty.buff) = 0 /\ Empty.error_end = 0
  BY DEF Empty, BlockType
<1>4. PICK b \in Blocks, blk \in BlockType, ok \in BOOLEAN :
        /\ FillFrom(b, blk, ok) /\ iob' = b
        /\ \/ b = iob /\ blk = block[iob] /\ HasRoom(iob)
           \/ iob = NULL /\ b = head /\ blk = Empty /\ depth > 0
  <2>1. PICK ok \in BOOLEAN :
          IF HasRoom(iob)
          THEN FillFrom(iob, block[iob], ok) /\ UNCHANGED <<iob, head, depth>>
          ELSE /\ iob = NULL
               /\ Reserve(NULL)
               /\ iob' = head
               /\ FillFrom(head, Empty, ok)
    BY DEF read_produce_fill
  <2>2. CASE HasRoom(iob)
    <3>1. iob \in Blocks /\ block[iob] \in BlockType
      BY <1>1, <2>2 DEF HasRoom
    <3> QED BY <2>1, <2>2, <3>1
  <2>3. CASE ~HasRoom(iob)
    BY <1>1, <1>e, <2>1, <2>3 DEF Reserve
  <2> QED BY <2>2, <2>3
<1>5. PICK n \in Nat \ {0} :
           /\ n <= Payload /\ (Located(k + 1, d + n))' /\ d + n <= DataSz
           /\ Len(block'[b].buff) = Len(blk.buff) + n
           /\ \A s \in Int : d = s + Len(blk.buff) /\ Bytes(blk, s) => Bytes(block'[b], s)
           /\ ok => block'[b].error_end = blk.error_end
           /\ \A i \in Blocks : i # b => block'[i] = block[i]
           /\ crcsumchk' = IF ok THEN [crcsumchk EXCEPT ![k] = @ + 1] ELSE crcsumchk
           /\ data_error' = (data_error \/ ~ok) /\ faulted' = (faulted \/ ~ok)
  <2>1. TypeOK /\ Located(k, d) /\ UNCHANGED <<dmode, minfo>> /\ FillFrom(b, blk, ok)
    BY <1>1, <1>4
  <2> QED BY <1>3, <2>1, Filled
<1>6. (Placed(k + 1, d + n))'
  <2>1. ASSUME continuous', ~faulted' PROVE crcsumchk' = CrcsTo(k + 1)
    <3>1. ok /\ crcsumchk = CrcsTo(k) /\ k \in IOs
      BY <1>1, <1>2, <1>3, <1>5, <2>1, AtIO DEF Placed
    <3>2. crcsumchk' = [CrcsTo(k) EXCEPT ![k] = @ + 1]
      BY <1>5, <3>1
    <3>3. CrcsTo(k)[k] = 0
      BY <3>1 DEF CrcsTo
    <3>4. \A i \in IOs : i \in Int /\ (i < k + 1 <=> i < k \/ i = k)
      BY DEF IOs
    <3>5. [CrcsTo(k) EXCEPT ![k] = @ + 1] = [i \in IOs |-> IF i = k THEN 1 ELSE CrcsTo(k)[i]]
      <4> DEFINE f == CrcsTo(k)
      <4>1. f = [i \in IOs |-> f[i]] /\ f[k] = 0 /\ k \in IOs
        BY <3>1, <3>3 DEF CrcsTo
      <4> HIDE DEF f
      <4>2. [f EXCEPT ![k] = @ + 1] = [i \in IOs |-> IF i = k THEN f[k] + 1 ELSE f[i]]
        BY <4>1
      <4>3. f[k] + 1 = 1
        BY <4>1
      <4> QED BY <4>2, <4>3 DEF f
    <3>6. \A i \in IOs : (IF i = k THEN 1 ELSE CrcsTo(k)[i]) = (IF i < k + 1 THEN 1 ELSE 0)
      BY <3>4 DEF CrcsTo
    <3>7. CrcsTo(k + 1) = [i \in IOs |-> IF i < k + 1 THEN 1 ELSE 0]
      BY DEF CrcsTo
    <3> QED BY <3>2, <3>5, <3>6, <3>7
  <2> QED BY <1>1, <1>5, <2>1 DEF Placed
<1>7. ASSUME Live'
      PROVE  \E s, a \in Int, at \in Ats : (Flow(k + 1, d + n, s, a, at))' /\ (Synced(d + n, s, a))'
  <2>0. Live
    BY <1>1, <1>7
  <2>1. PICK s \in Int, a \in Int, at \in Ats : Flow(k, d, s, a, at) /\ Synced(d, s, a)
    BY <1>1, <2>0 DEF Tracked
  <2>2. /\ Split \in Nat \ {0} /\ Payload \in Nat \ {0} /\ DataSz \in Nat /\ d = k * Payload
    BY <1>1, <1>3, ReadSizes, AtIO
  <2>3. ReadRow \in Seq(Blocks) /\ \A i \in 1 .. Len(ReadRow) : ReadRow[i] # b /\ ReadRow[i] \in Blocks
    BY <1>1, <1>4, <2>0, ReadRowApart
  <2>4. ReadRow' = ReadRow
    BY <1>1, <1>2 DEF ReadRow
  <2>5. \A i \in 1 .. Len(ReadRow) : block'[ReadRow[i]] = block[ReadRow[i]]
    BY <1>5, <2>3
  <2>6. Row(ReadRow', at, a, s, block')
    <3>1. Row(ReadRow, at, a, s, block)
      BY <2>1 DEF Flow
    <3>2. Row(ReadRow, at, a, s, block')
      BY <2>3, <2>5, <3>1, RowSame
    <3> QED BY <2>4, <3>2
  <2>7. Len(blk.buff) \in Nat /\ Len(blk.buff) < Split /\ d = s + Len(blk.buff) /\ Bytes(blk, s)
    <3>1. CASE b = iob /\ blk = block[iob] /\ HasRoom(iob)
      <4>1. Curdata = Len(blk.buff) /\ Len(blk.buff) < Split /\ iob # NULL
        BY <1>1, <3>1 DEF HasRoom, Fill
      <4>2. s = d - Curdata /\ Bytes(block[iob], s)
        BY <2>1, <4>1 DEF Flow
      <4> QED BY <1>1, <3>1, <4>1, <4>2
    <3>2. CASE iob = NULL /\ b = head /\ blk = Empty /\ depth > 0
      <4>1. Curdata = 0
        BY <3>2 DEF Curdata
      <4>2. Bytes(Empty, s)
        BY <1>e DEF Bytes
      <4>3. s = d - Curdata
        BY <2>1 DEF Flow
      <4>4. Len(blk.buff) = 0 /\ Bytes(blk, s)
        BY <1>e, <3>2, <4>2
      <4> QED BY <2>2, <4>1, <4>3, <4>4
    <3> QED BY <1>4, <3>1, <3>2
  <2>8. Curdata' = Len(blk.buff) + n /\ iob' # NULL /\ Fill(iob)' = Len(blk.buff) + n
    BY <1>1, <1>4, <1>5 DEF Curdata, Fill
  <2>9. s = (d + n) - Curdata'
    <3> DEFINE x == Len(blk.buff)
    <3>1. x \in Nat /\ d = s + x /\ Curdata' = x + n
      BY <2>7, <2>8
    <3> HIDE DEF x
    <3> QED BY <3>1
  <2>10. Bytes(block'[iob'], s)
    BY <1>4, <1>5, <2>7
  <2>11. ~faulted' => IF junk > 0 THEN block'[iob'].error_end <= Split ELSE block'[iob'].error_end = 0
    <3> SUFFICES ASSUME ~faulted' PROVE IF junk > 0 THEN block'[iob'].error_end <= Split ELSE block'[iob'].error_end = 0
      OBVIOUS
    <3>1. ok /\ ~faulted /\ block'[iob'].error_end = blk.error_end
      BY <1>4, <1>5
    <3>2. CASE iob # NULL
      BY <1>2, <1>4, <2>1, <3>1, <3>2 DEF Flow
    <3>3. CASE iob = NULL
      BY <1>1, <1>4, <1>e, <2>2, <3>1, <3>3
    <3> QED BY <3>2, <3>3
  <2>12. s + Split > ((k + 1) - 1) * Payload
    <3>1. (k + 1) - 1 = k
      OBVIOUS
    <3>2. s + Split > d
      BY <2>2, <2>7
    <3> QED BY <2>2, <3>1, <3>2
  <2>13. junk = 0 => \A i \in 1 .. Len(ReadRow') : (Deliverable(ReadRow[i]))'
    <3> SUFFICES ASSUME junk = 0, NEW i \in 1 .. Len(ReadRow) PROVE (Deliverable(ReadRow[i]))'
      BY <2>4
    <3>1. Sound(block[ReadRow[i]], faulted)
      BY <2>1 DEF Flow, Deliverable
    <3>2. Sound(block'[ReadRow[i]], faulted')
      BY <1>5, <2>5, <3>1 DEF Sound
    <3> QED BY <1>1, <2>4, <3>2, SoundNext
  <2>14. junk' > 0 => s = goffset' - JunkDue' * Split'
    BY <1>1, <1>2, <2>1 DEF Flow, JunkDue
  <2>15. (Flow(k + 1, d + n, s, a, at))'
    <3>1. tpc' = "loop" /\ Whole(s)' /\ junk' = junk /\ Split' = Split /\ Payload' = Payload
      BY <1>1, <1>2, <2>1 DEF Flow
    <3>2. Fill(iob)' > 0
      BY <2>7, <2>8
    <3> QED BY <2>4, <2>6, <2>8, <2>9, <2>10, <2>11, <2>12, <2>13, <2>14, <3>1, <3>2 DEF Flow
  <2>16. (Synced(d + n, s, a))'
    BY <1>1, <1>2, <2>1 DEF Synced, Resumes, Flagged
  <2> QED BY <2>15, <2>16
<1> QED BY <1>6, <1>7 DEF Following, Tracked

\* What the reader thread may do to what is known of it, with the facts a step needs.
StepFacts(k, d) ==
  /\ TypeOK /\ Located(k, d) /\ block \in [Blocks -> BlockType] /\ head \in Blocks /\ iob \in Places
  /\ NULL \notin Blocks /\ junk \in Nat /\ Curdata \in Nat
  /\ (iob # NULL => iob \in Blocks /\ Curdata = Fill(iob))
  /\ UNCHANGED <<dmode, minfo, mpc, miob, goffset, iob_offset>>
  /\ UNCHANGED <<Payload, DataSz, NumIOs, PartSz, Split, Reading>>
  /\ (Live' => Live)
  /\ (\A x : Whole(x) <=> Whole(x)')
  /\ (\A n : (CrcsTo(n))' = CrcsTo(n))
  /\ BlockInv /\ Reading /\ Placed(k, d) /\ Tracked(k, d)
  /\ ReaderInv /\ ReadState

\* They hold of each of its steps.
LEMMA ReaderFacts ==
  ASSUME NEW k \in Nat, NEW d \in Nat, ReadGiven(k, d), Reader
  PROVE  StepFacts(k, d)
BY ReaderGiven DEF StepFacts, ReadGiven

\* The block in progress becomes the work package.
LEMMA RowHanded ==
  ASSUME BlockInv, Reading, Live, NEW s \in Int, NEW a \in Int, NEW at \in Ats, Row(ReadRow, at, a, s, block),
         block' \in [Blocks -> BlockType], \A n \in 1 .. Len(ReadRow) : block'[ReadRow[n]] = block[ReadRow[n]],
         cur_work = NULL, iob # NULL, cur_work' = iob, UNCHANGED <<miob, queue>>, Bytes(block'[iob], s)
  PROVE  /\ ReadRow' = Append(ReadRow, iob) /\ ReadRow \in Seq(Blocks)
         /\ \E to \in Ats : Row(ReadRow', to, a, s + Len(block'[iob].buff), block')
<1>1. iob \in Blocks /\ miob \in Places /\ queue \in Seq(Blocks) /\ block \in [Blocks -> BlockType] /\ NULL \in Places
  BY PlacesType DEF BlockInv, TypeOK, Places, BlockType
<1>2. ReadRow \in Seq(Blocks) /\ \A n \in 1 .. Len(ReadRow) : ReadRow[n] # iob
  BY ReadRowApart
<1>3. ReadRow' = Append(ReadRow, iob)
  <2>1. Held(miob, queue, NULL, iob) = Append(Held(miob, queue, NULL, NULL), iob)
    BY <1>1, HeldMoves
  <2> QED BY <2>1 DEF ReadRow
<1> DEFINE r == ReadRow  new == block'  to == [at EXCEPT ![iob] = s]
<1>4. /\ r \in Seq(Blocks) /\ new \in [Blocks -> BlockType] /\ Row(r, at, a, s, block) /\ Bytes(new[iob], s)
      /\ \A n \in 1 .. Len(r) : r[n] # iob
      /\ \A n \in 1 .. Len(r) : new[r[n]] = block[r[n]]
  BY <1>2
<1> HIDE DEF r, new
<1>5. to \in Ats /\ Row(Append(r, iob), to, a, s + Len(new[iob].buff), new)
  BY <1>1, <1>4, RowAppend
<1> QED BY <1>2, <1>3, <1>5 DEF r, new

\* The blocks that have been handed on stay as they are, and another one follows them.
LEMMA SoundAppend ==
  ASSUME NEW r \in Seq(Blocks), NEW x \in Blocks, NEW new, NEW f,
         \A n \in 1 .. Len(r) : Sound(new[r[n]], f), Sound(new[x], f)
  PROVE  \A n \in 1 .. Len(Append(r, x)) : Sound(new[Append(r, x)[n]], f)
<1> TAKE n \in 1 .. Len(Append(r, x))
<1>1. Len(r) \in Nat /\ n \in 1 .. Len(r) + 1 /\ Append(r, x)[Len(r) + 1] = x /\ \A i \in 1 .. Len(r) : Append(r, x)[i] = r[i]
  OBVIOUS
<1>2. CASE n = Len(r) + 1
  BY <1>1, <1>2
<1>3. CASE n # Len(r) + 1
  <2>1. n \in 1 .. Len(r)
    BY <1>1, <1>3
  <2> QED BY <1>1, <2>1
<1> QED BY <1>2, <1>3

\* read_produce() hands on a full block, and what is beyond the split begins the next.
LEMMA FollowPush ==
  ASSUME NEW k \in Nat, NEW d \in Nat, ReadGiven(k, d), read_produce_push
  PROVE  Following'
<1>r. Reader
  BY DEF Reader
<1>1. StepFacts(k, d)
  BY <1>r, ReaderFacts
<1>2. /\ tpc \in {"work", "loop"} /\ iob # NULL /\ ~HasRoom(iob) /\ depth > 0 /\ block' = Reserved(iob) /\ iob' = head
      /\ cur_work' = iob /\ res' = 0 /\ junk' = junk /\ tpc' = IF junk = 0 THEN "post" ELSE "junked"
      /\ UNCHANGED <<con_flags, queue, offset, crcsumchk, continuous, faulted>>
  BY DEF read_produce_push, Produced, Reserve, tqVars, stateVars
<1>3. cur_work = NULL
  BY <1>1, <1>2 DEF StepFacts, ReaderInv
<1>6. (Placed(k, d))'
  BY <1>1, <1>2 DEF Placed, StepFacts, Located
<1>7. ASSUME Live'
      PROVE  \E s, a \in Int, at \in Ats : (Flow(k, d, s, a, at))' /\ (Synced(d, s, a))'
  <2>0. Live /\ Reading /\ BlockInv /\ TypeOK /\ head \in Blocks /\ iob \in Blocks /\ Curdata = Fill(iob)
    BY <1>1, <1>2, <1>7 DEF StepFacts
  <2>1. PICK s \in Int, a \in Int, at \in Ats : Flow(k, d, s, a, at) /\ Synced(d, s, a)
    BY <1>1, <2>0 DEF Tracked, StepFacts
  <2>2. /\ s = d - Curdata /\ Row(ReadRow, at, a, s, block) /\ Bytes(block[iob], s) /\ Whole(s)
        /\ s + Split > (k - 1) * Payload
        /\ ~faulted => IF junk > 0 THEN block[iob].error_end <= Split ELSE block[iob].error_end = 0
        /\ junk > 0 => s = goffset - junk * Split
        /\ junk = 0 => \A n \in 1 .. Len(ReadRow) : Deliverable(ReadRow[n])
    BY <1>2, <2>1 DEF Flow, JunkDue
  <2>3. /\ iob # head /\ ReadRow \in Seq(Blocks)
        /\ \A n \in 1 .. Len(ReadRow) : ReadRow[n] # iob /\ ReadRow[n] # head /\ ReadRow[n] \in Blocks
    BY <1>2, <2>0, ReadRowApart
  <2>4. /\ block' \in [Blocks -> BlockType]
        /\ \A i \in Blocks : i # iob /\ i # head => block'[i] = block[i]
        /\ Bytes(block'[iob], s) /\ Len(block'[iob].buff) = Split /\ block'[iob].error_end = block[iob].error_end
        /\ Bytes(block'[head], s + Split) /\ Len(block'[head].buff) = Fill(iob) - Split
        /\ block[iob].error_end <= Split => block'[head].error_end = 0
        /\ Fill(iob) \in Nat /\ Fill(iob) >= Split
    BY <1>2, <2>0, <2>2, <2>3, ReservedBytes
  <2>5. \A n \in 1 .. Len(ReadRow) : block'[ReadRow[n]] = block[ReadRow[n]]
    BY <2>3, <2>4
  <2>6. PICK to \in Ats : ReadRow' = Append(ReadRow, iob) /\ Row(ReadRow', to, a, s + Split, block')
    <3>1. UNCHANGED <<miob, queue>>
      BY <1>1, <1>2 DEF StepFacts
    <3> QED BY <1>2, <1>3, <2>0, <2>2, <2>4, <2>5, <3>1, RowHanded
  <2>7. /\ Split \in Nat \ {0} /\ Payload \in Nat \ {0} /\ DataSz \in Nat /\ Whole(Split) /\ k * Payload \in Nat
        /\ (k - 1) * Payload \in Int /\ goffset \in Nat /\ junk \in Nat
    BY <1>1, <2>0, ReadSizes, AtIO DEF StepFacts, TypeOK
  <2>8. Curdata' = Fill(iob) - Split
    BY <1>1, <1>2, <2>0, <2>4 DEF Curdata, Fill, StepFacts
  <2>9. s + Split = d - Curdata'
    BY <2>0, <2>2, <2>4, <2>7, <2>8
  <2>10. ~faulted' => block'[iob'].error_end = 0
    BY <1>2, <2>2, <2>4, <2>7
  <2>11. Whole(s + Split)'
    <3>1. Whole(s + Split)
      BY <2>0, <2>2, <2>7, Wholes
    <3> QED BY <1>1, <3>1 DEF StepFacts
  <2>12. s + Split > (k - 1) * Payload /\ (s + Split) + Split > (k - 1) * Payload
    BY <2>2, <2>7
  <2>13. junk = 0 => \A n \in 1 .. Len(ReadRow') : Deliverable(ReadRow[n])'
    <3> SUFFICES ASSUME junk = 0 PROVE \A n \in 1 .. Len(ReadRow') : Deliverable(ReadRow[n])'
      OBVIOUS
    <3>1. UNCHANGED PartSz /\ faulted' = faulted
      BY <1>1, <1>2 DEF StepFacts
    <3>2. \A n \in 1 .. Len(ReadRow) : Sound(block'[ReadRow[n]], faulted')
      BY <2>2, <2>5, <3>1 DEF Deliverable
    <3>3. Sound(block'[iob], faulted')
      BY <2>2, <2>4, <2>7, <3>1 DEF Sound
    <3>4. \A n \in 1 .. Len(ReadRow') : Sound(block'[ReadRow'[n]], faulted')
      BY <2>0, <2>3, <2>6, <3>2, <3>3, SoundAppend
    <3> QED BY <3>1, <3>4, SoundNext
  <2>14. junk' > 0 => s + Split = goffset' - JunkDue' * Split'
    <3> SUFFICES ASSUME junk > 0 PROVE s + Split = goffset - JunkDue' * Split
      BY <1>1, <1>2 DEF StepFacts
    <3>1. JunkDue' = junk - 1
      BY <1>2 DEF JunkDue
    <3>2. (junk - 1) * Split = junk * Split - Split
      BY <2>7
    <3>3. junk * Split \in Int
      BY <2>7
    <3> QED BY <2>2, <2>7, <3>1, <3>2, <3>3
  <2>15. PICK t \in Int : t = s + Split
    BY <2>7
  <2>16. (Flow(k, d, t, a, to))'
    <3>1. /\ tpc' \notin {"work", "loop"} /\ (tpc' = "junked" => res' = 0) /\ ~(tpc' = "post" /\ res' = 2)
          /\ Split' = Split /\ Payload' = Payload
      BY <1>1, <1>2 DEF StepFacts
    <3>2. Bytes(block'[iob'], t) /\ Row(ReadRow', to, a, t, block')
      BY <1>2, <2>4, <2>6, <2>15
    <3>3. (Whole(t))'
      BY <1>1, <2>11, <2>15 DEF StepFacts, Whole
    <3> QED BY <1>2, <2>9, <2>10, <2>12, <2>13, <2>14, <2>15, <3>1, <3>2, <3>3 DEF Flow
  <2>17. (Synced(d, t, a))'
    BY <1>1, <1>2, <2>1 DEF Synced, Resumes, Flagged, StepFacts
  <2> QED BY <2>16, <2>17
<1> QED BY <1>6, <1>7 DEF Following, Tracked

\* The end of the data is behind the last IO but one.
LEMMA EndPlace ==
  ASSUME TypeOK, NEW k \in Nat, NEW d \in Nat, Located(k, d), d = DataSz
  PROVE  d > (k - 1) * Payload
<1>1. k = NumIOs /\ (NumIOs - 1) * Payload < DataSz /\ (NumIOs - 1) * Payload \in Int /\ DataSz \in Nat
  BY AtIO, ReadSizes
<1> QED BY <1>1

\* The last of the data are handed on.
LEMMA FollowHand ==
  ASSUME NEW k \in Nat, NEW d \in Nat, StepFacts(k, d), Live',
         d = DataSz, tpc \in {"work", "loop"}, junk = 0, iob # NULL, Fill(iob) > 0, cur_work = NULL,
         cur_work' = iob, iob' = NULL, res' = 0, junk' = 0, tpc' = "post",
         UNCHANGED <<block, con_flags, queue, faulted>>
  PROVE  \E s, a \in Int, at \in Ats : (Flow(k, d, s, a, at))' /\ (Synced(d, s, a))'
<1>0. Live /\ Reading /\ BlockInv /\ TypeOK /\ Curdata = Fill(iob) /\ iob \in Blocks /\ block \in [Blocks -> BlockType]
      /\ Located(k, d)
  BY DEF StepFacts
<1>1. PICK s \in Int, a \in Int, at \in Ats : Flow(k, d, s, a, at) /\ Synced(d, s, a)
  BY <1>0 DEF Tracked, StepFacts
<1>2. /\ s = d - Curdata /\ Row(ReadRow, at, a, s, block) /\ Bytes(block[iob], s) /\ Whole(s)
      /\ ~faulted => block[iob].error_end = 0
      /\ \A n \in 1 .. Len(ReadRow) : Deliverable(ReadRow[n])
  BY <1>1 DEF Flow
<1>3. Split \in Nat \ {0} /\ Whole(DataSz) /\ DataSz \in Nat /\ (k - 1) * Payload \in Int /\ d > (k - 1) * Payload
  BY <1>0, ReadSizes, AtIO, EndPlace
<1>4. block[iob].buff \in Seq(Int) /\ Fill(iob) = Len(block[iob].buff) /\ Fill(iob) \in Nat
  BY <1>0 DEF BlockType, Fill
<1>5. PICK to \in Ats : ReadRow' = Append(ReadRow, iob) /\ ReadRow \in Seq(Blocks) /\ Row(ReadRow', to, a, d, block')
  <2>1. PICK to \in Ats : ReadRow' = Append(ReadRow, iob) /\ ReadRow \in Seq(Blocks)
                          /\ Row(ReadRow', to, a, s + Len(block'[iob].buff), block')
    <3>1. UNCHANGED <<miob, queue>> /\ block' \in [Blocks -> BlockType] /\ Bytes(block'[iob], s)
          /\ \A n \in 1 .. Len(ReadRow) : block'[ReadRow[n]] = block[ReadRow[n]]
      BY <1>0, <1>2 DEF StepFacts
    <3> QED BY <1>0, <1>2, <3>1, RowHanded
  <2>2. s + Len(block'[iob].buff) = d
    BY <1>0, <1>2, <1>4
  <2> QED BY <2>1, <2>2
<1>6. \A n \in 1 .. Len(ReadRow') : (Deliverable(ReadRow[n]))'
  <2>1. UNCHANGED PartSz
    BY DEF StepFacts
  <2>2. Whole(Fill(iob))
    <3>1. Fill(iob) = DataSz - s
      BY <1>0, <1>2, <1>4
    <3>2. Whole(DataSz - s)
      BY <1>0, <1>2, <1>3, Wholes
    <3> QED BY <3>1, <3>2
  <2>3. \A n \in 1 .. Len(ReadRow) : Sound(block'[ReadRow[n]], faulted')
    BY <1>2 DEF Deliverable
  <2>4. Sound(block'[iob], faulted')
    BY <1>2, <1>4, <2>2 DEF Sound
  <2>5. \A n \in 1 .. Len(ReadRow') : Sound(block'[ReadRow'[n]], faulted')
    BY <1>0, <1>5, <2>3, <2>4, SoundAppend
  <2> QED BY <2>1, <2>5, SoundNext
<1>7. (Flow(k, d, d, a, to))'
  <2>1. Curdata' = 0 /\ d = d - 0
    BY DEF Curdata
  <2>2. (Whole(d))' /\ Split' = Split /\ Payload' = Payload
    BY <1>3 DEF StepFacts
  <2>3. d + Split > (k - 1) * Payload
    BY <1>3
  <2> QED BY <1>3, <1>5, <1>6, <2>1, <2>2, <2>3 DEF Flow
<1>8. (Synced(d, d, a))'
  BY <1>1 DEF Synced, Resumes, Flagged, StepFacts
<1> QED BY <1>7, <1>8

\* read_produce() hands on what is left when the data end.
LEMMA FollowLast ==
  ASSUME NEW k \in Nat, NEW d \in Nat, ReadGiven(k, d), read_produce_last
  PROVE  Following'
<1>r. Reader
  BY DEF Reader
<1>1. StepFacts(k, d)
  BY <1>r, ReaderFacts
<1>2. /\ tpc = "loop" /\ HasRoom(iob) /\ ToRead = 0 /\ cur_work' = iob /\ res' = 0 /\ iob' = NULL
      /\ junk' = junk /\ tpc' = IF junk = 0 THEN "post" ELSE "junked"
      /\ UNCHANGED <<block, con_flags, queue, offset, crcsumchk, continuous, faulted>>
  BY DEF read_produce_last, Produced, ringVars, tqVars, stateVars
<1>3. cur_work = NULL /\ iob # NULL /\ Fill(iob) < Split
  BY <1>1, <1>2 DEF StepFacts, ReaderInv, HasRoom
<1>4. d = DataSz
  BY <1>1, <1>2, NextIO DEF StepFacts
<1>5. (Placed(k, d))'
  BY <1>1, <1>2 DEF Placed, StepFacts, Located
<1>6. ASSUME Live'
      PROVE  \E s, a \in Int, at \in Ats : (Flow(k, d, s, a, at))' /\ (Synced(d, s, a))'
  <2>1. Live
    BY <1>1, <1>6 DEF StepFacts
  <2>2. PICK s \in Int, a \in Int, at \in Ats : Flow(k, d, s, a, at) /\ Synced(d, s, a)
    BY <1>1, <2>1 DEF Tracked, StepFacts
  <2>3. Fill(iob) > 0 /\ s = d - Fill(iob) /\ (junk > 0 => s = goffset - junk * Split)
    BY <1>1, <1>2, <1>3, <2>2 DEF Flow, StepFacts, JunkDue
  <2>4. junk = 0
    <3> SUFFICES ASSUME junk > 0 PROVE FALSE
      BY <1>1 DEF StepFacts
    <3>1. /\ Split \in Nat \ {0} /\ junk \in Nat /\ goffset \in Nat /\ goffset < DataSz /\ DataSz \in Nat
          /\ Fill(iob) \in Nat
      BY <1>1, <1>3, ReadSizes DEF StepFacts, ReadState, TypeOK
    <3>2. 1 * Split <= junk * Split /\ 1 * Split = Split /\ junk * Split \in Int
      BY <3>1, Multiples
    <3> QED BY <1>3, <1>4, <2>3, <3>1, <3>2
  <2> QED BY <1>1, <1>2, <1>3, <1>4, <1>6, <2>3, <2>4, FollowHand
<1> QED BY <1>5, <1>6 DEF Following, Tracked

\* read_produce() is called at the end of the data.
LEMMA FollowEnd ==
  ASSUME NEW k \in Nat, NEW d \in Nat, ReadGiven(k, d), read_produce_end
  PROVE  Following'
<1>r. Reader
  BY DEF Reader
<1>1. StepFacts(k, d)
  BY <1>r, ReaderFacts
<1>2. /\ tpc = "work" /\ offset >= StoredBlock /\ junk' = junk /\ tpc' = IF junk = 0 THEN "post" ELSE "junked"
      /\ UNCHANGED <<block, con_flags, queue, offset, crcsumchk, continuous, faulted>>
      /\ IF iob # NULL /\ Fill(iob) > 0
         THEN cur_work' = iob /\ res' = 0 /\ iob' = NULL
         ELSE cur_work' = NULL /\ res' = 2 /\ iob' = iob
  BY DEF read_produce_end, Produced, ringVars, tqVars
<1>3. cur_work = NULL
  BY <1>1, <1>2 DEF StepFacts, ReaderInv
<1>4. d = DataSz /\ ~(d < DataSz)
  <2>1. TypeOK /\ Located(k, d) /\ offset \in Nat /\ StoredBlock \in Nat /\ DataSz \in Nat
    BY <1>1, ReadSizes DEF StepFacts, TypeOK
  <2>2. ~(offset < StoredBlock)
    BY <1>2, <2>1
  <2>3. ~(d < DataSz) /\ d <= DataSz
    BY <2>1, <2>2, AtIO
  <2> QED BY <2>1, <2>3
<1>5. (Placed(k, d))'
  BY <1>1, <1>2 DEF Placed, StepFacts, Located
<1>6. ASSUME Live'
      PROVE  \E s, a \in Int, at \in Ats : (Flow(k, d, s, a, at))' /\ (Synced(d, s, a))'
  <2>1. Live
    BY <1>1, <1>6 DEF StepFacts
  <2>2. PICK s \in Int, a \in Int, at \in Ats : Flow(k, d, s, a, at) /\ Synced(d, s, a)
    BY <1>1, <2>1 DEF Tracked, StepFacts
  <2>3. junk = 0
    BY <1>1, <1>2, <1>4, <2>2 DEF Flow, StepFacts
  <2>4. CASE iob # NULL /\ Fill(iob) > 0
    BY <1>1, <1>2, <1>3, <1>4, <1>6, <2>3, <2>4, FollowHand
  <2>5. CASE ~(iob # NULL /\ Fill(iob) > 0)
    <3>1. Curdata = 0
      BY <1>1, <2>5 DEF StepFacts, Curdata
    <3>2. s = d
      BY <1>1, <2>2, <3>1 DEF Flow
    <3>3. /\ ReadRow' = ReadRow /\ Curdata' = Curdata /\ UNCHANGED <<iob, block, junk>> /\ cur_work' = NULL /\ res' = 2
          /\ tpc' = "post" /\ Payload' = Payload /\ Split' = Split /\ faulted' = faulted /\ UNCHANGED <<PartSz, DataSz>>
          /\ (Whole(s)' <=> Whole(s))
      BY <1>1, <1>2, <1>3, <2>3, <2>5 DEF ReadRow, StepFacts, Curdata, Fill
    <3>4. \A n \in 1 .. Len(ReadRow) : (Deliverable(ReadRow[n]))'
      <4>1. \A n \in 1 .. Len(ReadRow) : Sound(block'[ReadRow'[n]], faulted')
        BY <2>2, <2>3, <3>3 DEF Flow, Deliverable
      <4> QED BY <3>3, <4>1, SoundNext
    <3>5. (Flow(k, d, s, a, at))'
      <4>1. /\ s = d - Curdata' /\ Row(ReadRow', at, a, s, block') /\ (Whole(s))'
            /\ s + Split' > (k - 1) * Payload' /\ s > (k - 1) * Payload'
        BY <1>2, <2>2, <2>3, <3>3 DEF Flow
      <4>2. iob' # NULL => Bytes(block'[iob'], s) /\ (~faulted' => block'[iob'].error_end = 0)
        BY <1>2, <2>2, <2>3, <3>3 DEF Flow
      <4>3. \A n \in 1 .. Len(ReadRow') : (Deliverable(ReadRow[n]))'
        BY <3>3, <3>4
      <4> QED BY <1>4, <2>3, <3>2, <3>3, <4>1, <4>2, <4>3 DEF Flow
    <3>6. (Synced(d, s, a))'
      BY <1>1, <1>2, <2>2, <2>3 DEF Synced, Resumes, Flagged, StepFacts
    <3> QED BY <3>5, <3>6
  <2> QED BY <2>4, <2>5
<1> QED BY <1>5, <1>6 DEF Following, Tracked

\* producer_thread() after the work function, or woken by a flag.
LEMMA FollowProducer ==
  ASSUME NEW k \in Nat, NEW d \in Nat, ReadGiven(k, d), producer_post \/ producer_wake
  PROVE  Following'
<1>r. Reader
  BY DEF Reader
<1>1. StepFacts(k, d)
  BY <1>r, ReaderFacts
<1>2. /\ UNCHANGED <<block, iob, offset, junk, res, crcsumchk, continuous, faulted>>
  BY DEF producer_post, producer_wake, ringVars, stateVars
<1>3. tpc \in {"post", "halted"} /\ junk = 0
  BY <1>1 DEF producer_post, producer_wake, StepFacts, ReaderInv
<1>4. PICK flags : Loop(flags, cur_work)
  BY DEF producer_post, producer_wake
<1>5. (Placed(k, d))'
  BY <1>1, <1>2 DEF Placed, StepFacts, Located
<1>6. ASSUME Live'
      PROVE  \E s, a \in Int, at \in Ats : (Flow(k, d, s, a, at))' /\ (Synced(d, s, a))'
  <2>1. Live
    BY <1>1, <1>6 DEF StepFacts
  <2>2. PICK s \in Int, a \in Int, at \in Ats : Flow(k, d, s, a, at) /\ Synced(d, s, a)
    BY <1>1, <2>1 DEF Tracked, StepFacts
  <2>3. ReadRow' = ReadRow
    <3>1. miob \in Places /\ queue \in Seq(Blocks) /\ cur_work \in Places /\ NULL \in Places /\ miob' = miob
      BY <1>1, PlacesType DEF StepFacts, TypeOK, Places
    <3>2. CASE cur_work' = cur_work /\ queue' = queue
      BY <3>1, <3>2 DEF ReadRow
    <3>3. CASE cur_work' = NULL /\ queue' = IF cur_work = NULL THEN queue ELSE Append(queue, cur_work)
      <4>1. CASE cur_work = NULL
        BY <3>1, <3>3, <4>1 DEF ReadRow
      <4>2. CASE cur_work # NULL
        <5>1. Held(miob, Append(queue, cur_work), NULL, NULL) = Held(miob, queue, NULL, cur_work)
          BY <3>1, <4>2, HeldMoves
        <5> QED BY <3>1, <3>3, <4>2, <5>1 DEF ReadRow
      <4> QED BY <4>1, <4>2
    <3> QED BY <1>4, <3>2, <3>3, LoopEffect
  <2>4. \A n \in 1 .. Len(ReadRow) : (Deliverable(ReadRow[n]))'
    <3>1. UNCHANGED PartSz /\ \A n \in 1 .. Len(ReadRow) : Sound(block'[ReadRow'[n]], faulted')
      BY <1>1, <1>2, <1>3, <2>2, <2>3 DEF Flow, Deliverable, StepFacts
    <3> QED BY <3>1, SoundNext
  <2>5. tpc' \in {"work", "halted", "term"}
    BY <1>4, LoopEffect
  <2>6. (Flow(k, d, s, a, at))'
    <3>1. /\ s = d - Curdata' /\ Row(ReadRow', at, a, s, block') /\ (Whole(s))'
          /\ s + Split' > (k - 1) * Payload' /\ s > (k - 1) * Payload'
          /\ iob' # NULL => Bytes(block'[iob'], s) /\ (~faulted' => block'[iob'].error_end = 0)
      <4>1. Curdata' = Curdata /\ (Whole(s))' = Whole(s) /\ Split' = Split /\ Payload' = Payload
        BY <1>1, <1>2 DEF StepFacts, Curdata, Fill, Whole
      <4> QED BY <1>2, <1>3, <2>2, <2>3, <4>1 DEF Flow
    <3>2. \A n \in 1 .. Len(ReadRow') : (Deliverable(ReadRow[n]))'
      BY <2>3, <2>4
    <3> QED BY <1>2, <1>3, <2>5, <3>1, <3>2 DEF Flow
  <2>7. (Synced(d, s, a))'
    <3> SUFFICES ASSUME mpc \in {"idle", "dequeue"} PROVE (Synced(d, s, a))'
      BY <1>1 DEF Synced, StepFacts
    <3>1. ~Flagged("FINISHED") /\ ~Flagged("ABORT")
      BY <1>1 DEF StepFacts, ReadState, Aborting, BlockInv, CtlInv, FlagInv, Ending
    <3>2. producer_post /\ tpc = "post" /\ ~first
      BY <1>1, <1>3, <3>1 DEF producer_wake, producer_post, StepFacts, ReaderInv
    <3>3. ~Flagged("HALT")
      BY <2>2, <3>2 DEF Synced
    <3>4. a = iob_offset
      BY <1>3, <2>2, <3>2 DEF Synced, Resumes
    <3>5. Loop(IF res = 2 THEN con_flags \cup {"HALT"} ELSE con_flags, cur_work)
      BY <3>1, <3>2 DEF producer_post
    <3>6. /\ ~((tpc = "halted")' /\ "HALT" \notin con_flags')
          /\ "HALT" \in con_flags' => tpc' = "halted" /\ res = 2 /\ cur_work' = cur_work
      BY <3>1, <3>2, <3>3, <3>5 DEF Loop, Flagged
    <3>7. res = 2 => d = DataSz /\ s = d /\ cur_work = NULL
      BY <2>2, <3>2 DEF Flow
    <3> QED BY <1>1, <1>2, <1>3, <3>4, <3>6, <3>7 DEF Synced, Resumes, Flagged, StepFacts
  <2> QED BY <2>6, <2>7
<1> QED BY <1>5, <1>6 DEF Following, Tracked

\* Nothing is handed on while the thread resumes.
LEMMA RowCleared ==
  ASSUME BlockInv, Reading, ~Aborting, junk > 0 \/ (tpc = "halted" /\ ~Flagged("HALT")),
         cur_work' = NULL, UNCHANGED <<miob, queue>>
  PROVE  ReadRow' = <<>>
<1>1. miob' = NULL /\ queue' = <<>>
  BY DEF BlockInv, CtlInv, ResumeInv
<1>2. Held(NULL, <<>>, NULL, NULL) = <<>>
  <2>1. <<>> \o <<>> = <<>>
    OBVIOUS
  <2> QED BY <2>1 DEF Held, Hold
<1> QED BY <1>1, <1>2 DEF ReadRow

\* What is known of a thread that has handed on nothing, and has no junk to make, ...
LEMMA FlowClean ==
  ASSUME NEW k \in Nat, NEW d \in Nat, NEW s \in Int, ReadRow' = <<>>, s = d - Curdata',
         iob' # NULL => Bytes(block'[iob'], s),
         iob' # NULL /\ ~faulted' => block'[iob'].error_end = 0,
         (Whole(s))', s + Split' > (k - 1) * Payload', s > (k - 1) * Payload',
         tpc' \in {"work", "halted", "term"}, junk' = 0
  PROVE  \E at \in Ats : (Flow(k, d, s, s, at))'
<1>1. PICK at \in Ats : TRUE
  <2>1. [b \in Blocks |-> 0] \in Ats
    BY DEF Ats
  <2> QED BY <2>1
<1>2. Len(ReadRow') = 0 /\ Row(ReadRow', at, s, s, block')
  BY RowEmpty
<1>3. \A n \in 1 .. Len(ReadRow') : (Deliverable(ReadRow[n]))'
  BY <1>2
<1>4. (Flow(k, d, s, s, at))'
  BY <1>2, <1>3 DEF Flow, JunkDue
<1> QED BY <1>4

\* ... and of one that has.
LEMMA FlowJunk ==
  ASSUME NEW k \in Nat, NEW d \in Nat, NEW s \in Int, ReadRow' = <<>>, s = d - Curdata',
         iob' # NULL => Bytes(block'[iob'], s),
         iob' # NULL /\ ~faulted' => block'[iob'].error_end <= Split',
         (Whole(s))', s + Split' > (k - 1) * Payload',
         tpc' = "work", junk' \in Nat \ {0}, s = goffset' - junk' * Split', d < DataSz'
  PROVE  \E at \in Ats : (Flow(k, d, s, s, at))'
<1>1. PICK at \in Ats : TRUE
  <2>1. [b \in Blocks |-> 0] \in Ats
    BY DEF Ats
  <2> QED BY <2>1
<1>2. Len(ReadRow') = 0 /\ Row(ReadRow', at, s, s, block')
  BY RowEmpty
<1>3. junk' > 0 /\ junk' # 0
  OBVIOUS
<1>4. (Flow(k, d, s, s, at))'
  BY <1>2, <1>3 DEF Flow, JunkDue
<1> QED BY <1>4

\* What is given to read_resume().
LEMMA ResumeFacts ==
  ASSUME NEW k \in Nat, NEW d \in Nat, StepFacts(k, d), Live, Resuming,
         NEW s \in Int, NEW a \in Int, NEW at \in Ats, Flow(k, d, s, a, at), Synced(d, s, a)
  PROVE  /\ junk = 0 /\ ~Aborting /\ ~Flagged("HALT") /\ goffset < DataSz /\ Whole(goffset) /\ CrcBytes % PartSz # 0
         /\ s = d - Curdata /\ Whole(s) /\ s > (k - 1) * Payload /\ (mpc \in {"idle", "dequeue"} => goffset = iob_offset)
         /\ iob # NULL => Bytes(block[iob], s) /\ (~faulted => block[iob].error_end = 0)
<1>1. junk = 0 /\ tpc = "halted" /\ ~Flagged("HALT")
  BY DEF Resuming, StepFacts, ReaderInv
<1>2. mpc \in {"idle", "dequeue"} => goffset = iob_offset
  BY <1>1 DEF Synced, Resumes
<1> QED BY <1>1, <1>2 DEF Flow, Live, StepFacts, ReadState

\* The thread goes on after read_resume(), with what begins where the master reads next.
LEMMA SyncedFresh ==
  ASSUME NEW d \in Nat, NEW s \in Int, NEW flags, Loop(flags, NULL), "HALT" \notin flags \/ mpc' \notin {"idle", "dequeue"},
         junk' = 0, mpc' \in {"idle", "dequeue"} => s = iob_offset'
  PROVE  (Synced(d, s, s))'
<1>1. con_flags' = flags /\ (tpc' = "halted" => "HALT" \in flags)
  BY LoopEffect
<1> QED BY <1>1 DEF Synced, Resumes, Flagged

\* The block in progress begins at the new offset already.
LEMMA FollowStay ==
  ASSUME NEW k \in Nat, NEW d \in Nat, ReadGiven(k, d), read_resume_stay
  PROVE  Following'
<1>r. Reader
  BY DEF Reader
<1>1. StepFacts(k, d)
  BY <1>r, ReaderFacts
<1>2. /\ Resuming /\ ~IsSeek /\ Loop(con_flags, NULL)
      /\ UNCHANGED <<block, iob, offset, junk, res, crcsumchk, continuous, faulted>>
  BY DEF read_resume_stay, stateVars
<1>3. (Placed(k, d))'
  BY <1>1, <1>2 DEF Placed, StepFacts, Located
<1>4. ASSUME Live'
      PROVE  \E s, a \in Int, at \in Ats : (Flow(k, d, s, a, at))' /\ (Synced(d, s, a))'
  <2>1. Live
    BY <1>1, <1>4 DEF StepFacts
  <2>2. PICK s \in Int, a \in Int, at \in Ats : Flow(k, d, s, a, at) /\ Synced(d, s, a)
    BY <1>1, <2>1 DEF Tracked, StepFacts
  <2>3. /\ junk = 0 /\ ~Aborting /\ ~Flagged("HALT") /\ goffset < DataSz /\ Whole(goffset) /\ CrcBytes % PartSz # 0
        /\ s = d - Curdata /\ Whole(s) /\ s > (k - 1) * Payload /\ (mpc \in {"idle", "dequeue"} => goffset = iob_offset)
        /\ iob # NULL => Bytes(block[iob], s) /\ (~faulted => block[iob].error_end = 0)
    BY <1>1, <1>2, <2>1, <2>2, ResumeFacts
  <2>4. s = goffset
    <3>1. TypeOK /\ Located(k, d) /\ Curdata \in Nat
      BY <1>1 DEF StepFacts
    <3> QED BY <1>2, <2>3, <3>1, SeekSeen
  <2>5. ReadRow' = <<>> /\ tpc' \in {"work", "halted", "term"}
    <3>1. cur_work' = NULL /\ queue' = queue /\ tpc' \in {"work", "halted", "term"}
      BY <1>2, LoopEffect
    <3> QED BY <1>1, <1>2, <2>3, <3>1, RowCleared DEF StepFacts, Resuming
  <2>6. \E to \in Ats : (Flow(k, d, s, s, to))'
    <3>1. Curdata' = Curdata /\ (Whole(s) => (Whole(s))') /\ Split' = Split /\ Payload' = Payload
      BY <1>1, <1>2 DEF StepFacts, Curdata, Fill, Whole
    <3>2. s + Split > (k - 1) * Payload
      <4>1. Split \in Nat /\ (k - 1) * Payload \in Int
        BY <1>1, ReadSizes, AtIO DEF StepFacts
      <4> QED BY <2>3, <4>1
    <3>3. s = d - Curdata' /\ (Whole(s))' /\ s + Split' > (k - 1) * Payload' /\ s > (k - 1) * Payload'
      BY <2>3, <3>1, <3>2
    <3>4. (iob' # NULL => Bytes(block'[iob'], s)) /\ (iob' # NULL /\ ~faulted' => block'[iob'].error_end = 0) /\ junk' = 0
      BY <1>2, <2>3
    <3> QED BY <2>5, <3>3, <3>4, FlowClean
  <2>7. (Synced(d, s, s))'
    <3>1. "HALT" \notin con_flags /\ (mpc' \in {"idle", "dequeue"} => s = iob_offset')
      BY <1>1, <2>3, <2>4 DEF StepFacts, Flagged
    <3> QED BY <1>2, <2>3, <3>1, SyncedFresh
  <2> QED BY <2>6, <2>7
<1> QED BY <1>3, <1>4 DEF Following, Tracked

\* Where a seek leads.
LEMMA PlacedFresh ==
  ASSUME NEW k \in Nat, NEW d \in Nat, StepFacts(k, d), Resuming, Reseek, faulted' = faulted
  PROVE  \E i, e \in Nat : (Placed(i, e))' /\ i = IoCount /\ e = IoCount * Payload /\ e < DataSz
                           /\ (i - 1) * Payload' < e
<1>1. TypeOK /\ goffset < DataSz /\ UNCHANGED <<Payload, DataSz, NumIOs>>
  BY DEF StepFacts, ReadState
<1>2. /\ IoCount \in Nat /\ IoCount * Payload \in Nat /\ IoCount * Payload < DataSz
      /\ IoCount * minfo.versz = IoCount * Payload + IoCount * CrcBytes
  BY <1>1, SeekTarget
<1>3. PICK i \in Nat, e \in Nat : i = IoCount /\ e = IoCount * Payload
  BY <1>2
<1>4. (Located(i, e))'
  BY <1>1, <1>2, <1>3 DEF Located, Reseek
<1>5. continuous' => crcsumchk' = CrcsTo(i)'
  <2>1. (\A n : (CrcsTo(n))' = CrcsTo(n)) /\ \A x \in IOs : ~(x < 0)
    BY DEF StepFacts, IOs
  <2>2. NoCrcs = CrcsTo(0)
    BY <2>1 DEF NoCrcs, CrcsTo
  <2> QED BY <1>3, <2>1, <2>2 DEF Reseek
<1>6. (i - 1) * Payload' < e
  <2>1. Payload \in Nat \ {0}
    BY <1>1, ReadSizes
  <2>2. (i - 1) * Payload = i * Payload - Payload
    BY <2>1
  <2>3. i * Payload \in Int
    BY <2>1
  <2> QED BY <1>1, <1>3, <2>1, <2>2, <2>3
<1> QED BY <1>2, <1>3, <1>4, <1>5, <1>6 DEF Placed

\* A seek to the beginning of an IO.
LEMMA FollowSeek ==
  ASSUME NEW k \in Nat, NEW d \in Nat, ReadGiven(k, d), read_resume_seek
  PROVE  Following'
<1>r. Reader
  BY DEF Reader
<1>1. StepFacts(k, d)
  BY <1>r, ReaderFacts
<1>2. /\ Resuming /\ Trim = 0 /\ Reseek /\ Loop(con_flags, NULL) /\ iob' = IF Curdata # 0 THEN NULL ELSE iob
      /\ UNCHANGED <<block, junk, res, faulted>>
  BY DEF read_resume_seek, stateVars
<1>3. PICK i \in Nat, e \in Nat :
        (Placed(i, e))' /\ i = IoCount /\ e = IoCount * Payload /\ e < DataSz /\ (i - 1) * Payload' < e
  BY <1>1, <1>2, PlacedFresh
<1>4. ASSUME Live'
      PROVE  \E s, a \in Int, at \in Ats : (Flow(i, e, s, a, at))' /\ (Synced(e, s, a))'
  <2>1. Live
    BY <1>1, <1>4 DEF StepFacts
  <2>2. PICK s \in Int, a \in Int, at \in Ats : Flow(k, d, s, a, at) /\ Synced(d, s, a)
    BY <1>1, <2>1 DEF Tracked, StepFacts
  <2>3. /\ junk = 0 /\ ~Aborting /\ ~Flagged("HALT") /\ goffset < DataSz /\ Whole(goffset) /\ CrcBytes % PartSz # 0
        /\ s = d - Curdata /\ Whole(s) /\ s > (k - 1) * Payload /\ (mpc \in {"idle", "dequeue"} => goffset = iob_offset)
        /\ iob # NULL => Bytes(block[iob], s) /\ (~faulted => block[iob].error_end = 0)
    BY <1>1, <1>2, <2>1, <2>2, ResumeFacts
  <2>4. e = goffset
    <3>1. goffset = IoCount * Payload + Trim /\ IoCount * Payload \in Nat
      BY <1>1, <2>3, SeekTarget DEF StepFacts
    <3> QED BY <1>2, <1>3, <3>1
  <2>5. ReadRow' = <<>> /\ tpc' \in {"work", "halted", "term"}
    <3>1. cur_work' = NULL /\ queue' = queue /\ tpc' \in {"work", "halted", "term"}
      BY <1>2, LoopEffect
    <3> QED BY <1>1, <1>2, <2>3, <3>1, RowCleared DEF StepFacts, Resuming
  <2>6. Curdata' = 0 /\ (iob' # NULL => iob' = iob /\ Len(block'[iob'].buff) = 0)
    BY <1>1, <1>2 DEF StepFacts, Curdata, Fill
  <2>7. \E to \in Ats : (Flow(i, e, e, e, to))'
    <3>1. (Whole(e))' /\ Split' \in Nat \ {0} /\ e = e - Curdata' /\ Payload' \in Nat
      <4>1. Split \in Nat \ {0} /\ Split' = Split /\ Payload \in Nat /\ Payload' = Payload
        BY <1>1, ReadSizes DEF StepFacts
      <4> QED BY <1>1, <2>3, <2>4, <2>6, <4>1 DEF StepFacts, Whole
    <3>2. e + Split' > (i - 1) * Payload' /\ e > (i - 1) * Payload'
      BY <1>3, <3>1
    <3>3. iob' # NULL => Bytes(block'[iob'], e)
      BY <2>6 DEF Bytes
    <3>4. iob' # NULL /\ ~faulted' => block'[iob'].error_end = 0
      BY <1>2, <2>3, <2>6
    <3>5. junk' = 0 /\ e \in Int /\ (Whole(e))' /\ e = e - Curdata'
      BY <1>2, <2>3, <3>1
    <3> QED BY <2>5, <3>2, <3>3, <3>4, <3>5, FlowClean
  <2>8. (Synced(e, e, e))'
    <3>1. "HALT" \notin con_flags /\ (mpc' \in {"idle", "dequeue"} => e = iob_offset') /\ junk' = 0
      BY <1>1, <1>2, <2>3, <2>4 DEF StepFacts, Flagged
    <3> QED BY <1>2, <3>1, SyncedFresh
  <2> QED BY <2>7, <2>8
<1> QED BY <1>3, <1>4 DEF Following, Tracked

\* A seek into an IO: the block that is begun holds nothing but junk.
LEMMA FollowAlign ==
  ASSUME NEW k \in Nat, NEW d \in Nat, ReadGiven(k, d), read_resume_align
  PROVE  Following'
<1>r. Reader
  BY DEF Reader
<1>1. StepFacts(k, d)
  BY <1>r, ReaderFacts
<1>2. /\ Resuming /\ Reseek /\ junk' = JunkBlocks(Trim) /\ tpc' = "work" /\ cur_work' = NULL
      /\ UNCHANGED <<con_flags, queue, faulted>>
  BY DEF read_resume_align, stateVars, tqVars
<1>3. iob' \in Blocks /\ block' = Aligned(iob')
  BY <1>1 DEF read_resume_align, StepFacts
<1>4. PICK i \in Nat, e \in Nat :
        (Placed(i, e))' /\ i = IoCount /\ e = IoCount * Payload /\ e < DataSz /\ (i - 1) * Payload' < e
  BY <1>1, <1>2, PlacedFresh
<1>5. ASSUME Live'
      PROVE  \E s, a \in Int, at \in Ats : (Flow(i, e, s, a, at))' /\ (Synced(e, s, a))'
  <2>1. Live
    BY <1>1, <1>5 DEF StepFacts
  <2>2. PICK s \in Int, a \in Int, at \in Ats : Flow(k, d, s, a, at) /\ Synced(d, s, a)
    BY <1>1, <2>1 DEF Tracked, StepFacts
  <2>3. ~Aborting /\ ~Flagged("HALT") /\ goffset < DataSz /\ Whole(goffset) /\ (mpc \in {"idle", "dequeue"} => goffset = iob_offset)
    BY <1>1, <1>2, <2>1, <2>2, ResumeFacts
  <2>4. ReadRow' = <<>>
    BY <1>1, <1>2, <2>3, RowCleared DEF StepFacts, Resuming
  <2> DEFINE ff == Falsefill(Trim)  j == JunkBlocks(Trim)
  <2>5. /\ j \in Nat \ {0} /\ ff \in 1 .. Split /\ j * Split \in Nat /\ e - ff = goffset - j * Split
        /\ Whole(goffset - j * Split) /\ Split \in Nat \ {0} /\ goffset \in Nat
    BY <1>1, <1>4, <2>3, AlignPlace, ReadSizes DEF StepFacts, TypeOK
  <2>6. Len(block'[iob'].buff) = ff /\ block'[iob'].error_end = ff
    <3>1. block'[iob'] = [buff |-> Junk(ff), error_end |-> ff]
      BY <1>1, <1>3 DEF Aligned, StepFacts
    <3>2. ff \in Nat
      BY <2>5
    <3> HIDE DEF ff
    <3>3. Len(Junk(ff)) = ff
      BY <3>2 DEF Junk
    <3> QED BY <3>1, <3>3
  <2>7. junk' = j
    BY <1>2
  <2> HIDE DEF ff, j
  <2>8. PICK t \in Int : t = e - ff
    BY <2>5
  <2>9. Curdata' = ff
    <3>1. iob' # NULL
      BY <1>1, <1>3 DEF StepFacts
    <3> QED BY <2>6, <3>1 DEF Curdata, Fill
  <2>10. \E to \in Ats : (Flow(i, e, t, t, to))'
    <3>1. t = e - Curdata' /\ t + Split' > (i - 1) * Payload'
      <4>1. t + Split >= e /\ t = e - ff /\ Split' = Split
        BY <1>1, <2>5, <2>8 DEF StepFacts
      <4>2. (i - 1) * Payload' \in Int
        <5>1. Payload \in Nat /\ Payload' = Payload
          BY <1>1, ReadSizes DEF StepFacts
        <5> QED BY <5>1
      <4> QED BY <1>4, <2>5, <2>8, <2>9, <4>1, <4>2
    <3>2. (Whole(t))'
      <4>1. Whole(t) /\ (\A x : Whole(x) <=> Whole(x)')
        BY <1>1, <2>5, <2>8 DEF StepFacts
      <4> QED BY <1>1, <4>1 DEF Whole, StepFacts
    <3>3. Bytes(block'[iob'], t)
      BY <2>5, <2>6 DEF Bytes
    <3>4. block'[iob'].error_end <= Split'
      BY <1>1, <2>5, <2>6 DEF StepFacts
    <3>5. t = goffset' - junk' * Split' /\ e < DataSz' /\ junk' \in Nat \ {0} /\ tpc' = "work"
      BY <1>1, <1>2, <1>4, <2>5, <2>7, <2>8 DEF StepFacts
    <3> QED BY <2>4, <3>1, <3>2, <3>3, <3>4, <3>5, FlowJunk
  <2>11. (Synced(e, t, t))'
    <3>1. junk' > 0 /\ ~(Flagged("HALT")') /\ (mpc' \in {"idle", "dequeue"} => goffset' = iob_offset')
      BY <1>1, <1>2, <2>3, <2>5, <2>7 DEF StepFacts, Flagged
    <3> QED BY <3>1 DEF Synced, Resumes
  <2> QED BY <2>10, <2>11
<1> QED BY <1>4, <1>5 DEF Following, Tracked

\* read_resume() throws a junk block away.
LEMMA FollowJunk ==
  ASSUME NEW k \in Nat, NEW d \in Nat, ReadGiven(k, d), junk_block
  PROVE  Following'
<1>r. Reader
  BY DEF Reader
<1>1. StepFacts(k, d)
  BY <1>r, ReaderFacts
<1>2. /\ tpc = "junked" /\ junk > 0 /\ junk \in Nat
      /\ junk' = IF res = 0 THEN junk - 1 ELSE 0
      /\ IF junk' > 0
         THEN tpc' = "work" /\ cur_work' = NULL /\ UNCHANGED <<first, tqVars>>
         ELSE Loop(IF res = 0 THEN con_flags ELSE con_flags \cup {"ABORT"}, NULL)
      /\ UNCHANGED <<offset, iob, crcsumchk, continuous, faulted>>
  BY <1>1 DEF junk_block, stateVars, StepFacts, ReaderInv
<1>3. block' = block
  BY DEF junk_block, Released, ringVars
<1>4. (Placed(k, d))'
  BY <1>1, <1>2 DEF Placed, StepFacts, Located
<1>5. ASSUME Live'
      PROVE  \E s, a \in Int, at \in Ats : (Flow(k, d, s, a, at))' /\ (Synced(d, s, a))'
  <2>1. Live
    BY <1>1, <1>5 DEF StepFacts
  <2>2. PICK s \in Int, a \in Int, at \in Ats : Flow(k, d, s, a, at) /\ Synced(d, s, a)
    BY <1>1, <2>1 DEF Tracked, StepFacts
  <2>3. /\ res = 0 /\ s = goffset - (junk - 1) * Split /\ s = d - Curdata /\ Whole(s) /\ s > (k - 1) * Payload
        /\ s + Split > (k - 1) * Payload
        /\ iob # NULL => Bytes(block[iob], s) /\ (~faulted => block[iob].error_end = 0)
        /\ (mpc \in {"idle", "dequeue"} => goffset = iob_offset /\ ~Flagged("HALT"))
    BY <1>2, <2>2 DEF Flow, JunkDue, Synced, Resumes
  <2>4. /\ junk' = junk - 1 /\ ~Aborting /\ goffset < DataSz /\ Whole(goffset) /\ TypeOK /\ Located(k, d)
    BY <1>1, <1>2, <2>1, <2>3 DEF StepFacts, ReadState, Live
  <2>5. ReadRow' = <<>>
    <3>1. cur_work' = NULL /\ UNCHANGED queue
      BY <1>2, LoopEffect DEF tqVars
    <3> QED BY <1>1, <1>2, <2>4, <3>1, RowCleared DEF StepFacts
  <2>6. /\ Split \in Nat \ {0} /\ Payload \in Nat \ {0} /\ PartSz \in Nat \ {0} /\ DataSz \in Nat \ {0} /\ Whole(DataSz)
        /\ Payload < Split + PartSz /\ (k - 1) * Payload \in Int /\ d <= DataSz /\ goffset \in Nat /\ Whole(Split)
        /\ k * Payload = (k - 1) * Payload + Payload /\ (d = DataSz => d <= k * Payload)
    BY <1>1, <2>4, ReadSizes, AtIO DEF StepFacts, TypeOK
  <2>7. /\ s = d - Curdata' /\ (Whole(s))' /\ s + Split' > (k - 1) * Payload' /\ s > (k - 1) * Payload'
        /\ Split' = Split /\ Payload' = Payload /\ DataSz' = DataSz
    <3>1. Curdata' = Curdata /\ (Whole(s) => (Whole(s))') /\ Split' = Split /\ Payload' = Payload /\ DataSz' = DataSz
      BY <1>1, <1>2, <1>3 DEF StepFacts, Curdata, Fill, Whole
    <3> QED BY <2>3, <3>1
  <2>8. iob' # NULL => Bytes(block'[iob'], s) /\ (~faulted' => block'[iob'].error_end = 0)
    BY <1>2, <1>3, <2>3
  <2>9. CASE junk' > 0
    <3>1. d < DataSz
      <4> SUFFICES ASSUME d = DataSz PROVE FALSE
        BY <2>6
      <4>1. goffset + PartSz <= DataSz
        BY <2>4, <2>6, Wholes
      <4>2. 1 * Split <= (junk - 1) * Split /\ 1 * Split = Split /\ (junk - 1) * Split \in Int
        BY <1>2, <2>4, <2>6, <2>9, Multiples
      <4> QED BY <2>3, <2>6, <4>1, <4>2
    <3>2. \E to \in Ats : (Flow(k, d, s, s, to))'
      <4>1. s = goffset' - junk' * Split' /\ d < DataSz' /\ junk' \in Nat \ {0} /\ tpc' = "work"
        BY <1>1, <1>2, <2>3, <2>4, <2>7, <2>9, <3>1 DEF StepFacts
      <4>2. iob' # NULL /\ ~faulted' => block'[iob'].error_end <= Split'
        BY <2>6, <2>7, <2>8
      <4>3. s = d - Curdata' /\ (Whole(s))' /\ s + Split' > (k - 1) * Payload' /\ (iob' # NULL => Bytes(block'[iob'], s))
        BY <2>7, <2>8
      <4> QED BY <2>5, <4>1, <4>2, <4>3, FlowJunk
    <3>3. (Synced(d, s, s))'
      <4>1. (mpc' \in {"idle", "dequeue"} => goffset' = iob_offset' /\ ~(Flagged("HALT")'))
        BY <1>1, <1>2, <2>3, <2>9 DEF StepFacts, Flagged, tqVars
      <4> QED BY <2>9, <4>1 DEF Synced, Resumes
    <3> QED BY <3>2, <3>3
  <2>10. CASE ~(junk' > 0)
    <3>1. junk' = 0 /\ junk = 1 /\ s = goffset /\ Loop(con_flags, NULL)
      <4>1. junk' = 0 /\ junk = 1
        BY <1>2, <2>4, <2>10
      <4>2. (junk - 1) * Split = 0
        BY <2>6, <4>1
      <4> QED BY <1>2, <2>3, <2>6, <2>10, <4>1, <4>2
    <3>2. tpc' \in {"work", "halted", "term"}
      BY <3>1, LoopEffect
    <3>3. \E to \in Ats : (Flow(k, d, s, s, to))'
      BY <2>5, <2>7, <2>8, <3>1, <3>2, FlowClean
    <3>4. (Synced(d, s, s))'
      <4>1. ("HALT" \notin con_flags \/ mpc' \notin {"idle", "dequeue"}) /\ (mpc' \in {"idle", "dequeue"} => s = iob_offset')
        BY <1>1, <2>3, <3>1 DEF StepFacts, Flagged
      <4> QED BY <3>1, <4>1, SyncedFresh
    <3> QED BY <3>3, <3>4
  <2> QED BY <2>9, <2>10
<1> QED BY <1>4, <1>5 DEF Following, Tracked

\* The end of the thread.
LEMMA FollowTerm ==
  ASSUME NEW k \in Nat, NEW d \in Nat, ReadGiven(k, d), read_term
  PROVE  Following'
<1>r. Reader
  BY DEF Reader
<1>1. StepFacts(k, d)
  BY <1>r, ReaderFacts
<1>2. UNCHANGED <<offset, crcsumchk, continuous>> /\ tpc' = "exit" /\ (~faulted' => ~faulted)
  BY DEF read_term
<1>3. (Placed(k, d))'
  BY <1>1, <1>2 DEF Placed, StepFacts, Located
<1> QED BY <1>2, <1>3 DEF Following, Tracked, Live

\* The thread does not touch the block of the master.
LEMMA MasterBlockKept ==
  ASSUME NEW k \in Nat, NEW d \in Nat, ReadGiven(k, d), Reader, mpc = "idle", miob # NULL
  PROVE  block'[miob] = block[miob]
<1>1. StepFacts(k, d)
  BY ReaderFacts
<1>2. miob \in Blocks /\ miob \in Places /\ queue \in Seq(Blocks) /\ cur_work \in Places /\ NULL \in Places
      /\ block \in [Blocks -> BlockType] /\ ~Aborting
  BY <1>1, PlacesType DEF StepFacts, TypeOK, Places, Aborting
<1>3. ASSUME tpc \notin {"term", "exit"}
      PROVE  (iob # NULL => iob # miob) /\ (depth > 0 => head # miob)
  <2>1. Live
    BY <1>2, <1>3 DEF Live
  <2>2. ReadRow[1] = miob /\ Len(ReadRow) \in Nat /\ Len(ReadRow) >= 1
    <3>1. Held(miob, queue, NULL, cur_work)[1] = miob
      BY <1>2, HeldType
    <3>2. Len(Held(miob, queue, NULL, cur_work)) = Cnt(miob) + Len(queue) + Cnt(NULL) + Cnt(cur_work)
      BY <1>2, HeldType
    <3>3. Len(queue) \in Nat /\ Cnt(miob) = 1 /\ Cnt(NULL) = 0 /\ Cnt(cur_work) \in {0, 1}
      BY <1>2 DEF Cnt
    <3> QED BY <3>1, <3>2, <3>3 DEF ReadRow
  <2>3. 1 \in 1 .. Len(ReadRow)
    BY <2>2
  <2> QED BY <1>1, <2>1, <2>2, <2>3, ReadRowApart DEF StepFacts
<1>4. CASE read_produce_fill
  <2>1. tpc \notin {"term", "exit"}
    BY <1>4 DEF read_produce_fill
  <2>2. PICK ok \in BOOLEAN :
          IF HasRoom(iob)
          THEN FillFrom(iob, block[iob], ok) /\ UNCHANGED <<iob, head, depth>>
          ELSE /\ iob = NULL
               /\ Reserve(NULL)
               /\ iob' = head
               /\ FillFrom(head, Empty, ok)
    BY <1>4 DEF read_produce_fill
  <2>3. CASE HasRoom(iob)
    BY <1>2, <1>3, <2>1, <2>2, <2>3 DEF FillFrom, HasRoom
  <2>4. CASE ~HasRoom(iob)
    BY <1>2, <1>3, <2>1, <2>2, <2>4 DEF FillFrom, Reserve
  <2> QED BY <2>3, <2>4
<1>5. CASE read_produce_push
  <2>1. tpc \notin {"term", "exit"} /\ iob # NULL /\ depth > 0 /\ block' = Reserved(iob)
    BY <1>5 DEF read_produce_push, Reserve
  <2> QED BY <1>2, <1>3, <2>1 DEF Reserved
<1>6. CASE read_resume_align
  <2>1. miob = NULL
    BY <1>1, <1>2, <1>6 DEF StepFacts, read_resume_align, Resuming, BlockInv, CtlInv, ResumeInv
  <2> QED BY <2>1
<1>7. CASE block' = block
  BY <1>7
<1>8. read_produce_fill \/ read_produce_push \/ read_resume_align \/ block' = block
  BY DEF Reader, read_produce_end, read_produce_last, producer_post, producer_wake,
         read_resume_stay, read_resume_seek, junk_block, read_term, ringVars, Released
<1> QED BY <1>4, <1>5, <1>6, <1>7, <1>8

\* The thread reports no error that the DAL has not made: the CRCs add up at the end.
LEMMA NoErrorMade ==
  ASSUME NEW k \in Nat, NEW d \in Nat, ReadGiven(k, d), Reader
  PROVE  data_error' => faulted'
<1>1. StepFacts(k, d) /\ (data_error => faulted)
  BY ReaderFacts DEF StepFacts, ReadState
<1>2. CASE read_produce_end
  <2>1. data_error' = (data_error \/ (continuous /\ crcsumchk # CrcSum)) /\ faulted' = faulted /\ offset >= StoredBlock
    BY <1>2 DEF read_produce_end
  <2>2. TypeOK /\ Located(k, d) /\ offset \in Nat /\ StoredBlock \in Nat /\ DataSz \in Nat
    BY <1>1, ReadSizes DEF StepFacts, TypeOK
  <2>3. ~(offset < StoredBlock)
    BY <2>1, <2>2
  <2>4. ~(d < DataSz) /\ d <= DataSz
    BY <2>2, <2>3, AtIO
  <2>5. d = DataSz
    BY <2>2, <2>4
  <2>6. k = NumIOs
    BY <2>2, <2>5, AtIO
  <2>7. CrcsTo(k) = CrcSum
    <3>1. \A i \in IOs : i < NumIOs
      BY <2>2, ReadSizes DEF IOs
    <3> QED BY <2>6, <3>1 DEF CrcsTo, CrcSum
  <2> QED BY <1>1, <2>1, <2>7 DEF StepFacts, Placed
<1>3. CASE read_produce_fill
  <2>1. PICK b, blk, ok : FillFrom(b, blk, ok)
    BY <1>3 DEF read_produce_fill
  <2> QED BY <1>1, <2>1 DEF FillFrom
<1>4. CASE read_term
  BY <1>1, <1>4 DEF read_term
<1>5. CASE UNCHANGED <<data_error, faulted>>
  BY <1>1, <1>5
<1>6. read_produce_end \/ read_produce_fill \/ read_term \/ UNCHANGED <<data_error, faulted>>
  BY DEF Reader, read_produce_push, read_produce_last, producer_post, producer_wake,
         read_resume_stay, read_resume_seek, read_resume_align, junk_block, stateVars
<1> QED BY <1>2, <1>3, <1>4, <1>5, <1>6

\* The thread aborts the queue only when the master does, and quits only when it is told to.
LEMMA NoAbortMade ==
  ASSUME NEW k \in Nat, NEW d \in Nat, ReadGiven(k, d), Reader
  PROVE  /\ (Flagged("ABORT"))' => Aborting
         /\ tpc' \in {"term", "exit"} => (Flagged("ABORT") \/ Flagged("FINISHED"))'
<1>1. /\ StepFacts(k, d) /\ (Flagged("ABORT") => Aborting)
      /\ tpc \in {"term", "exit"} => Flagged("ABORT") \/ Flagged("FINISHED")
  BY ReaderFacts DEF StepFacts, ReadState
<1>2. ASSUME NEW flags, NEW w, Loop(flags, w)
      PROVE  con_flags' = flags /\ (tpc' \in {"term", "exit"} => (Flagged("ABORT") \/ Flagged("FINISHED"))')
  BY <1>2 DEF Loop, Flagged
<1>3. CASE producer_post
  <2>1. PICK w : \/ Loop(con_flags \cup {"HALT"}, w)
                 \/ Loop(con_flags, w)
    BY <1>3 DEF producer_post
  <2>2. (Flagged("ABORT"))' => Flagged("ABORT")
    BY <1>2, <2>1 DEF Flagged
  <2> QED BY <1>1, <1>2, <2>1, <2>2
<1>4. CASE junk_block
  <2>1. tpc = "junked" /\ (\/ res = 0
                           \/ junk' = 0 /\ ~(junk' > 0))
    BY <1>4 DEF junk_block
  <2>2. CASE junk' > 0
    <3>1. con_flags' = con_flags /\ tpc' = "work"
      BY <1>4, <2>2 DEF junk_block, tqVars
    <3> QED BY <1>1, <3>1 DEF Flagged
  <2>3. CASE ~(junk' > 0)
    <3>1. PICK flags : Loop(flags, NULL) /\ flags = IF res = 0 THEN con_flags ELSE con_flags \cup {"ABORT"}
      BY <1>4, <2>3 DEF junk_block
    <3>2. CASE res = 0
      BY <1>1, <1>2, <3>1, <3>2 DEF Flagged
    <3>3. CASE res # 0
      <4>1. Aborting
        <5> SUFFICES ASSUME ~Aborting PROVE FALSE
          OBVIOUS
        <5>1. Live
          BY <2>1 DEF Live
        <5>2. junk > 0
          BY <1>1, <2>1 DEF StepFacts, ReaderInv
        <5> QED BY <1>1, <2>1, <3>3, <5>1, <5>2 DEF StepFacts, Tracked, Flow
      <4> QED BY <1>2, <3>1, <4>1
    <3> QED BY <3>2, <3>3
  <2> QED BY <2>2, <2>3
<1>5. CASE producer_wake \/ read_resume_stay \/ read_resume_seek
  <2>1. PICK w : Loop(con_flags, w)
    BY <1>5 DEF producer_wake, read_resume_stay, read_resume_seek
  <2> QED BY <1>1, <1>2, <2>1 DEF Flagged
<1>6. CASE UNCHANGED con_flags /\ (tpc' \in {"work", "loop", "post", "junked"} \/ (tpc = "term" /\ tpc' = "exit"))
  BY <1>1, <1>6 DEF Flagged
<1>7. read_produce_end \/ read_produce_fill \/ read_produce_push \/ read_produce_last \/ read_resume_align \/ read_term
      => <1>6!1
  BY DEF read_produce_end, read_produce_fill, read_produce_push, read_produce_last, read_resume_align, read_term, tqVars, Produced
<1> QED BY <1>3, <1>4, <1>5, <1>6, <1>7 DEF Reader

\* The rest of what is known of a reader stands.
LEMMA ReadStateReader ==
  ASSUME NEW k \in Nat, NEW d \in Nat, ReadGiven(k, d), Reader
  PROVE  ReadState'
<1>1. ReadState
  BY DEF ReadGiven
<1>2. /\ UNCHANGED <<mpc, miob, goffset, iob_offset, iob_datasz, target>>
      /\ UNCHANGED <<DataSz, PartSz>> /\ (Aborting' <=> Aborting) /\ \A x : Whole(x) <=> Whole(x)'
  BY ReaderGiven
<1>3. (data_error => faulted)'
  BY NoErrorMade
<1>4. /\ (Flagged("ABORT") => Aborting)'
      /\ (tpc \in {"term", "exit"} => Flagged("ABORT") \/ Flagged("FINISHED"))'
  BY <1>2, NoAbortMade
<1>5. handle' \in {handle, "closed"}
  BY DEF Reader, read_produce_end, read_produce_fill, read_produce_push, read_produce_last, producer_post, producer_wake,
         read_resume_stay, read_resume_seek, read_resume_align, junk_block, read_term, stateVars
<1>6. (mpc = "idle" => iob_datasz = IF miob = NULL THEN 0 ELSE Fill(miob))'
  <2>1. mpc = "idle" /\ miob # NULL => block'[miob] = block[miob]
    BY MasterBlockKept
  <2> QED BY <1>1, <1>2, <2>1 DEF ReadState, Fill
<1>7. (goffset < DataSz /\ Whole(goffset))'
  BY <1>1, <1>2 DEF ReadState, Whole
<1>8. (mpc \in Seeking => target < DataSz /\ Whole(target))'
  BY <1>1, <1>2 DEF ReadState, Whole, Seeking
<1>9. /\ (handle # "committed" /\ mpc # "null" /\ CrcBytes % PartSz # 0)'
      /\ (mpc = "dequeue" => iob_offset < DataSz)'
      /\ (mpc = "start" => iob_offset = 0 /\ iob_datasz = 0 /\ goffset = 0)'
  BY <1>1, <1>2, <1>5 DEF ReadState
<1> QED BY <1>3, <1>4, <1>6, <1>7, <1>8, <1>9 DEF ReadState

\* The steps of the reader thread.
LEMMA FollowReader ==
  ASSUME BlockInv, Reading, ReadState, Following, Reader
  PROVE  ReadState' /\ Following'
<1>1. PICK k \in Nat, d \in Nat : Placed(k, d) /\ Tracked(k, d)
  BY DEF Following
<1>2. ReadGiven(k, d)
  BY <1>1 DEF ReadGiven
<1>3. ReadState'
  BY <1>1, <1>2, ReadStateReader
<1>4. CASE read_produce_end
  BY <1>1, <1>2, <1>3, <1>4, FollowEnd
<1>5. CASE read_produce_fill
  BY <1>1, <1>2, <1>3, <1>5, FollowFill
<1>6. CASE read_produce_push
  BY <1>1, <1>2, <1>3, <1>6, FollowPush
<1>7. CASE read_produce_last
  BY <1>1, <1>2, <1>3, <1>7, FollowLast
<1>8. CASE producer_post \/ producer_wake
  BY <1>1, <1>2, <1>3, <1>8, FollowProducer
<1>9. CASE read_resume_stay
  BY <1>1, <1>2, <1>3, <1>9, FollowStay
<1>10. CASE read_resume_seek
  BY <1>1, <1>2, <1>3, <1>10, FollowSeek
<1>11. CASE read_resume_align
  BY <1>1, <1>2, <1>3, <1>11, FollowAlign
<1>12. CASE junk_block
  BY <1>1, <1>2, <1>3, <1>12, FollowJunk
<1>13. CASE read_term
  BY <1>1, <1>2, <1>3, <1>13, FollowTerm
<1> QED BY <1>4, <1>5, <1>6, <1>7, <1>8, <1>9, <1>10, <1>11, <1>12, <1>13 DEF Reader

-----------------------------------------------------------------------------
(* The master of a reader.                                                 *)

\* What it leaves as it was.
MasterFacts(k, d) ==
  /\ TypeOK /\ ReaderInv /\ ResumeInv /\ MasterInv /\ FlagInv /\ BlockInv /\ Reading
  /\ ReadState /\ Placed(k, d) /\ Tracked(k, d)
  /\ UNCHANGED <<dmode, minfo, tpc, offset, iob, cur_work, junk, res, crcsumchk, continuous, block, faulted, data_error, handle>>
  /\ UNCHANGED <<Payload, DataSz, NumIOs, PartSz, Split, Reading, Curdata, JunkDue>>
  /\ (Flagged("FINISHED") => (Flagged("FINISHED"))') /\ (Flagged("ABORT") => (Flagged("ABORT"))')
  /\ (goffset' = goffset \/ seek_go) /\ (Live' => Live)
  /\ \A x : Whole(x) <=> Whole(x)'
  /\ (Placed(k, d))'

\* Each of its steps does so.
LEMMA MasterGiven ==
  ASSUME NEW k \in Nat, NEW d \in Nat, ReadGiven(k, d), Call \/ InCall
  PROVE  MasterFacts(k, d)
<1>1. /\ TypeOK /\ ReaderInv /\ ResumeInv /\ MasterInv /\ FlagInv /\ BlockInv /\ Reading
      /\ ReadState /\ Placed(k, d) /\ Tracked(k, d) /\ mpc \notin {"enqueue", "close_enqueue"} /\ ~Writing
  BY EitherMode DEF ReadGiven, BlockInv, CtlInv, ReaderInv
<1>2. UNCHANGED <<dmode, minfo, tpc, offset, iob, cur_work, junk, res>>
  BY MasterKeeps
<1>3. /\ UNCHANGED <<crcsumchk, continuous, block, faulted, data_error, handle>>
      /\ goffset' = goffset \/ seek_go
      /\ con_flags' \in {con_flags, con_flags \ {"HALT"}} \cup {con_flags \cup {x} : x \in {"HALT", "FINISHED", "ABORT"}}
  BY <1>1
     DEF Call, InCall, read_stripes, park, ne_seek, unpark, write_reserve, ne_write, ne_close, ne_abort, start, dequeue,
         seek_release, seek_unblock, wait_for_pause, drain, seek_go, enqueue, terminate_split, terminate_last,
         terminate_thread, wait_for_completion, last_drain, abort_unhalt, abort_drain, abort_release, join,
         DropOne, Goto, threadAlone, threadVars, stateVars, ringVars, tqVars, Released
<1>4. /\ (Flagged("FINISHED") => (Flagged("FINISHED"))') /\ (Flagged("ABORT") => (Flagged("ABORT"))')
  BY <1>3 DEF Flagged
<1>5. UNCHANGED <<Payload, DataSz, NumIOs, PartSz, Split, Reading>>
  BY <1>2, SizesKept DEF NumIOs
<1>6. UNCHANGED <<Curdata, JunkDue>>
  BY <1>2, <1>3 DEF Curdata, JunkDue, Fill
<1>7. \A x : Whole(x) <=> Whole(x)'
  BY <1>5 DEF Whole
<1>8. (CrcsTo(k))' = CrcsTo(k)
  BY <1>5 DEF CrcsTo, IOs
<1>9. (Placed(k, d))'
  BY <1>1, <1>2, <1>3, <1>5, <1>8 DEF Placed, Located
<1>10. Live' => Live
  <2>1. Aborting => Aborting'
    BY <1>1, AbortStays DEF Next
  <2> QED BY <1>2, <2>1 DEF Live
<1> QED BY <1>1, <1>2, <1>3, <1>4, <1>5, <1>6, <1>7, <1>9, <1>10 DEF MasterFacts

\* The master gives back the oldest block, or none.
LEMMA RowReleased ==
  ASSUME TypeOK, UNCHANGED cur_work
  PROVE  /\ miob' = NULL /\ queue' = queue =>
              IF miob = NULL THEN ReadRow' = ReadRow
              ELSE ReadRow # <<>> /\ ReadRow' = Tail(ReadRow) /\ ReadRow[1] = miob
         /\ miob = NULL /\ miob' = NULL /\ queue # <<>> /\ queue' = Tail(queue) =>
              ReadRow # <<>> /\ ReadRow' = Tail(ReadRow)
         /\ miob = NULL /\ queue # <<>> /\ miob' = Head(queue) /\ queue' = Tail(queue) => ReadRow' = ReadRow
         /\ UNCHANGED <<miob, queue>> => ReadRow' = ReadRow
<1>1. miob \in Places /\ cur_work \in Places /\ queue \in Seq(Blocks) /\ NULL \in Places
  BY PlacesType DEF TypeOK, Places
<1>2. \A a \in Places : Len(Held(a, queue, NULL, cur_work)) = Cnt(a) + Len(queue) + Cnt(NULL) + Cnt(cur_work)
  BY <1>1, HeldType
<1>3. Len(queue) \in Nat /\ (queue # <<>> => Len(queue) > 0) /\ Cnt(NULL) = 0 /\ Cnt(cur_work) \in {0, 1}
      /\ (miob # NULL => Cnt(miob) = 1) /\ Cnt(miob) \in {0, 1} /\ Len(<<>>) = 0
  BY <1>1, EmptySeq DEF Cnt
<1>4. miob # NULL \/ queue # <<>> => ReadRow # <<>>
  <2>1. Len(Held(miob, queue, NULL, cur_work)) = Cnt(miob) + Len(queue) + Cnt(NULL) + Cnt(cur_work)
    BY <1>1, <1>2
  <2> QED BY <1>3, <2>1 DEF ReadRow
<1>5. miob # NULL => Held(NULL, queue, NULL, cur_work) = Tail(ReadRow) /\ ReadRow[1] = miob
  BY <1>1, HeldRelease, HeldType DEF ReadRow
<1>6. queue # <<>> /\ miob = NULL => Held(NULL, Tail(queue), NULL, cur_work) = Tail(ReadRow)
  BY <1>1, HeldRelease DEF ReadRow
<1>7. queue # <<>> /\ miob = NULL => Held(Head(queue), Tail(queue), NULL, cur_work) = ReadRow
  BY <1>1, HeldMoves DEF ReadRow
<1> QED BY <1>4, <1>5, <1>6, <1>7 DEF ReadRow

\* What is known of the thread stands when the row does.
LEMMA FlowSame ==
  ASSUME NEW k \in Nat, NEW d \in Nat, MasterFacts(k, d), NEW s \in Int, NEW a \in Int, NEW at \in Ats, Flow(k, d, s, a, at),
         ReadRow' = ReadRow, goffset' = goffset \/ junk = 0
  PROVE  (Flow(k, d, s, a, at))'
<1>1. /\ UNCHANGED <<tpc, iob, cur_work, junk, res, block, faulted, Curdata, JunkDue, Split, Payload, DataSz>>
      /\ (\A x : Whole(x) <=> Whole(x)') /\ (Reading => junk \in Nat)
  BY DEF MasterFacts, TypeOK
<1>2. (Whole(s))'
  BY <1>1 DEF Flow, Whole
<1>3. junk = 0 => \A n \in 1 .. Len(ReadRow') : (Deliverable(ReadRow[n]))'
  <2>1. UNCHANGED PartSz
    BY DEF MasterFacts
  <2>2. \A n : (Deliverable(ReadRow[n]))' <=> Sound(block'[ReadRow'[n]], faulted')
    BY <2>1, SoundNext
  <2>3. junk = 0 => \A n \in 1 .. Len(ReadRow) : Sound(block[ReadRow[n]], faulted)
    BY DEF Flow, Deliverable
  <2> QED BY <1>1, <2>2, <2>3
<1> QED BY <1>1, <1>2, <1>3 DEF Flow, Fill

\* ... and when its first block is given back.
LEMMA FlowTail ==
  ASSUME NEW k \in Nat, NEW d \in Nat, MasterFacts(k, d), NEW s \in Int, NEW a \in Int, NEW at \in Ats, Flow(k, d, s, a, at),
         ReadRow # <<>>, ReadRow' = Tail(ReadRow), goffset' = goffset
  PROVE  \E t \in Int : t = a + Fill(ReadRow[1]) /\ (Flow(k, d, s, t, at))'
<1>1. /\ UNCHANGED <<tpc, iob, cur_work, junk, res, block, faulted, Curdata, JunkDue, Split, Payload, DataSz>>
      /\ (\A x : Whole(x) <=> Whole(x)') /\ block \in [Blocks -> BlockType] /\ TypeOK
  BY DEF MasterFacts, TypeOK, BlockType
<1>2. (Whole(s))'
  BY <1>1 DEF Flow, Whole
<1> DEFINE r == ReadRow
<1>3. r \in Seq(Blocks) /\ Row(r, at, a, s, block) /\ r # <<>>
  BY <1>1, HoldersAnd DEF Flow
<1> HIDE DEF r
<1>4. /\ Len(block[r[1]].buff) \in Nat
      /\ Row(Tail(r), at, a + Len(block[r[1]].buff), s, block)
      /\ Len(Tail(r)) = Len(r) - 1 /\ \A n \in 1 .. Len(Tail(r)) : Tail(r)[n] = r[n + 1]
  BY <1>1, <1>3, RowTail
<1>5. PICK t \in Int : t = a + Len(block[r[1]].buff)
  BY <1>4
<1>6. Row(ReadRow', at, t, s, block')
  BY <1>1, <1>4, <1>5 DEF r
<1>7. junk = 0 => \A n \in 1 .. Len(ReadRow') : (Deliverable(ReadRow[n]))'
  <2>1. UNCHANGED PartSz
    BY DEF MasterFacts
  <2>2. \A n : (Deliverable(ReadRow[n]))' <=> Sound(block'[ReadRow'[n]], faulted')
    BY <2>1, SoundNext
  <2>3. junk = 0 => \A n \in 1 .. Len(r) : Sound(block[r[n]], faulted)
    BY DEF Flow, Deliverable, r
  <2>4. \A n \in 1 .. Len(Tail(r)) : n + 1 \in 1 .. Len(r) /\ Tail(r)[n] = r[n + 1]
    BY <1>3, <1>4
  <2>5. junk = 0 => \A n \in 1 .. Len(Tail(r)) : Sound(block[Tail(r)[n]], faulted)
    BY <2>3, <2>4
  <2> QED BY <1>1, <2>2, <2>5 DEF r
<1>8. (Flow(k, d, s, t, at))'
  BY <1>1, <1>2, <1>6, <1>7 DEF Flow, Fill
<1> QED BY <1>5, <1>8 DEF r, Fill

\* Where the master is in none of its reads, the row stands or loses its first block.
LEMMA FollowRow ==
  ASSUME NEW k \in Nat, NEW d \in Nat, MasterFacts(k, d), goffset' = goffset \/ junk = 0, mpc' \notin {"idle", "dequeue"},
         \/ ReadRow' = ReadRow
         \/ ReadRow # <<>> /\ ReadRow' = Tail(ReadRow) /\ goffset' = goffset
         \/ Aborting'
  PROVE  Following'
<1>1. ASSUME Live'
      PROVE  \E s, a \in Int, at \in Ats : (Flow(k, d, s, a, at))' /\ (Synced(d, s, a))'
  <2>1. Live /\ ~Aborting'
    BY <1>1 DEF MasterFacts, Live
  <2>2. PICK s \in Int, a \in Int, at \in Ats : Flow(k, d, s, a, at) /\ Synced(d, s, a)
    BY <2>1 DEF Tracked, MasterFacts
  <2>3. CASE ReadRow' = ReadRow
    <3>1. (Flow(k, d, s, a, at))'
      BY <2>2, <2>3, FlowSame
    <3> QED BY <3>1 DEF Synced
  <2>4. CASE ReadRow # <<>> /\ ReadRow' = Tail(ReadRow) /\ goffset' = goffset
    <3>1. PICK t \in Int : (Flow(k, d, s, t, at))'
      BY <2>2, <2>4, FlowTail
    <3> QED BY <3>1 DEF Synced
  <2> QED BY <2>1, <2>3, <2>4
<1>2. (Placed(k, d))'
  BY DEF MasterFacts
<1> QED BY <1>1, <1>2 DEF Following, Tracked

\* The first read, and a seek: the thread is about to resume where the master reads on.
LEMMA FollowGo ==
  ASSUME NEW k \in Nat, NEW d \in Nat, MasterFacts(k, d), start \/ seek_go
  PROVE  Following' /\ miob' = NULL
<1>1. /\ mpc \in {"start", "go"} /\ tpc = "halted" /\ junk = 0 /\ miob = NULL /\ UNCHANGED <<miob, queue>>
      /\ con_flags' = con_flags \ {"HALT"} /\ goffset' = iob_offset' /\ TypeOK /\ tpc' = tpc /\ cur_work' = cur_work
  <2>1. CASE start
    BY <2>1 DEF start, MasterFacts, MasterInv, ReadState, TqFree, threadAlone, threadVars, stateVars
  <2>2. CASE seek_go
    BY <2>2 DEF seek_go, MasterFacts, MasterInv, Cleared, TqFree, threadVars
  <2> QED BY <2>1, <2>2
<1>2. ReadRow' = ReadRow
  BY <1>1, RowReleased
<1>3. ASSUME Live'
      PROVE  \E s, a \in Int, at \in Ats : (Flow(k, d, s, a, at))' /\ (Synced(d, s, a))'
  <2>1. Live
    BY <1>3 DEF MasterFacts
  <2>2. PICK s \in Int, a \in Int, at \in Ats : Flow(k, d, s, a, at)
    BY <2>1 DEF Tracked, MasterFacts
  <2>3. (Flow(k, d, s, a, at))'
    BY <1>1, <1>2, <2>2, FlowSame
  <2>4. (Synced(d, s, a))'
    BY <1>1 DEF Synced, Resumes, Flagged
  <2> QED BY <2>3, <2>4
<1>4. (Placed(k, d))'
  BY DEF MasterFacts
<1> QED BY <1>1, <1>3, <1>4 DEF Following, Tracked

\* read_stripes() has read the block it gives back.
LEMMA FollowStripes ==
  ASSUME NEW k \in Nat, NEW d \in Nat, MasterFacts(k, d), read_stripes
  PROVE  Following'
<1>1. /\ mpc = "idle" /\ mpc' = "dequeue" /\ iob_offset' = iob_offset + iob_datasz /\ miob' = NULL /\ TypeOK
      /\ UNCHANGED <<queue, con_flags, goffset, tpc, junk, cur_work, DataSz>>
      /\ iob_datasz = IF miob = NULL THEN 0 ELSE Fill(miob)
  BY DEF read_stripes, MasterFacts, ReadState, tqVars, threadAlone, threadVars, stateVars
<1>2. ASSUME Live'
      PROVE  \E s, a \in Int, at \in Ats : (Flow(k, d, s, a, at))' /\ (Synced(d, s, a))'
  <2>1. Live /\ ~Aborting
    BY <1>2 DEF MasterFacts, Live
  <2>2. PICK s \in Int, a \in Int, at \in Ats : Flow(k, d, s, a, at) /\ Synced(d, s, a)
    BY <2>1 DEF Tracked, MasterFacts
  <2>3. Resumes' <=> Resumes
    BY <1>1 DEF Resumes, Flagged
  <2>4. /\ Flagged("HALT") => tpc = "halted" /\ d = DataSz /\ s = d /\ cur_work = NULL
        /\ IF Resumes THEN goffset = iob_offset ELSE a = iob_offset
    BY <1>1, <2>2 DEF Synced
  <2>5. (Flagged("HALT") => tpc = "halted" /\ d = DataSz /\ s = d /\ cur_work = NULL)'
    BY <1>1, <2>4 DEF Flagged
  <2>6. Resumes => miob = NULL
    BY <2>1 DEF Resumes, MasterFacts, ResumeInv
  <2>7. CASE miob = NULL
    <3>1. ReadRow' = ReadRow
      BY <1>1, <2>7, RowReleased
    <3>2. (Flow(k, d, s, a, at))'
      BY <1>1, <2>2, <3>1, FlowSame
    <3>3. iob_offset' = iob_offset \/ (iob_offset \notin Int /\ iob_offset' = iob_offset + 0)
      BY <1>1, <2>7
    <3>4. goffset \in Nat
      BY <1>1 DEF TypeOK
    <3>5. iob_offset \in Int
      BY <2>4, <3>4
    <3>6. iob_offset' = iob_offset
      BY <3>3, <3>5
    <3>7. (IF Resumes THEN goffset = iob_offset ELSE a = iob_offset)'
      BY <1>1, <2>3, <2>4, <3>6
    <3> QED BY <2>5, <3>2, <3>7 DEF Synced
  <2>8. CASE miob # NULL
    <3>1. ReadRow # <<>> /\ ReadRow' = Tail(ReadRow) /\ ReadRow[1] = miob
      BY <1>1, <2>8, RowReleased
    <3>2. PICK t \in Int : t = a + Fill(ReadRow[1]) /\ (Flow(k, d, s, t, at))'
      BY <1>1, <2>2, <3>1, FlowTail
    <3>3. iob_offset' = t
      BY <1>1, <2>4, <2>6, <2>8, <3>1, <3>2
    <3>4. (IF Resumes THEN goffset = iob_offset ELSE t = iob_offset)'
      BY <2>3, <2>6, <2>8, <3>3
    <3>5. (Synced(d, s, t))'
      BY <2>5, <3>4 DEF Synced
    <3> QED BY <3>2, <3>5
  <2> QED BY <2>7, <2>8
<1>3. (Placed(k, d))'
  BY DEF MasterFacts
<1> QED BY <1>2, <1>3 DEF Following, Tracked

\* While data remain there is a block in the queue, or the thread makes one.
LEMMA FollowDequeue ==
  ASSUME NEW k \in Nat, NEW d \in Nat, MasterFacts(k, d), dequeue
  PROVE  /\ Following' /\ queue # <<>> /\ miob' = Head(queue) /\ iob_datasz' = Fill(Head(queue)) /\ mpc' = "idle"
         /\ block' = block
<1>1. /\ mpc = "dequeue" /\ junk = 0 /\ miob = NULL /\ TypeOK /\ iob_offset < DataSz /\ ~Aborting /\ ~Flagged("ABORT")
      /\ ~Flagged("FINISHED") /\ tpc \notin {"term", "exit"} /\ (queue # <<>> \/ con_flags # {})
      /\ UNCHANGED <<con_flags, goffset, tpc, junk, cur_work, DataSz, iob_offset, block>>
  BY DEF dequeue, TqFree, MasterFacts, MasterInv, ReadState, Aborting, FlagInv, Ending, threadAlone, threadVars, stateVars, ringVars
<1>2. Live
  BY <1>1 DEF Live
<1>3. PICK s \in Int, a \in Int, at \in Ats : Flow(k, d, s, a, at) /\ Synced(d, s, a)
  BY <1>2 DEF Tracked, MasterFacts
<1>4. queue # <<>>
  <2> SUFFICES ASSUME queue = <<>> PROVE FALSE
    OBVIOUS
  <2>1. Flagged("HALT")
    BY <1>1 DEF TypeOK, Flagged
  <2>2. d = DataSz /\ s = d /\ cur_work = NULL /\ a = iob_offset
    BY <1>1, <1>3, <2>1 DEF Synced, Resumes
  <2>3. ReadRow = <<>>
    <3>1. <<>> \o <<>> = <<>>
      OBVIOUS
    <3> QED BY <1>1, <2>2, <3>1 DEF ReadRow, Held, Hold
  <2>4. Row(<<>>, at, a, s, block)
    BY <1>3, <2>3 DEF Flow
  <2>5. s = a
    BY <2>4, RowEmpty
  <2> QED BY <1>1, <2>2, <2>5
<1>5. miob' = Head(queue) /\ queue' = Tail(queue) /\ iob_datasz' = Fill(Head(queue)) /\ mpc' = "idle"
  BY <1>1, <1>4 DEF dequeue
<1>6. ReadRow' = ReadRow
  BY <1>1, <1>4, <1>5, RowReleased
<1>7. (Flow(k, d, s, a, at))'
  BY <1>1, <1>3, <1>6, FlowSame
<1>8. (Synced(d, s, a))'
  BY <1>1, <1>3, <1>5 DEF Synced, Resumes, Flagged
<1>9. (Placed(k, d))'
  BY DEF MasterFacts
<1> QED BY <1>1, <1>4, <1>5, <1>7, <1>8, <1>9 DEF Following, Tracked

\* Where the bad data of a block end; a writer has none.
MarkInv == \A b \in Blocks : block[b].error_end \in Nat /\ (Writing => block[b].error_end = 0)

\* What the other steps of the master do to the row.
LEMMA RowMaster ==
  ASSUME NEW k \in Nat, NEW d \in Nat, MasterFacts(k, d), Call \/ InCall, ~(start \/ seek_go), ~read_stripes, ~dequeue
  PROVE  /\ mpc' \notin {"idle", "dequeue", "start", "null"}
         /\ \/ ReadRow' = ReadRow
            \/ ReadRow # <<>> /\ ReadRow' = Tail(ReadRow)
            \/ Aborting'
<1>1. TypeOK /\ Reading /\ ~Writing /\ MasterInv /\ UNCHANGED cur_work /\ mpc \notin {"enqueue", "close_enqueue"}
  BY EitherMode DEF MasterFacts, ReaderInv
<1>2. CASE park \/ (\E off \in PartStarts : ne_seek(off)) \/ wait_for_pause \/ ne_close \/ terminate_thread \/ ne_abort
           \/ abort_unhalt \/ abort_release \/ join
  <2>1. mpc' \notin {"idle", "dequeue", "start", "null"} /\ UNCHANGED <<miob, queue>>
    BY <1>2 DEF park, ne_seek, wait_for_pause, ne_close, terminate_thread, ne_abort, abort_unhalt, abort_release, join, Goto,
                tqVars, masterVars
  <2> QED BY <1>1, <2>1, RowReleased
<1>3. CASE (\E off \in PartStarts : unpark(off)) \/ seek_release \/ terminate_last
  <2>1. mpc' \notin {"idle", "dequeue", "start", "null"} /\ miob' = NULL /\ queue' = queue
    BY <1>1, <1>3 DEF unpark, seek_release, terminate_last, tqVars
  <2> QED BY <1>1, <2>1, RowReleased
<1>4. CASE seek_unblock \/ drain \/ wait_for_completion \/ last_drain
  <2>1. mpc' \notin {"idle", "dequeue", "start", "null"} /\ miob = NULL /\ miob' = miob
    BY <1>1, <1>4 DEF seek_unblock, drain, wait_for_completion, last_drain, DropOne, Goto, MasterInv, Cleared, Ending
  <2>2. queue' = queue \/ (queue # <<>> /\ queue' = Tail(queue))
    BY <1>4 DEF seek_unblock, drain, wait_for_completion, last_drain, DropOne, Goto, tqVars
  <2> QED BY <1>1, <2>1, <2>2, RowReleased
<1>5. CASE abort_drain
  BY <1>5 DEF abort_drain, Aborting
<1>6. ~write_reserve /\ ~enqueue /\ ~terminate_split /\ \A n : ~ne_write(n)
  BY <1>1 DEF write_reserve, enqueue, terminate_split, ne_write
<1> QED BY <1>2, <1>3, <1>4, <1>5, <1>6 DEF Call, InCall

\* The steps of the master of a reader.
LEMMA FollowMaster ==
  ASSUME NEW k \in Nat, NEW d \in Nat, MasterFacts(k, d), Call \/ InCall
  PROVE  Following'
<1>1. CASE start \/ seek_go
  BY <1>1, FollowGo
<1>2. CASE read_stripes
  BY <1>2, FollowStripes
<1>3. CASE dequeue
  BY <1>3, FollowDequeue
<1>4. CASE ~(start \/ seek_go) /\ ~read_stripes /\ ~dequeue
  <2>1. goffset' = goffset
    BY <1>4 DEF MasterFacts
  <2> QED BY <1>4, <2>1, RowMaster, FollowRow
<1> QED BY <1>1, <1>2, <1>3, <1>4

\* The place of a part is one in the data, at the start of a part.
LEMMA PartPlace ==
  ASSUME TypeOK, NEW off \in PartStarts
  PROVE  off \in Nat /\ off < DataSz /\ Whole(off)
<1>1. PartSz \in Nat \ {0} /\ minfo.parts \in Nat \ {0} /\ PartSz = minfo.partsz
  BY ReadSizes DEF TypeOK, PartSz
<1>2. PICK m \in 0 .. (minfo.parts - 1) : off = PartSz * m
  BY DEF PartStarts
<1>3. m * PartSz \in Int /\ m * PartSz < minfo.parts * PartSz /\ 0 * PartSz <= m * PartSz
  BY <1>1, <1>2, Multiples
<1>4. off = m * PartSz /\ DataSz = minfo.parts * PartSz /\ 0 * PartSz = 0
  BY <1>1, <1>2 DEF DataSz
<1> QED BY <1>2, <1>3, <1>4 DEF Whole

\* ABORT and FINISHED stand once they are set, and are set only in ne_abort() and ne_close().
LEMMA FlagsSet ==
  ASSUME NEW k \in Nat, NEW d \in Nat, MasterFacts(k, d), Call \/ InCall
  PROVE  /\ (Flagged("ABORT"))' => Aborting'
         /\ tpc' \in {"term", "exit"} => (Flagged("ABORT") \/ Flagged("FINISHED"))'
<1>1. /\ TypeOK /\ Reading /\ ReadState /\ UNCHANGED tpc
      /\ (Flagged("FINISHED") => (Flagged("FINISHED"))') /\ (Flagged("ABORT") => (Flagged("ABORT"))')
  BY DEF MasterFacts
<1>2. Aborting => Aborting'
  BY AbortStays DEF MasterFacts, Next
<1>3. ne_abort \/ con_flags' \in {con_flags, con_flags \ {"HALT"}} \cup {con_flags \cup {x} : x \in {"HALT", "FINISHED"}}
  BY DEF Call, InCall, read_stripes, park, ne_seek, unpark, write_reserve, ne_write, ne_close, ne_abort, start, dequeue,
         seek_release, seek_unblock, wait_for_pause, drain, seek_go, enqueue, terminate_split, terminate_last,
         terminate_thread, wait_for_completion, last_drain, abort_unhalt, abort_drain, abort_release, join,
         DropOne, Goto, tqVars
<1>4. ne_abort => Aborting'
  BY DEF ne_abort, Aborting
<1>5. (Flagged("ABORT"))' => Aborting'
  BY <1>1, <1>2, <1>3, <1>4 DEF Flagged, ReadState
<1> QED BY <1>1, <1>5 DEF ReadState

\* Where the master seeks and how much it has read.
LEMMA ReadStateMaster ==
  ASSUME NEW k \in Nat, NEW d \in Nat, MasterFacts(k, d), Call \/ InCall
  PROVE  ReadState'
<1>1. /\ TypeOK /\ Reading /\ ReadState /\ UNCHANGED <<tpc, data_error, faulted, handle, DataSz, PartSz, block>>
      /\ (\A x : Whole(x) <=> Whole(x)') /\ (goffset' = goffset \/ seek_go) /\ mpc \notin {"enqueue", "close_enqueue"} /\ ~Writing
      /\ MasterInv
  BY EitherMode DEF MasterFacts, ReaderInv
<1>2. /\ (Flagged("ABORT") => Aborting)'
      /\ (tpc \in {"term", "exit"} => Flagged("ABORT") \/ Flagged("FINISHED"))'
  BY FlagsSet
<1>3. (goffset < DataSz /\ Whole(goffset))'
  <2>1. goffset' < DataSz /\ Whole(goffset')
    <3>1. CASE goffset' = goffset
      BY <1>1, <3>1 DEF ReadState
    <3>2. CASE seek_go
      BY <1>1, <3>2 DEF ReadState, seek_go, Seeking, Cleared
    <3> QED BY <1>1, <3>1, <3>2
  <2> QED BY <1>1, <2>1 DEF Whole
<1>4. (mpc \in Seeking => target < DataSz /\ Whole(target))'
  <2>1. CASE \E off \in PartStarts : ne_seek(off) \/ unpark(off)
    <3>1. PICK off \in PartStarts : target' = off
      BY <2>1 DEF ne_seek, unpark
    <3>2. off < DataSz /\ Whole(off)
      BY <1>1, PartPlace
    <3> QED BY <1>1, <3>1, <3>2 DEF Whole
  <2>2. CASE ~\E off \in PartStarts : ne_seek(off) \/ unpark(off)
    <3>1. target' = target /\ (mpc' \in Seeking => mpc \in Seeking)
      BY <2>2 DEF Call, InCall, read_stripes, park, write_reserve, ne_write, ne_close, ne_abort, start, dequeue,
         seek_release, seek_unblock, wait_for_pause, drain, seek_go, enqueue, terminate_split, terminate_last,
         terminate_thread, wait_for_completion, last_drain, abort_unhalt, abort_drain, abort_release, join,
         DropOne, Goto, masterVars, Seeking, Cleared
    <3> QED BY <1>1, <3>1 DEF ReadState, Whole
  <2> QED BY <2>1, <2>2
<1>5. CASE start
  <2>1. mpc' = "idle" /\ miob' = NULL /\ iob_datasz' = 0
    BY <1>1, <1>5 DEF start, MasterInv, ReadState
  <2> QED BY <1>1, <1>2, <1>3, <1>4, <2>1 DEF ReadState
<1>6. CASE dequeue
  <2>1. queue # <<>> /\ miob' = Head(queue) /\ iob_datasz' = Fill(Head(queue)) /\ mpc' = "idle"
    BY <1>6, FollowDequeue
  <2>2. miob' # NULL
    <3>1. queue \in Seq(Blocks) /\ NULL \notin Blocks
      BY <1>1, PlacesType DEF TypeOK
    <3>2. Head(queue) \in Blocks
      BY <2>1, <3>1, HeadTailProperties
    <3> QED BY <2>1, <3>1, <3>2
  <2>3. Fill(miob)' = Fill(Head(queue))
    BY <1>1, <2>1 DEF Fill
  <2> QED BY <1>1, <1>2, <1>3, <1>4, <2>1, <2>2, <2>3 DEF ReadState
<1>7. CASE read_stripes \/ seek_go
  <2>1. mpc' = "dequeue" /\ iob_offset' < DataSz
    BY <1>1, <1>7 DEF read_stripes, seek_go, ReadState, Seeking, Cleared
  <2> QED BY <1>1, <1>2, <1>3, <1>4, <2>1 DEF ReadState
<1>8. CASE ~(start \/ seek_go) /\ ~read_stripes /\ ~dequeue
  <2>1. mpc' \notin {"idle", "dequeue", "start", "null"}
    BY <1>8, RowMaster
  <2> QED BY <1>1, <1>2, <1>3, <1>4, <2>1 DEF ReadState
<1> QED BY <1>5, <1>6, <1>7, <1>8

\* What the invariant says of a reader.
ReadInv == Reading => ReadState /\ Following

\* It is kept.
LEMMA ReadNext ==
  ASSUME BlockInv, ReadInv, Next
  PROVE  ReadInv'
<1>1. Reading' = Reading
  BY SizesKept, ReaderKeeps, WriterKeeps, MasterKeeps DEF Next
<1> SUFFICES ASSUME Reading PROVE ReadState' /\ Following'
  BY <1>1 DEF ReadInv
<1>2. CASE Reader
  BY <1>2, FollowReader DEF ReadInv
<1>3. CASE Call \/ InCall
  <2>1. PICK k \in Nat, d \in Nat : ReadGiven(k, d)
    BY DEF ReadInv, Following, ReadGiven
  <2>2. MasterFacts(k, d)
    BY <1>3, <2>1, MasterGiven
  <2> QED BY <1>3, <2>1, <2>2, FollowMaster, ReadStateMaster
<1>4. ~Writer
  BY EitherMode DEF Writer, consumer_take, consumer_quit, write_consume, write_term, BlockInv
<1> QED BY <1>2, <1>3, <1>4 DEF Next

\* What the reader's part of the property needs of it.
LEMMA ReadRight ==
  ASSUME BlockInv, MarkInv, ReadInv
  PROVE  DeliveredInOrder /\ NoFalseAlarm /\ (Reading => NeverNull)
<1> SUFFICES ASSUME Reading PROVE DeliveredInOrder /\ NoFalseAlarm /\ NeverNull
  BY DEF DeliveredInOrder, NoFalseAlarm
<1>1. TypeOK /\ ReadState /\ ResumeInv /\ FlagInv /\ NULL \notin Blocks
  BY PlacesType DEF BlockInv, CtlInv, ReadInv
<1>2. ASSUME mpc = "idle", miob # NULL
      PROVE  /\ Fill(miob) > 0 /\ Fill(miob) % PartSz = 0
             /\ \A i \in (block[miob].error_end + 1) .. Fill(miob) : block[miob].buff[i] = iob_offset + i
             /\ ~faulted => block[miob].error_end = 0
  <2>1. ~Aborting /\ tpc \notin {"term", "exit"}
    BY <1>1, <1>2 DEF Aborting, ReadState, FlagInv, Ending
  <2>2. PICK k \in Nat, d \in Nat, s \in Int, a \in Int, at \in Ats : Flow(k, d, s, a, at) /\ Synced(d, s, a)
    BY <2>1 DEF ReadInv, Following, Tracked, Live
  <2>3. ~Resumes
    BY <1>1, <1>2, <2>1 DEF Resumes, ResumeInv
  <2>4. a = iob_offset /\ junk = 0
    BY <1>1, <1>2, <2>2, <2>3 DEF Synced, Resumes, TypeOK
  <2>5. miob \in Blocks /\ miob \in Places /\ queue \in Seq(Blocks) /\ cur_work \in Places /\ NULL \in Places
        /\ block \in [Blocks -> BlockType]
    BY <1>1, <1>2, PlacesType DEF TypeOK, Places, BlockType
  <2>6. ReadRow[1] = miob /\ Len(ReadRow) \in Nat /\ Len(ReadRow) >= 1 /\ ReadRow \in Seq(Blocks)
    <3>1. Held(miob, queue, NULL, cur_work)[1] = miob /\ Held(miob, queue, NULL, cur_work) \in Seq(Blocks)
      BY <1>2, <2>5, HeldType
    <3>2. Len(Held(miob, queue, NULL, cur_work)) = Cnt(miob) + Len(queue) + Cnt(NULL) + Cnt(cur_work)
      BY <2>5, HeldType
    <3>3. Len(queue) \in Nat /\ Cnt(miob) = 1 /\ Cnt(NULL) = 0 /\ Cnt(cur_work) \in {0, 1}
      BY <1>2, <2>5 DEF Cnt
    <3> QED BY <3>1, <3>2, <3>3 DEF ReadRow
  <2>7. ReadRow # <<>> /\ 1 \in 1 .. Len(ReadRow)
    BY <2>6, EmptySeq
  <2>8. Deliverable(miob)
    BY <2>2, <2>4, <2>6, <2>7 DEF Flow
  <2>9. Bytes(block[miob], a)
    <3>1. Row(ReadRow, at, a, s, block)
      BY <2>2 DEF Flow
    <3>2. at[ReadRow[1]] = a /\ Bytes(block[ReadRow[1]], at[ReadRow[1]])
      BY <2>6, <2>7, <3>1 DEF Row
    <3> QED BY <2>6, <3>2
  <2>10. Fill(miob) \in Nat /\ Fill(miob) = Len(block[miob].buff) /\ block[miob].error_end \in Int
    BY <2>5 DEF Fill, BlockType
  <2>11. Fill(miob) > 0 /\ Whole(Fill(miob)) /\ (~faulted => block[miob].error_end = 0)
    BY <2>8 DEF Deliverable, Sound, Fill
  <2>12. Fill(miob) % PartSz = 0
    BY <1>1, <2>10, <2>11, Wholes
  <2>13. ASSUME NEW i \in (block[miob].error_end + 1) .. Fill(miob) PROVE block[miob].buff[i] = iob_offset + i
    <3>1. block[miob].error_end \in Nat
      BY <2>5 DEF MarkInv
    <3>2. i \in 1 .. Len(block[miob].buff) /\ i > block[miob].error_end
      BY <2>10, <3>1
    <3> QED BY <2>4, <2>9, <3>2 DEF Bytes
  <2> QED BY <2>11, <2>12, <2>13
<1>3. NeverNull
  BY <1>1 DEF ReadState, NeverNull
<1> QED BY <1>1, <1>2, <1>3 DEF DeliveredInOrder, NoFalseAlarm, ReadState

\* The marks are kept.
LEMMA MarkNext ==
  ASSUME BlockInv, MarkInv, Next
  PROVE  MarkInv'
<1>1. /\ TypeOK /\ UNCHANGED <<dmode, minfo>> /\ Writing' = Writing
      /\ block \in [Blocks -> BlockType] /\ head \in Blocks /\ Split \in Nat \ {0}
      /\ iob \in Places /\ miob \in Places /\ NULL \notin Blocks
      /\ (Reading /\ ~Writing) \/ (Writing /\ ~Reading)
  <2>1. UNCHANGED <<dmode, minfo>>
    BY ReaderKeeps, WriterKeeps, MasterKeeps DEF Next
  <2>2. TypeOK /\ block \in [Blocks -> BlockType] /\ head \in Blocks /\ iob \in Places /\ miob \in Places
    BY DEF BlockInv, TypeOK, BlockType, Places
  <2> QED BY <2>1, <2>2, Sizes, EitherMode, SizesKept, PlacesType
<1>2. SUFFICES \A b \in Blocks : block'[b].error_end \in Nat /\ (Writing => block'[b].error_end = 0)
  BY <1>1 DEF MarkInv
<1>3. CASE block' = block
  BY <1>3 DEF MarkInv
<1>4. CASE read_produce_fill
  <2>1. Reading /\ ToRead > CrcBytes
    BY <1>4 DEF read_produce_fill
  <2>2. PICK ok \in BOOLEAN : (HasRoom(iob) /\ FillFrom(iob, block[iob], ok)) \/ FillFrom(head, Empty, ok)
    BY <1>4 DEF read_produce_fill
  <2>3. Empty \in BlockType /\ Empty.error_end = 0
    BY DEF Empty, BlockType
  <2>4. PICK b \in Blocks, blk \in BlockType : FillFrom(b, blk, ok) /\ blk.error_end \in Nat
    <3>1. CASE HasRoom(iob) /\ FillFrom(iob, block[iob], ok)
      <4>1. iob \in Blocks /\ block[iob] \in BlockType
        BY <1>1, <3>1 DEF HasRoom, Places
      <4> QED BY <3>1, <4>1 DEF MarkInv
    <3>2. CASE FillFrom(head, Empty, ok)
      BY <1>1, <2>3, <3>2
    <3> QED BY <2>2, <3>1, <3>2
  <2>5. block' \in [Blocks -> BlockType] /\ \A i \in Blocks : i # b => block'[i] = block[i]
    BY <1>1, <2>1, <2>4, FillFromType
  <2>6. block'[b].error_end \in Nat
    <3>1. block'[b].error_end = IF ok THEN blk.error_end ELSE Len(block'[b].buff)
      BY <1>1, <2>4 DEF FillFrom
    <3>2. Len(block'[b].buff) \in Nat
      BY <2>5 DEF BlockType
    <3> QED BY <2>4, <3>1, <3>2
  <2> QED BY <1>1, <2>1, <2>5, <2>6 DEF MarkInv
<1>5. ASSUME NEW b \in Places, ~HasRoom(b), depth > 0, block' = Reserved(b)
      PROVE  \A i \in Blocks : block'[i].error_end \in Nat /\ (Writing => block'[i].error_end = 0)
  <2>1. b # NULL => b \in Blocks /\ block[b].error_end \in Nat /\ (Writing => block[b].error_end = 0) /\ Fill(b) \in Nat /\ Fill(b) >= Split
    <3>1. b # NULL => b \in Blocks /\ block[b] \in BlockType
      BY <1>1 DEF Places
    <3>2. b # NULL => Fill(b) \in Nat
      BY <3>1 DEF Fill, BlockType
    <3> QED BY <1>1, <1>5, <3>1, <3>2 DEF MarkInv, HasRoom
  <2>2. Moved(b).error_end \in Nat /\ (Writing => Moved(b).error_end = 0)
    <3>1. CASE b = NULL \/ Fill(b) = Split
      BY <3>1 DEF Moved, Empty
    <3>2. CASE b # NULL /\ Fill(b) # Split /\ block[b].error_end > Split
      <4>1. Moved(b).error_end = Fill(b) - Split
        BY <3>2 DEF Moved
      <4> QED BY <1>1, <2>1, <3>2, <4>1
    <3>3. CASE b # NULL /\ Fill(b) # Split /\ ~(block[b].error_end > Split)
      BY <3>3 DEF Moved
    <3> QED BY <3>1, <3>2, <3>3
  <2> TAKE i \in Blocks
  <2>3. CASE i = head
    BY <1>1, <1>5, <2>2, <2>3 DEF Reserved
  <2>4. CASE i # head /\ i = b
    <3>1. block'[i].error_end = block[i].error_end
      BY <1>1, <1>5, <2>4 DEF Reserved, BlockType
    <3> QED BY <3>1 DEF MarkInv
  <2>5. CASE i # head /\ i # b
    <3>1. block'[i] = block[i]
      BY <1>1, <1>5, <2>5 DEF Reserved
    <3> QED BY <3>1 DEF MarkInv
  <2> QED BY <2>3, <2>4, <2>5
<1>6. CASE read_produce_push \/ write_reserve \/ terminate_split
  BY <1>1, <1>5, <1>6 DEF read_produce_push, write_reserve, terminate_split, Reserve
<1>7. CASE read_resume_align
  <2>1. PICK b \in Blocks : block' = Aligned(b)
    BY <1>1, <1>7 DEF read_resume_align, Places
  <2>2. Reading
    BY <1>7 DEF read_resume_align, Resuming
  <2>3. Falsefill(Trim) \in Nat
    <3>1. Trim \in Nat
      <4>1. Payload \in Nat \ {0} /\ goffset \in Nat
        BY <1>1, Sizes DEF TypeOK
      <4> QED BY <4>1, Divided DEF Trim
    <3> DEFINE q == Trim \div Split  r == Trim % Split
    <3>2. q \in Nat /\ r \in 0 .. Split - 1 /\ Trim = q * Split + r
      BY <1>1, <3>1, Divided
    <3>3. Falsefill(Trim) = Split - (Trim - ((q + 1) - 1) * Split)
      BY DEF Falsefill, JunkBlocks
    <3> HIDE DEF q, r
    <3>4. ((q + 1) - 1) * Split = q * Split /\ q * Split \in Nat
      BY <1>1, <3>2
    <3> QED BY <1>1, <3>1, <3>2, <3>3, <3>4
  <2> QED BY <1>1, <2>1, <2>2, <2>3 DEF Aligned, MarkInv
<1>8. ASSUME NEW n \in 1 .. PartSz, ne_write(n)
      PROVE  \A b \in Blocks : block'[b].error_end = block[b].error_end
  <2>1. block' = [block EXCEPT ![miob].buff = @ \o [i \in 1 .. n |-> written + i]]
    BY <1>8 DEF ne_write
  <2> QED BY <1>1, <2>1 DEF BlockType
<1>9. \/ block' = block \/ read_produce_fill \/ read_produce_push \/ write_reserve \/ terminate_split
      \/ read_resume_align \/ \E n \in 1 .. PartSz : ne_write(n)
  BY WriterKeeps
     DEF Next, Reader, Call, InCall, read_produce_end, read_produce_last, producer_post, producer_wake, read_resume_stay,
         read_resume_seek, junk_block, Released, read_term, read_stripes, park, ne_seek, unpark, ne_close, ne_abort,
         start, dequeue, seek_release, seek_unblock, wait_for_pause, drain, seek_go, enqueue, terminate_last,
         terminate_thread, wait_for_completion, last_drain, abort_unhalt, abort_drain, abort_release, join,
         DropOne, Goto, ringVars
<1> QED BY <1>3, <1>4, <1>6, <1>7, <1>8, <1>9 DEF MarkInv

-----------------------------------------------------------------------------
(* What a writer has put, and what is on its way.                          *)

\* The master has given the thread its last block.
Done == miob = NULL /\ mpc \in {"close", "join", "closed"}

\* how much the IOs hold that have been put
Put == IF ios = <<>> THEN 0 ELSE (Len(ios) - 1) * Payload + Len(ios[Len(ios)])

\* The IOs hold the data in order; all but the last block of the handle are full.
IosRight ==
  /\ ios \in Seq(Seq(Int))
  /\ \A k \in 1 .. Len(ios) :
       /\ ios[k] = [i \in 1 .. Len(ios[k]) |-> (k - 1) * Payload + i]
       /\ Len(ios[k]) <= Payload
       /\ k < Len(ios) \/ ~Done \/ WriteRow # <<>> => Len(ios[k]) = Payload

\* Blocks that become IOs: no empty one, and full ones but for the last.
RowFull(s, blk, done) ==
  \A n \in 1 .. Len(s) : Len(blk[s[n]].buff) > 0 /\ (n < Len(s) \/ ~done => Len(blk[s[n]].buff) = Payload)

\* The blocks on their way hold the data behind those of the IOs, up to s, where the block of
\* the master begins.
WriteFlow(s, at) ==
  /\ s = written - (IF miob = NULL THEN 0 ELSE Fill(miob))
  /\ IosRight
  /\ Row(WriteRow, at, Put, s, block)
  /\ miob # NULL => Bytes(block[miob], s)
  /\ RowFull(WriteRow, block, Done)

WriteState ==
  /\ Aborting => tpc # "term" /\ handle # "committed"
  /\ mpc \in {"start", "idle"} /\ miob = NULL => written = 0
  /\ mpc \in {"enqueue", "close_enqueue"} => miob # NULL
  /\ handle = "committed" => tpc = "exit" /\ ~data_error

Going == ~Aborting /\ ~data_error
WriteInv == Writing => WriteState /\ (Going => \E s \in Int, at \in Ats : WriteFlow(s, at))

\* What all its steps are given.
WriteGiven == BlockInv /\ MarkInv /\ WriteInv /\ Writing

\* What they have in common.
WriteFacts ==
  /\ TypeOK /\ WriterInv /\ FullInv /\ FlagInv /\ BlockInv /\ MarkInv /\ WriteState /\ Writing /\ ~Reading
  /\ UNCHANGED <<dmode, minfo, Payload, Split, PartSz>> /\ Writing' /\ ~Reading'
  /\ Split = Payload /\ Payload \in Nat \ {0} /\ written \in Nat
  /\ block \in [Blocks -> BlockType] /\ head \in Blocks /\ NULL \notin Blocks /\ NULL \in Places
  /\ cur_work \in Places /\ queue \in Seq(Blocks) /\ push \in Places /\ miob \in Places
  /\ WriteRow \in Seq(Blocks) /\ (\A n \in 1 .. Len(WriteRow) : WriteRow[n] \in Blocks)
  /\ (miob # NULL => miob \in Blocks /\ Fill(miob) \in Nat)
  /\ (Aborting => Aborting')
  /\ (Going => \E s \in Int, at \in Ats : WriteFlow(s, at))

\* It is so.
LEMMA WriteFactsHold ==
  ASSUME WriteGiven, Next
  PROVE  WriteFacts
<1>1. /\ TypeOK /\ WriterInv /\ FullInv /\ FlagInv /\ BlockInv /\ MarkInv /\ WriteState /\ Writing /\ ~Reading
      /\ (Going => \E s \in Int, at \in Ats : WriteFlow(s, at))
  BY EitherMode DEF WriteGiven, BlockInv, CtlInv, WriteInv
<1>2. UNCHANGED <<dmode, minfo>>
  BY <1>1, ReaderKeeps, WriterKeeps, MasterKeeps DEF Next
<1>3. UNCHANGED <<Payload, Split, PartSz>> /\ Writing' /\ ~Reading'
  BY <1>1, <1>2, SizesKept
<1>4. Split = Payload /\ Payload \in Nat \ {0} /\ written \in Nat
  <2>1. Split = Payload
    BY <1>1 DEF Split
  <2>2. written \in Nat
    BY <1>1 DEF TypeOK
  <2> QED BY <1>1, <2>1, <2>2, Sizes
<1>5. /\ block \in [Blocks -> BlockType] /\ head \in Blocks /\ NULL \notin Blocks /\ NULL \in Places
      /\ cur_work \in Places /\ queue \in Seq(Blocks) /\ push \in Places /\ miob \in Places
  BY <1>1, PlacesType DEF TypeOK, BlockType, Places
<1>6. WriteRow \in Seq(Blocks)
  BY <1>1, HoldersAnd
<1>7. \A n \in 1 .. Len(WriteRow) : WriteRow[n] \in Blocks
  BY <1>6
<1>8. miob # NULL => miob \in Blocks /\ Fill(miob) \in Nat
  BY <1>5 DEF Places, Fill, BlockType
<1>9. Aborting => Aborting'
  BY <1>1, AbortStays DEF Next
<1> QED BY <1>1, <1>2, <1>3, <1>4, <1>5, <1>6, <1>7, <1>8, <1>9 DEF WriteFacts

\* Nothing is known to move.
LEMMA FlowStands ==
  ASSUME WriteFacts, Going' => Going, UNCHANGED <<written, ios, block, miob, WriteRow>>, Done => Done'
  PROVE  Going' => (\E s \in Int, at \in Ats : WriteFlow(s, at))'
<1> SUFFICES ASSUME Going' PROVE \E s \in Int, at \in Ats : (WriteFlow(s, at))'
  OBVIOUS
<1>1. PICK s \in Int, at \in Ats : WriteFlow(s, at)
  BY DEF WriteFacts
<1>2. UNCHANGED <<Payload, Put>>
  BY DEF WriteFacts, Put
<1>3. s = written' - (IF miob' = NULL THEN 0 ELSE Fill(miob)')
  BY <1>1 DEF WriteFlow, Fill
<1>4. IosRight'
  BY <1>1, <1>2 DEF WriteFlow, IosRight
<1>5. Row(WriteRow', at, Put', s, block')
  BY <1>1, <1>2 DEF WriteFlow
<1>6. (RowFull(WriteRow, block, Done))'
  BY <1>1, <1>2 DEF WriteFlow, RowFull
<1>7. miob' # NULL => Bytes(block'[miob'], s)
  BY <1>1 DEF WriteFlow
<1>8. (WriteFlow(s, at))'
  BY <1>3, <1>4, <1>5, <1>6, <1>7 DEF WriteFlow
<1> QED BY <1>8

\* The thread takes a block, or quits.
LEMMA WriteTake ==
  ASSUME WriteFacts, consumer_take \/ consumer_quit
  PROVE  WriteInv'
<1>1. /\ UNCHANGED <<mpc, miob, push, block, ios, written, data_error, handle>> /\ tpc = "halted" /\ (Aborting' <=> Aborting)
  BY DEF consumer_take, consumer_quit, ringVars, stateVars, masterVars, Aborting
<1>2. cur_work = NULL
  BY <1>1 DEF WriteFacts, WriterInv
<1>3. WriteRow' = WriteRow /\ (Aborting => tpc' # "term")
  <2>1. CASE consumer_take
    <3>1. queue # <<>> /\ cur_work' = Head(queue) /\ queue' = Tail(queue) /\ tpc' = "work"
      BY <2>1 DEF consumer_take
    <3>2. Held(Head(queue), Tail(queue), NULL, push) = Held(NULL, queue, NULL, push)
      BY <3>1, HeldMoves DEF WriteFacts
    <3> QED BY <1>1, <1>2, <3>1, <3>2 DEF WriteRow
  <2>2. CASE consumer_quit
    <3>1. UNCHANGED <<cur_work, queue>> /\ (Aborting => tpc' = "abort")
      BY <2>2 DEF consumer_quit, tqVars, WriteFacts, FlagInv
    <3> QED BY <1>1, <3>1 DEF WriteRow
  <2> QED BY <2>1, <2>2
<1>4. Done' <=> Done
  BY <1>1 DEF Done
<1>5. Going' => (\E s \in Int, at \in Ats : WriteFlow(s, at))'
  BY <1>1, <1>3, <1>4, FlowStands DEF Going
<1>6. WriteState'
  BY <1>1, <1>3 DEF WriteFacts, WriteState
<1> QED BY <1>5, <1>6 DEF WriteInv

\* write_consume() puts the oldest block.
LEMMA WritePut ==
  ASSUME WriteFacts, write_consume, Going'
  PROVE  \E s \in Int, at \in Ats : (WriteFlow(s, at))'
<1>1. /\ UNCHANGED <<mpc, miob, push, block, queue, written>> /\ tpc = "work" /\ cur_work' = NULL /\ (Aborting' <=> Aborting)
  BY DEF write_consume, Released, masterVars, Aborting
<1>2. cur_work \in Blocks /\ cur_work # NULL
  BY <1>1 DEF WriteFacts, WriterInv, Places
<1>3. Going
  <2>1. data_error => data_error'
    BY DEF write_consume
  <2> QED BY <1>1, <2>1 DEF Going
<1>4. PICK s \in Int, at \in Ats : WriteFlow(s, at)
  BY <1>3 DEF WriteFacts
<1> DEFINE r == WriteRow  data == block[cur_work].buff  n == Len(data)  m == Len(ios)
<1>5. /\ r \in Seq(Blocks) /\ r # <<>> /\ r[1] = cur_work /\ WriteRow' = Tail(r)
  <2>1. Held(cur_work, queue, NULL, push)[1] = cur_work /\ Held(cur_work, queue, NULL, push) \in Seq(Blocks)
    BY <1>2, HeldType DEF WriteFacts
  <2>2. Len(Held(cur_work, queue, NULL, push)) = Cnt(cur_work) + Len(queue) + Cnt(NULL) + Cnt(push)
    BY HeldType DEF WriteFacts
  <2>3. Len(queue) \in Nat /\ Cnt(cur_work) = 1 /\ Cnt(NULL) = 0 /\ Cnt(push) \in {0, 1} /\ Len(<<>>) = 0
    BY <1>2 DEF Cnt, WriteFacts
  <2>4. Held(NULL, queue, NULL, push) = Tail(Held(cur_work, queue, NULL, push))
    BY <1>2, HeldRelease DEF WriteFacts
  <2>5. WriteRow' = Held(NULL, queue, NULL, push)
    BY <1>1 DEF WriteRow
  <2> QED BY <2>1, <2>2, <2>3, <2>4, <2>5 DEF WriteRow
<1>6. Len(r) \in Nat \ {0} /\ 1 \in 1 .. Len(r)
  BY <1>5, EmptySeq
<1>7. /\ data \in Seq(Int) /\ n \in Nat /\ block[cur_work].error_end = 0 /\ Payload \in Nat \ {0}
      /\ block \in [Blocks -> BlockType]
  BY <1>2 DEF WriteFacts, BlockType, MarkInv
<1>8. n > 0 /\ n <= Payload /\ (~Done \/ Len(r) > 1 => n = Payload)
  <2>1. RowFull(r, block, Done)
    BY <1>4 DEF WriteFlow
  <2>2. n > 0 /\ (1 < Len(r) \/ ~Done => n = Payload)
    BY <1>5, <1>6, <2>1 DEF RowFull
  <2>3. n <= Payload
    <3>1. Fill(cur_work) <= Split
      BY <1>2, <1>3 DEF WriteFacts, FullInv, Going
    <3> QED BY <3>1 DEF Fill, WriteFacts
  <2> QED BY <1>6, <2>2, <2>3
<1>9. ios' = Append(ios, data)
  <2>1. data # <<>>
    BY <1>7, <1>8
  <2>2. ~data_error'
    BY DEF Going
  <2> QED BY <1>7, <1>8, <2>1, <2>2 DEF write_consume
<1>10. /\ ios \in Seq(Seq(Int)) /\ m \in Nat
       /\ \A k \in 1 .. m : ios[k] = [i \in 1 .. Len(ios[k]) |-> (k - 1) * Payload + i] /\ Len(ios[k]) = Payload
  BY <1>4, <1>5 DEF WriteFlow, IosRight
<1>11. Put = m * Payload
  <2>1. CASE ios = <<>>
    BY <1>7, <2>1 DEF Put
  <2>2. CASE ios # <<>>
    <3>1. m \in 1 .. m
      BY <1>10, <2>2, EmptySeq
    <3>2. Put = (m - 1) * Payload + Payload
      BY <1>10, <2>2, <3>1 DEF Put
    <3>3. (m - 1) * Payload = m * Payload - 1 * Payload
      BY <1>7, <1>10, Multiples
    <3>4. m * Payload \in Int /\ 1 * Payload = Payload
      BY <1>7, <1>10
    <3> QED BY <1>7, <3>2, <3>3, <3>4
  <2> QED BY <2>1, <2>2
<1>12. /\ Bytes(block[cur_work], Put)
       /\ Row(Tail(r), at, Put + n, s, block)
       /\ Tail(r) \in Seq(Blocks) /\ Len(Tail(r)) = Len(r) - 1 /\ \A i \in 1 .. Len(Tail(r)) : Tail(r)[i] = r[i + 1]
  <2>1. PICK p \in Int : p = Put
    BY <1>7, <1>10, <1>11
  <2>2. Row(r, at, p, s, block)
    BY <1>4, <2>1 DEF WriteFlow
  <2> HIDE DEF r
  <2> QED BY <1>5, <1>7, <2>1, <2>2, RowTail
<1>13. data = [i \in 1 .. n |-> m * Payload + i]
  <2>1. \A i \in 1 .. n : data[i] = m * Payload + i
    <3>1. \A i \in 1 .. n : i > 0 /\ data[i] = Put + i
      BY <1>7, <1>12 DEF Bytes
    <3> HIDE DEF data, m, n
    <3> QED BY <1>11, <3>1, Zenon
  <2>2. data = [i \in 1 .. n |-> data[i]]
    <3>1. data \in [1 .. n -> Int]
      BY <1>7, LenProperties
    <3> HIDE DEF data, n
    <3> QED BY <3>1
  <2> HIDE DEF data, m, n
  <2> QED BY <2>1, <2>2
<1>14. /\ Len(ios') = m + 1 /\ ios'[m + 1] = data /\ ios' \in Seq(Seq(Int)) /\ \A k \in 1 .. m : ios'[k] = ios[k]
  BY <1>7, <1>9, <1>10
<1>15. Payload' = Payload /\ (Done' <=> Done)
  BY <1>1 DEF WriteFacts, Done
<1>16. Put' = Put + n
  <2>1. ios' # <<>>
    BY <1>10, <1>14
  <2>2. Put' = (m + 1 - 1) * Payload + n
    BY <1>14, <1>15, <2>1 DEF Put
  <2>3. m + 1 - 1 = m
    BY <1>10
  <2> QED BY <1>11, <2>2, <2>3
<1>17. IosRight'
  <2> SUFFICES ASSUME NEW k \in 1 .. m + 1
               PROVE  /\ ios'[k] = [i \in 1 .. Len(ios'[k]) |-> (k - 1) * Payload + i]
                      /\ Len(ios'[k]) <= Payload
                      /\ k < m + 1 \/ ~Done \/ Tail(r) # <<>> => Len(ios'[k]) = Payload
    BY <1>5, <1>14, <1>15 DEF IosRight
  <2>1. CASE k = m + 1
    <3>1. k - 1 = m /\ ~(k < m + 1)
      BY <1>10, <2>1
    <3>2. Tail(r) # <<>> => Len(r) > 1
      BY <1>6, <1>12, EmptySeq
    <3> QED BY <1>8, <1>13, <1>14, <2>1, <3>1, <3>2
  <2>2. CASE k # m + 1
    <3>1. k \in 1 .. m
      BY <1>10, <2>2
    <3>2. ios'[k] = ios[k] /\ Len(ios[k]) = Payload /\ ios[k] = [i \in 1 .. Len(ios[k]) |-> (k - 1) * Payload + i]
      BY <1>10, <1>14, <3>1
    <3> QED BY <1>7, <3>2
  <2> QED BY <2>1, <2>2
<1>18. (RowFull(WriteRow, block, Done))'
  <2>1. RowFull(r, block, Done)
    BY <1>4 DEF WriteFlow
  <2>2. \A i \in 1 .. Len(Tail(r)) : i + 1 \in 1 .. Len(r) /\ Tail(r)[i] = r[i + 1] /\ (i < Len(Tail(r)) => i + 1 < Len(r))
    BY <1>6, <1>12
  <2>3. RowFull(Tail(r), block, Done)
    BY <2>1, <2>2 DEF RowFull
  <2> QED BY <1>1, <1>5, <1>15, <2>3 DEF RowFull
<1>19. Row(WriteRow', at, Put', s, block')
  BY <1>1, <1>5, <1>12, <1>16
<1>20. s = written' - (IF miob' = NULL THEN 0 ELSE Fill(miob)') /\ (miob' # NULL => Bytes(block'[miob'], s))
  BY <1>1, <1>4 DEF WriteFlow, Fill
<1> QED BY <1>17, <1>18, <1>19, <1>20 DEF WriteFlow

\* The steps of the writer thread.
LEMMA WriteThread ==
  ASSUME WriteFacts, Writer
  PROVE  WriteInv'
<1>1. CASE consumer_take \/ consumer_quit
  BY <1>1, WriteTake
<1>2. CASE write_consume
  <2>1. /\ UNCHANGED <<mpc, miob, written, handle>> /\ tpc' = "halted" /\ tpc = "work" /\ (Aborting' <=> Aborting)
    BY <1>2 DEF write_consume, masterVars, Aborting
  <2>2. WriteState'
    BY <2>1 DEF WriteFacts, WriteState
  <2> QED BY <1>2, <2>2, WritePut DEF WriteInv
<1>3. CASE write_term
  <2>1. /\ UNCHANGED <<mpc, miob, written, block, ios, push, cur_work, queue>> /\ tpc' = "exit" /\ (Aborting' <=> Aborting)
        /\ (data_error => data_error') /\ (handle' = "committed" => ~data_error' /\ tpc # "abort")
    BY <1>3 DEF write_term, ringVars, tqVars, masterVars, Aborting
  <2>2. tpc \in {"term", "abort"}
    BY <1>3 DEF write_term
  <2>3. WriteState'
    BY <2>1, <2>2 DEF WriteFacts, WriteState
  <2>4. (Done' <=> Done) /\ UNCHANGED WriteRow
    BY <2>1 DEF Done, WriteRow
  <2>5. Going' => (\E s \in Int, at \in Ats : WriteFlow(s, at))'
    BY <2>1, <2>4, FlowStands DEF Going
  <2> QED BY <2>3, <2>5 DEF WriteInv
<1> QED BY <1>1, <1>2, <1>3 DEF Writer

\* No block on its way is that of the master, nor the next one to be handed out.
LEMMA WriteRowApart ==
  ASSUME WriteFacts, mpc \in {"idle", "close"}, miob # NULL \/ mpc = "idle"
  PROVE  /\ miob # NULL => \A n \in 1 .. Len(WriteRow) : WriteRow[n] # miob
         /\ depth > 0 => miob # head /\ \A n \in 1 .. Len(WriteRow) : WriteRow[n] # head
<1>1. ~Aborting /\ ~NoMoreReserves /\ Holders = RowAnd(WriteRow, miob)
  BY HoldersAnd DEF WriteFacts, Aborting, NoMoreReserves
<1> QED BY <1>1, RowDistinct DEF WriteFacts

\* Another block is reserved, and the full one is to be enqueued.
LEMMA WriteReserve ==
  ASSUME WriteFacts, write_reserve \/ terminate_split
  PROVE  WriteInv'
<1>1. /\ mpc \in {"idle", "close"} /\ (miob # NULL \/ mpc = "idle") /\ ~HasRoom(miob) /\ depth > 0 /\ block' = Reserved(miob)
      /\ miob' = head /\ push' = miob /\ mpc' = (IF miob = NULL THEN "idle" ELSE IF mpc = "idle" THEN "enqueue" ELSE "close_enqueue")
      /\ UNCHANGED <<queue, cur_work, written, ios, tpc, data_error, handle>>
  BY DEF write_reserve, terminate_split, Reserve, tqVars, threadAlone, threadVars, stateVars
<1>2. miob' # NULL /\ push = NULL /\ ~Aborting' /\ ~Aborting
  BY <1>1 DEF WriteFacts, WriterInv, Aborting
<1>3. WriteState'
  BY <1>1, <1>2 DEF WriteFacts, WriteState
<1>4. ASSUME Going' PROVE \E s \in Int, at \in Ats : (WriteFlow(s, at))'
  <2>1. Going
    BY <1>1, <1>2, <1>4 DEF Going
  <2>2. PICK s \in Int, at \in Ats : WriteFlow(s, at)
    BY <2>1 DEF WriteFacts
  <2>3. ~Done /\ ~Done'
    BY <1>1, <1>2 DEF Done
  <2>4. /\ \A n \in 1 .. Len(WriteRow) : WriteRow[n] \in Blocks /\ WriteRow[n] # head /\ (miob # NULL => WriteRow[n] # miob)
        /\ miob # head /\ WriteRow \in Seq(Blocks)
    BY <1>1, WriteRowApart DEF WriteFacts
  <2>5. Payload' = Payload /\ Put' = Put
    BY <1>1 DEF WriteFacts, Put
  <2>6. IosRight'
    BY <1>1, <2>2, <2>3, <2>5 DEF WriteFlow, IosRight
  <2>7. RowFull(WriteRow, block, FALSE)
    BY <2>2, <2>3 DEF WriteFlow, RowFull
  <2>p. Put \in Int
    <3>1. ios = <<>> \/ Len(ios) \in 1 .. Len(ios)
      BY <2>2, EmptySeq DEF WriteFlow, IosRight
    <3>2. Payload \in Nat \ {0} /\ Len(ios) \in Nat
      BY <2>2 DEF WriteFacts, WriteFlow, IosRight
    <3>3. (Len(ios) - 1) * Payload \in Int
      BY <3>2
    <3>4. ios # <<>> => Len(ios[Len(ios)]) \in Int
      BY <2>2, <3>1 DEF WriteFlow, IosRight
    <3> QED BY <3>3, <3>4 DEF Put
  <2>8. CASE miob = NULL
    <3>1. Reserved(NULL)[head] = Empty /\ \A i \in Blocks : i # head => Reserved(NULL)[i] = block[i]
      BY <1>1, <2>8 DEF Reserved, Moved, WriteFacts
    <3>2. WriteRow' = WriteRow
      BY <1>1, <1>2, <2>8 DEF WriteRow
    <3>3. \A n \in 1 .. Len(WriteRow) : block'[WriteRow[n]] = block[WriteRow[n]]
      BY <1>1, <2>4, <2>8, <3>1
    <3>4. Row(WriteRow', at, Put', s, block')
      <4>1. Row(WriteRow, at, Put, s, block)
        BY <2>2 DEF WriteFlow
      <4>2. Row(WriteRow, at, Put, s, block')
        BY <2>4, <3>3, <4>1, RowSame
      <4> QED BY <2>5, <3>2, <4>2
    <3>5. Len(Empty.buff) = 0 /\ Bytes(Empty, s)
      BY DEF Empty, Bytes
    <3>6. s = written' - Fill(miob)' /\ Bytes(block'[miob'], s)
      <4>1. s = written - 0 /\ written \in Nat
        BY <2>2, <2>8 DEF WriteFlow, WriteFacts
      <4> QED BY <1>1, <2>8, <3>1, <3>5, <4>1 DEF Fill
    <3>7. (RowFull(WriteRow, block, Done))'
      BY <2>3, <2>7, <3>2, <3>3 DEF RowFull, WriteFacts
    <3>8. (WriteFlow(s, at))'
      BY <1>2, <2>6, <3>4, <3>6, <3>7 DEF WriteFlow
    <3> QED BY <3>8
  <2>9. CASE miob # NULL
    <3>1. miob \in Blocks /\ Bytes(block[miob], s) /\ Fill(miob) \in Nat /\ s = written - Fill(miob)
          /\ written \in Nat /\ Split = Payload /\ Payload \in Nat \ {0}
      BY <2>2, <2>9 DEF WriteFlow, WriteFacts
    <3>2. /\ block' \in [Blocks -> BlockType]
          /\ \A i \in Blocks : i # miob /\ i # head => block'[i] = block[i]
          /\ Bytes(block'[miob], s) /\ Len(block'[miob].buff) = Split
          /\ Bytes(block'[head], s + Split) /\ Len(block'[head].buff) = Fill(miob) - Split
      BY <1>1, <2>4, <3>1, ReservedBytes DEF WriteFacts
    <3>3. WriteRow' = Append(WriteRow, miob)
      <4>1. Held(cur_work, queue, NULL, miob) = Append(Held(cur_work, queue, NULL, NULL), miob)
        BY <3>1, HeldMoves DEF WriteFacts
      <4> QED BY <1>1, <1>2, <4>1 DEF WriteRow
    <3>4. \A n \in 1 .. Len(WriteRow) : block'[WriteRow[n]] = block[WriteRow[n]]
      BY <2>4, <2>9, <3>2
    <3> DEFINE r == WriteRow  new == block'  to == [at EXCEPT ![miob] = s]
    <3>5. /\ r \in Seq(Blocks) /\ new \in [Blocks -> BlockType] /\ Bytes(new[miob], s) /\ block \in [Blocks -> BlockType]
          /\ \A n \in 1 .. Len(r) : r[n] # miob
          /\ \A n \in 1 .. Len(r) : new[r[n]] = block[r[n]]
      BY <2>4, <2>9, <3>2, <3>4 DEF WriteFacts
    <3>6. PICK p \in Int : p = Put
      BY <2>p
    <3>7. Row(r, at, p, s, block)
      BY <2>2, <3>6 DEF WriteFlow
    <3> HIDE DEF r, new
    <3>8. to \in Ats /\ Row(Append(r, miob), to, p, s + Len(new[miob].buff), new)
      BY <3>1, <3>5, <3>7, RowAppend
    <3>9. PICK t \in Int : t = s + Split
      BY <3>1
    <3>10. PICK ta \in Ats : Row(WriteRow', ta, Put', t, block')
      BY <2>5, <3>2, <3>3, <3>6, <3>8, <3>9 DEF r, new
    <3>11. t = written' - Fill(miob)' /\ Bytes(block'[miob'], t)
      <4>1. Fill(miob)' = Fill(miob) - Split
        BY <1>1, <3>2 DEF Fill
      <4> QED BY <1>1, <3>1, <3>2, <3>9, <4>1
    <3>12. (RowFull(WriteRow, block, Done))'
      <4> SUFFICES ASSUME NEW n \in 1 .. Len(Append(r, miob)) PROVE Len(new[Append(r, miob)[n]].buff) = Payload
        BY <3>1, <3>3 DEF RowFull, r, new, WriteFacts
      <4>1. /\ Len(r) \in Nat /\ n \in 1 .. Len(r) + 1 /\ Append(r, miob)[Len(r) + 1] = miob
            /\ \A i \in 1 .. Len(r) : Append(r, miob)[i] = r[i]
        BY <3>1, <3>5
      <4>2. CASE n = Len(r) + 1
        BY <3>1, <3>2, <4>1, <4>2 DEF new
      <4>3. CASE n # Len(r) + 1
        <5>1. n \in 1 .. Len(r)
          BY <4>1, <4>3
        <5>2. Len(block[r[n]].buff) = Payload
          BY <2>7, <5>1 DEF RowFull, r
        <5> QED BY <3>5, <4>1, <5>1, <5>2
      <4> QED BY <4>2, <4>3
    <3>13. (WriteFlow(t, ta))'
      BY <1>2, <2>6, <3>10, <3>11, <3>12 DEF WriteFlow
    <3> QED BY <3>13
  <2> QED BY <2>8, <2>9
<1> QED BY <1>3, <1>4 DEF WriteInv

\* n bytes of a part are copied into the block of the master.
LEMMA WriteBytes ==
  ASSUME WriteFacts, NEW n \in 1 .. PartSz, ne_write(n)
  PROVE  WriteInv'
<1>1. /\ mpc = "idle" /\ (written % PartSz # 0 \/ HasRoom(miob)) /\ written' = written + n
      /\ block' = [block EXCEPT ![miob].buff = @ \o [i \in 1 .. n |-> written + i]]
      /\ UNCHANGED <<mpc, miob, push, queue, cur_work, ios, tpc, data_error, handle>>
  BY DEF ne_write, tqVars, threadAlone, threadVars, stateVars
<1>2. n \in Nat /\ n > 0 /\ PartSz \in Nat \ {0}
  BY Sizes DEF WriteFacts
<1>3. miob # NULL /\ miob \in Blocks
  <2>1. miob = NULL => written = 0
    BY <1>1 DEF WriteFacts, WriteState
  <2>2. 0 % PartSz = 0
    BY <1>2
  <2> QED BY <1>1, <2>1, <2>2 DEF HasRoom, WriteFacts
<1>4. WriteState'
  BY <1>1, <1>3 DEF WriteFacts, WriteState, Aborting
<1>5. ASSUME Going' PROVE \E s \in Int, at \in Ats : (WriteFlow(s, at))'
  <2>1. Going
    BY <1>1, <1>5 DEF Going, Aborting
  <2>2. PICK s \in Int, at \in Ats : WriteFlow(s, at)
    BY <2>1 DEF WriteFacts
  <2>3. ~Done /\ ~Done' /\ WriteRow' = WriteRow /\ Payload' = Payload /\ Put' = Put
    BY <1>1 DEF Done, WriteRow, WriteFacts, Put
  <2>4. WriteRow \in Seq(Blocks) /\ \A i \in 1 .. Len(WriteRow) : WriteRow[i] \in Blocks /\ WriteRow[i] # miob
    BY <1>1, <1>3, WriteRowApart DEF WriteFacts
  <2> DEFINE data == [i \in 1 .. n |-> written + i]  old == block[miob].buff
  <2>5. /\ data \in Seq(Int) /\ Len(data) = n /\ (\A i \in 1 .. n : data[i] = written + i) /\ written \in Nat
        /\ old \in Seq(Int) /\ Len(old) \in Nat /\ block \in [Blocks -> BlockType]
    BY <1>2, <1>3 DEF WriteFacts, BlockType
  <2>6. block' = [block EXCEPT ![miob].buff = @ \o data]
    BY <1>1
  <2> HIDE DEF data
  <2>7. /\ \A i \in Blocks : i # miob => block'[i] = block[i]
        /\ block'[miob].buff = old \o data /\ block'[miob].error_end = block[miob].error_end
    BY <1>3, <2>5, <2>6 DEF BlockType
  <2> HIDE DEF old
  <2>8. Len(old \o data) = Len(old) + n /\ \A i \in 1 .. Len(old) + n : (old \o data)[i] = IF i <= Len(old) THEN old[i] ELSE data[i - Len(old)]
    BY <2>5, ConcatProperties
  <2>9. s = written - Len(old) /\ Bytes(block[miob], s) /\ block[miob].error_end = 0
    <3>1. s = written - Fill(miob) /\ Bytes(block[miob], s)
      BY <1>3, <2>2 DEF WriteFlow
    <3>2. block[miob].error_end = 0
      BY <1>3 DEF WriteFacts, MarkInv
    <3> QED BY <3>1, <3>2 DEF Fill, old
  <2>10. s = written' - (IF miob' = NULL THEN 0 ELSE Fill(miob)')
    <3>1. miob' = miob /\ Fill(miob)' = Len(old) + n
      BY <1>1, <2>7, <2>8 DEF Fill
    <3>2. s = (written + n) - (Len(old) + n)
      BY <1>2, <2>5, <2>9
    <3> QED BY <1>1, <1>3, <3>1, <3>2
  <2>11. Bytes(block'[miob'], s)
    <3> SUFFICES ASSUME NEW i \in 1 .. Len(old) + n PROVE (old \o data)[i] = s + i
      BY <1>1, <2>7, <2>8 DEF Bytes
    <3>1. CASE i <= Len(old)
      <4>1. i \in 1 .. Len(block[miob].buff) /\ i > block[miob].error_end
        BY <2>5, <2>9, <3>1 DEF old
      <4>2. old[i] = s + i
        BY <2>9, <4>1 DEF Bytes, old
      <4> QED BY <2>8, <3>1, <4>2
    <3>2. CASE ~(i <= Len(old))
      <4>1. i - Len(old) \in 1 .. n
        BY <1>2, <2>5, <3>2
      <4>2. data[i - Len(old)] = written + (i - Len(old))
        BY <2>5, <4>1
      <4>3. written + (i - Len(old)) = s + i
        BY <2>5, <2>9
      <4> QED BY <2>8, <3>2, <4>2, <4>3
    <3> QED BY <3>1, <3>2
  <2>12. IosRight'
    BY <1>1, <2>2, <2>3 DEF WriteFlow, IosRight
  <2>13. \A i \in 1 .. Len(WriteRow) : block'[WriteRow[i]] = block[WriteRow[i]]
    BY <2>4, <2>7
  <2>14. Row(WriteRow', at, Put', s, block')
    <3>1. Row(WriteRow, at, Put, s, block)
      BY <2>2 DEF WriteFlow
    <3>2. Row(WriteRow, at, Put, s, block')
      BY <2>4, <2>13, <3>1, RowSame
    <3> QED BY <2>3, <3>2
  <2>15. (RowFull(WriteRow, block, Done))'
    <3>1. RowFull(WriteRow, block, Done)
      BY <2>2 DEF WriteFlow
    <3> QED BY <2>3, <2>13, <3>1 DEF RowFull
  <2>16. (WriteFlow(s, at))'
    BY <2>10, <2>11, <2>12, <2>14, <2>15 DEF WriteFlow
  <2> QED BY <2>16
<1> QED BY <1>4, <1>5 DEF WriteInv

\* The block of the master is enqueued.
LEMMA WriteEnqueue ==
  ASSUME WriteFacts, enqueue
  PROVE  WriteInv'
<1>1. /\ mpc \in {"enqueue", "close_enqueue"} /\ push' = NULL
      /\ UNCHANGED <<miob, block, cur_work, ios, written, tpc, data_error, handle>>
  BY DEF enqueue, ringVars, threadAlone, threadVars, stateVars
<1>2. con_flags = {} /\ push # NULL /\ ~Aborting
  BY <1>1 DEF WriteFacts, WriterInv, Aborting
<1>3. queue' = Append(queue, push) /\ mpc' \in {"idle", "close"} /\ ~Aborting'
  BY <1>2 DEF enqueue, Aborting
<1>4. miob # NULL
  BY <1>1 DEF WriteFacts, WriteState
<1>5. WriteRow' = WriteRow
  <2>1. /\ Held(cur_work, Append(queue, push), NULL, NULL) = Held(cur_work, queue, push, NULL)
        /\ Held(cur_work, queue, push, NULL) = Held(cur_work, queue, NULL, push)
    BY <1>2, HeldMoves DEF WriteFacts
  <2> QED BY <1>1, <1>3, <2>1 DEF WriteRow
<1>6. ~Done
  BY <1>4 DEF Done
<1>7. Going' => (\E s \in Int, at \in Ats : WriteFlow(s, at))'
  BY <1>1, <1>2, <1>5, <1>6, FlowStands DEF Going
<1>8. WriteState'
  BY <1>1, <1>2, <1>3, <1>4 DEF WriteFacts, WriteState
<1> QED BY <1>7, <1>8 DEF WriteInv

\* terminate_thread() enqueues the last block, or gives it back when nothing is in it.
LEMMA WriteLast ==
  ASSUME WriteFacts, terminate_last
  PROVE  WriteInv'
<1>1. /\ mpc = "close" /\ miob # NULL /\ HasRoom(miob) /\ miob' = NULL
      /\ UNCHANGED <<mpc, push, block, cur_work, ios, written, tpc, data_error, handle>>
  BY DEF terminate_last, ringVars, threadAlone, threadVars, stateVars, Released, WriteFacts
<1>2. con_flags = {} /\ push = NULL /\ ~Aborting
  BY <1>1 DEF WriteFacts, WriterInv, Aborting
<1>3. WriteState'
  BY <1>1, <1>2 DEF WriteFacts, WriteState, Aborting
<1>4. ASSUME Going' PROVE \E s \in Int, at \in Ats : (WriteFlow(s, at))'
  <2>1. Going
    BY <1>1, <1>2, <1>4 DEF Going
  <2>2. PICK s \in Int, at \in Ats : WriteFlow(s, at)
    BY <2>1 DEF WriteFacts
  <2>3. /\ ~Done /\ Payload' = Payload /\ Put' = Put /\ miob \in Blocks /\ Fill(miob) \in Nat /\ written \in Nat
        /\ s = written - Fill(miob) /\ Bytes(block[miob], s) /\ WriteRow \in Seq(Blocks) /\ block \in [Blocks -> BlockType]
    BY <1>1, <2>2 DEF Done, Put, WriteFacts, WriteFlow
  <2>4. IosRight'
    BY <1>1, <2>2, <2>3 DEF WriteFlow, IosRight
  <2>5. RowFull(WriteRow, block, FALSE)
    BY <2>2, <2>3 DEF WriteFlow, RowFull
  <2>6. CASE ~(Fill(miob) > 0)
    <3>1. WriteRow' = WriteRow
      BY <1>1, <2>6 DEF terminate_last, WriteRow, WriteFacts
    <3>2. s = written'
      BY <1>1, <2>3, <2>6
    <3>3. (RowFull(WriteRow, block, Done))'
      BY <1>1, <2>3, <2>5, <3>1 DEF RowFull
    <3>4. Row(WriteRow', at, Put', s, block')
      BY <1>1, <2>2, <2>3, <3>1 DEF WriteFlow
    <3>5. (WriteFlow(s, at))'
      BY <1>1, <2>3, <2>4, <3>2, <3>3, <3>4 DEF WriteFlow
    <3> QED BY <3>5
  <2>7. CASE Fill(miob) > 0
    <3>1. queue' = Append(queue, miob)
      BY <1>2, <2>7 DEF terminate_last, WriteFacts
    <3>2. WriteRow' = Append(WriteRow, miob)
      <4>1. /\ Held(cur_work, Append(queue, miob), NULL, NULL) = Held(cur_work, queue, miob, NULL)
            /\ Held(cur_work, queue, miob, NULL) = Held(cur_work, queue, NULL, miob)
            /\ Held(cur_work, queue, NULL, miob) = Append(Held(cur_work, queue, NULL, NULL), miob)
        BY <1>1, <2>3, HeldMoves DEF WriteFacts
      <4> QED BY <1>1, <1>2, <3>1, <4>1 DEF WriteRow
    <3>3. \A n \in 1 .. Len(WriteRow) : WriteRow[n] # miob
      BY <1>1, WriteRowApart
    <3> DEFINE r == WriteRow  to == [at EXCEPT ![miob] = s]
    <3>4. PICK p \in Int : p = Put
      <4>1. ios = <<>> \/ Len(ios) \in 1 .. Len(ios)
        BY <2>2, EmptySeq DEF WriteFlow, IosRight
      <4>2. Payload \in Nat \ {0} /\ Len(ios) \in Nat
        BY <2>2 DEF WriteFacts, WriteFlow, IosRight
      <4>3. (Len(ios) - 1) * Payload \in Int
        BY <4>2
      <4>4. ios # <<>> => Len(ios[Len(ios)]) \in Int
        BY <2>2, <4>1 DEF WriteFlow, IosRight
      <4> QED BY <4>3, <4>4 DEF Put
    <3>5. Row(r, at, p, s, block)
      BY <2>2, <3>4 DEF WriteFlow
    <3>6. r \in Seq(Blocks) /\ \A n \in 1 .. Len(r) : r[n] # miob
      BY <2>3, <3>3
    <3> HIDE DEF r
    <3>7. to \in Ats /\ Row(Append(r, miob), to, p, s + Len(block[miob].buff), block)
      BY <2>3, <3>5, <3>6, RowAppend
    <3>8. PICK t \in Int : t = s + Fill(miob)
      BY <2>3
    <3>9. PICK ta \in Ats : Row(WriteRow', ta, Put', t, block')
      BY <1>1, <2>3, <3>2, <3>4, <3>7, <3>8 DEF r, Fill
    <3>10. t = written'
      BY <1>1, <2>3, <3>8
    <3>11. (RowFull(WriteRow, block, Done))'
      <4> SUFFICES ASSUME NEW n \in 1 .. Len(Append(r, miob))
                   PROVE  /\ Len(block[Append(r, miob)[n]].buff) > 0
                          /\ n < Len(Append(r, miob)) => Len(block[Append(r, miob)[n]].buff) = Payload
        BY <1>1, <2>3, <3>2 DEF RowFull, r, Done
      <4>1. /\ Len(r) \in Nat /\ n \in 1 .. Len(r) + 1 /\ Append(r, miob)[Len(r) + 1] = miob /\ Len(Append(r, miob)) = Len(r) + 1
            /\ \A i \in 1 .. Len(r) : Append(r, miob)[i] = r[i]
        BY <2>3, <3>6
      <4>2. CASE n = Len(r) + 1
        BY <2>7, <4>1, <4>2 DEF Fill
      <4>3. CASE n # Len(r) + 1
        <5>1. n \in 1 .. Len(r)
          BY <4>1, <4>3
        <5>2. Len(block[r[n]].buff) > 0 /\ Len(block[r[n]].buff) = Payload
          BY <2>5, <5>1 DEF RowFull, r
        <5> QED BY <4>1, <5>1, <5>2
      <4> QED BY <4>2, <4>3
    <3>12. (WriteFlow(t, ta))'
      BY <1>1, <2>4, <3>9, <3>10, <3>11 DEF WriteFlow
    <3> QED BY <3>12
  <2> QED BY <2>6, <2>7
<1> QED BY <1>3, <1>4 DEF WriteInv

\* Steps of the master that move no block.
LEMMA WriteMoves ==
  ASSUME WriteFacts, start \/ ne_close \/ terminate_thread \/ join
  PROVE  WriteInv'
<1>1. /\ UNCHANGED <<miob, push, queue, block, cur_work, ios, written, tpc, data_error, handle>>
      /\ mpc' \notin {"enqueue", "close_enqueue"} /\ (mpc' \in {"start", "idle"} => mpc = "start")
      /\ (Done => Done')
  BY JoinBack DEF start, ne_close, terminate_thread, join, Goto, threadAlone, threadVars, stateVars, ringVars, tqVars, masterVars, Done, WriteFacts
<1>2. WriteRow' = WriteRow
  BY <1>1 DEF WriteRow
<1>3. Aborting' <=> Aborting
  BY JoinBack DEF start, ne_close, terminate_thread, join, Goto, Aborting, WriteFacts
<1>4. WriteState'
  BY <1>1, <1>3 DEF WriteState, WriteFacts
<1>5. Going' => (\E s \in Int, at \in Ats : WriteFlow(s, at))'
  BY <1>1, <1>2, <1>3, FlowStands DEF Going
<1> QED BY <1>4, <1>5 DEF WriteInv

\* A write handle is aborted before its thread is told to quit, so that it commits nothing.
LEMMA WriteAbort ==
  ASSUME WriteFacts, ne_abort \/ abort_unhalt \/ abort_drain \/ abort_release
  PROVE  WriteInv'
<1>1. /\ Aborting' /\ UNCHANGED <<tpc, handle, data_error>> /\ mpc' \notin {"start", "idle", "enqueue", "close_enqueue"}
  BY DEF ne_abort, abort_unhalt, abort_drain, abort_release, Goto, threadAlone, threadVars, stateVars, masterVars, Aborting, WriteFacts
<1>2. CASE Aborting
  BY <1>1, <1>2 DEF WriteInv, WriteState, WriteFacts, Going
<1>3. CASE ~Aborting
  <2>1. mpc = "idle" /\ con_flags = {}
    BY <1>3 DEF ne_abort, abort_unhalt, abort_drain, abort_release, Aborting, WriteFacts, WriterInv
  <2>2. tpc \notin {"term", "exit"}
    BY <1>3, <2>1 DEF WriteFacts, WriterInv, Flagged
  <2> QED BY <1>1, <2>2 DEF WriteInv, WriteState, WriteFacts, Going
<1> QED BY <1>2, <1>3

\* The writer's part of the invariant is kept.
LEMMA WriteNext ==
  ASSUME BlockInv, MarkInv, WriteInv, Next
  PROVE  WriteInv'
<1>1. Writing' = Writing
  BY SizesKept, ReaderKeeps, WriterKeeps, MasterKeeps DEF Next
<1> SUFFICES ASSUME Writing PROVE WriteInv'
  BY <1>1 DEF WriteInv
<1>2. WriteFacts
  BY WriteFactsHold DEF WriteGiven
<1>3. CASE Writer
  BY <1>2, <1>3, WriteThread
<1>4. CASE write_reserve \/ terminate_split
  BY <1>2, <1>4, WriteReserve
<1>5. CASE \E n \in 1 .. PartSz : ne_write(n)
  BY <1>2, <1>5, WriteBytes
<1>6. CASE enqueue
  BY <1>2, <1>6, WriteEnqueue
<1>7. CASE terminate_last
  BY <1>2, <1>7, WriteLast
<1>8. CASE start \/ ne_close \/ terminate_thread \/ join
  BY <1>2, <1>8, WriteMoves
<1>9. CASE ne_abort \/ abort_unhalt \/ abort_drain \/ abort_release
  BY <1>2, <1>9, WriteAbort
<1>10. ~Reader
  BY <1>2, ReaderKeeps DEF WriteFacts
<1>11. mpc \in {"start", "idle", "enqueue", "close", "close_enqueue", "join", "closed"} \/ Aborting
  BY <1>2 DEF WriteFacts, WriterInv
<1>12. ~read_stripes /\ ~park /\ ~(\E off \in PartStarts : ne_seek(off) \/ unpark(off)) /\ ~dequeue /\ ~seek_release
       /\ ~seek_unblock /\ ~wait_for_pause /\ ~drain /\ ~seek_go /\ ~wait_for_completion /\ ~last_drain
  BY <1>2, <1>11 DEF WriteFacts, Aborting, read_stripes, park, ne_seek, unpark, dequeue, seek_release, seek_unblock, wait_for_pause,
                     drain, seek_go, wait_for_completion, last_drain
<1> QED BY <1>3, <1>4, <1>5, <1>6, <1>7, <1>8, <1>9, <1>10, <1>12 DEF Next, Call, InCall

\* What is committed is complete.
LEMMA WriteRight ==
  ASSUME BlockInv, WriteInv, Writing
  PROVE  CommittedIsComplete /\ NeverNull
<1>1. TypeOK /\ WriterInv /\ WriteState
  BY DEF BlockInv, CtlInv, WriteInv
<1>2. NeverNull
  BY <1>1 DEF NeverNull, WriterInv, Aborting
<1>3. CommittedIsComplete
  <2> SUFFICES ASSUME handle = "committed" PROVE CommittedIsComplete
    BY DEF CommittedIsComplete
  <2>1. tpc = "exit" /\ ~Aborting /\ Going
    BY <1>1 DEF WriteState, Going
  <2>2. queue = <<>> /\ cur_work = NULL /\ "FINISHED" \in con_flags
    BY <1>1, <2>1 DEF WriterInv, Flagged
  <2>3. mpc \in {"join", "closed"}
    <3>1. con_flags = IF mpc = "start" THEN {"HALT"} ELSE IF mpc \in {"join", "closed"} THEN {"FINISHED"} ELSE {}
      BY <1>1, <2>1 DEF WriterInv
    <3> QED BY <2>2, <3>1
  <2>4. miob = NULL /\ push = NULL
    BY <1>1, <2>3 DEF WriterInv
  <2>5. WriteRow = <<>>
    <3>1. <<>> \o <<>> = <<>>
      OBVIOUS
    <3> QED BY <2>2, <2>4, <3>1 DEF WriteRow, Held, Hold
  <2>6. PICK s \in Int, at \in Ats : WriteFlow(s, at)
    BY <2>1 DEF WriteInv
  <2>7. s = written
    <3>1. s = written - 0 /\ written \in Nat
      BY <1>1, <2>4, <2>6 DEF WriteFlow, TypeOK
    <3> QED BY <3>1
  <2>8. Put = s
    <3>1. Row(<<>>, at, Put, s, block)
      BY <2>5, <2>6 DEF WriteFlow
    <3> QED BY <3>1, RowEmpty
  <2>9. written = IF ios = <<>> THEN 0 ELSE (Len(ios) - 1) * Payload + Len(ios[Len(ios)])
    BY <2>7, <2>8 DEF Put
  <2> QED BY <2>3, <2>6, <2>9 DEF CommittedIsComplete, WriteFlow, IosRight
<1> QED BY <1>2, <1>3

-----------------------------------------------------------------------------
(* The theorem.                                                            *)

\* The invariant of the data.
DataInv == BlockInv /\ MarkInv /\ ReadInv /\ WriteInv

\* It holds at first: nothing is read, nothing put.
LEMMA DataInit ==
  ASSUME SeeksShow, Init
  PROVE  DataInv
<1>1. BlockInv /\ TypeOK
  BY BlockInit, TypeInit
<1>2. PICK g \in Geometries : minfo = [versz |-> g[1], partsz |-> g[2], parts |-> g[3]]
  BY DEF Init
<1>3. CrcBytes % PartSz # 0
  BY <1>2 DEF SeeksShow, PartSz
<1>4. /\ dmode \in Modes /\ head = 0 /\ depth = SuperBlockCnt /\ block = [b \in Blocks |-> Empty] /\ con_flags = {"HALT"}
      /\ queue = <<>> /\ tpc = "halted" /\ offset = 0 /\ iob = NULL /\ cur_work = NULL /\ junk = 0
      /\ crcsumchk = NoCrcs /\ handle \in {"open", "none"} /\ data_error = faulted /\ goffset = 0
      /\ mpc = "start" /\ miob = NULL /\ push = NULL /\ iob_offset = 0 /\ iob_datasz = 0 /\ written = 0 /\ ios = <<>>
  BY DEF Init
<1>5. DataSz \in Nat \ {0} /\ Split \in Nat \ {0} /\ Payload \in Nat \ {0} /\ PartSz \in Nat \ {0} /\ CrcBytes \in Nat \ {0}
  BY <1>1, ReadSizes
<1>6. ReadRow = <<>> /\ WriteRow = <<>>
  <2>1. <<>> \o <<>> = <<>>
    OBVIOUS
  <2> QED BY <1>4, <2>1 DEF ReadRow, WriteRow, Held, Hold
<1>7. Whole(0)
  BY <1>5 DEF Whole
<1> DEFINE none == [b \in Blocks |-> 0]
<1>8. none \in Ats /\ Row(<<>>, none, 0, 0, block) /\ Len(<<>>) = 0
  BY RowEmpty DEF Ats
<1>9. MarkInv
  BY <1>4 DEF MarkInv, Empty
<1>10. ReadState
  BY <1>3, <1>4, <1>5, <1>7 DEF ReadState, Flagged, Seeking, Cleared
<1>11. Placed(0, 0)
  <2>1. Located(0, 0)
    BY <1>4, <1>5 DEF Located
  <2>2. NoCrcs = CrcsTo(0)
    <3>1. \A i \in IOs : ~(i < 0)
      BY DEF IOs
    <3> QED BY <3>1 DEF NoCrcs, CrcsTo
  <2> QED BY <1>4, <2>1, <2>2 DEF Placed
<1>12. Flow(0, 0, 0, 0, none)
  <2>1. Curdata = 0
    BY <1>4 DEF Curdata
  <2>2. 0 + Split > (0 - 1) * Payload /\ 0 > (0 - 1) * Payload
    BY <1>5
  <2> HIDE DEF none
  <2> QED BY <1>4, <1>5, <1>6, <1>7, <1>8, <2>1, <2>2 DEF Flow
<1>13. Tracked(0, 0)
  BY <1>4, <1>8, <1>12 DEF Tracked, Synced
<1>14. ReadInv
  BY <1>10, <1>11, <1>13 DEF ReadInv, Following
<1>15. WriteState
  BY <1>4 DEF WriteState, Aborting
<1>16. WriteFlow(0, none)
  <2>1. IosRight
    BY <1>4, <1>8 DEF IosRight
  <2>2. Put = 0
    BY <1>4 DEF Put
  <2>3. RowFull(<<>>, block, Done)
    BY <1>8 DEF RowFull
  <2> HIDE DEF none
  <2> QED BY <1>4, <1>6, <1>8, <2>1, <2>2, <2>3 DEF WriteFlow
<1>17. WriteInv
  BY <1>8, <1>15, <1>16 DEF WriteInv
<1> QED BY <1>1, <1>9, <1>14, <1>17 DEF DataInv

\* It stands when nothing happens.
LEMMA DataStays ==
  ASSUME DataInv, UNCHANGED vars
  PROVE  DataInv'
<1>1. UNCHANGED <<dmode, minfo, head, depth, block, con_flags, queue, tpc, offset, iob, cur_work, first, junk, res,
                  crcsumchk, continuous, goffset, data_error, meta_error, handle, mpc, miob, push, iob_offset,
                  iob_datasz, target, written, ios, faulted>>
  BY DEF vars, ringVars, tqVars, threadVars, stateVars, masterVars
<1>2. BlockInv'
  BY BlockNext DEF DataInv
<1>3. UNCHANGED <<Split, Payload, PartSz, DataSz, NumIOs, Reading, Writing>>
  BY <1>1, SizesKept DEF NumIOs
<1>4. UNCHANGED <<ReadRow, WriteRow, Curdata, JunkDue, Put>> /\ (Aborting' <=> Aborting) /\ (Resumes' <=> Resumes) /\ (Done' <=> Done)
      /\ (Live' <=> Live) /\ (Going' <=> Going)
  BY <1>1, <1>3 DEF ReadRow, WriteRow, Curdata, JunkDue, Put, Aborting, Resumes, Flagged, Done, Live, Going, Fill
<1>5. (\A x : Whole(x)' <=> Whole(x)) /\ (\A n : (Deliverable(ReadRow[n]))' <=> Deliverable(ReadRow[n]))
  BY <1>1, <1>3, <1>4 DEF Whole, Deliverable, Sound
<1>6. MarkInv'
  BY <1>1, <1>3 DEF DataInv, MarkInv
<1>7. ReadState => ReadState'
  BY <1>1, <1>3, <1>4 DEF ReadState, Flagged, Whole, Seeking, Fill
<1>8. ASSUME NEW k \in Nat, NEW d \in Nat PROVE (Placed(k, d) => (Placed(k, d))') /\ (Tracked(k, d) => (Tracked(k, d))')
  <2>1. (CrcsTo(k))' = CrcsTo(k)
    BY <1>3 DEF CrcsTo, IOs
  <2>2. Placed(k, d) => (Placed(k, d))'
    BY <1>1, <1>3, <2>1 DEF Placed, Located
  <2>3. ASSUME NEW s \in Int, NEW a \in Int, NEW at \in Ats, Flow(k, d, s, a, at), Synced(d, s, a)
        PROVE  (Flow(k, d, s, a, at))' /\ (Synced(d, s, a))'
    <3>1. (Whole(s))'
      BY <1>5, <2>3 DEF Flow, Whole
    <3>2. (Flow(k, d, s, a, at))'
      BY <1>1, <1>3, <1>4, <1>5, <2>3, <3>1 DEF Flow, Fill
    <3>3. (Synced(d, s, a))'
      BY <1>1, <1>3, <1>4, <2>3 DEF Synced, Flagged
    <3> QED BY <3>2, <3>3
  <2> QED BY <1>4, <2>2, <2>3 DEF Tracked
<1>9. ReadInv'
  BY <1>3, <1>7, <1>8 DEF DataInv, ReadInv, Following
<1>10. WriteState => WriteState'
  BY <1>1, <1>4 DEF WriteState
<1>11. ASSUME NEW s \in Int, NEW at \in Ats, WriteFlow(s, at) PROVE (WriteFlow(s, at))'
  <2>1. IosRight'
    BY <1>1, <1>3, <1>4, <1>11 DEF WriteFlow, IosRight
  <2>2. (RowFull(WriteRow, block, Done))'
    BY <1>1, <1>3, <1>4, <1>11 DEF WriteFlow, RowFull
  <2> QED BY <1>1, <1>4, <1>11, <2>1, <2>2 DEF WriteFlow, Fill
<1>12. WriteInv'
  BY <1>3, <1>4, <1>10, <1>11 DEF DataInv, WriteInv
<1> QED BY <1>2, <1>6, <1>9, <1>12 DEF DataInv

\* A step.
LEMMA DataNext == DataInv /\ [Next]_vars => DataInv'
<1>1. ASSUME DataInv, Next PROVE DataInv'
  <2>1. BlockInv /\ MarkInv /\ ReadInv /\ WriteInv
    BY <1>1 DEF DataInv
  <2> QED BY <1>1, <2>1, BlockNext, MarkNext, ReadNext, WriteNext DEF DataInv
<1> QED BY <1>1, DataStays

\* What it says of the data.
LEMMA DataGood == DataInv => DataIsRight
<1> SUFFICES ASSUME DataInv PROVE DataIsRight
  OBVIOUS
<1>1. DeliveredInOrder /\ NoFalseAlarm /\ (Reading => NeverNull)
  BY ReadRight DEF DataInv
<1>2. Writing => CommittedIsComplete /\ NeverNull
  BY WriteRight DEF DataInv
<1>3. Reading => CommittedIsComplete
  BY DEF DataInv, ReadInv, ReadState, CommittedIsComplete
<1>4. Reading \/ Writing
  BY EitherMode DEF DataInv, BlockInv
<1> QED BY <1>1, <1>2, <1>3, <1>4 DEF DataIsRight

\* What read_stripes() is handed is what is stored behind the offset of the thread, in order and
\* once, whatever was read, sought, parked and restarted before (ne.c:668, read_resume()
\* iothreads.c:406, read_produce()); nothing is called bad that the DAL did not fail, and there
\* is a block whenever data remain (iothreads.c:276).  What ne_close() commits is all that was
\* written, in full IOs (ne.c:1558, write_consume()).
THEOREM DataCorrect ==
  ASSUME SeeksShow
  PROVE  Spec => []DataIsRight
<1>1. Init => DataInv
  BY DataInit
<1>2. DataInv /\ [Next]_vars => DataInv'
  BY DataNext
<1>3. DataInv => DataIsRight
  BY DataGood
<1> QED BY <1>1, <1>2, <1>3, PTL DEF Spec
=============================================================================

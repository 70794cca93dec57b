----------------------- MODULE GarbageCollectionProofs -----------------------
(***************************************************************************)
(* Proofs about GarbageCollection.  A file that is neither in use nor      *)
(* was unlinked after the threshold stays so, which makes a walk that      *)
(* takes its time sound: what it finds of a file that is garbage is true   *)
(* for good.  What remains to be shown is that it overlooks no file, which *)
(* depends on the GCTAGs and the refs agreeing between two steps of the    *)
(* deletions, and on these being in the order of the stream.               *)
(***************************************************************************)
EXTENDS GarbageCollection, FiniteSetTheorems, WellFoundedInduction, TLAPS

Tag    == [refcnt : Nat, eos : BOOLEAN, inprog : BOOLEAN, delzero : BOOLEAN]
ObjOps == [type : {"obj"}, objno : Nat, fileno : Nat, count : Nat, offset : Nat]
RefOps == [type : {"ref"}, objno : Nat, fileno : Nat, count : Nat, prev : Nat,
           delzero : BOOLEAN, eos : BOOLEAN]
Ops    == ObjOps \cup RefOps
IsRef(op) == op.type = "ref"
IsObj(op) == op.type = "obj"

Walkers == [on : {TRUE}, gc : BOOLEAN, fileno : Nat, objno : Nat, ft : Nat, end : BOOLEAN,
            fin : BOOLEAN, gct : Tag, activefiles : Nat, activeindex : Nat, ops : Seq(Ops),
            usage : Nat, before : Nat, failed : BOOLEAN]
Workers == [ops : Seq(Ops), at : {"idle", "obj", "tag", "unlink", "clear", "log"}, k : Nat,
            err : BOOLEAN, abort : BOOLEAN]

StreamType  == layout \in Layouts /\ tail \in Tails
StorageType ==
  /\ linked \subseteq Files /\ refs \subseteq Files /\ recent \subseteq Files
  /\ recent \subseteq young /\ gctag \in [Files -> Tag]
ThreadType ==
  /\ gcops \in Seq(Ops) /\ queue \in Seq(Seq(Ops) \ {<<>>}) /\ cons \in [Consumers -> Workers]
  /\ \A c \in Consumers :
       /\ cons[c].at = "obj" => cons[c].ops # <<>> /\ IsObj(Op(c))
       /\ cons[c].at \in {"tag", "unlink", "clear"} => cons[c].ops # <<>> /\ IsRef(Op(c))
       /\ cons[c].at = "log" => cons[c].ops # <<>>
-----------------------------------------------------------------------------
(* The files that must be kept.  Their number only goes down.              *)

Alive == linked \cup recent
Free(a, b)   == \A g \in Files : a <= g /\ g <= b => g \notin Alive
FreeAfter(p) == \A g \in Files : g > p => g \notin Alive
Unheld(o)    == \A f \in Alive : o \notin Span(f)

\* the file behind the ones that an operation, or the GCTAG of p, accounts for
End(op)   == op.prev + Refcnt(op) + 1
NextOf(p) == p + 1 + gctag[p].refcnt

\* a consumer between the first and the last step of process_deleteref()
Mid(c) == cons[c].at \in {"unlink", "clear"}
\* the operations that were handed to the producer and are not over
Flying(op) ==
  \/ \E i \in 1 .. Len(gcops) : op = gcops[i]
  \/ \E j \in 1 .. Len(queue) : \E i \in 1 .. Len(queue[j]) : op = queue[j][i]
  \/ \E c \in Consumers : \E i \in 1 .. Len(cons[c].ops) : op = cons[c].ops[i]
InFlight == {op \in Ops : Flying(op)}

\* Every file that must be kept has its ref and its data.
Kept == DataThere /\ Alive \subseteq refs

ObjSafe(op) == \A o \in Nat :
  op.objno + op.offset <= o /\ o < op.objno + op.offset + op.count => Unheld(o)
\* A deletion of refs begins behind the file whose GCTAG tells of it, and what that will
\* then say is true.
RefSafe(op) ==
  /\ op.prev \in refs /\ op.prev \in Files
  /\ op.count > 0 => op.fileno > op.prev
  /\ Free(op.prev + 1, End(op) - 1)
  /\ \A g \in refs : ~(op.prev < g /\ g < op.fileno)
  /\ End(op) \in Files => End(op) \in refs \/ FreeAfter(op.prev)
  /\ op.eos => FreeAfter(op.prev)
ObjsRight == \A op \in InFlight : IsObj(op) => op.count > 0 /\ ObjSafe(op)
RefsRight == \A op \in InFlight : IsRef(op) => RefSafe(op)
\* Deletions of refs concern one part of the stream each.
Ordered ==
  \A a, b \in InFlight :
    IsRef(a) /\ IsRef(b) => a = b \/ End(a) <= b.prev \/ End(b) <= a.prev

\* What a GCTAG says is true, it leads to a file with a ref, and it tells of no ref that
\* exists unless it says that the deletion is in progress.
TagsTrue  == \A p \in Files : Free(p + 1, p + gctag[p].refcnt) /\ (gctag[p].eos => FreeAfter(p))
NextThere == \A p \in refs : NextOf(p) \in Files => NextOf(p) \in refs \/ FreeAfter(p)
TagsTight == \A p, g \in refs : p < g /\ g <= p + gctag[p].refcnt => gctag[p].inprog
\* No file before f has a GCTAG that leads over f: a walk that comes from there looks at f.
Passed(f) == \A p \in refs : p < f => NextOf(p) <= f
Reached   == \A op \in InFlight : IsRef(op) => Passed(op.prev)
WorkRight ==
  \A c \in Consumers :
    /\ cons[c].at = "obj" => cons[c].k < Op(c).count
    /\ Mid(c) => gctag[Op(c).prev].refcnt = Refcnt(Op(c)) /\ Op(c).count > 0
    /\ cons[c].at = "unlink" =>
         cons[c].k < Op(c).count
         /\ \A g \in refs : ~(Op(c).fileno <= g /\ g < Op(c).fileno + cons[c].k)
    /\ cons[c].at = "clear" =>
         \A g \in refs : ~(Op(c).fileno <= g /\ g < Op(c).fileno + Op(c).count)

-----------------------------------------------------------------------------
(* The streamwalker s.                                                     *)

Refs(ops) == {ops[i] : i \in {j \in 1 .. Len(ops) : IsRef(ops[j])}}
OneRef(ops) == \A i, j \in 1 .. Len(ops) : IsRef(ops[i]) /\ IsRef(ops[j]) => i = j
ObjsSafe(ops) == \A i \in 1 .. Len(ops) :
  IsObj(ops[i]) => ops[i].offset = 0 /\ ops[i].count > 0 /\ ObjSafe(ops[i])

\* The chain of a walk: deletions of objects nobody needs, and one deletion of refs.
Shaped(s) == OneRef(s.ops) /\ ObjsSafe(s.ops)
WalkerType ==
  w = NoWalker \/ w = LostRun \/ (w \in Walkers /\ Shaped(w) /\ w.fileno \in Files /\ w.ft \in Files)

Over(s) == s.end \/ TagEnds(s) \/ ~s.fin
\* It has not handed out the operations at the end of the walk: those in flight are behind.
Fresh(s) ==
  /\ \A op \in InFlight : IsRef(op) => End(op) <= s.activeindex
  /\ s.gct = gctag[s.fileno] /\ s.fileno \in refs /\ s.activeindex \in refs
  /\ Passed(s.fileno) /\ Passed(s.activeindex)
  /\ (\A r \in Refs(s.ops) : r.count = 0) => s.activeindex = s.fileno
\* Its deletion of refs reaches from the last file in use to where it is.
RefGrows(s, r) ==
  /\ r.prev = s.activeindex
  /\ r.eos => FreeAfter(r.prev)
  /\ r.count > 0 => /\ r.fileno > r.prev /\ r.fileno + r.count = Target(s)
                    /\ \A g \in refs : ~(r.prev < g /\ g < r.fileno)
  /\ r.count = 0 => r.fileno = 0 /\ s.fileno = 0 /\ s.gct.refcnt = 0
AnyWalk(s) ==
  /\ Free(s.fileno + 1, s.fileno + s.gct.refcnt)
  /\ s.gct.eos => FreeAfter(s.fileno)
  /\ s.end => FreeAfter(s.fileno)
  /\ ~s.fin => s.fileno = LastFile
GcWalk(s) ==
  /\ s.ft = s.fileno /\ s.objno = layout[s.fileno].endobj
  /\ s.activeindex <= s.fileno /\ Free(s.activeindex + 1, s.fileno)
  /\ s.activeindex = s.fileno /\ s.fileno > 0 => s.activefiles > 0
  /\ s.activefiles = 0 => \A g \in Alive : g <= s.fileno => s.objno \notin Span(g)
  /\ \A r \in Refs(s.ops) : RefGrows(s, r)
  /\ (s.ops = <<>> /\ Over(s)) \/ Fresh(s)
\* A walk that only counts deletes nothing.
PlainWalk(s) ==
  /\ s.ops = <<>> /\ InFlight = {} /\ s.fileno \in refs /\ s.ft <= s.fileno
  /\ s.gct = NoTag \/ s.gct = gctag[s.fileno]
  /\ s.ft = s.fileno => s.gct = gctag[s.fileno]
GoodWalk(s) == AnyWalk(s) /\ (s.gc => GcWalk(s)) /\ (~s.gc => PlainWalk(s))
WalkRight == w.on /\ ~w.failed => GoodWalk(w)

\* The files in use up to where the walk is were counted, and only files that were in use when
\* it began.
Ahead(n)  == {f \in linked : f > n}
Behind(n) == {f \in linked : f <= n}
CountOK(s) ==
  /\ Cardinality(Behind(s.fileno)) <= s.usage
  /\ s.usage + Cardinality(Ahead(s.fileno)) <= s.before
Counted == w.on /\ ~w.failed => CountOK(w)

TypesInv == StreamType /\ StorageType /\ ThreadType /\ WalkerType /\ crashes \in Nat
Storing == Kept /\ TagsTrue /\ NextThere
Working == RefsRight /\ Ordered /\ TagsTight /\ Reached /\ WorkRight
Deep == Storing /\ Working /\ WalkRight
CollectInv == TypesInv /\ ObjsRight /\ Counted /\ (Alive # {} => Deep)

-----------------------------------------------------------------------------
(* The stream                                                              *)

\* The files of a stream are numbered from 0 and lie one after the other.
LEMMA StreamShape ==
  ASSUME layout \in Layouts
  PROVE  /\ LastFile \in Nat /\ Files = 0 .. LastFile /\ IsFiniteSet(Files)
         /\ \A f \in Files : /\ layout[f].objno \in Nat /\ layout[f].endobj \in Nat
                             /\ layout[f].objno <= layout[f].endobj
         /\ \A f, g \in Files : f < g => layout[f].endobj <= layout[g].objno
<1>1. Cardinality(Files) \in Nat
  BY GCAssumption, FS_CardinalityType DEF Files
<1>2. Files # {} /\ Files = 0 .. (Cardinality(Files) - 1)
  BY GCAssumption DEF Files
<1>3. Cardinality(Files) > 0
  BY <1>1, <1>2
<1> QED
  BY <1>1, <1>2, <1>3, GCAssumption DEF Files, LastFile

-----------------------------------------------------------------------------
(* Sequences of operations                                                 *)

BeforeNat == {ss \in Nat \X Nat : ss[1] < ss[2]}
\* The order of the natural numbers, as a relation.
LEMMA BeforeWellFounded == IsWellFoundedOn(BeforeNat, Nat)
BY NatLessThanWellFounded DEF OpToRel, BeforeNat

\* A set of natural numbers has a least element, and Min is it.
LEMMA MinIsIn ==
  ASSUME NEW I \in SUBSET Nat, I # {}
  PROVE  Min(I) \in I
<1>1. PICK x \in I : \A y \in I : ~ (<<y, x>> \in BeforeNat)
  BY BeforeWellFounded, WFMin
<1>2. \A y \in I : x =< y
  <2> TAKE y \in I
  <2>1. <<y, x>> \in Nat \X Nat
    OBVIOUS
  <2>2. ~(y < x)
    BY <1>1, <2>1 DEF BeforeNat
  <2> QED BY <2>2
<1> QED BY <1>2 DEF Min

\* The first element that is wanted, or 0.
LEMMA RefOpIs ==
  ASSUME NEW ops \in Seq(Ops)
  PROVE  \/ RefOp(ops) = 0 /\ \A i \in 1 .. Len(ops) : ~IsRef(ops[i])
         \/ RefOp(ops) \in 1 .. Len(ops) /\ IsRef(ops[RefOp(ops)])
<1> DEFINE I == {i \in 1 .. Len(ops) : ops[i].type = "ref"}
<1>1. RefOp(ops) = IF I # {} THEN Min(I) ELSE 0
  BY DEF RefOp, SelectInSeq
<1>2. I \in SUBSET Nat
  OBVIOUS
<1>3. I # {} => Min(I) \in I
  <2> HIDE DEF I
  <2> QED BY <1>2, MinIsIn
<1> QED
  BY <1>1, <1>3 DEF IsRef

\* The first deletion of objects that ends at o, or 0.
LEMMA ObjOpIs ==
  ASSUME NEW ops \in Seq(Ops), NEW o \in Nat
  PROVE  \/ ObjOp(ops, o) = 0
         \/ /\ ObjOp(ops, o) \in 1 .. Len(ops) /\ IsObj(ops[ObjOp(ops, o)])
            /\ ops[ObjOp(ops, o)].objno + ops[ObjOp(ops, o)].count = o
<1> DEFINE I == {i \in 1 .. Len(ops) : ops[i].type = "obj" /\ ops[i].objno + ops[i].count = o}
<1>1. ObjOp(ops, o) = IF I # {} THEN Min(I) ELSE 0
  BY DEF ObjOp, SelectInSeq
<1>2. I \in SUBSET Nat
  OBVIOUS
<1>3. I # {} => Min(I) \in I
  <2> HIDE DEF I
  <2> QED BY <1>2, MinIsIn
<1> QED
  BY <1>1, <1>3 DEF IsObj

\* A deletion in a chain is of the one kind or the other.
LEMMA OpKinds ==
  /\ \A op \in Ops : (IsRef(op) /\ op \in RefOps) \/ (IsObj(op) /\ op \in ObjOps)
  /\ \A op : ~(IsRef(op) /\ IsObj(op))
BY DEF Ops, RefOps, ObjOps, IsRef, IsObj

\* With one deletion of refs, RefOp() finds it.
LEMMA TheRef ==
  ASSUME NEW ops \in Seq(Ops), OneRef(ops)
  PROVE  /\ RefOp(ops) = 0 => Refs(ops) = {}
         /\ RefOp(ops) # 0 => /\ RefOp(ops) \in 1 .. Len(ops)
                              /\ Refs(ops) = {ops[RefOp(ops)]} /\ ops[RefOp(ops)] \in RefOps
<1>1. CASE RefOp(ops) = 0
  BY <1>1, RefOpIs DEF Refs
<1>2. CASE RefOp(ops) # 0
  <2>1. RefOp(ops) \in 1 .. Len(ops) /\ IsRef(ops[RefOp(ops)])
    BY <1>2, RefOpIs
  <2>2. ops[RefOp(ops)] \in RefOps
    BY <2>1, OpKinds
  <2> QED
    BY <2>1, <2>2, <1>2 DEF Refs, OneRef
<1> QED BY <1>1, <1>2

\* The deletion of refs is changed.
LEMMA ReplaceRef ==
  ASSUME NEW ops \in Seq(Ops), OneRef(ops), ObjsSafe(ops), NEW i \in 1 .. Len(ops),
         IsRef(ops[i]), NEW r \in RefOps
  PROVE  LET new == [ops EXCEPT ![i] = r]
         IN  new \in Seq(Ops) /\ OneRef(new) /\ ObjsSafe(new) /\ Refs(new) = {r} /\ new # <<>>
<1> DEFINE new == [ops EXCEPT ![i] = r]
<1>1. r \in Ops /\ IsRef(r) /\ ~IsObj(r)
  BY OpKinds DEF Ops, RefOps, IsRef, IsObj
<1>2. new \in Seq(Ops) /\ Len(new) = Len(ops) /\ new[i] = r
      /\ \A j \in 1 .. Len(ops) : j # i => new[j] = ops[j]
  BY <1>1
<1>3. new # <<>>
  BY <1>2
<1> HIDE DEF new
<1>4. OneRef(new) /\ Refs(new) = {r}
  BY <1>1, <1>2 DEF OneRef, Refs
<1>5. ObjsSafe(new)
  BY <1>1, <1>2 DEF ObjsSafe
<1> QED BY <1>2, <1>3, <1>4, <1>5 DEF new

\* the chain new is ops with a deletion of refs, an empty one if there was none
GotRef(new, ops, f) ==
  /\ new \in Seq(Ops) /\ OneRef(new) /\ ObjsSafe(new) /\ RefOp(new) # 0
  /\ RefOp(new) \in 1 .. Len(new) /\ Refs(new) = {new[RefOp(new)]}
  /\ new[RefOp(new)] \in RefOps /\ IsRef(new[RefOp(new)])
  /\ Refs(ops) = {} => /\ new[RefOp(new)].count = 0 /\ new[RefOp(new)].fileno = f
                       /\ new[RefOp(new)].prev = 0 /\ new[RefOp(new)].eos = FALSE
  /\ Refs(ops) # {} => Refs(new) = Refs(ops)
\* A chain gets a deletion of refs if it has none.
LEMMA WithRefOpIs ==
  ASSUME NEW ops \in Seq(Ops), OneRef(ops), ObjsSafe(ops), NEW f \in Nat, NEW o \in Nat
  PROVE  GotRef(WithRefOp(ops, f, o), ops, f)
<1> DEFINE new == WithRefOp(ops, f, o)
           r == [type |-> "ref", objno |-> o, fileno |-> f, count |-> 0, prev |-> 0,
                 delzero |-> FALSE, eos |-> FALSE]
<1>1. CASE RefOp(ops) # 0
  <2>1. new = ops
    BY <1>1 DEF WithRefOp
  <2>2. Refs(ops) # {}
    BY <1>1, TheRef
  <2> QED BY <1>1, <2>1, <2>2, TheRef DEF IsRef, RefOps, GotRef
<1>2. CASE RefOp(ops) = 0
  <2>1. new = Append(ops, r)
    BY <1>2 DEF WithRefOp
  <2>2. r \in RefOps /\ r \in Ops /\ IsRef(r) /\ ~IsObj(r)
    BY DEF RefOps, Ops, IsRef, IsObj
  <2> HIDE DEF r, new
  <2>3. new \in Seq(Ops) /\ Len(new) = Len(ops) + 1 /\ new[Len(ops) + 1] = r
        /\ \A i \in 1 .. Len(ops) : new[i] = ops[i]
    BY <2>1, <2>2
  <2>4. \A i \in 1 .. Len(ops) : ~IsRef(ops[i])
    BY <1>2, RefOpIs
  <2>5. OneRef(new)
    <3> SUFFICES ASSUME NEW i \in 1 .. Len(new), NEW j \in 1 .. Len(new), IsRef(new[i]), IsRef(new[j])
                 PROVE i = j
      BY DEF OneRef
    <3>1. i = Len(ops) + 1
      BY <2>3, <2>4
    <3>2. j = Len(ops) + 1
      BY <2>3, <2>4
    <3> QED BY <3>1, <3>2
  <2>6. ObjsSafe(new)
    <3> SUFFICES ASSUME NEW i \in 1 .. Len(new), IsObj(new[i])
                 PROVE new[i].offset = 0 /\ new[i].count > 0 /\ ObjSafe(new[i])
      BY DEF ObjsSafe
    <3>1. i \in 1 .. Len(ops)
      BY <2>2, <2>3
    <3> QED BY <3>1, <2>3 DEF ObjsSafe
  <2>7. RefOp(new) = Len(ops) + 1
    <3>1. RefOp(new) # 0
      BY <2>2, <2>3, RefOpIs
    <3>2. RefOp(new) \in 1 .. Len(new) /\ IsRef(new[RefOp(new)])
      BY <3>1, <2>3, RefOpIs
    <3> QED BY <3>2, <2>3, <2>4
  <2>8. Refs(ops) = {}
    BY <1>2, TheRef
  <2>9. r.count = 0 /\ r.fileno = f /\ r.prev = 0 /\ r.eos = FALSE
    BY DEF r
  <2> QED
    BY <2>2, <2>3, <2>5, <2>6, <2>7, <2>8, <2>9, TheRef DEF new, GotRef
<1> QED BY <1>1, <1>2

\* Objects o .. last are deleted as well; the deletion of refs stays.
LEMMA DeleteObjsIs ==
  ASSUME NEW ops \in Seq(Ops), OneRef(ops), ObjsSafe(ops), NEW f \in Nat, NEW o \in Nat,
         NEW last \in Int, \A x \in Nat : o <= x /\ x <= last => Unheld(x)
  PROVE  LET new == DeleteObjs(ops, f, o, last)
         IN  new \in Seq(Ops) /\ OneRef(new) /\ ObjsSafe(new) /\ Refs(new) = Refs(ops)
<1> DEFINE new == DeleteObjs(ops, f, o, last)
           n == last + 1 - o
           op == [type |-> "obj", objno |-> o, fileno |-> f, count |-> n, offset |-> 0]
           i == ObjOp(ops, o)
           longer == [ops[i] EXCEPT !.count = @ + last + 1 - o]
<1>1. CASE o > last
  BY <1>1 DEF DeleteObjs
<1>2. CASE o <= last /\ ObjOp(ops, o) # 0
  <2>1. i \in 1 .. Len(ops) /\ IsObj(ops[i]) /\ ops[i].objno + ops[i].count = o
    BY <1>2, ObjOpIs
  <2>2. /\ ops[i] \in ObjOps /\ n \in Nat /\ n > 0
        /\ ops[i].objno \in Nat /\ ops[i].count \in Nat /\ ops[i].offset \in Nat
    BY <1>2, <2>1, OpKinds DEF ObjOps
  <2>3. ops[i].offset = 0 /\ ops[i].count > 0 /\ ObjSafe(ops[i])
    BY <2>1 DEF ObjsSafe
  <2>4. new = [ops EXCEPT ![i] = longer]
    BY <1>2, <2>1 DEF DeleteObjs
  <2>5. longer \in ObjOps /\ longer.objno = ops[i].objno /\ longer.offset = 0
        /\ longer.count = ops[i].count + n
    <3>1. \A m \in Nat : m + last + 1 - o = m + n /\ m + n \in Nat
      BY <2>2
    <3> QED BY <2>2, <2>3, <3>1 DEF ObjOps
  <2>6. IsObj(longer) /\ ~IsRef(longer) /\ longer \in Ops
    BY <2>5 DEF ObjOps, Ops, IsObj, IsRef
  <2> HIDE DEF i, longer, new
  <2>7. new \in Seq(Ops) /\ Len(new) = Len(ops) /\ new[i] = longer
        /\ \A j \in 1 .. Len(ops) : j # i => new[j] = ops[j]
    BY <2>1, <2>4, <2>6
  <2>8. ObjSafe(longer)
    <3> SUFFICES ASSUME NEW x \in Nat, longer.objno + longer.offset <= x,
                        x < longer.objno + longer.offset + longer.count
                 PROVE Unheld(x)
      BY DEF ObjSafe
    <3>1. CASE x < o
      BY <3>1, <2>1, <2>2, <2>3, <2>5 DEF ObjSafe
    <3>2. CASE o <= x
      BY <3>2, <2>1, <2>2, <2>5
    <3> QED BY <3>1, <3>2
  <2>9. ~IsRef(ops[i])
    BY <2>1, OpKinds
  <2>10. OneRef(new) /\ Refs(new) = Refs(ops)
    BY <2>1, <2>6, <2>7, <2>9 DEF OneRef, Refs
  <2>11. ObjsSafe(new)
    BY <2>1, <2>2, <2>5, <2>7, <2>8 DEF ObjsSafe, ObjOps
  <2> QED BY <2>7, <2>10, <2>11 DEF new
<1>3. CASE o <= last /\ ObjOp(ops, o) = 0
  <2>1. new = <<op>> \o ops
    BY <1>3 DEF DeleteObjs
  <2>2. op \in ObjOps /\ op \in Ops /\ IsObj(op) /\ ~IsRef(op) /\ op.offset = 0 /\ op.count > 0
        /\ op.objno = o /\ op.objno + op.offset + op.count = last + 1
    BY <1>3 DEF ObjOps, Ops, IsObj, IsRef
  <2>3. ObjSafe(op)
    BY <2>2 DEF ObjSafe
  <2> HIDE DEF op, new
  <2>4. new \in Seq(Ops) /\ Len(new) = Len(ops) + 1 /\ new[1] = op
        /\ \A i1 \in 1 .. Len(ops) : new[i1 + 1] = ops[i1]
    BY <2>1, <2>2
  <2>5. \A j \in 1 .. Len(new) : j = 1 \/ (j - 1 \in 1 .. Len(ops) /\ new[j] = ops[j - 1])
    <3> SUFFICES ASSUME NEW j \in 1 .. Len(new), j # 1 PROVE j - 1 \in 1 .. Len(ops) /\ new[j] = ops[j - 1]
      OBVIOUS
    <3>1. j - 1 \in 1 .. Len(ops)
      BY <2>4
    <3>2. new[(j - 1) + 1] = ops[j - 1]
      BY <2>4, <3>1
    <3> QED BY <3>1, <3>2
  <2>6. OneRef(new)
    <3> SUFFICES ASSUME NEW a \in 1 .. Len(new), NEW b \in 1 .. Len(new), IsRef(new[a]), IsRef(new[b])
                 PROVE a = b
      BY DEF OneRef
    <3>1. a # 1 /\ b # 1
      BY <2>2, <2>4
    <3>2. /\ a - 1 \in 1 .. Len(ops) /\ new[a] = ops[a - 1]
          /\ b - 1 \in 1 .. Len(ops) /\ new[b] = ops[b - 1]
      BY <2>5, <3>1
    <3>3. a - 1 = b - 1
      BY <3>2 DEF OneRef
    <3> QED BY <3>3
  <2>7. Refs(new) \subseteq Refs(ops)
    <3> SUFFICES ASSUME NEW a \in 1 .. Len(new), IsRef(new[a]) PROVE new[a] \in Refs(ops)
      BY DEF Refs
    <3>1. a # 1
      BY <2>2, <2>4
    <3>2. a - 1 \in 1 .. Len(ops) /\ new[a] = ops[a - 1]
      BY <2>5, <3>1
    <3> QED BY <3>2 DEF Refs
  <2>8. Refs(ops) \subseteq Refs(new)
    <3> SUFFICES ASSUME NEW a \in 1 .. Len(ops), IsRef(ops[a]) PROVE ops[a] \in Refs(new)
      BY DEF Refs
    <3>1. a + 1 \in 1 .. Len(new) /\ new[a + 1] = ops[a]
      BY <2>4
    <3> QED BY <3>1 DEF Refs
  <2>9. ObjsSafe(new)
    <3> SUFFICES ASSUME NEW a \in 1 .. Len(new), IsObj(new[a])
                 PROVE new[a].offset = 0 /\ new[a].count > 0 /\ ObjSafe(new[a])
      BY DEF ObjsSafe
    <3>1. CASE a = 1
      BY <3>1, <2>2, <2>3, <2>4
    <3>2. CASE a # 1
      <4>1. a - 1 \in 1 .. Len(ops) /\ new[a] = ops[a - 1]
        BY <2>5, <3>2
      <4> QED BY <4>1 DEF ObjsSafe
    <3> QED BY <3>1, <3>2
  <2> QED BY <2>4, <2>6, <2>7, <2>8, <2>9 DEF new
<1> QED BY <1>1, <1>2, <1>3

-----------------------------------------------------------------------------
(* What the steps of the walk make of a walker                             *)

\* the same deletion of refs, except for what is noted about object 0
AsRef(r, q) == r.count = q.count /\ r.fileno = q.fileno /\ r.prev = q.prev /\ r.eos = q.eos
\* a walker at the same place
Same(t, s) ==
  /\ t.gc = s.gc /\ t.fileno = s.fileno /\ t.ft = s.ft /\ t.end = s.end /\ t.fin = s.fin
  /\ t.gct = s.gct /\ t.activeindex = s.activeindex /\ t.usage = s.usage /\ t.before = s.before
NoCount(ops) == \A q \in Refs(ops) : q.count = 0

\* The deletion of refs notes that object 0 goes.
LEMMA SetDelzeroIs ==
  ASSUME NEW ops \in Seq(Ops), OneRef(ops), ObjsSafe(ops), RefOp(ops) # 0
  PROVE  LET new == SetDelzero(ops)
         IN  /\ new \in Seq(Ops) /\ OneRef(new) /\ ObjsSafe(new)
             /\ \E r, q \in RefOps : Refs(new) = {r} /\ Refs(ops) = {q} /\ AsRef(r, q)
<1> DEFINE i == RefOp(ops)
           r == [ops[i] EXCEPT !.delzero = TRUE]
<1>1. i \in 1 .. Len(ops) /\ Refs(ops) = {ops[i]} /\ ops[i] \in RefOps
  BY TheRef
<1>2. IsRef(ops[i])
  BY <1>1 DEF RefOps, IsRef
<1>3. SetDelzero(ops) = [ops EXCEPT ![i] = r]
  BY <1>1 DEF SetDelzero
<1>4. r \in RefOps /\ AsRef(r, ops[i])
  BY <1>1 DEF RefOps, AsRef
<1> HIDE DEF i, r
<1>5. LET new == [ops EXCEPT ![i] = r]
      IN  new \in Seq(Ops) /\ OneRef(new) /\ ObjsSafe(new) /\ Refs(new) = {r} /\ new # <<>>
  BY <1>1, <1>2, <1>4, ReplaceRef
<1> QED BY <1>1, <1>3, <1>4, <1>5

\* t: the walker s, with n refs from at on in its deletion of refs
Joined(t, s, at, n, eos) ==
  /\ t \in Walkers /\ Shaped(t) /\ Same(t, s)
  /\ t.objno = s.objno /\ t.activefiles = s.activefiles
  /\ \E r \in RefOps :
       /\ Refs(t.ops) = {r}
       /\ NoCount(s.ops) => r.count = n /\ r.fileno = at /\ r.prev = s.activeindex /\ r.eos = eos
       /\ ~NoCount(s.ops) =>
            \E q \in RefOps :
              /\ Refs(s.ops) = {q} /\ q.count > 0
              /\ r.count = q.count + n /\ r.fileno = q.fileno /\ r.prev = q.prev
              /\ r.eos => q.eos \/ eos
\* Refs join the deletion of refs of the walk.
LEMMA DeleteRefIs ==
  ASSUME NEW s \in Walkers, Shaped(s), NEW f \in Nat, layout[f].objno \in Nat, NEW at \in Nat,
         NEW n \in Nat, NEW eos \in BOOLEAN
  PROVE  Joined(DeleteRef(s, f, at, n, eos), s, at, n, eos)
<1> DEFINE t == DeleteRef(s, f, at, n, eos)
           ops == WithRefOp(s.ops, f, layout[f].objno)
           i == RefOp(ops)
           new == [ops[i] EXCEPT !.count = n, !.fileno = at, !.prev = s.activeindex, !.eos = eos]
           old == [ops[i] EXCEPT !.count = @ + n, !.eos = @ \/ eos]
<1>0. s.ops \in Seq(Ops) /\ OneRef(s.ops) /\ ObjsSafe(s.ops) /\ s.activeindex \in Nat /\ s.failed \in BOOLEAN
  BY DEF Shaped, Walkers
<1>1. /\ ops \in Seq(Ops) /\ OneRef(ops) /\ ObjsSafe(ops) /\ i # 0
      /\ i \in 1 .. Len(ops) /\ Refs(ops) = {ops[i]}
      /\ ops[i] \in RefOps /\ IsRef(ops[i])
      /\ IF Refs(s.ops) = {} THEN ops[i].count = 0 ELSE Refs(ops) = Refs(s.ops)
  <2>1. GotRef(ops, s.ops, f)
    BY <1>0, WithRefOpIs
  <2> HIDE DEF ops
  <2> QED BY <2>1 DEF GotRef
<1>2. NoCount(s.ops) <=> ops[i].count = 0
  BY <1>1 DEF NoCount
<1>3. CASE ops[i].count = 0
  <2>1. t = [s EXCEPT !.ops = [ops EXCEPT ![i] = new]]
    BY <1>3 DEF DeleteRef
  <2>2. new \in RefOps /\ new.count = n /\ new.fileno = at /\ new.prev = s.activeindex /\ new.eos = eos
    BY <1>0, <1>1 DEF RefOps
  <2> HIDE DEF new, ops, i, t
  <2>3. LET x == [ops EXCEPT ![i] = new]
        IN  x \in Seq(Ops) /\ OneRef(x) /\ ObjsSafe(x) /\ Refs(x) = {new} /\ x # <<>>
    BY <1>1, <2>2, ReplaceRef
  <2>4. t \in Walkers /\ Same(t, s) /\ t.objno = s.objno /\ t.activefiles = s.activefiles
        /\ t.failed = s.failed /\ t.ops = [ops EXCEPT ![i] = new]
    BY <2>1, <2>3 DEF Walkers, Same
  <2> QED BY <1>2, <1>3, <2>2, <2>3, <2>4 DEF Shaped, t, Joined
<1>4. CASE ops[i].count # 0
  <2>1. t = [s EXCEPT !.ops = [ops EXCEPT ![i] = old], !.failed = @ \/ ops[i].prev # s.activeindex]
    BY <1>4 DEF DeleteRef
  <2>2. /\ old \in RefOps /\ old.count = ops[i].count + n /\ old.fileno = ops[i].fileno
        /\ old.prev = ops[i].prev /\ (old.eos => ops[i].eos \/ eos) /\ ops[i].count \in Nat
    <3> DEFINE q == ops[i]
               e == q.eos \/ eos
    <3>1. q \in RefOps /\ q.count \in Nat /\ q.count + n \in Nat /\ e \in BOOLEAN
      BY <1>1 DEF RefOps
    <3>2. old = [q EXCEPT !.count = q.count + n, !.eos = e]
      OBVIOUS
    <3> HIDE DEF q, e, old
    <3>3. old \in RefOps /\ old.count = q.count + n /\ old.fileno = q.fileno /\ old.prev = q.prev
          /\ old.eos = e
      BY <3>1, <3>2 DEF RefOps
    <3> QED BY <3>1, <3>3 DEF q, e
  <2> HIDE DEF old, ops, i, t
  <2>3. LET x == [ops EXCEPT ![i] = old]
        IN  x \in Seq(Ops) /\ OneRef(x) /\ ObjsSafe(x) /\ Refs(x) = {old} /\ x # <<>>
    BY <1>1, <2>2, ReplaceRef
  <2>4. t \in Walkers /\ Same(t, s) /\ t.objno = s.objno /\ t.activefiles = s.activefiles
        /\ t.ops = [ops EXCEPT ![i] = old]
        /\ (ops[i].prev = s.activeindex => t.failed = s.failed)
    BY <1>0, <2>1, <2>3 DEF Walkers, Same
  <2>5. Refs(s.ops) = {ops[i]}
    BY <1>1, <1>4
  <2>6. ops[i].count > 0
    BY <1>4, <2>2
  <2> QED BY <1>1, <1>2, <1>4, <2>2, <2>3, <2>4, <2>5, <2>6 DEF Shaped, t, Joined
<1> QED BY <1>3, <1>4

\* the deletion of refs of the chain new, and the one of the chain ops
Kin(new, ops) ==
  /\ \A q \in Refs(ops) : \E r \in Refs(new) : AsRef(r, q)
  /\ \A r \in Refs(new) : \E q \in Refs(ops) : AsRef(r, q)
FreshRef(r, f) == r.count = 0 /\ r.fileno = f /\ r.prev = 0 /\ ~r.eos
\* t: the walker s when the next file f begins another object or goes on with this one
Left(t, s, f) ==
  /\ t \in Walkers /\ Shaped(t) /\ Same(t, s) /\ t.failed = s.failed
  /\ ~s.gc => t = s
  /\ s.gc => /\ t.objno = layout[f].objno
             /\ t.activefiles = IF layout[f].objno = s.objno THEN s.activefiles ELSE 0
  /\ \/ Kin(t.ops, s.ops)
     \/ /\ s.gc /\ s.objno = 0 /\ s.activefiles = 0 /\ Refs(s.ops) = {}
        /\ \E r \in RefOps : Refs(t.ops) = {r} /\ FreshRef(r, f)

\* A chain has the deletion of refs it has.
LEMMA KinSame == \A new, ops : Refs(new) = Refs(ops) => Kin(new, ops)
BY DEF Kin, AsRef

\* The deletion of refs is kept when it notes that object 0 goes.
LEMMA KinDelzero ==
  ASSUME NEW ops \in Seq(Ops), OneRef(ops), ObjsSafe(ops), RefOp(ops) # 0
  PROVE  /\ SetDelzero(ops) \in Seq(Ops) /\ OneRef(SetDelzero(ops)) /\ ObjsSafe(SetDelzero(ops))
         /\ Kin(SetDelzero(ops), ops) /\ \E r \in RefOps : Refs(SetDelzero(ops)) = {r}
<1>1. LET new == SetDelzero(ops)
      IN  /\ new \in Seq(Ops) /\ OneRef(new) /\ ObjsSafe(new)
          /\ \E r, q \in RefOps : Refs(new) = {r} /\ Refs(ops) = {q} /\ AsRef(r, q)
  BY SetDelzeroIs
<1> QED BY <1>1 DEF Kin

\* A chain has a deletion of refs, and RefOp() finds it.
LEMMA HasRef ==
  ASSUME NEW ops \in Seq(Ops), OneRef(ops), Refs(ops) # {}
  PROVE  RefOp(ops) # 0 /\ \E r \in RefOps : Refs(ops) = {r}
BY TheRef

\* The next file begins another object: the one before goes, if nobody needs it.
LEMMA LeaveObjectIs ==
  ASSUME NEW s \in Walkers, Shaped(s), NEW f \in Nat, layout[f].objno \in Nat,
         s.gc /\ s.activefiles = 0 /\ layout[f].objno # s.objno => Unheld(s.objno)
  PROVE  Left(LeaveObject(s, f), s, f)
<1> DEFINE t == LeaveObject(s, f)
           o == layout[f].objno
           ops == DeleteObjs(s.ops, f, s.objno, s.objno)
           got == WithRefOp(ops, f, o)
           new == IF ~Unused(s) THEN s.ops ELSE IF s.objno = 0 THEN SetDelzero(got) ELSE ops
<1>0. s.ops \in Seq(Ops) /\ OneRef(s.ops) /\ ObjsSafe(s.ops) /\ s.objno \in Nat /\ s.activefiles \in Nat
      /\ s.gc \in BOOLEAN /\ s.failed \in BOOLEAN
  BY DEF Shaped, Walkers
<1>1. CASE ~s.gc \/ o = s.objno
  <2>1. t = s
    BY <1>1 DEF LeaveObject
  <2>2. Same(t, s) /\ Kin(t.ops, s.ops)
    BY <2>1, KinSame DEF Same
  <2> QED BY <1>1, <2>1, <2>2 DEF Left
<1>2. CASE s.gc /\ o # s.objno
  <2>1. t = [s EXCEPT !.activefiles = 0, !.objno = o, !.ops = new]
    BY <1>2 DEF LeaveObject
  <2>2. /\ new \in Seq(Ops) /\ OneRef(new) /\ ObjsSafe(new)
        /\ \/ Kin(new, s.ops)
           \/ /\ s.objno = 0 /\ s.activefiles = 0 /\ Refs(s.ops) = {}
              /\ \E r \in RefOps : Refs(new) = {r} /\ FreshRef(r, f)
    <3>1. CASE ~Unused(s)
      BY <3>1, <1>0, KinSame
    <3>2. CASE Unused(s)
      <4>1. \A x \in Nat : s.objno <= x /\ x <= s.objno => Unheld(x)
        BY <3>2, <1>0, <1>2 DEF Unused
      <4>2. ops \in Seq(Ops) /\ OneRef(ops) /\ ObjsSafe(ops) /\ Refs(ops) = Refs(s.ops)
        <5>1. s.objno \in Int
          BY <1>0
        <5> QED BY <4>1, <5>1, <1>0, DeleteObjsIs
      <4> HIDE DEF ops
      <4>3. CASE s.objno # 0
        BY <3>2, <4>2, <4>3, KinSame
      <4>4. CASE s.objno = 0
        <5>1. GotRef(got, ops, f)
          BY <4>2, WithRefOpIs
        <5> HIDE DEF got
        <5>2. got \in Seq(Ops) /\ OneRef(got) /\ ObjsSafe(got) /\ RefOp(got) # 0
          BY <5>1 DEF GotRef
        <5>3. new = SetDelzero(got)
          BY <3>2, <4>4
        <5>4. /\ new \in Seq(Ops) /\ OneRef(new) /\ ObjsSafe(new) /\ Kin(new, got)
              /\ \E r \in RefOps : Refs(new) = {r}
          BY <5>2, <5>3, KinDelzero
        <5> HIDE DEF new
        <5>5. CASE Refs(s.ops) # {}
          <6>1. Refs(got) = Refs(s.ops)
            BY <4>2, <5>1, <5>5 DEF GotRef
          <6>2. Kin(new, s.ops)
            BY <5>4, <6>1 DEF Kin
          <6> QED BY <5>4, <6>2
        <5>6. CASE Refs(s.ops) = {}
          <6>1. PICK q : Refs(got) = {q} /\ FreshRef(q, f)
            BY <4>2, <5>1, <5>6 DEF GotRef, FreshRef
          <6>2. PICK r \in RefOps : Refs(new) = {r}
            BY <5>4
          <6>3. AsRef(r, q)
            BY <5>4, <6>1, <6>2 DEF Kin
          <6>4. FreshRef(r, f)
            BY <6>1, <6>3 DEF FreshRef, AsRef
          <6>5. s.activefiles = 0
            BY <3>2 DEF Unused
          <6> QED BY <4>4, <5>4, <5>6, <6>2, <6>4, <6>5
        <5> QED BY <5>5, <5>6
      <4> QED BY <4>3, <4>4
    <3> QED BY <3>1, <3>2
  <2> HIDE DEF new, t
  <2>3. /\ t \in Walkers /\ Same(t, s) /\ t.failed = s.failed /\ t.objno = o /\ t.activefiles = 0
        /\ t.ops = new
    BY <2>1, <2>2 DEF Walkers, Same
  <2> QED BY <1>2, <2>2, <2>3 DEF Left, Shaped, t
<1> QED BY <1>1, <1>2, <1>0

\* u: the walker s, with the objects that a file that is garbage leaves to nobody
Swept(u, s) ==
  /\ u \in Walkers /\ Shaped(u) /\ Same(u, s) /\ u.failed = s.failed
  /\ u.objno = s.objno /\ u.activefiles = s.activefiles /\ Kin(u.ops, s.ops)
\* The objects of a file that is garbage go.
LEMMA GarbageObjsIs ==
  ASSUME NEW s \in Walkers, Shaped(s), Refs(s.ops) # {}, NEW f \in Nat,
         layout[f].objno \in Nat, layout[f].endobj \in Nat,
         s.activefiles = 0 /\ layout[f].endobj # s.objno => Unheld(layout[f].objno),
         layout[f].endobj # s.objno =>
           \A x \in Nat : layout[f].objno < x /\ x < layout[f].endobj => Unheld(x),
         EosAt(f) /\ (layout[f].endobj # s.objno \/ s.activefiles = 0) => Unheld(layout[f].endobj)
  PROVE  Swept(GarbageObjs(s, f), s)
<1> DEFINE first == layout[f].objno
           final == layout[f].endobj
           whole == s.activefiles = 0 /\ (first # 0 \/ ~gctag[f].delzero)
           ops0  == DeleteObjs(s.ops, f, 0, 0)
           ops1  == IF ~whole THEN s.ops
                    ELSE IF first = 0 THEN SetDelzero(ops0)
                    ELSE DeleteObjs(s.ops, f, first, first)
           ops2  == IF final = s.objno THEN s.ops ELSE DeleteObjs(ops1, f, first + 1, final - 1)
           ops3  == DeleteObjs(ops2, f, final, final)
           new   == IF EosAt(f) /\ (final # s.objno \/ s.activefiles = 0) THEN ops3 ELSE ops2
           Good(ops) == ops \in Seq(Ops) /\ OneRef(ops) /\ ObjsSafe(ops) /\ Kin(ops, s.ops)
<1>0. s.ops \in Seq(Ops) /\ OneRef(s.ops) /\ ObjsSafe(s.ops) /\ s.objno \in Nat /\ s.activefiles \in Nat
      /\ Kin(s.ops, s.ops)
  BY KinSame DEF Shaped, Walkers
<1>1. GarbageObjs(s, f) = [s EXCEPT !.ops = new]
  BY DEF GarbageObjs
<1>2. ASSUME NEW a \in Seq(Ops), OneRef(a), ObjsSafe(a), Kin(a, s.ops), NEW o \in Nat, NEW last \in Int,
             \A x \in Nat : o <= x /\ x <= last => Unheld(x)
      PROVE  Good(DeleteObjs(a, f, o, last))
  <2>1. LET x == DeleteObjs(a, f, o, last)
        IN  x \in Seq(Ops) /\ OneRef(x) /\ ObjsSafe(x) /\ Refs(x) = Refs(a)
    BY <1>2, DeleteObjsIs
  <2> QED BY <2>1, <1>2 DEF Kin
<1>3. ASSUME final # s.objno PROVE Good(ops1)
  <2>1. CASE ~whole
    BY <2>1, <1>0
  <2>2. CASE whole /\ first # 0
    <3>1. \A x \in Nat : first <= x /\ x <= first => Unheld(x)
      BY <1>3, <2>2
    <3>2. Good(DeleteObjs(s.ops, f, first, first))
      <4>1. first \in Nat /\ first \in Int
        OBVIOUS
      <4> HIDE DEF first, Good
      <4> QED BY <1>0, <1>2, <3>1, <4>1
    <3> QED BY <2>2, <3>2
  <2>3. CASE whole /\ first = 0
    <3>1. \A x \in Nat : 0 <= x /\ x <= 0 => Unheld(x)
      BY <1>3, <2>3
    <3>2. Good(ops0)
      <4>1. 0 \in Nat /\ 0 \in Int
        OBVIOUS
      <4> HIDE DEF Good
      <4> QED BY <1>0, <1>2, <3>1, <4>1
    <3> HIDE DEF ops0
    <3>3. Refs(ops0) # {}
      BY <3>2 DEF Kin
    <3>4. RefOp(ops0) # 0
      BY <3>2, <3>3, HasRef
    <3>5. SetDelzero(ops0) \in Seq(Ops) /\ OneRef(SetDelzero(ops0)) /\ ObjsSafe(SetDelzero(ops0))
          /\ Kin(SetDelzero(ops0), ops0)
      BY <3>2, <3>4, KinDelzero
    <3>6. Kin(SetDelzero(ops0), s.ops)
      <4> HIDE DEF Good
      <4>1. Kin(ops0, s.ops)
        BY <3>2 DEF Good
      <4> QED BY <3>5, <4>1 DEF Kin, AsRef
    <3>7. ops1 = SetDelzero(ops0)
      BY <2>3
    <3> QED BY <3>5, <3>6, <3>7
  <2> QED BY <2>1, <2>2, <2>3
<1>4. Good(ops2)
  <2>1. CASE final = s.objno
    BY <2>1, <1>0
  <2>2. CASE final # s.objno
    <3>1. Good(ops1)
      BY <1>3, <2>2
    <3> HIDE DEF ops1
    <3>2. first + 1 \in Nat /\ final - 1 \in Int
          /\ \A x \in Nat : first + 1 <= x /\ x <= final - 1 => Unheld(x)
      BY <2>2
    <3>3. Good(DeleteObjs(ops1, f, first + 1, final - 1))
      BY <1>2, <3>1, <3>2
    <3> QED BY <2>2, <3>3
  <2> QED BY <2>1, <2>2
<1>5. Good(new)
  <2> HIDE DEF ops2
  <2>1. CASE EosAt(f) /\ (final # s.objno \/ s.activefiles = 0)
    <3>1. \A x \in Nat : final <= x /\ x <= final => Unheld(x)
      BY <2>1
    <3>2. Good(ops3)
      <4>1. final \in Nat /\ final \in Int
        OBVIOUS
      <4>2. ops2 \in Seq(Ops) /\ OneRef(ops2) /\ ObjsSafe(ops2) /\ Kin(ops2, s.ops)
        BY <1>4
      <4> HIDE DEF final, Good
      <4> QED BY <1>2, <4>2, <3>1, <4>1
    <3> QED BY <2>1, <3>2
  <2>2. CASE ~(EosAt(f) /\ (final # s.objno \/ s.activefiles = 0))
    BY <2>2, <1>4
  <2> QED BY <2>1, <2>2
<1> HIDE DEF new
<1> QED
  <2>1. [s EXCEPT !.ops = new] \in Walkers /\ Same([s EXCEPT !.ops = new], s)
    BY <1>5 DEF Walkers, Same
  <2>2. LET u == [s EXCEPT !.ops = new]
        IN  u.failed = s.failed /\ u.objno = s.objno /\ u.activefiles = s.activefiles /\ u.ops = new
    BY DEF Walkers
  <2> QED BY <1>1, <1>5, <2>1, <2>2 DEF Swept, Shaped

-----------------------------------------------------------------------------
(* Types, step by step                                                     *)

\* Every variable of the stream and of storage has its type at first, and nothing is under way.
LEMMA TypesInit == Init => TypesInv
<1> SUFFICES ASSUME Init PROVE TypesInv
  OBVIOUS
<1>1. layout \in Layouts /\ tail \in Tails
  BY DEF Init
<1>2. NoTag \in Tag
  BY DEF NoTag, Tag
<1>3. StorageType
  BY <1>2 DEF Init, StorageType
<1>4. Idle \in Workers /\ Idle.at = "idle" /\ Idle.ops = <<>>
  BY DEF Idle, Workers
<1>5. gcops = <<>> /\ queue = <<>> /\ cons = [c \in Consumers |-> Idle]
  BY DEF Init
<1>6. cons \in [Consumers -> Workers] /\ \A c \in Consumers : cons[c].at = "idle"
  BY <1>4, <1>5
<1>7. gcops \in Seq(Ops) /\ queue \in Seq(Seq(Ops) \ {<<>>})
  BY <1>5
<1>8. ThreadType
  BY <1>6, <1>7 DEF ThreadType
<1> QED
  BY <1>1, <1>3, <1>8 DEF TypesInv, StreamType, WalkerType, Init

\* What a consumer has to do, where it is.
LEMMA AtWork ==
  ASSUME TypesInv, NEW c \in Consumers
  PROVE  /\ cons[c] \in Workers
         /\ cons[c].ops # <<>> => /\ cons[c].ops \in Seq(Ops) /\ 1 \in 1 .. Len(cons[c].ops)
                                  /\ Op(c) \in Ops /\ Op(c) \in InFlight /\ Tail(cons[c].ops) \in Seq(Ops)
         /\ cons[c].at = "obj" => cons[c].ops # <<>> /\ IsObj(Op(c)) /\ Op(c) \in ObjOps
         /\ cons[c].at \in {"tag", "unlink", "clear"} =>
              cons[c].ops # <<>> /\ IsRef(Op(c)) /\ Op(c) \in RefOps
         /\ cons[c].at = "log" => cons[c].ops # <<>>
<1>1. cons[c] \in Workers /\ cons[c].ops \in Seq(Ops)
  BY DEF TypesInv, ThreadType, Workers
<1>2. cons[c].ops # <<>> => 1 \in 1 .. Len(cons[c].ops) /\ Op(c) \in Ops /\ Tail(cons[c].ops) \in Seq(Ops)
  BY <1>1 DEF Op
<1>3. cons[c].ops # <<>> => Op(c) \in InFlight
  BY <1>2 DEF InFlight, Flying, Op
<1>4. cons[c].at = "obj" => cons[c].ops # <<>> /\ IsObj(Op(c))
  BY DEF TypesInv, ThreadType
<1>5. cons[c].at \in {"tag", "unlink", "clear"} => cons[c].ops # <<>> /\ IsRef(Op(c))
  BY DEF TypesInv, ThreadType
<1>6. cons[c].at = "log" => cons[c].ops # <<>>
  BY DEF TypesInv, ThreadType
<1> QED BY <1>1, <1>2, <1>3, <1>4, <1>5, <1>6, OpKinds

\* One consumer gets a new state x.
LEMMA WorkerMoves ==
  ASSUME ThreadType, NEW c \in Consumers, NEW x \in Workers, cons' = [cons EXCEPT ![c] = x],
         x.at = "obj" => x.ops # <<>> /\ IsObj(x.ops[1]),
         x.at \in {"tag", "unlink", "clear"} => x.ops # <<>> /\ IsRef(x.ops[1]),
         x.at = "log" => x.ops # <<>>,
         gcops' \in Seq(Ops), queue' \in Seq(Seq(Ops) \ {<<>>})
  PROVE  ThreadType' /\ cons'[c] = x /\ \A d \in Consumers : d # c => cons'[d] = cons[d]
<1>1. cons' \in [Consumers -> Workers] /\ cons'[c] = x /\ \A d \in Consumers : d # c => cons'[d] = cons[d]
  BY DEF ThreadType
<1>2. \A d \in Consumers : Op(d)' = cons'[d].ops[1]
  BY DEF Op
<1>3. \A d \in Consumers :
       /\ cons'[d].at = "obj" => cons'[d].ops # <<>> /\ IsObj(cons'[d].ops[1])
       /\ cons'[d].at \in {"tag", "unlink", "clear"} => cons'[d].ops # <<>> /\ IsRef(cons'[d].ops[1])
       /\ cons'[d].at = "log" => cons'[d].ops # <<>>
  BY <1>1 DEF ThreadType, Op
<1> QED BY <1>1, <1>2, <1>3 DEF ThreadType

\* What a consumer begins with.
LEMMA BeginIs ==
  \A op \in Ops : /\ Begin(op) \in {"obj", "tag"}
                  /\ Begin(op) = "obj" => IsObj(op)
                  /\ Begin(op) = "tag" => IsRef(op)
BY OpKinds DEF Begin, IsObj, IsRef

\* A consumer takes what is next in the queue.
LEMMA TakeIs ==
  ASSUME TypesInv, NEW c \in Consumers, Take(c)
  PROVE  /\ ThreadType' /\ InFlight' \subseteq InFlight
         /\ \A d \in Consumers : d # c => cons'[d] = cons[d]
         /\ cons[c].at = "idle" /\ cons'[c].at \in {"obj", "tag"} /\ cons'[c].k = 0
<1> DEFINE h == Head(queue)
           x == [Idle EXCEPT !.ops = h, !.at = Begin(h[1])]
<1>1. queue \in Seq(Seq(Ops) \ {<<>>}) /\ queue # <<>> /\ gcops' = gcops /\ gcops \in Seq(Ops)
      /\ cons' = [cons EXCEPT ![c] = x] /\ queue' = Tail(queue) /\ cons[c] = Idle
  BY DEF Take, TypesInv, ThreadType
<1>2. h \in Seq(Ops) /\ h # <<>> /\ h = queue[1] /\ Len(queue) > 0 /\ 1 \in 1 .. Len(queue)
  BY <1>1
<1>3. h[1] \in Ops
  BY <1>2
<1> HIDE DEF h
<1>4. /\ x \in Workers /\ x.ops = h /\ x.at = Begin(h[1]) /\ x.at \in {"obj", "tag"} /\ x.k = 0
  BY <1>2, <1>3, BeginIs DEF Idle, Workers
<1>5. /\ x.at = "obj" => x.ops # <<>> /\ IsObj(x.ops[1])
      /\ x.at \in {"tag", "unlink", "clear"} => x.ops # <<>> /\ IsRef(x.ops[1])
      /\ x.at # "log"
  BY <1>2, <1>3, <1>4, BeginIs
<1> HIDE DEF x
<1>6. queue' \in Seq(Seq(Ops) \ {<<>>}) /\ Len(queue') = Len(queue) - 1
      /\ \A j \in 1 .. Len(queue') : j + 1 \in 1 .. Len(queue) /\ queue'[j] = queue[j + 1]
  BY <1>1, <1>2
<1>7. ThreadType' /\ cons'[c] = x /\ \A d \in Consumers : d # c => cons'[d] = cons[d]
  <2>1. ThreadType
    BY DEF TypesInv
  <2> QED BY <2>1, <1>1, <1>4, <1>5, <1>6, WorkerMoves
<1>8. InFlight' \subseteq InFlight
  <2> SUFFICES ASSUME NEW op \in Ops, Flying(op)' PROVE Flying(op)
    BY DEF InFlight
  <2>1. CASE \E i \in 1 .. Len(gcops') : op = gcops'[i]
    BY <2>1, <1>1 DEF Flying
  <2>2. CASE \E j \in 1 .. Len(queue') : \E i \in 1 .. Len(queue'[j]) : op = queue'[j][i]
    BY <2>2, <1>6 DEF Flying
  <2>3. CASE \E d \in Consumers : \E i \in 1 .. Len(cons'[d].ops) : op = cons'[d].ops[i]
    <3>1. PICK d \in Consumers : \E i \in 1 .. Len(cons'[d].ops) : op = cons'[d].ops[i]
      BY <2>3
    <3>2. CASE d = c
      BY <3>1, <3>2, <1>2, <1>4, <1>7 DEF Flying
    <3>3. CASE d # c
      BY <3>1, <3>3, <1>7 DEF Flying
    <3> QED BY <3>2, <3>3
  <2> QED BY <2>1, <2>2, <2>3 DEF Flying
<1>9. cons[c].at = "idle"
  BY <1>1 DEF Idle
<1> QED BY <1>4, <1>7, <1>8, <1>9

\* A consumer moves on without another chain: what is in flight stays.
LEMMA FlightStays ==
  ASSUME NEW c \in Consumers, gcops' = gcops, queue' = queue, cons'[c].ops = cons[c].ops,
         \A d \in Consumers : d # c => cons'[d] = cons[d]
  PROVE  InFlight' = InFlight
<1>1. \A d \in Consumers : cons'[d].ops = cons[d].ops
  OBVIOUS
<1> QED BY <1>1 DEF InFlight, Flying

\* The same when no consumer moves.
LEMMA FlightSame == UNCHANGED <<gcops, queue, cons>> => InFlight' = InFlight
BY DEF InFlight, Flying

\* A consumer that stays with its chain.
LEMMA Stays ==
  ASSUME TypesInv, NEW c \in Consumers, NEW x \in Workers, cons' = [cons EXCEPT ![c] = x],
         gcops' = gcops, queue' = queue, x.ops = cons[c].ops, cons[c].ops # <<>>,
         x.at = "obj" => IsObj(Op(c)), x.at \in {"tag", "unlink", "clear"} => IsRef(Op(c))
  PROVE  /\ ThreadType' /\ InFlight' = InFlight
         /\ cons'[c] = x /\ \A d \in Consumers : d # c => cons'[d] = cons[d]
         /\ Op(c)' = Op(c)
<1>1. ThreadType /\ gcops' \in Seq(Ops) /\ queue' \in Seq(Seq(Ops) \ {<<>>})
  BY DEF TypesInv, ThreadType
<1>2. /\ x.at = "obj" => x.ops # <<>> /\ IsObj(x.ops[1])
      /\ x.at \in {"tag", "unlink", "clear"} => x.ops # <<>> /\ IsRef(x.ops[1])
      /\ x.at = "log" => x.ops # <<>>
  BY DEF Op
<1>3. ThreadType' /\ cons'[c] = x /\ \A d \in Consumers : d # c => cons'[d] = cons[d]
  BY <1>1, <1>2, WorkerMoves
<1>4. InFlight' = InFlight
  BY <1>3, FlightStays
<1>5. Op(c)' = Op(c)
  BY <1>3 DEF Op
<1> QED BY <1>3, <1>4, <1>5

\* A consumer deletes an object of its operation, or fails to.
LEMMA DeleteObjStep ==
  ASSUME TypesInv, NEW c \in Consumers, DeleteObj(c), ObjsRight
  PROVE  /\ ThreadType' /\ InFlight' = InFlight
         /\ \A d \in Consumers : d # c => cons'[d] = cons[d]
         /\ Op(c)' = Op(c)
         /\ cons'[c].at = "log" \/ (cons'[c].at = "obj" /\ cons'[c].k < Op(c).count)
         /\ cons[c].at = "obj"
         /\ \/ objs' = objs
            \/ \E o \in Nat : objs' = objs \ {o} /\ (cons[c].k < Op(c).count => Unheld(o))
<1> DEFINE op == Op(c)
           k  == cons[c].k + 1
           x  == [cons[c] EXCEPT !.k = IF k < op.count THEN k ELSE 0,
                                 !.at = IF k < op.count THEN cons[c].at ELSE "log"]
           y  == [cons[c] EXCEPT !.at = "log", !.k = 0, !.err = TRUE]
           o  == op.objno + op.offset + cons[c].k
<1>1. /\ cons[c] \in Workers /\ cons[c].at = "obj" /\ cons[c].ops # <<>> /\ IsObj(op)
      /\ op \in ObjOps /\ op \in InFlight /\ gcops' = gcops /\ queue' = queue
  BY AtWork DEF DeleteObj, At
<1>2. /\ cons[c].k \in Nat /\ op.objno \in Nat /\ op.offset \in Nat /\ op.count \in Nat
  BY <1>1 DEF Workers, ObjOps
<1>3. ObjSafe(op)
  BY <1>1 DEF ObjsRight
<1>4. \/ cons' = [cons EXCEPT ![c] = x] /\ objs' = objs \ {o}
      \/ cons' = [cons EXCEPT ![c] = y] /\ objs' = objs
  BY DEF DeleteObj, Failing
<1>5. /\ x \in Workers /\ x.ops = cons[c].ops
      /\ x.at = "log" \/ (x.at = "obj" /\ x.k < op.count)
  <2> DEFINE kk == IF k < op.count THEN k ELSE 0
             at == IF k < op.count THEN cons[c].at ELSE "log"
  <2>1. kk \in Nat /\ at \in {"obj", "log"} /\ (at = "log" \/ (at = "obj" /\ kk < op.count))
    BY <1>1, <1>2
  <2>2. x = [cons[c] EXCEPT !.k = kk, !.at = at]
    OBVIOUS
  <2> HIDE DEF kk, at, x
  <2> QED BY <1>1, <2>1, <2>2 DEF Workers
<1>6. /\ y \in Workers /\ y.ops = cons[c].ops /\ y.at = "log"
  BY <1>1 DEF Workers
<1>7. o \in Nat /\ (cons[c].k < op.count => Unheld(o))
  BY <1>2, <1>3 DEF ObjSafe
<1> HIDE DEF x, y, o, op
<1>8. CASE cons' = [cons EXCEPT ![c] = x] /\ objs' = objs \ {o}
  <2>1. /\ ThreadType' /\ InFlight' = InFlight
        /\ cons'[c] = x /\ \A d \in Consumers : d # c => cons'[d] = cons[d]
        /\ Op(c)' = Op(c)
    <3>1. (x.at = "obj" => IsObj(Op(c))) /\ (x.at \in {"tag", "unlink", "clear"} => IsRef(Op(c)))
      BY <1>1, <1>5 DEF op
    <3> QED BY <1>1, <1>5, <1>8, <3>1, Stays
  <2> QED BY <1>1, <1>5, <1>7, <1>8, <2>1 DEF op
<1>9. CASE cons' = [cons EXCEPT ![c] = y] /\ objs' = objs
  <2>1. /\ ThreadType' /\ InFlight' = InFlight
        /\ cons'[c] = y /\ \A d \in Consumers : d # c => cons'[d] = cons[d]
        /\ Op(c)' = Op(c)
    <3>1. (y.at = "obj" => IsObj(Op(c))) /\ (y.at \in {"tag", "unlink", "clear"} => IsRef(Op(c)))
      BY <1>6
    <3> QED BY <1>1, <1>6, <1>9, <3>1, Stays
  <2> QED BY <1>1, <1>6, <1>9, <2>1
<1> QED BY <1>4, <1>8, <1>9

\* the deletion of refs op is noted in the GCTAG of the file before
Tagged(op, inprog) ==
  /\ gctag' = [gctag EXCEPT ![op.prev] = [refcnt |-> Refcnt(op), eos |-> op.eos,
                                          inprog |-> inprog, delzero |-> op.delzero]]
  /\ young' = young \cup {op.prev}
\* A consumer writes the GCTAG, or finds no file to write it to.
LEMMA TagFileStep ==
  ASSUME TypesInv, NEW c \in Consumers, TagFile(c)
  PROVE  /\ cons[c].at = "tag" /\ IsRef(Op(c)) /\ Op(c) \in RefOps /\ Op(c) \in InFlight
         /\ ThreadType' /\ InFlight' = InFlight
         /\ \A d \in Consumers : d # c => cons'[d] = cons[d]
         /\ Op(c)' = Op(c)
         /\ \/ cons'[c].at = "log" /\ UNCHANGED <<gctag, young>>
            \/ /\ Tagged(Op(c), Op(c).count > 0)
               /\ cons'[c].at = (IF Op(c).count > 0 THEN "unlink" ELSE "log") /\ cons'[c].k = 0
<1> DEFINE at == IF Op(c).count > 0 THEN "unlink" ELSE "log"
           x  == [cons[c] EXCEPT !.at = at, !.k = 0]
           y  == [cons[c] EXCEPT !.at = "log", !.k = 0, !.err = TRUE]
<1>1. /\ cons[c] \in Workers /\ cons[c].at = "tag" /\ cons[c].ops # <<>> /\ IsRef(Op(c))
      /\ Op(c) \in RefOps /\ Op(c) \in InFlight /\ gcops' = gcops /\ queue' = queue
  BY AtWork DEF TagFile, At
<1>2. \/ cons' = [cons EXCEPT ![c] = x] /\ Tagged(Op(c), Op(c).count > 0)
      \/ cons' = [cons EXCEPT ![c] = y] /\ UNCHANGED <<gctag, young>>
  BY DEF TagFile, Failing, Goto, SetTag, Tagged
<1>3. x \in Workers /\ x.ops = cons[c].ops /\ x.at = at /\ x.k = 0 /\ at \in {"unlink", "log"}
  BY <1>1 DEF Workers
<1>4. y \in Workers /\ y.ops = cons[c].ops /\ y.at = "log"
  BY <1>1 DEF Workers
<1> HIDE DEF x, y
<1>5. CASE cons' = [cons EXCEPT ![c] = x] /\ Tagged(Op(c), Op(c).count > 0)
  <2>1. (x.at = "obj" => IsObj(Op(c))) /\ (x.at \in {"tag", "unlink", "clear"} => IsRef(Op(c)))
    BY <1>1, <1>3
  <2>2. /\ ThreadType' /\ InFlight' = InFlight
        /\ cons'[c] = x /\ \A d \in Consumers : d # c => cons'[d] = cons[d]
        /\ Op(c)' = Op(c)
    BY <1>1, <1>3, <1>5, <2>1, Stays
  <2> QED BY <1>1, <1>3, <1>5, <2>2
<1>6. CASE cons' = [cons EXCEPT ![c] = y] /\ UNCHANGED <<gctag, young>>
  <2>1. (y.at = "obj" => IsObj(Op(c))) /\ (y.at \in {"tag", "unlink", "clear"} => IsRef(Op(c)))
    BY <1>4
  <2>2. /\ ThreadType' /\ InFlight' = InFlight
        /\ cons'[c] = y /\ \A d \in Consumers : d # c => cons'[d] = cons[d]
        /\ Op(c)' = Op(c)
    BY <1>1, <1>4, <1>6, <2>1, Stays
  <2> QED BY <1>1, <1>4, <1>6, <2>2
<1> QED BY <1>2, <1>5, <1>6

\* A consumer deletes the next ref, or fails to.
LEMMA UnlinkRefStep ==
  ASSUME TypesInv, NEW c \in Consumers, UnlinkRef(c)
  PROVE  /\ cons[c].at = "unlink" /\ IsRef(Op(c)) /\ Op(c) \in RefOps /\ Op(c) \in InFlight
         /\ cons[c].k \in Nat
         /\ ThreadType' /\ InFlight' = InFlight
         /\ \A d \in Consumers : d # c => cons'[d] = cons[d]
         /\ Op(c)' = Op(c)
         /\ \/ refs' = refs /\ cons'[c].at = "log"
            \/ /\ refs' = refs \ {Op(c).fileno + cons[c].k}
               /\ \/ /\ cons[c].k + 1 < Op(c).count
                     /\ cons'[c].at = "unlink" /\ cons'[c].k = cons[c].k + 1
                  \/ ~(cons[c].k + 1 < Op(c).count) /\ cons'[c].at = "clear"
<1> DEFINE x  == [cons[c] EXCEPT !.k = cons[c].k + 1]
           y  == [cons[c] EXCEPT !.at = "clear", !.k = 0]
           z  == [cons[c] EXCEPT !.at = "log", !.k = 0, !.err = TRUE]
<1>1. /\ cons[c] \in Workers /\ cons[c].at = "unlink" /\ cons[c].ops # <<>> /\ IsRef(Op(c))
      /\ Op(c) \in RefOps /\ Op(c) \in InFlight /\ gcops' = gcops /\ queue' = queue
  BY AtWork DEF UnlinkRef, At
<1>2. \/ refs' = refs /\ cons' = [cons EXCEPT ![c] = z]
      \/ /\ refs' = refs \ {Op(c).fileno + cons[c].k}
         /\ \/ cons[c].k + 1 < Op(c).count /\ cons' = [cons EXCEPT ![c] = x]
            \/ ~(cons[c].k + 1 < Op(c).count) /\ cons' = [cons EXCEPT ![c] = y]
  BY DEF UnlinkRef, Goto, Failing
<1>3. x \in Workers /\ x.ops = cons[c].ops /\ x.at = "unlink" /\ x.k = cons[c].k + 1 /\ cons[c].k \in Nat
  BY <1>1 DEF Workers
<1>4. y \in Workers /\ y.ops = cons[c].ops /\ y.at = "clear"
  BY <1>1 DEF Workers
<1>5. z \in Workers /\ z.ops = cons[c].ops /\ z.at = "log"
  BY <1>1 DEF Workers
<1> HIDE DEF x, y, z
<1>6. PICK v \in {x, y, z} :
        /\ cons' = [cons EXCEPT ![c] = v]
        /\ \/ refs' = refs /\ v = z
           \/ /\ refs' = refs \ {Op(c).fileno + cons[c].k}
              /\ \/ cons[c].k + 1 < Op(c).count /\ v = x
                 \/ ~(cons[c].k + 1 < Op(c).count) /\ v = y
  BY <1>2
<1>7. v \in Workers /\ v.ops = cons[c].ops /\ v.at \in {"unlink", "clear", "log"}
  BY <1>3, <1>4, <1>5
<1>8. /\ ThreadType' /\ InFlight' = InFlight
      /\ cons'[c] = v /\ \A d \in Consumers : d # c => cons'[d] = cons[d]
      /\ Op(c)' = Op(c)
  <2>1. (v.at = "obj" => IsObj(Op(c))) /\ (v.at \in {"tag", "unlink", "clear"} => IsRef(Op(c)))
    BY <1>1, <1>7
  <2> QED BY <1>1, <1>6, <1>7, <2>1, Stays
<1> QED BY <1>1, <1>3, <1>4, <1>5, <1>6, <1>8

\* A consumer notes that its deletion of refs is over.
LEMMA ClearTagStep ==
  ASSUME TypesInv, NEW c \in Consumers, ClearTag(c)
  PROVE  /\ cons[c].at = "clear" /\ IsRef(Op(c)) /\ Op(c) \in RefOps /\ Op(c) \in InFlight
         /\ ThreadType' /\ InFlight' = InFlight
         /\ \A d \in Consumers : d # c => cons'[d] = cons[d]
         /\ Op(c)' = Op(c)
         /\ Tagged(Op(c), FALSE) /\ cons'[c].at = "log"
<1> DEFINE y  == [cons[c] EXCEPT !.at = "log", !.k = 0]
<1>1. /\ cons[c] \in Workers /\ cons[c].at = "clear" /\ cons[c].ops # <<>> /\ IsRef(Op(c))
      /\ Op(c) \in RefOps /\ Op(c) \in InFlight /\ gcops' = gcops /\ queue' = queue
  BY AtWork DEF ClearTag, At
<1>2. Tagged(Op(c), FALSE) /\ cons' = [cons EXCEPT ![c] = y]
  BY DEF ClearTag, Goto, SetTag, Tagged
<1>4. y \in Workers /\ y.ops = cons[c].ops /\ y.at = "log"
  BY <1>1 DEF Workers
<1> HIDE DEF y
<1>5. (y.at = "obj" => IsObj(Op(c))) /\ (y.at \in {"tag", "unlink", "clear"} => IsRef(Op(c)))
  BY <1>4
<1>6. /\ ThreadType' /\ InFlight' = InFlight
      /\ cons'[c] = y /\ \A d \in Consumers : d # c => cons'[d] = cons[d]
      /\ Op(c)' = Op(c)
  BY <1>1, <1>2, <1>4, <1>5, Stays
<1> QED BY <1>1, <1>2, <1>4, <1>6

\* The end of an operation is logged, and the consumer goes on or not.
LEMMA LogEndStep ==
  ASSUME TypesInv, NEW c \in Consumers, LogEnd(c)
  PROVE  /\ ThreadType' /\ InFlight' \subseteq InFlight
         /\ \A d \in Consumers : d # c => cons'[d] = cons[d]
         /\ cons[c].at = "log" /\ cons'[c].at \in {"idle", "log", "obj", "tag"} /\ cons'[c].k = 0
         /\ w' \in {w, LostRun}
<1> DEFINE n   == Chain(Op(c))
           i   == Entry(log[n], Op(c))
           e   == [log[n] EXCEPT ![i].left = @ - Op(c).count, ![i].err = @ \/ cons[c].err]
           p   == Progress(e, i)
           ops == Tail(cons[c].ops)
           bad == cons[c].abort \/ p < 0
           y   == [ops |-> ops, k |-> 0, abort |-> bad, err |-> bad,
                   at |-> IF bad THEN "log" ELSE Begin(ops[1])]
           x   == IF n = 0 \/ ops = <<>> \/ p = 0 THEN Idle ELSE y
<1>1. /\ cons[c] \in Workers /\ cons[c].at = "log" /\ cons[c].ops # <<>> /\ cons[c].ops \in Seq(Ops)
      /\ ops \in Seq(Ops) /\ gcops' = gcops /\ queue' = queue
  BY AtWork DEF LogEnd, At
<1>2. cons' = [cons EXCEPT ![c] = x] /\ w' \in {w, LostRun}
  <2>1. CASE n = 0
    BY <2>1 DEF LogEnd
  <2>2. CASE n # 0
    BY <2>2 DEF LogEnd
  <2> QED BY <2>1, <2>2
<1>3. Idle \in Workers /\ Idle.ops = <<>> /\ Idle.at = "idle" /\ Idle.k = 0
  BY DEF Idle, Workers
<1> HIDE DEF ops, p, n, i, e
<1>4. ASSUME ops # <<>>
      PROVE  /\ y \in Workers /\ y.ops = ops /\ y.k = 0 /\ y.at \in {"log", "obj", "tag"}
             /\ (y.at = "obj" => IsObj(ops[1])) /\ (y.at = "tag" => IsRef(ops[1]))
  <2> DEFINE at == IF bad THEN "log" ELSE Begin(ops[1])
  <2>1. ops[1] \in Ops
    BY <1>1, <1>4
  <2>2. /\ at \in {"log", "obj", "tag"} /\ (at = "obj" => IsObj(ops[1])) /\ (at = "tag" => IsRef(ops[1]))
    BY <2>1, BeginIs
  <2>3. bad \in BOOLEAN
    OBVIOUS
  <2>4. y = [ops |-> ops, k |-> 0, abort |-> bad, err |-> bad, at |-> at]
    OBVIOUS
  <2> HIDE DEF at, bad, y
  <2> QED BY <1>1, <2>2, <2>3, <2>4 DEF Workers
<1>5. /\ x \in Workers /\ x.k = 0 /\ x.at \in {"idle", "log", "obj", "tag"}
      /\ x.at = "obj" => x.ops # <<>> /\ IsObj(x.ops[1])
      /\ x.at \in {"tag", "unlink", "clear"} => x.ops # <<>> /\ IsRef(x.ops[1])
      /\ x.at = "log" => x.ops # <<>>
      /\ x.ops = <<>> \/ x.ops = ops
  <2> HIDE DEF y
  <2>1. CASE n = 0 \/ ops = <<>> \/ p = 0
    BY <1>3, <2>1
  <2>2. CASE ~(n = 0 \/ ops = <<>> \/ p = 0)
    BY <1>4, <2>2
  <2> QED BY <2>1, <2>2
<1> HIDE DEF x
<1>6. ThreadType /\ gcops' \in Seq(Ops) /\ queue' \in Seq(Seq(Ops) \ {<<>>})
  BY <1>1 DEF TypesInv, ThreadType
<1>7. ThreadType' /\ cons'[c] = x /\ \A d \in Consumers : d # c => cons'[d] = cons[d]
  BY <1>2, <1>5, <1>6, WorkerMoves
<1>8. InFlight' \subseteq InFlight
  <2> SUFFICES ASSUME NEW op \in Ops, Flying(op)' PROVE Flying(op)
    BY DEF InFlight
  <2>1. CASE \E j \in 1 .. Len(gcops') : op = gcops'[j]
    BY <2>1, <1>1 DEF Flying
  <2>2. CASE \E j \in 1 .. Len(queue') : \E m \in 1 .. Len(queue'[j]) : op = queue'[j][m]
    BY <2>2, <1>1 DEF Flying
  <2>3. CASE \E d \in Consumers : \E m \in 1 .. Len(cons'[d].ops) : op = cons'[d].ops[m]
    <3>1. PICK d \in Consumers : \E m \in 1 .. Len(cons'[d].ops) : op = cons'[d].ops[m]
      BY <2>3
    <3>2. CASE d = c
      <4>1. PICK m \in 1 .. Len(x.ops) : op = x.ops[m]
        BY <3>1, <3>2, <1>7
      <4>2. x.ops = ops
        BY <4>1, <1>5
      <4>3. m + 1 \in 1 .. Len(cons[c].ops) /\ cons[c].ops[m + 1] = ops[m]
        BY <4>1, <4>2, <1>1 DEF ops
      <4> QED BY <4>1, <4>2, <4>3 DEF Flying
    <3>3. CASE d # c
      BY <3>1, <3>3, <1>7 DEF Flying
    <3> QED BY <3>2, <3>3
  <2> QED BY <2>1, <2>2, <2>3 DEF Flying
<1> QED BY <1>1, <1>2, <1>5, <1>7, <1>8

\* The producer hands out an operation, or what is left of the chain.
LEMMA DispatchStep ==
  ASSUME TypesInv, ObjsRight, Dispatch
  PROVE  /\ ThreadType' /\ InFlight # {}
         /\ \A op \in InFlight' : IsRef(op) => op \in InFlight
         /\ \A op \in InFlight' : IsObj(op) => op.count > 0 /\ ObjSafe(op)
<1> DEFINE one   == [gcops[1] EXCEPT !.count = 1]
           left  == [gcops[1] EXCEPT !.count = @ - 1, !.offset = @ + 1]
           refs1 == IF RefOp(gcops) = 0 THEN <<>> ELSE <<gcops[RefOp(gcops)]>>
           part  == <<one>> \o refs1
           Fine(op) == op \in Ops /\ (IsRef(op) => op \in InFlight)
                       /\ (IsObj(op) => op.count > 0 /\ ObjSafe(op))
<1>1. /\ gcops \in Seq(Ops) /\ gcops # <<>> /\ queue \in Seq(Seq(Ops) \ {<<>>}) /\ cons' = cons
  BY DEF Dispatch, TypesInv, ThreadType
<1>2. 1 \in 1 .. Len(gcops) /\ \A i \in 1 .. Len(gcops) : gcops[i] \in InFlight
  BY <1>1 DEF InFlight, Flying
<1>3. \A op \in InFlight : Fine(op)
  BY DEF ObjsRight, InFlight
<1>4. \/ HandsOutRest(gcops) /\ queue' = Append(queue, gcops) /\ gcops' = <<>>
      \/ /\ ~HandsOutRest(gcops) /\ queue' = Append(queue, part)
         /\ gcops' = IF gcops[1].count = 1 THEN Tail(gcops) ELSE [gcops EXCEPT ![1] = left]
  BY <1>1, <1>2 DEF Dispatch
<1>5. ASSUME ~HandsOutRest(gcops)
      PROVE  /\ part \in Seq(Ops) /\ part # <<>> /\ (\A i \in 1 .. Len(part) : Fine(part[i]))
             /\ gcops[1].count # 1 => left \in Ops /\ Fine(left)
  <2>1. gcops[1] \in ObjOps /\ gcops[1].count > 0 /\ ObjSafe(gcops[1])
    <3>1. ~IsRef(gcops[1]) /\ gcops[1] \in Ops
      BY <1>1, <1>2, <1>5 DEF HandsOutRest, IsRef
    <3> QED BY <1>2, <3>1, OpKinds DEF ObjsRight
  <2>2. one \in ObjOps /\ one.objno = gcops[1].objno /\ one.offset = gcops[1].offset /\ one.count = 1
    BY <2>1 DEF ObjOps
  <2>3. ObjSafe(one)
    <3> SUFFICES ASSUME NEW o \in Nat, one.objno + one.offset <= o, o < one.objno + one.offset + one.count
                 PROVE Unheld(o)
      BY DEF ObjSafe
    <3> DEFINE a == gcops[1].objno
               b == gcops[1].offset
               n == gcops[1].count
    <3>1. a \in Nat /\ b \in Nat /\ n \in Nat /\ n > 0
      BY <2>1 DEF ObjOps
    <3>2. a + b <= o /\ o < a + b + 1
      BY <2>2
    <3> HIDE DEF a, b, n
    <3>3. a + b <= o /\ o < a + b + n
      BY <3>1, <3>2
    <3> QED BY <2>1, <3>3 DEF ObjSafe, a, b, n
  <2>4. IsObj(one) /\ ~IsRef(one) /\ one \in Ops
    BY <2>2 DEF ObjOps, Ops, IsObj, IsRef
  <2>5. Fine(one)
    BY <2>2, <2>3, <2>4
  <2> HIDE DEF one
  <2>6. refs1 = <<>> \/ (refs1 = <<gcops[RefOp(gcops)]>> /\ RefOp(gcops) \in 1 .. Len(gcops))
    BY <1>1, RefOpIs
  <2>7. part \in Seq(Ops) /\ part # <<>> /\ \A i \in 1 .. Len(part) : Fine(part[i])
    <3> HIDE DEF Fine
    <3>1. refs1 \in Seq(Ops) /\ Len(refs1) \in {0, 1} /\ \A i \in 1 .. Len(refs1) : Fine(refs1[i])
      <4>1. CASE refs1 = <<>>
        BY <4>1
      <4>2. CASE refs1 = <<gcops[RefOp(gcops)]>> /\ RefOp(gcops) \in 1 .. Len(gcops)
        <5> DEFINE r == gcops[RefOp(gcops)]
        <5>1. r \in Ops /\ Fine(r)
          BY <1>1, <1>2, <1>3, <4>2
        <5>2. refs1 = <<r>>
          BY <4>2
        <5> HIDE DEF r, refs1
        <5>3. Len(refs1) = 1 /\ refs1[1] = r /\ refs1 \in Seq(Ops)
          BY <5>1, <5>2
        <5> QED BY <5>1, <5>3
      <4> QED BY <2>6, <4>1, <4>2
    <3> HIDE DEF refs1
    <3>2. /\ part \in Seq(Ops) /\ Len(part) = Len(refs1) + 1 /\ part[1] = one
          /\ \A i \in 1 .. Len(refs1) : part[i + 1] = refs1[i]
      BY <2>4, <3>1
    <3> HIDE DEF part
    <3>3. ASSUME NEW i \in 1 .. Len(part) PROVE Fine(part[i])
      <4>1. i = 1 \/ (i - 1 \in 1 .. Len(refs1) /\ part[(i - 1) + 1] = refs1[i - 1] /\ (i - 1) + 1 = i)
        BY <3>1, <3>2
      <4> QED BY <2>5, <3>1, <3>2, <4>1
    <3> QED BY <3>2, <3>3
  <2>8. ASSUME gcops[1].count # 1 PROVE left \in Ops /\ Fine(left)
    <3> DEFINE a == gcops[1].objno
               b == gcops[1].offset
               n == gcops[1].count
    <3>1. a \in Nat /\ b \in Nat /\ n \in Nat /\ n > 0 /\ n # 1
      BY <2>1, <2>8 DEF ObjOps
    <3>2. n - 1 \in Nat /\ n - 1 > 0 /\ b + 1 \in Nat /\ \A o \in Nat : a + (b + 1) <= o /\ o < a + (b + 1) + (n - 1)
             => a + b <= o /\ o < a + b + n
      BY <3>1
    <3>3. left = [gcops[1] EXCEPT !.count = n - 1, !.offset = b + 1]
      OBVIOUS
    <3>4. left \in ObjOps /\ left.objno = a /\ left.offset = b + 1 /\ left.count = n - 1
      <4> HIDE DEF left
      <4> QED BY <2>1, <3>2, <3>3 DEF ObjOps
    <3>5. IsObj(left) /\ ~IsRef(left) /\ left \in Ops
      <4> HIDE DEF left
      <4> QED BY <3>4 DEF ObjOps, Ops, IsObj, IsRef
    <3>6. \A o \in Nat : a + b <= o /\ o < a + b + n => Unheld(o)
      BY <2>1 DEF ObjSafe
    <3> HIDE DEF left, a, b, n
    <3>7. ObjSafe(left)
      BY <3>2, <3>4, <3>6 DEF ObjSafe
    <3> QED BY <3>2, <3>4, <3>5, <3>7
  <2> QED BY <2>7, <2>8
<1> HIDE DEF part, left, Fine
<1> DEFINE GoodChain(ops) == \A i \in 1 .. Len(ops) : Fine(ops[i])
<1>6. GoodChain(gcops) /\ \A j \in 1 .. Len(queue) : GoodChain(queue[j])
  <2>1. \A j \in 1 .. Len(queue) : \A i \in 1 .. Len(queue[j]) : queue[j][i] \in InFlight
    BY <1>1 DEF InFlight, Flying
  <2> QED BY <1>2, <1>3, <2>1
<1>7. /\ gcops' \in Seq(Ops) /\ GoodChain(gcops')
      /\ queue' \in Seq(Seq(Ops) \ {<<>>}) /\ \A j \in 1 .. Len(queue') : GoodChain(queue'[j])
  <2> DEFINE h == IF HandsOutRest(gcops) THEN gcops ELSE part
  <2>1. h \in Seq(Ops) \ {<<>>} /\ GoodChain(h)
    BY <1>1, <1>5, <1>6
  <2>2. queue' = Append(queue, h)
    BY <1>4
  <2> HIDE DEF h, GoodChain
  <2>3. /\ queue' \in Seq(Seq(Ops) \ {<<>>}) /\ Len(queue') = Len(queue) + 1 /\ queue'[Len(queue) + 1] = h
        /\ \A j \in 1 .. Len(queue) : queue'[j] = queue[j]
    BY <1>1, <2>1, <2>2
  <2>4. \A j \in 1 .. Len(queue') : GoodChain(queue'[j])
    <3> SUFFICES ASSUME NEW j \in 1 .. Len(queue') PROVE GoodChain(queue'[j])
      OBVIOUS
    <3>1. j \in 1 .. Len(queue) \/ j = Len(queue) + 1
      BY <2>3
    <3> QED BY <1>6, <2>1, <2>3, <3>1
  <2>5. gcops' \in Seq(Ops) /\ GoodChain(gcops')
    <3> USE DEF GoodChain
    <3>1. CASE gcops' = <<>>
      BY <3>1
    <3>2. CASE ~HandsOutRest(gcops) /\ gcops[1].count = 1 /\ gcops' = Tail(gcops)
      <4>1. gcops' \in Seq(Ops) /\ Len(gcops') = Len(gcops) - 1
            /\ \A i \in 1 .. Len(gcops') : i + 1 \in 1 .. Len(gcops) /\ gcops'[i] = gcops[i + 1]
        BY <1>1, <3>2
      <4> QED BY <1>6, <4>1
    <3>3. CASE ~HandsOutRest(gcops) /\ gcops[1].count # 1 /\ gcops' = [gcops EXCEPT ![1] = left]
      <4>1. left \in Ops /\ Fine(left)
        BY <1>5, <3>3
      <4>2. gcops' \in Seq(Ops) /\ Len(gcops') = Len(gcops) /\ gcops'[1] = left
            /\ \A i \in 1 .. Len(gcops) : i # 1 => gcops'[i] = gcops[i]
        BY <1>1, <1>2, <3>3, <4>1
      <4> QED BY <1>6, <4>1, <4>2
    <3> QED BY <1>4, <3>1, <3>2, <3>3
  <2> QED BY <2>3, <2>4, <2>5
<1>8. \A op \in InFlight' : Fine(op)
  <2> SUFFICES ASSUME NEW op \in Ops, Flying(op)' PROVE Fine(op)
    BY DEF InFlight
  <2>1. CASE \E i \in 1 .. Len(gcops') : op = gcops'[i]
    BY <2>1, <1>7
  <2>2. CASE \E j \in 1 .. Len(queue') : \E i \in 1 .. Len(queue'[j]) : op = queue'[j][i]
    BY <2>2, <1>7
  <2>3. CASE \E d \in Consumers : \E i \in 1 .. Len(cons'[d].ops) : op = cons'[d].ops[i]
    <3>1. op \in InFlight
      BY <2>3, <1>1 DEF InFlight, Flying
    <3> QED BY <3>1, <1>3
  <2> QED BY <2>1, <2>2, <2>3 DEF Flying
<1>9. ThreadType'
  BY <1>1, <1>7 DEF TypesInv, ThreadType, Op
<1>10. InFlight # {}
  BY <1>2
<1> QED BY <1>8, <1>9, <1>10 DEF Fine

\* The same in the next state.
LEMMA AtWorkNext ==
  ASSUME ThreadType', NEW c \in Consumers
  PROVE  /\ cons'[c].ops # <<>> => Op(c)' \in Ops /\ Op(c)' \in InFlight'
         /\ cons'[c].at = "obj" => cons'[c].ops # <<>> /\ IsObj(Op(c)')
<1>1. cons'[c] \in Workers /\ cons'[c].ops \in Seq(Ops)
  BY DEF ThreadType, Workers
<1>2. cons'[c].ops # <<>> => 1 \in 1 .. Len(cons'[c].ops) /\ Op(c)' = cons'[c].ops[1] /\ cons'[c].ops[1] \in Ops
  BY <1>1 DEF Op
<1>3. cons'[c].ops # <<>> => Op(c)' \in InFlight'
  BY <1>2 DEF InFlight, Flying
<1>4. cons'[c].at = "obj" => cons'[c].ops # <<>> /\ IsObj(Op(c)')
  BY DEF ThreadType
<1> QED BY <1>2, <1>3, <1>4

-----------------------------------------------------------------------------
(* Steps that leave refs and GCTAGs alone                                  *)

\* Files that must be kept become fewer, so that what is said of the others stays true.
Fades == layout' = layout /\ tail' = tail /\ Alive' \subseteq Alive
\* What is free of files that must be kept stays so.
LEMMA Fading ==
  ASSUME Fades
  PROVE  /\ Files' = Files /\ LastFile' = LastFile
         /\ \A a, b : Free(a, b) => Free(a, b)'
         /\ \A p : FreeAfter(p) => FreeAfter(p)'
         /\ \A o : Unheld(o) => Unheld(o)'
         /\ \A op : ObjSafe(op) => ObjSafe(op)'
<1>1. Files' = Files /\ \A f : Span(f)' = Span(f)
  BY DEF Fades, Files, Span
<1>2. \A o : Unheld(o) => Unheld(o)'
  BY <1>1 DEF Unheld, Fades
<1>3. \A a, b : Free(a, b) => Free(a, b)'
  BY <1>1 DEF Free, Fades
<1>4. \A p : FreeAfter(p) => FreeAfter(p)'
  BY <1>1 DEF FreeAfter, Fades
<1>5. \A op : ObjSafe(op) => ObjSafe(op)'
  BY <1>2 DEF ObjSafe
<1>6. LastFile' = LastFile
  BY <1>1 DEF LastFile
<1> QED BY <1>1, <1>2, <1>3, <1>4, <1>5, <1>6

\* a step that writes no GCTAG and deletes no ref, and hands over no deletion of refs
Quietly ==
  /\ Fades /\ refs' = refs /\ gctag' = gctag
  /\ \A op \in InFlight' : IsRef(op) => op \in InFlight
  /\ InFlight = {} => InFlight' = {}
Calm ==
  /\ Quietly /\ w' \in {w, LostRun, NoWalker}
  /\ \A d \in Consumers : Mid(d)' => cons'[d] = cons[d]
  /\ \A d \in Consumers : cons'[d].at = "obj" => cons'[d].k < Op(d)'.count

\* What the GCTAGs say stays true when neither they nor the refs change.
LEMMA StoringStays ==
  ASSUME Fades, refs' = refs, gctag' = gctag, Storing
  PROVE  (Alive \subseteq refs)' /\ TagsTrue' /\ NextThere'
<1>1. (Alive \subseteq refs)'
  BY DEF Storing, Kept, Fades
<1>2. TagsTrue'
  BY Fading DEF Storing, TagsTrue
<1>3. NextThere'
  BY Fading DEF Storing, NextThere, NextOf
<1> QED BY <1>1, <1>2, <1>3

\* A deletion of refs that was right stays so.
LEMMA RefSafeStays ==
  ASSUME Fades, refs' = refs, NEW op, RefSafe(op)
  PROVE  RefSafe(op)'
<1>1. Files' = Files /\ (\A a, b : Free(a, b) => Free(a, b)') /\ (\A p : FreeAfter(p) => FreeAfter(p)')
  BY Fading
<1>3. End(op)' = End(op)
  BY DEF End, Refcnt
<1> QED BY <1>1, <1>3 DEF RefSafe

\* A GCTAG leads over no more files than before.
LEMMA PassedStays ==
  ASSUME refs' \subseteq refs, gctag' = gctag, NEW f, Passed(f)
  PROVE  Passed(f)'
BY DEF Passed, NextOf

\* The work of the consumers stays right.
LEMMA WorkStays ==
  ASSUME Fades, refs' = refs, gctag' = gctag, Working,
         \A d \in Consumers : Mid(d)' => cons'[d] = cons[d],
         \A d \in Consumers : cons'[d].at = "obj" => cons'[d].k < Op(d)'.count
  PROVE  TagsTight' /\ WorkRight'
<1>1. \A d \in Consumers : Mid(d)' => Op(d)' = Op(d)
  BY DEF Op
<1>2. TagsTight'
  BY DEF Working, TagsTight
<1>4. WorkRight'
  <2> SUFFICES ASSUME NEW c \in Consumers
               PROVE  /\ Mid(c)' => gctag'[Op(c)'.prev].refcnt = Refcnt(Op(c)') /\ Op(c)'.count > 0
                      /\ cons'[c].at = "unlink" =>
                           cons'[c].k < Op(c)'.count
                           /\ \A g \in refs' : ~(Op(c)'.fileno <= g /\ g < Op(c)'.fileno + cons'[c].k)
                      /\ cons'[c].at = "clear" =>
                           \A g \in refs' : ~(Op(c)'.fileno <= g /\ g < Op(c)'.fileno + Op(c)'.count)
    BY DEF WorkRight, Refcnt
  <2>1. CASE Mid(c)'
    <3>1. cons'[c] = cons[c] /\ Op(c)' = Op(c) /\ refs' = refs /\ gctag' = gctag
      BY <1>1, <2>1
    <3>2. Mid(c)
      BY <2>1, <3>1 DEF Mid
    <3> QED BY <3>1, <3>2 DEF Working, WorkRight
  <2>2. CASE ~Mid(c)'
    BY <2>2 DEF Mid
  <2> QED BY <2>1, <2>2
<1> QED BY <1>2, <1>4

\* What the deletions of refs have to do stays right when no new ones are in flight.
LEMMA WorkingStays ==
  ASSUME Quietly, Working,
         \A d \in Consumers : Mid(d)' => cons'[d] = cons[d],
         \A d \in Consumers : cons'[d].at = "obj" => cons'[d].k < Op(d)'.count
  PROVE  Working'
<1>1. RefsRight'
  BY RefSafeStays DEF Working, RefsRight, Quietly
<1>2. Ordered'
  <2>1. \A op : End(op)' = End(op)
    BY DEF End, Refcnt
  <2> QED BY <2>1 DEF Working, Ordered, Quietly
<1>3. TagsTight' /\ WorkRight'
  BY WorkStays DEF Quietly
<1>4. Reached'
  <2>1. \A f : Passed(f) => Passed(f)'
    BY PassedStays DEF Quietly
  <2> QED BY <2>1 DEF Working, Reached, Quietly
<1> QED BY <1>1, <1>2, <1>3, <1>4 DEF Working

\* A walker that does not move.
LEMMA WalkStays ==
  ASSUME Quietly, NEW s, GoodWalk(s)
  PROVE  GoodWalk(s)'
<1>0. /\ Files' = Files /\ LastFile' = LastFile
      /\ (\A a, b : Free(a, b) => Free(a, b)') /\ (\A p : FreeAfter(p) => FreeAfter(p)')
  BY Fading DEF Quietly
<1>1. AnyWalk(s)'
  BY <1>0 DEF GoodWalk, AnyWalk
<1>2. ASSUME s.gc PROVE GcWalk(s)'
  <2>0. GcWalk(s) /\ refs' = refs /\ gctag' = gctag /\ layout' = layout /\ Alive' \subseteq Alive
    BY <1>2 DEF GoodWalk, Quietly, Fades
  <2>1. \A op : End(op)' = End(op)
    BY DEF End, Refcnt
  <2>2. Refs(s.ops)' = Refs(s.ops) /\ Over(s)' = Over(s) /\ Target(s)' = Target(s)
    BY DEF Refs, Over, Target, TagEnds
  <2>3. Fresh(s) => Fresh(s)'
    <3>1. \A f : Passed(f) => Passed(f)'
      BY <2>0, PassedStays
    <3> QED BY <2>0, <2>1, <2>2, <3>1 DEF Fresh, Quietly
  <2>4. \A r : RefGrows(s, r) => RefGrows(s, r)'
    BY <1>0, <2>0, <2>2 DEF RefGrows
  <2>5. \A g : Span(g)' = Span(g)
    BY <2>0 DEF Span
  <2> QED BY <1>0, <2>0, <2>2, <2>3, <2>4, <2>5 DEF GcWalk
<1>3. ASSUME ~s.gc PROVE PlainWalk(s)'
  BY <1>3 DEF GoodWalk, PlainWalk, Quietly
<1> QED BY <1>1, <1>2, <1>3 DEF GoodWalk

\* Nothing that was right becomes wrong in a calm step that deletes no object that is needed.
LEMMA CalmIs ==
  ASSUME Calm, Deep, DataThere'
  PROVE  Deep'
<1>1. Quietly /\ Fades /\ refs' = refs /\ gctag' = gctag
  BY DEF Calm, Quietly
<1>2. Storing'
  BY <1>1, StoringStays DEF Deep, Storing, Kept
<1>3. Working'
  BY <1>1, WorkingStays DEF Deep, Calm
<1>4. WalkRight'
  <2>1. CASE w' = w
    BY <1>1, <2>1, WalkStays DEF Deep, WalkRight
  <2>2. CASE w' = LostRun \/ w' = NoWalker
    BY <2>2 DEF WalkRight, LostRun, NoWalker
  <2> QED BY <2>1, <2>2 DEF Calm
<1> QED BY <1>2, <1>3, <1>4 DEF Deep

\* The data are kept when no object goes.
LEMMA DataStays ==
  ASSUME Fades, DataThere,
         objs' = objs \/ \E o \in Nat : objs' = objs \ {o} /\ Unheld(o)
  PROVE  DataThere'
<1>1. \A f : Span(f)' = Span(f)
  BY DEF Span, Fades
<1>2. Alive' \subseteq Alive /\ Alive = linked \cup recent /\ Alive' = linked' \cup recent'
  BY DEF Fades, Alive
<1> QED BY <1>1, <1>2 DEF DataThere, Unheld

\* The walker keeps its type when it does not move or the run ends.
LEMMA WalkerTypeStays ==
  ASSUME Fades, WalkerType, w' \in {w, LostRun, NoWalker}
  PROVE  WalkerType'
<1>1. Files' = Files /\ \A op : ObjSafe(op) => ObjSafe(op)'
  BY Fading
<1>2. \A s : Shaped(s) => Shaped(s)'
  BY <1>1 DEF Shaped, OneRef, ObjsSafe
<1>3. LostRun' = LostRun /\ NoWalker' = NoWalker
  BY DEF LostRun, NoWalker
<1>4. CASE w' = w
  BY <1>1, <1>2, <1>3, <1>4 DEF WalkerType
<1>5. CASE w' \in {LostRun, NoWalker}
  BY <1>3, <1>5 DEF WalkerType
<1> QED BY <1>4, <1>5

\* The files in use are finitely many.
LEMMA FewFiles ==
  ASSUME TypesInv
  PROVE  /\ IsFiniteSet(linked) /\ Cardinality(linked) \in Nat
         /\ \A S : S \subseteq linked => IsFiniteSet(S) /\ Cardinality(S) \in Nat
                                         /\ Cardinality(S) <= Cardinality(linked)
<1>1. IsFiniteSet(Files) /\ linked \subseteq Files
  BY StreamShape DEF TypesInv, StreamType, StorageType
<1>2. IsFiniteSet(linked)
  BY <1>1, FS_Subset
<1>3. Cardinality(linked) \in Nat
  BY <1>2, FS_CardinalityType
<1>4. ASSUME NEW S, S \subseteq linked
      PROVE  IsFiniteSet(S) /\ Cardinality(S) \in Nat /\ Cardinality(S) <= Cardinality(linked)
  BY <1>2, <1>4, FS_Subset, FS_CardinalityType
<1> QED BY <1>2, <1>3, <1>4

\* What the walker counted stays enough when files are unlinked.
LEMMA CountedStays ==
  ASSUME TypesInv, Counted, linked' \subseteq linked, w' \in {w, LostRun, NoWalker}
  PROVE  Counted'
<1>1. CASE w' # w
  BY <1>1 DEF Counted, LostRun, NoWalker
<1>2. CASE w' = w /\ w.on /\ ~w.failed
  <2>1. w \in Walkers
    BY <1>2 DEF TypesInv, WalkerType, LostRun, NoWalker
  <2>2. w.usage \in Nat /\ w.before \in Nat
    BY <2>1 DEF Walkers
  <2>3. Behind(w.fileno) \subseteq linked /\ Ahead(w.fileno) \subseteq linked
    BY DEF Behind, Ahead
  <2>4. /\ Behind(w.fileno)' \subseteq Behind(w.fileno)
        /\ Ahead(w.fileno)' \subseteq Ahead(w.fileno)
    BY <1>2 DEF Behind, Ahead
  <2>5. \A S : S \subseteq Behind(w.fileno) => Cardinality(S) \in Nat /\ Cardinality(S) <= Cardinality(Behind(w.fileno))
    BY <2>3, FewFiles, FS_Subset
  <2>6. \A S : S \subseteq Ahead(w.fileno) => Cardinality(S) \in Nat /\ Cardinality(S) <= Cardinality(Ahead(w.fileno))
    BY <2>3, FewFiles, FS_Subset
  <2>7. Cardinality(Behind(w.fileno)) \in Nat /\ Cardinality(Ahead(w.fileno)) \in Nat
    BY <2>3, FewFiles
  <2>8. /\ Cardinality(Behind(w.fileno)') \in Nat /\ Cardinality(Behind(w.fileno)') <= Cardinality(Behind(w.fileno))
        /\ Cardinality(Ahead(w.fileno)') \in Nat /\ Cardinality(Ahead(w.fileno)') <= Cardinality(Ahead(w.fileno))
    BY <2>4, <2>5, <2>6
  <2>9. CountOK(w)
    BY <1>2 DEF Counted
  <2>10. CountOK(w)'
    BY <1>2, <2>2, <2>7, <2>8, <2>9 DEF CountOK
  <2> QED BY <2>10 DEF Counted
<1>3. CASE w' = w /\ ~(w.on /\ ~w.failed)
  BY <1>3 DEF Counted
<1> QED BY <1>1, <1>2, <1>3

\* A calm step.
LEMMA CalmStep ==
  ASSUME CollectInv, Fades, StorageType', ThreadType', crashes' \in Nat,
         w' \in {w, LostRun, NoWalker}, linked' \subseteq linked, ObjsRight',
         Alive # {} => Calm,
         objs' = objs \/ \E o \in Nat : objs' = objs \ {o} /\ (Alive # {} => Unheld(o))
  PROVE  CollectInv'
<1>0. TypesInv /\ Counted
  BY DEF CollectInv
<1>1. StreamType'
  BY <1>0 DEF TypesInv, StreamType, Fades
<1>2. WalkerType'
  BY <1>0, WalkerTypeStays DEF TypesInv
<1>3. Counted'
  BY <1>0, CountedStays
<1>4. ASSUME (Alive # {})' PROVE Deep'
  <2>1. Alive # {} /\ Deep
    BY <1>4 DEF Fades, CollectInv
  <2>2. DataThere
    BY <2>1 DEF Deep, Storing, Kept
  <2>3. DataThere'
    BY <2>1, <2>2, DataStays
  <2> QED BY <2>1, <2>3, CalmIs
<1> QED BY <1>1, <1>2, <1>3, <1>4 DEF CollectInv, TypesInv

\* The deletions of objects stay right when no new ones are in flight.
LEMMA ObjsRightStays ==
  ASSUME Fades, ObjsRight, \A op \in InFlight' : IsObj(op) => op \in InFlight
  PROVE  ObjsRight'
BY Fading DEF ObjsRight

\* Storage keeps its type when it does not change.
LEMMA StorageStays ==
  ASSUME UNCHANGED layout, UNCHANGED <<linked, refs, young, recent, gctag>>, StorageType
  PROVE  StorageType'
BY DEF StorageType, Files

\* A consumer takes its next chain.
LEMMA TakeKeeps ==
  ASSUME CollectInv, NEW c \in Consumers, Take(c)
  PROVE  CollectInv'
<1>0. TypesInv /\ ObjsRight
  BY DEF CollectInv
<1>1. UNCHANGED <<layout, tail, linked, refs, young, recent, gctag, objs, w, crashes>>
  BY DEF Take, stream, storage, bounds
<1>2. Fades
  BY <1>1 DEF Fades, Alive
<1>3. /\ ThreadType' /\ InFlight' \subseteq InFlight
      /\ \A d \in Consumers : d # c => cons'[d] = cons[d]
      /\ cons[c].at = "idle" /\ cons'[c].at \in {"obj", "tag"} /\ cons'[c].k = 0
  BY <1>0, TakeIs
<1>4. ObjsRight'
  BY <1>0, <1>2, <1>3, ObjsRightStays
<1>5. StorageType'
  BY <1>0, <1>1, StorageStays DEF TypesInv
<1>6. ASSUME Alive # {} PROVE Calm
  <2>1. \A d \in Consumers : Mid(d)' => cons'[d] = cons[d]
    BY <1>3 DEF Mid
  <2>2. Deep
    BY <1>6 DEF CollectInv
  <2>3. \A d \in Consumers : cons'[d].at = "obj" => cons'[d].k < Op(d)'.count
    <3> SUFFICES ASSUME NEW d \in Consumers, cons'[d].at = "obj" PROVE cons'[d].k < Op(d)'.count
      OBVIOUS
    <3>1. CASE d # c
      <4>1. cons'[d] = cons[d] /\ Op(d)' = Op(d)
        BY <1>3, <3>1 DEF Op
      <4> QED BY <2>2, <4>1 DEF Deep, Working, WorkRight
    <3>2. CASE d = c
      <4>1. Op(c)' \in InFlight' /\ IsObj(Op(c)')
        BY <1>3, <3>2, AtWorkNext
      <4> QED BY <1>3, <1>4, <3>2, <4>1 DEF ObjsRight
    <3> QED BY <3>1, <3>2
  <2> QED BY <1>1, <1>2, <1>3, <2>1, <2>3 DEF Calm, Quietly
<1> QED BY <1>0, <1>1, <1>2, <1>3, <1>4, <1>5, <1>6, CalmStep DEF CollectInv, TypesInv

\* A consumer deletes an object.
LEMMA DeleteObjKeeps ==
  ASSUME CollectInv, NEW c \in Consumers, DeleteObj(c)
  PROVE  CollectInv'
<1>0. TypesInv /\ ObjsRight
  BY DEF CollectInv
<1>1. UNCHANGED <<layout, tail, linked, refs, young, recent, gctag, w, crashes>>
  BY DEF DeleteObj, stream
<1>2. Fades
  BY <1>1 DEF Fades, Alive
<1>3. /\ ThreadType' /\ InFlight' = InFlight
      /\ \A d \in Consumers : d # c => cons'[d] = cons[d]
      /\ Op(c)' = Op(c)
      /\ cons'[c].at = "log" \/ (cons'[c].at = "obj" /\ cons'[c].k < Op(c).count)
      /\ cons[c].at = "obj"
      /\ \/ objs' = objs
         \/ \E o \in Nat : objs' = objs \ {o} /\ (cons[c].k < Op(c).count => Unheld(o))
  BY <1>0, DeleteObjStep
<1>4. ObjsRight'
  BY <1>0, <1>2, <1>3, ObjsRightStays
<1>5. StorageType'
  BY <1>0, <1>1, StorageStays DEF TypesInv
<1>6. Alive # {} => Deep
  BY DEF CollectInv
<1>7. objs' = objs \/ \E o \in Nat : objs' = objs \ {o} /\ (Alive # {} => Unheld(o))
  BY <1>3, <1>6 DEF Deep, Working, WorkRight
<1>8. ASSUME Alive # {} PROVE Calm
  <2>1. \A d \in Consumers : Mid(d)' => cons'[d] = cons[d]
    BY <1>3 DEF Mid
  <2>3. \A d \in Consumers : cons'[d].at = "obj" => cons'[d].k < Op(d)'.count
    <3> SUFFICES ASSUME NEW d \in Consumers, cons'[d].at = "obj" PROVE cons'[d].k < Op(d)'.count
      OBVIOUS
    <3>1. CASE d # c
      <4>1. cons'[d] = cons[d] /\ Op(d)' = Op(d)
        BY <1>3, <3>1 DEF Op
      <4> QED BY <1>6, <1>8, <4>1 DEF Deep, Working, WorkRight
    <3>2. CASE d = c
      BY <1>3, <3>2
    <3> QED BY <3>1, <3>2
  <2> QED BY <1>1, <1>2, <1>3, <2>1, <2>3 DEF Calm, Quietly
<1> QED BY <1>0, <1>1, <1>2, <1>3, <1>4, <1>5, <1>7, <1>8, CalmStep DEF CollectInv, TypesInv

\* A consumer logs the end of an operation.
LEMMA LogEndKeeps ==
  ASSUME CollectInv, NEW c \in Consumers, LogEnd(c)
  PROVE  CollectInv'
<1>0. TypesInv /\ ObjsRight
  BY DEF CollectInv
<1>1. UNCHANGED <<layout, tail, linked, refs, young, recent, gctag, objs, crashes>>
  BY DEF LogEnd, stream, storage, bounds
<1>2. Fades
  BY <1>1 DEF Fades, Alive
<1>3. /\ ThreadType' /\ InFlight' \subseteq InFlight
      /\ \A d \in Consumers : d # c => cons'[d] = cons[d]
      /\ cons[c].at = "log" /\ cons'[c].at \in {"idle", "log", "obj", "tag"} /\ cons'[c].k = 0
      /\ w' \in {w, LostRun}
  BY <1>0, LogEndStep
<1>4. ObjsRight'
  BY <1>0, <1>2, <1>3, ObjsRightStays
<1>5. StorageType'
  BY <1>0, <1>1, StorageStays DEF TypesInv
<1>6. ASSUME Alive # {} PROVE Calm
  <2>1. \A d \in Consumers : Mid(d)' => cons'[d] = cons[d]
    BY <1>3 DEF Mid
  <2>2. Deep
    BY <1>6 DEF CollectInv
  <2>3. \A d \in Consumers : cons'[d].at = "obj" => cons'[d].k < Op(d)'.count
    <3> SUFFICES ASSUME NEW d \in Consumers, cons'[d].at = "obj" PROVE cons'[d].k < Op(d)'.count
      OBVIOUS
    <3>1. CASE d # c
      <4>1. cons'[d] = cons[d] /\ Op(d)' = Op(d)
        BY <1>3, <3>1 DEF Op
      <4> QED BY <2>2, <4>1 DEF Deep, Working, WorkRight
    <3>2. CASE d = c
      <4>1. Op(c)' \in InFlight' /\ IsObj(Op(c)')
        BY <1>3, <3>2, AtWorkNext
      <4> QED BY <1>3, <1>4, <3>2, <4>1 DEF ObjsRight
    <3> QED BY <3>1, <3>2
  <2> QED BY <1>1, <1>2, <1>3, <2>1, <2>3 DEF Calm, Quietly
<1> QED BY <1>0, <1>1, <1>2, <1>3, <1>4, <1>5, <1>6, CalmStep DEF CollectInv, TypesInv

\* The producer hands out an operation.
LEMMA DispatchKeeps ==
  ASSUME CollectInv, Dispatch
  PROVE  CollectInv'
<1>0. TypesInv /\ ObjsRight
  BY DEF CollectInv
<1>1. UNCHANGED <<layout, tail, linked, refs, young, recent, gctag, objs, w, cons, crashes>>
  BY DEF Dispatch, stream, storage, bounds
<1>2. Fades
  BY <1>1 DEF Fades, Alive
<1>3. /\ ThreadType' /\ InFlight # {}
      /\ \A op \in InFlight' : IsRef(op) => op \in InFlight
      /\ \A op \in InFlight' : IsObj(op) => op.count > 0 /\ ObjSafe(op)
  BY <1>0, DispatchStep
<1>4. ObjsRight'
  BY <1>2, <1>3, Fading DEF ObjsRight
<1>5. StorageType'
  BY <1>0, <1>1, StorageStays DEF TypesInv
<1>6. ASSUME Alive # {} PROVE Calm
  <2>1. Deep
    BY <1>6 DEF CollectInv
  <2>2. \A d \in Consumers : cons'[d] = cons[d] /\ Op(d)' = Op(d)
    BY <1>1 DEF Op
  <2>3. \A d \in Consumers : cons'[d].at = "obj" => cons'[d].k < Op(d)'.count
    BY <2>1, <2>2 DEF Deep, Working, WorkRight
  <2> QED BY <1>1, <1>2, <1>3, <2>2, <2>3 DEF Calm, Quietly
<1> QED BY <1>0, <1>1, <1>2, <1>3, <1>4, <1>5, <1>6, CalmStep DEF CollectInv, TypesInv

\* A user unlinks a file: it stays one that must be kept.
LEMMA UnlinkKeeps ==
  ASSUME CollectInv, NEW f \in Files, Unlink(f)
  PROVE  CollectInv'
<1>0. TypesInv /\ ObjsRight
  BY DEF CollectInv
<1>1. UNCHANGED <<layout, tail, refs, gctag, objs, w, gcops, queue, cons, crashes>>
      /\ linked' = linked \ {f} /\ young' = young \cup {f} /\ recent' = recent \cup {f} /\ f \in linked
  BY DEF Unlink, stream, thread
<1>2. Fades
  BY <1>1 DEF Fades, Alive
<1>3. InFlight' = InFlight
  BY <1>1, FlightSame
<1>4. ThreadType'
  BY <1>0, <1>1 DEF TypesInv, ThreadType, Op
<1>5. StorageType'
  BY <1>0, <1>1 DEF TypesInv, StorageType, Files
<1>6. ObjsRight'
  BY <1>0, <1>2, <1>3, ObjsRightStays
<1>7. ASSUME Alive # {} PROVE Calm
  <2>1. Deep
    BY <1>7 DEF CollectInv
  <2>2. \A d \in Consumers : cons'[d] = cons[d] /\ Op(d)' = Op(d)
    BY <1>1 DEF Op
  <2>3. \A d \in Consumers : cons'[d].at = "obj" => cons'[d].k < Op(d)'.count
    BY <2>1, <2>2 DEF Deep, Working, WorkRight
  <2> QED BY <1>1, <1>2, <1>3, <2>2, <2>3 DEF Calm, Quietly
<1> QED BY <1>0, <1>1, <1>2, <1>4, <1>5, <1>6, <1>7, CalmStep DEF CollectInv, TypesInv

\* Time goes by: an unlinked file need not be kept any longer.
LEMMA AgeKeeps ==
  ASSUME CollectInv, NEW f \in Files, Age(f)
  PROVE  CollectInv'
<1>0. TypesInv /\ ObjsRight
  BY DEF CollectInv
<1>1. UNCHANGED <<layout, tail, linked, refs, gctag, objs, w, gcops, queue, cons, crashes>>
      /\ young' = young \ {f} /\ recent' = recent \ {f}
  BY DEF Age, stream, thread, bounds
<1>2. Fades
  BY <1>1 DEF Fades, Alive
<1>3. InFlight' = InFlight
  BY <1>1, FlightSame
<1>4. ThreadType'
  BY <1>0, <1>1 DEF TypesInv, ThreadType, Op
<1>5. StorageType'
  BY <1>0, <1>1 DEF TypesInv, StorageType, Files
<1>6. ObjsRight'
  BY <1>0, <1>2, <1>3, ObjsRightStays
<1>7. ASSUME Alive # {} PROVE Calm
  <2>1. Deep
    BY <1>7 DEF CollectInv
  <2>2. \A d \in Consumers : cons'[d] = cons[d] /\ Op(d)' = Op(d)
    BY <1>1 DEF Op
  <2>3. \A d \in Consumers : cons'[d].at = "obj" => cons'[d].k < Op(d)'.count
    BY <2>1, <2>2 DEF Deep, Working, WorkRight
  <2> QED BY <1>1, <1>2, <1>3, <2>2, <2>3 DEF Calm, Quietly
<1> QED BY <1>0, <1>1, <1>2, <1>4, <1>5, <1>6, <1>7, CalmStep DEF CollectInv, TypesInv

\* A run dies: what it has done so far is right, the mark of a deletion under way included.
LEMMA CrashKeeps ==
  ASSUME CollectInv, Crash
  PROVE  CollectInv'
<1>0. TypesInv /\ ObjsRight
  BY DEF CollectInv
<1>1. /\ UNCHANGED <<layout, tail, linked, refs, young, recent, gctag, objs>>
      /\ w' = NoWalker /\ gcops' = <<>> /\ queue' = <<>> /\ cons' = [c \in Consumers |-> Idle]
      /\ crashes' = crashes + 1
  BY DEF Crash, stream, storage
<1>2. Fades
  BY <1>1 DEF Fades, Alive
<1>3. Idle \in Workers /\ Idle.at = "idle" /\ Idle.ops = <<>>
  BY DEF Idle, Workers
<1>4. \A c \in Consumers : cons'[c] = Idle
  BY <1>1
<1>5. ThreadType'
  <2>1. cons' \in [Consumers -> Workers] /\ \A c \in Consumers : cons'[c].at = "idle"
    BY <1>1, <1>3, <1>4
  <2>2. gcops' \in Seq(Ops) /\ queue' \in Seq(Seq(Ops) \ {<<>>})
    BY <1>1
  <2> QED BY <2>1, <2>2 DEF ThreadType
<1>6. InFlight' = {}
  <2> SUFFICES ASSUME NEW op, Flying(op)' PROVE FALSE
    BY DEF InFlight
  <2>1. ~ \E i \in 1 .. Len(gcops') : op = gcops'[i]
    BY <1>1
  <2>2. ~ \E j \in 1 .. Len(queue') : \E i \in 1 .. Len(queue'[j]) : op = queue'[j][i]
    BY <1>1
  <2>3. ~ \E c \in Consumers : \E i \in 1 .. Len(cons'[c].ops) : op = cons'[c].ops[i]
    BY <1>3, <1>4
  <2> QED BY <2>1, <2>2, <2>3 DEF Flying
<1>7. ObjsRight'
  BY <1>0, <1>2, <1>6, ObjsRightStays
<1>8. StorageType'
  BY <1>0, <1>1, StorageStays DEF TypesInv
<1>9. Calm
  <2>1. \A d \in Consumers : ~Mid(d)'
    BY <1>1, <1>3, <1>4 DEF Mid
  <2> QED BY <1>1, <1>2, <1>3, <1>4, <1>6, <2>1 DEF Calm, Quietly
<1>10. crashes' \in Nat
  BY <1>0, <1>1 DEF TypesInv
<1> QED BY <1>0, <1>1, <1>2, <1>5, <1>7, <1>8, <1>9, <1>10, CalmStep DEF CollectInv, TypesInv

-----------------------------------------------------------------------------
(* Steps of a deletion of refs                                             *)

\* Where a deletion of refs ends.
LEMMA EndIs ==
  ASSUME NEW op \in RefOps
  PROVE  /\ op.prev \in Nat /\ op.fileno \in Nat /\ op.count \in Nat /\ op.eos \in BOOLEAN
         /\ Refcnt(op) \in Nat /\ End(op) \in Nat /\ End(op) > op.prev
         /\ op.prev + Refcnt(op) = End(op) - 1 /\ op.prev + 1 + Refcnt(op) = End(op)
         /\ op.count > 0 /\ op.fileno > op.prev => End(op) = op.fileno + op.count
         /\ op.count = 0 => End(op) = IF op.fileno > op.prev + 1 THEN op.fileno ELSE op.prev + 1
<1> DEFINE p == op.prev
           f == op.fileno
           n == op.count
<1>1. p \in Nat /\ f \in Nat /\ n \in Nat /\ op.eos \in BOOLEAN
  BY DEF RefOps
<1>2. Refcnt(op) = n + (IF f > p + 1 THEN f - 1 - p ELSE 0) /\ End(op) = p + Refcnt(op) + 1
  BY DEF Refcnt, End
<1> DEFINE m == IF f > p + 1 THEN f - 1 - p ELSE 0
<1>3. m \in Nat /\ (n > 0 /\ f > p => p + (n + m) + 1 = f + n)
      /\ (n = 0 => p + (n + m) + 1 = IF f > p + 1 THEN f ELSE p + 1)
  BY <1>1
<1> HIDE DEF p, f, n, m
<1>4. Refcnt(op) = n + m /\ Refcnt(op) \in Nat /\ End(op) = p + (n + m) + 1
  BY <1>1, <1>2, <1>3 DEF m
<1> QED BY <1>1, <1>3, <1>4 DEF p, f, n

\* A deletion of refs is known by the file before it.
LEMMA SamePlace ==
  ASSUME Ordered, NEW a \in InFlight, NEW b \in InFlight, IsRef(a), IsRef(b), a.prev = b.prev
  PROVE  a = b
<1>1. a \in RefOps /\ b \in RefOps
  BY OpKinds DEF InFlight
<1>2. /\ a.prev \in Nat /\ End(a) \in Nat /\ End(a) > a.prev
      /\ b.prev \in Nat /\ End(b) \in Nat /\ End(b) > b.prev
  BY <1>1, EndIs
<1>3. a = b \/ End(a) <= b.prev \/ End(b) <= a.prev
  BY DEF Ordered
<1> QED BY <1>2, <1>3

\* A consumer that deletes refs does so for an operation in flight.
LEMMA MidIs ==
  ASSUME TypesInv, NEW c \in Consumers, Mid(c) \/ cons[c].at = "tag"
  PROVE  Op(c) \in InFlight /\ IsRef(Op(c)) /\ Op(c) \in RefOps /\ cons[c].k \in Nat
BY AtWork DEF Mid, Workers

\* A deletion of refs in flight is right, and in a walk it is behind the walker.
LEMMA InFlightIs ==
  ASSUME TypesInv, Deep, NEW op \in InFlight, IsRef(op)
  PROVE  /\ op \in RefOps /\ RefSafe(op) /\ op.prev \in Files
         /\ w.on /\ ~w.failed => w.gc /\ (Fresh(w) => End(op) <= w.activeindex)
         /\ w.on /\ ~w.failed => w.activeindex <= w.fileno /\ w.activeindex \in Nat /\ w.fileno \in Nat
<1>1. op \in RefOps
  BY OpKinds DEF InFlight
<1>2. RefSafe(op)
  BY DEF Deep, Working, RefsRight
<1>3. ASSUME w.on, ~w.failed
      PROVE w.gc /\ (Fresh(w) => End(op) <= w.activeindex) /\ w.activeindex <= w.fileno
            /\ w.activeindex \in Nat /\ w.fileno \in Nat
  <2>1. w \in Walkers
    BY <1>3 DEF TypesInv, WalkerType, LostRun, NoWalker
  <2>2. GoodWalk(w)
    BY <1>3 DEF Deep, WalkRight
  <2>3. w.gc
    BY <2>2 DEF GoodWalk, PlainWalk
  <2> QED BY <2>1, <2>2, <2>3 DEF GoodWalk, GcWalk, Fresh, Walkers
<1> QED BY <1>1, <1>2, <1>3 DEF RefSafe

\* what a GCTAG says, and how the consumers go on from there
TagStep(op, ip) ==
  /\ Fades /\ Tagged(op, ip) /\ refs' = refs /\ w' = w /\ InFlight' = InFlight
  /\ op \in InFlight /\ IsRef(op)

\* Only the GCTAG of the file before the refs changes.
LEMMA TagIs ==
  ASSUME TypesInv, Deep, NEW op, NEW ip \in BOOLEAN, TagStep(op, ip)
  PROVE  /\ gctag'[op.prev].refcnt = Refcnt(op) /\ gctag'[op.prev].eos = op.eos
         /\ gctag'[op.prev].inprog = ip
         /\ \A q \in Files : q # op.prev => gctag'[q] = gctag[q]
<1>1. op.prev \in Files
  BY InFlightIs DEF TagStep
<1>2. gctag \in [Files -> Tag]
  BY DEF TypesInv, StorageType
<1> QED BY <1>1, <1>2 DEF TagStep, Tagged

\* What the GCTAG says from then on is true.
LEMMA TagStores ==
  ASSUME TypesInv, Deep, NEW op, NEW ip \in BOOLEAN, TagStep(op, ip)
  PROVE  (Alive \subseteq refs)' /\ TagsTrue' /\ NextThere'
<1>0. /\ gctag'[op.prev].refcnt = Refcnt(op) /\ gctag'[op.prev].eos = op.eos
      /\ gctag'[op.prev].inprog = ip
      /\ \A q \in Files : q # op.prev => gctag'[q] = gctag[q]
  BY TagIs
<1>1. /\ Files' = Files /\ (\A a, b : Free(a, b) => Free(a, b)') /\ (\A p : FreeAfter(p) => FreeAfter(p)')
      /\ refs' = refs /\ refs \subseteq Files
  BY Fading DEF TagStep, TypesInv, StorageType
<1>2. (Alive \subseteq refs)'
  BY DEF TagStep, Fades, Deep, Storing, Kept
<1>3. op \in RefOps /\ RefSafe(op)
  BY InFlightIs DEF TagStep
<1>4. op.prev + Refcnt(op) = End(op) - 1 /\ op.prev + 1 + Refcnt(op) = End(op)
  BY <1>3, EndIs
<1>5. TagsTrue'
  <2> SUFFICES ASSUME NEW p \in Files, NEW n, n = gctag'[p].refcnt
               PROVE Free(p + 1, p + n)' /\ (gctag'[p].eos => FreeAfter(p)')
    BY <1>1 DEF TagsTrue
  <2>1. Free(p + 1, p + n) /\ (gctag'[p].eos => FreeAfter(p))
    <3>1. CASE p = op.prev
      BY <1>0, <1>3, <1>4, <3>1 DEF RefSafe
    <3>2. CASE p # op.prev
      BY <1>0, <3>2 DEF Deep, Storing, TagsTrue
    <3> QED BY <3>1, <3>2
  <2> QED BY <1>1, <2>1
<1>6. NextThere'
  <2> SUFFICES ASSUME NEW p \in refs, p + 1 + gctag'[p].refcnt \in Files
               PROVE p + 1 + gctag'[p].refcnt \in refs \/ FreeAfter(p)'
    BY <1>1 DEF NextThere, NextOf
  <2>1. CASE p = op.prev
    BY <1>0, <1>1, <1>3, <1>4, <2>1 DEF RefSafe
  <2>2. CASE p # op.prev
    BY <1>0, <1>1, <2>2 DEF Deep, Storing, NextThere, NextOf
  <2> QED BY <2>1, <2>2
<1> QED BY <1>2, <1>5, <1>6

\* The GCTAG leads over no file behind the refs it tells of.
LEMMA TagPassed ==
  ASSUME TypesInv, Deep, NEW op, NEW ip \in BOOLEAN, TagStep(op, ip), NEW f, Passed(f),
         op.prev < f => End(op) <= f
  PROVE  Passed(f)'
<1>0. /\ gctag'[op.prev].refcnt = Refcnt(op) /\ \A q \in Files : q # op.prev => gctag'[q] = gctag[q]
      /\ refs' = refs /\ refs \subseteq Files
  BY TagIs DEF TagStep, TypesInv, StorageType
<1>1. op \in RefOps
  BY InFlightIs DEF TagStep
<1>2. op.prev + 1 + Refcnt(op) = End(op)
  BY <1>1, EndIs
<1> SUFFICES ASSUME NEW p \in refs, p < f PROVE p + 1 + gctag'[p].refcnt <= f
  BY <1>0 DEF Passed, NextOf
<1>3. CASE p = op.prev
  BY <1>0, <1>2, <1>3
<1>4. CASE p # op.prev
  BY <1>0, <1>4 DEF Passed, NextOf
<1> QED BY <1>3, <1>4

\* The other deletions of refs are not led over.
LEMMA TagReached ==
  ASSUME TypesInv, Deep, NEW op, NEW ip \in BOOLEAN, TagStep(op, ip)
  PROVE  Reached'
<1> SUFFICES ASSUME NEW a \in InFlight, IsRef(a) PROVE Passed(a.prev)'
  BY DEF Reached, TagStep
<1>1. op \in InFlight /\ IsRef(op) /\ op \in RefOps /\ a \in RefOps
  BY InFlightIs DEF TagStep
<1>2. /\ op.prev \in Nat /\ End(op) \in Nat /\ End(op) > op.prev
      /\ a.prev \in Nat /\ End(a) \in Nat /\ End(a) > a.prev
  BY <1>1, EndIs
<1>3. a = op \/ End(a) <= op.prev \/ End(op) <= a.prev
  BY <1>1 DEF Deep, Working, Ordered
<1>4. op.prev < a.prev => End(op) <= a.prev
  BY <1>2, <1>3
<1>5. Passed(a.prev)
  BY DEF Deep, Working, Reached
<1> QED BY <1>4, <1>5, TagPassed

\* The GCTAG says that its deletion is in progress, or the refs are gone.
LEMMA TagTight ==
  ASSUME TypesInv, Deep, NEW op, NEW ip \in BOOLEAN, TagStep(op, ip),
         ip \/ \A g \in refs : ~(op.fileno <= g /\ g < op.fileno + op.count)
  PROVE  TagsTight'
<1>0. /\ gctag'[op.prev].refcnt = Refcnt(op) /\ gctag'[op.prev].inprog = ip
      /\ \A q \in Files : q # op.prev => gctag'[q] = gctag[q]
      /\ refs' = refs /\ refs \subseteq Files
  BY TagIs DEF TagStep, TypesInv, StorageType
<1>1. op \in RefOps /\ RefSafe(op)
  BY InFlightIs DEF TagStep
<1>2. /\ op.prev \in Nat /\ op.fileno \in Nat /\ op.count \in Nat
      /\ op.prev + Refcnt(op) = End(op) - 1 /\ End(op) \in Nat
      /\ op.count > 0 /\ op.fileno > op.prev => End(op) = op.fileno + op.count
      /\ op.count = 0 => End(op) = IF op.fileno > op.prev + 1 THEN op.fileno ELSE op.prev + 1
  BY <1>1, EndIs
<1>3. Files \subseteq Nat
  BY StreamShape DEF TypesInv, StreamType
<1> SUFFICES ASSUME NEW p \in refs, NEW g \in refs, p < g, g <= p + gctag'[p].refcnt
             PROVE gctag'[p].inprog
  BY <1>0 DEF TagsTight
<1>4. p \in Nat /\ g \in Nat
  BY <1>0, <1>3
<1>5. CASE p = op.prev /\ ~ip
  <2>1. g <= End(op) - 1 /\ ~(op.prev < g /\ g < op.fileno) /\ (op.count > 0 => op.fileno > op.prev)
    BY <1>0, <1>1, <1>2, <1>5 DEF RefSafe
  <2>2. ~(op.fileno <= g /\ g < op.fileno + op.count)
    BY <1>5
  <2> QED BY <1>2, <1>4, <1>5, <2>1, <2>2
<1>6. CASE p = op.prev /\ ip
  BY <1>0, <1>6
<1>7. CASE p # op.prev
  BY <1>0, <1>7 DEF Deep, Working, TagsTight
<1> QED BY <1>5, <1>6, <1>7

\* The walker is past the file whose GCTAG is written.
LEMMA TagWalks ==
  ASSUME TypesInv, Deep, NEW op, NEW ip \in BOOLEAN, TagStep(op, ip)
  PROVE  WalkRight'
<1> SUFFICES ASSUME w.on, ~w.failed PROVE GoodWalk(w)'
  BY DEF WalkRight, TagStep
<1>0. /\ Files' = Files /\ LastFile' = LastFile /\ refs' = refs /\ layout' = layout /\ Alive' \subseteq Alive
      /\ (\A a, b : Free(a, b) => Free(a, b)') /\ (\A p : FreeAfter(p) => FreeAfter(p)')
      /\ InFlight' = InFlight
  BY Fading DEF TagStep, Fades
<1>1. /\ op \in RefOps /\ w.gc /\ (Fresh(w) => End(op) <= w.activeindex)
      /\ w.activeindex <= w.fileno /\ w.activeindex \in Nat /\ w.fileno \in Nat
  BY InFlightIs DEF TagStep
<1>2. op.prev \in Nat /\ End(op) \in Nat /\ End(op) > op.prev
  BY <1>1, EndIs
<1>3. GoodWalk(w) /\ AnyWalk(w) /\ GcWalk(w) /\ w.fileno \in Files
  BY <1>1 DEF Deep, WalkRight, GoodWalk, TypesInv, WalkerType, LostRun, NoWalker
<1>4. Fresh(w) => gctag'[w.fileno] = gctag[w.fileno]
  <2>1. Fresh(w) => w.fileno # op.prev
    BY <1>1, <1>2
  <2> QED BY <1>3, <2>1, TagIs
<1>5. AnyWalk(w)'
  BY <1>0, <1>3 DEF AnyWalk, TagStep
<1>6. GcWalk(w)'
  <2>1. \A a : End(a)' = End(a)
    BY DEF End, Refcnt
  <2>2. Refs(w.ops)' = Refs(w.ops) /\ Over(w)' = Over(w) /\ Target(w)' = Target(w) /\ w' = w
    BY DEF Refs, Over, Target, TagEnds, TagStep
  <2>3. Fresh(w) => Fresh(w)'
    <3>1. ASSUME Fresh(w) PROVE Passed(w.fileno)' /\ Passed(w.activeindex)'
      <4>1. \A f : Passed(f) /\ (op.prev < f => End(op) <= f) => Passed(f)'
        BY TagPassed
      <4>2. End(op) <= w.activeindex /\ End(op) <= w.fileno
        BY <1>1, <1>2, <3>1
      <4> QED BY <2>2, <3>1, <4>1, <4>2 DEF Fresh
    <3> QED BY <1>0, <1>4, <2>1, <2>2, <3>1 DEF Fresh
  <2>4. \A r : RefGrows(w, r) => RefGrows(w, r)'
    BY <1>0, <2>2 DEF RefGrows
  <2>5. \A g : Span(g)' = Span(g)
    BY <1>0 DEF Span
  <2> QED BY <1>0, <1>3, <2>2, <2>3, <2>4, <2>5 DEF GcWalk
<1> QED BY <1>1, <1>5, <1>6 DEF GoodWalk, TagStep

\* The deletions of refs in flight stay right when no ref goes.
LEMMA RefsStay ==
  ASSUME Fades, refs' = refs, InFlight' = InFlight, Working
  PROVE  RefsRight' /\ Ordered'
<1>1. RefsRight'
  BY RefSafeStays DEF Working, RefsRight
<1>2. \A op : End(op)' = End(op)
  BY DEF End, Refcnt
<1>3. Ordered'
  BY <1>2 DEF Working, Ordered
<1> QED BY <1>1, <1>3

\* The GCTAG tells of the refs that are about to go.
LEMMA TagFileDeep ==
  ASSUME TypesInv, Deep, NEW c \in Consumers, TagFile(c), Fades, refs' = refs, w' = w, objs' = objs
  PROVE  Deep'
<1>0. /\ cons[c].at = "tag" /\ IsRef(Op(c)) /\ Op(c) \in RefOps /\ Op(c) \in InFlight
      /\ ThreadType' /\ InFlight' = InFlight
      /\ \A d \in Consumers : d # c => cons'[d] = cons[d]
      /\ Op(c)' = Op(c)
      /\ \/ cons'[c].at = "log" /\ UNCHANGED <<gctag, young>>
         \/ /\ Tagged(Op(c), Op(c).count > 0)
            /\ cons'[c].at = (IF Op(c).count > 0 THEN "unlink" ELSE "log") /\ cons'[c].k = 0
  BY TagFileStep
<1>1. DataThere'
  BY DataStays DEF Deep, Storing, Kept
<1>2. \A d \in Consumers : d # c => Op(d)' = Op(d)
  BY <1>0 DEF Op
<1>3. \A d \in Consumers : cons'[d].at = "obj" => cons'[d].k < Op(d)'.count
  BY <1>0, <1>2 DEF Deep, Working, WorkRight
<1>4. CASE cons'[c].at = "log" /\ UNCHANGED <<gctag, young>>
  <2>1. \A d \in Consumers : Mid(d)' => cons'[d] = cons[d]
    BY <1>0, <1>4 DEF Mid
  <2>2. Calm
    BY <1>0, <1>3, <1>4, <2>1 DEF Calm, Quietly
  <2> QED BY <1>1, <2>2, CalmIs
<1>5. CASE /\ Tagged(Op(c), Op(c).count > 0)
           /\ cons'[c].at = (IF Op(c).count > 0 THEN "unlink" ELSE "log") /\ cons'[c].k = 0
  <2> DEFINE op == Op(c)
             ip == op.count > 0
  <2>0. op \in InFlight /\ IsRef(op) /\ op \in RefOps /\ ip \in BOOLEAN
    BY <1>0
  <2>1. TagStep(op, ip)
    BY <1>0, <1>5 DEF TagStep
  <2> HIDE DEF op, ip
  <2>2. (Alive \subseteq refs)' /\ TagsTrue' /\ NextThere' /\ WalkRight'
    BY <2>0, <2>1, TagStores, TagWalks
  <2>3. RefsRight' /\ Ordered'
    BY <1>0, RefsStay DEF Deep
  <2>4. /\ gctag'[op.prev].refcnt = Refcnt(op) /\ gctag'[op.prev].eos = op.eos
        /\ gctag'[op.prev].inprog = ip
        /\ \A q \in Files : q # op.prev => gctag'[q] = gctag[q]
    BY <2>0, <2>1, TagIs
  <2>5. RefSafe(op) /\ refs \subseteq Files /\ Files' = Files
    BY <2>0, InFlightIs, Fading DEF TypesInv, StorageType
  <2>6. /\ op.prev \in Nat /\ op.fileno \in Nat /\ op.count \in Nat
        /\ op.prev + Refcnt(op) = End(op) - 1 /\ End(op) \in Nat
        /\ op.count > 0 /\ op.fileno > op.prev => End(op) = op.fileno + op.count
        /\ op.count = 0 => End(op) = IF op.fileno > op.prev + 1 THEN op.fileno ELSE op.prev + 1
    BY <2>0, EndIs
  <2>7. Files \subseteq Nat
    BY StreamShape DEF TypesInv, StreamType
  <2>8. TagsTight'
    <3>1. ip \/ \A g \in refs : ~(op.fileno <= g /\ g < op.fileno + op.count)
      <4>1. \A g \in refs : g \in Nat
        BY <2>5, <2>7
      <4>2. ~ip => op.count = 0
        BY <2>6 DEF ip
      <4> QED BY <2>6, <4>1, <4>2
    <3> QED BY <2>0, <2>1, <3>1, TagTight
  <2>9. Reached'
    BY <2>0, <2>1, TagReached
  <2>10. ASSUME NEW d \in Consumers, d # c, Mid(d)
         PROVE  gctag'[Op(d).prev].refcnt = Refcnt(Op(d))
    <3>1. Op(d) \in InFlight /\ IsRef(Op(d))
      BY <2>10, MidIs
    <3>2. gctag[Op(d).prev].refcnt = Refcnt(Op(d))
      BY <2>10 DEF Deep, Working, WorkRight
    <3>3. Op(d).prev \in Files
      BY <3>1, InFlightIs
    <3>4. CASE Op(d).prev = op.prev
      <4>1. Op(d) = op
        BY <2>0, <3>1, <3>4, SamePlace DEF Deep, Working
      <4> QED BY <2>4, <4>1
    <3>5. CASE Op(d).prev # op.prev
      BY <2>4, <3>2, <3>3, <3>5
    <3> QED BY <3>4, <3>5
  <2>11. WorkRight'
    <3> SUFFICES ASSUME NEW d \in Consumers
                 PROVE  /\ Mid(d)' => gctag'[Op(d)'.prev].refcnt = Refcnt(Op(d)') /\ Op(d)'.count > 0
                        /\ cons'[d].at = "unlink" =>
                             cons'[d].k < Op(d)'.count
                             /\ \A g \in refs' : ~(Op(d)'.fileno <= g /\ g < Op(d)'.fileno + cons'[d].k)
                        /\ cons'[d].at = "clear" =>
                             \A g \in refs' : ~(Op(d)'.fileno <= g /\ g < Op(d)'.fileno + Op(d)'.count)
      BY <1>3 DEF WorkRight, Refcnt
    <3>1. CASE d = c
      <4>1. cons'[c].at = "unlink" => op.count > 0
        BY <1>5 DEF op
      <4>2. cons'[c].at # "clear"
        BY <1>5
      <4>3. \A g \in refs : ~(op.fileno <= g /\ g < op.fileno + 0)
        BY <2>5, <2>6, <2>7
      <4> QED BY <1>0, <1>5, <2>4, <2>6, <3>1, <4>1, <4>2, <4>3 DEF op, Mid
    <3>2. CASE d # c
      <4>1. cons'[d] = cons[d] /\ Op(d)' = Op(d) /\ (Mid(d)' => Mid(d))
        BY <1>0, <1>2, <3>2 DEF Mid
      <4> QED BY <2>10, <3>2, <4>1 DEF Deep, Working, WorkRight
    <3> QED BY <3>1, <3>2
  <2> QED BY <1>1, <2>2, <2>3, <2>8, <2>9, <2>11 DEF Deep, Storing, Working, Kept
<1> QED BY <1>0, <1>4, <1>5

\* The GCTAG says that the deletion of refs is over.
LEMMA ClearTagDeep ==
  ASSUME TypesInv, Deep, NEW c \in Consumers, ClearTag(c), Fades, refs' = refs, w' = w, objs' = objs
  PROVE  Deep'
<1> DEFINE op == Op(c)
           ip == FALSE
<1>0. /\ cons[c].at = "clear" /\ IsRef(op) /\ op \in RefOps /\ op \in InFlight
      /\ ThreadType' /\ InFlight' = InFlight
      /\ \A d \in Consumers : d # c => cons'[d] = cons[d]
      /\ Op(c)' = op
      /\ Tagged(op, FALSE) /\ cons'[c].at = "log"
  BY ClearTagStep
<1>1. DataThere'
  BY DataStays DEF Deep, Storing, Kept
<1>2. \A d \in Consumers : d # c => Op(d)' = Op(d)
  BY <1>0 DEF Op
<1>3. \A d \in Consumers : cons'[d].at = "obj" => cons'[d].k < Op(d)'.count
  BY <1>0, <1>2 DEF Deep, Working, WorkRight
<1>4. TagStep(op, ip) /\ ip \in BOOLEAN
  BY <1>0 DEF TagStep
<1>5. gctag[op.prev].refcnt = Refcnt(op) /\ op.count > 0
      /\ \A g \in refs : ~(op.fileno <= g /\ g < op.fileno + op.count)
  BY <1>0 DEF Deep, Working, WorkRight, Mid
<1> HIDE DEF op, ip
<1>6. (Alive \subseteq refs)' /\ TagsTrue' /\ NextThere' /\ WalkRight'
  BY <1>4, TagStores, TagWalks
<1>7. RefsRight' /\ Ordered'
  BY <1>0, RefsStay DEF Deep
<1>8. /\ gctag'[op.prev].refcnt = Refcnt(op) /\ gctag'[op.prev].eos = op.eos
      /\ gctag'[op.prev].inprog = ip
      /\ \A q \in Files : q # op.prev => gctag'[q] = gctag[q]
  BY <1>4, TagIs
<1>9. RefSafe(op) /\ refs \subseteq Files /\ Files' = Files
  BY <1>0, InFlightIs, Fading DEF TypesInv, StorageType
<1>10. /\ op.prev \in Nat /\ op.fileno \in Nat /\ op.count \in Nat
       /\ op.prev + Refcnt(op) = End(op) - 1 /\ End(op) \in Nat
       /\ op.count > 0 /\ op.fileno > op.prev => End(op) = op.fileno + op.count
  BY <1>0, EndIs
<1>11. Files \subseteq Nat
  BY StreamShape DEF TypesInv, StreamType
<1>12. TagsTight'
  BY <1>4, <1>5, TagTight
<1>13. Reached'
  BY <1>4, TagReached
<1>14. ASSUME NEW d \in Consumers, d # c, Mid(d)
       PROVE  gctag'[Op(d).prev].refcnt = Refcnt(Op(d))
  <2>1. gctag[Op(d).prev].refcnt = Refcnt(Op(d))
    BY <1>14 DEF Deep, Working, WorkRight
  <2>2. Op(d).prev \in Files
    BY <1>14, MidIs, InFlightIs
  <2> QED BY <1>5, <1>8, <2>1, <2>2
<1>15. WorkRight'
  <2> SUFFICES ASSUME NEW d \in Consumers
               PROVE  /\ Mid(d)' => gctag'[Op(d)'.prev].refcnt = Refcnt(Op(d)') /\ Op(d)'.count > 0
                      /\ cons'[d].at = "unlink" =>
                           cons'[d].k < Op(d)'.count
                           /\ \A g \in refs' : ~(Op(d)'.fileno <= g /\ g < Op(d)'.fileno + cons'[d].k)
                      /\ cons'[d].at = "clear" =>
                           \A g \in refs' : ~(Op(d)'.fileno <= g /\ g < Op(d)'.fileno + Op(d)'.count)
    BY <1>3 DEF WorkRight, Refcnt
  <2>1. CASE d = c
    BY <1>0, <2>1 DEF Mid
  <2>2. CASE d # c
    <3>1. cons'[d] = cons[d] /\ Op(d)' = Op(d) /\ (Mid(d)' => Mid(d))
      BY <1>0, <1>2, <2>2 DEF Mid
    <3> QED BY <1>14, <2>2, <3>1 DEF Deep, Working, WorkRight
  <2> QED BY <2>1, <2>2
<1> QED BY <1>1, <1>6, <1>7, <1>12, <1>13, <1>15 DEF Deep, Storing, Working, Kept

\* A ref goes, one that no GCTAG but the one of its own deletion leads to or over.
LEMMA UnlinkRefDeep ==
  ASSUME TypesInv, Deep, NEW c \in Consumers, UnlinkRef(c), Fades, gctag' = gctag, w' = w,
         objs' = objs, cons'[c].at # "log"
  PROVE  Deep'
<1> DEFINE op == Op(c)
           k  == cons[c].k
           x  == op.fileno + k
<1>0. /\ cons[c].at = "unlink" /\ IsRef(op) /\ op \in RefOps /\ op \in InFlight /\ k \in Nat
      /\ ThreadType' /\ InFlight' = InFlight
      /\ \A d \in Consumers : d # c => cons'[d] = cons[d]
      /\ Op(c)' = op
      /\ refs' = refs \ {x}
      /\ \/ k + 1 < op.count /\ cons'[c].at = "unlink" /\ cons'[c].k = k + 1
         \/ ~(k + 1 < op.count) /\ cons'[c].at = "clear"
  BY UnlinkRefStep
<1>1. DataThere'
  BY DataStays DEF Deep, Storing, Kept
<1>2. \A d \in Consumers : d # c => Op(d)' = Op(d)
  BY <1>0 DEF Op
<1>3. \A d \in Consumers : cons'[d].at = "obj" => cons'[d].k < Op(d)'.count
  BY <1>0, <1>2 DEF Deep, Working, WorkRight
<1>4. /\ gctag[op.prev].refcnt = Refcnt(op) /\ op.count > 0 /\ k < op.count
      /\ \A g \in refs : ~(op.fileno <= g /\ g < op.fileno + k)
  BY <1>0 DEF Deep, Working, WorkRight, Mid
<1>5. RefSafe(op)
  BY <1>0, InFlightIs
<1>6. /\ refs \subseteq Files /\ Files' = Files /\ Files \subseteq Nat /\ Alive' \subseteq Alive /\ linked \subseteq Files
      /\ recent \subseteq Files /\ layout' = layout /\ LastFile' = LastFile
      /\ (\A a, b : Free(a, b) => Free(a, b)') /\ (\A p : FreeAfter(p) => FreeAfter(p)')
  BY Fading, StreamShape DEF TypesInv, StorageType, StreamType, Fades
<1>7. /\ op.prev \in Nat /\ op.fileno \in Nat /\ op.count \in Nat /\ op.fileno > op.prev
      /\ End(op) \in Nat /\ End(op) = op.fileno + op.count
      /\ op.prev + Refcnt(op) = End(op) - 1 /\ op.prev + 1 + Refcnt(op) = End(op)
  BY <1>0, <1>4, <1>5, EndIs DEF RefSafe
<1>8. x \in Nat /\ op.prev < x /\ x < End(op) /\ op.fileno <= x
  BY <1>0, <1>4, <1>7
<1>9. \A g \in refs : ~(op.prev < g /\ g < x)
  <2> SUFFICES ASSUME NEW g \in refs, op.prev < g, g < x PROVE FALSE
    OBVIOUS
  <2>1. ~(op.prev < g /\ g < op.fileno) /\ ~(op.fileno <= g /\ g < op.fileno + k)
    BY <1>4, <1>5 DEF RefSafe
  <2>2. g \in Nat
    BY <1>6
  <2> HIDE DEF op, k
  <2> QED BY <1>7, <1>8, <2>1, <2>2
\* other deletions of refs lie on one side or the other
<1>10. ASSUME NEW a \in InFlight, IsRef(a)
       PROVE  /\ a \in RefOps /\ a.prev \in Nat /\ End(a) \in Nat /\ End(a) > a.prev
              /\ a = op \/ End(a) < x \/ x < a.prev
              /\ a.prev # x /\ End(a) # x
  <2>1. /\ a \in RefOps /\ a.prev \in Nat /\ End(a) \in Nat /\ End(a) > a.prev
    BY <1>10, OpKinds, EndIs DEF InFlight
  <2>2. a = op \/ End(a) <= op.prev \/ End(op) <= a.prev
    BY <1>0, <1>10 DEF Deep, Working, Ordered
  <2> QED BY <1>7, <1>8, <2>1, <2>2
<1> HIDE DEF op, k, x
<1>11. (Alive \subseteq refs)'
  <2>1. x \notin Alive
    <3>1. Free(op.prev + 1, End(op) - 1)
      BY <1>5 DEF RefSafe
    <3>2. Alive \subseteq Files
      BY <1>6 DEF Alive
    <3> QED BY <1>7, <1>8, <3>1, <3>2 DEF Free
  <2> QED BY <1>0, <1>6, <2>1 DEF Deep, Storing, Kept
<1>12. TagsTrue'
  BY <1>6 DEF Deep, Storing, TagsTrue
\* a GCTAG that leads to this ref is that of a file behind which nothing is kept
<1>13. ASSUME NEW p \in refs, NextOf(p) = x
       PROVE  FALSE
  <2>0. p \in Nat /\ p \in Files /\ gctag[p].refcnt \in Nat
    BY <1>6 DEF TypesInv, StorageType, Tag
  <2>1. p + 1 + gctag[p].refcnt = x
    BY <1>13 DEF NextOf
  <2>2. CASE p < op.prev
    <3>1. Passed(op.prev)
      BY <1>0 DEF Deep, Working, Reached
    <3>2. NextOf(p) <= op.prev
      BY <2>2, <3>1 DEF Passed
    <3> QED BY <1>7, <1>8, <1>13, <3>2
  <2>3. CASE p = op.prev
    BY <1>4, <1>7, <1>8, <2>1, <2>3
  <2>4. CASE p > op.prev
    BY <1>9, <1>8, <2>0, <2>1, <2>4
  <2> QED BY <1>7, <2>0, <2>2, <2>3, <2>4
<1>14. NextThere'
  <2> SUFFICES ASSUME NEW p \in refs, p # x, NextOf(p) \in Files
               PROVE NextOf(p) \in refs \ {x} \/ FreeAfter(p)'
    BY <1>0, <1>6 DEF NextThere, NextOf
  <2> QED BY <1>6, <1>13 DEF Deep, Storing, NextThere
<1>15. RefsRight'
  <2> SUFFICES ASSUME NEW a \in InFlight, IsRef(a) PROVE RefSafe(a)'
    BY <1>0 DEF RefsRight
  <2>1. RefSafe(a) /\ a.prev # x /\ End(a) # x
    BY <1>10, InFlightIs
  <2>2. End(a)' = End(a)
    BY DEF End, Refcnt
  <2> QED BY <1>0, <1>6, <2>1, <2>2 DEF RefSafe
<1>16. Ordered'
  <2>1. \A a : End(a)' = End(a)
    BY DEF End, Refcnt
  <2> QED BY <1>0, <2>1 DEF Deep, Working, Ordered
<1>17. TagsTight'
  BY <1>0 DEF Deep, Working, TagsTight
<1>a. \A f : Passed(f) => Passed(f)'
  BY <1>0, PassedStays
<1>18. Reached'
  BY <1>0, <1>a DEF Deep, Working, Reached
<1>19. WorkRight'
  <2> SUFFICES ASSUME NEW d \in Consumers
               PROVE  /\ Mid(d)' => gctag[Op(d)'.prev].refcnt = Refcnt(Op(d)') /\ Op(d)'.count > 0
                      /\ cons'[d].at = "unlink" =>
                           cons'[d].k < Op(d)'.count
                           /\ \A g \in refs \ {x} : ~(Op(d)'.fileno <= g /\ g < Op(d)'.fileno + cons'[d].k)
                      /\ cons'[d].at = "clear" =>
                           \A g \in refs \ {x} : ~(Op(d)'.fileno <= g /\ g < Op(d)'.fileno + Op(d)'.count)
    BY <1>0, <1>3 DEF WorkRight, Refcnt
  <2>1. CASE d = c
    <3>1. gctag[Op(d)'.prev].refcnt = Refcnt(Op(d)') /\ Op(d)'.count > 0
      BY <1>0, <1>4, <2>1
    <3>2. \A g \in refs \ {x} : ~(op.fileno <= g /\ g < op.fileno + (k + 1))
      <4> SUFFICES ASSUME NEW g \in refs, g # x, op.fileno <= g, g < op.fileno + (k + 1) PROVE FALSE
        OBVIOUS
      <4>1. g \in Nat /\ k \in Nat
        BY <1>0, <1>6
      <4>2. g < op.fileno + k
        BY <1>7, <4>1 DEF x
      <4> QED BY <1>4, <4>2
    <3>3. cons'[c].at = "clear" => \A g \in refs \ {x} : ~(op.fileno <= g /\ g < op.fileno + op.count)
      <4>1. ~(k + 1 < op.count) => k + 1 = op.count
        BY <1>0, <1>4, <1>7
      <4> QED BY <1>0, <3>2, <4>1
    <3>4. cons'[c].at = "unlink" => /\ cons'[c].k < op.count /\ cons'[c].k = k + 1
      BY <1>0
    <3> QED BY <1>0, <2>1, <3>1, <3>2, <3>3, <3>4
  <2>2. CASE d # c
    <3>1. cons'[d] = cons[d] /\ Op(d)' = Op(d) /\ (Mid(d)' => Mid(d))
      BY <1>0, <1>2, <2>2 DEF Mid
    <3> QED BY <3>1 DEF Deep, Working, WorkRight
  <2> QED BY <2>1, <2>2
<1>20. WalkRight'
  <2> SUFFICES ASSUME w.on, ~w.failed PROVE GoodWalk(w)'
    BY DEF WalkRight
  <2>1. /\ w.gc /\ (Fresh(w) => End(op) <= w.activeindex)
        /\ w.activeindex <= w.fileno /\ w.activeindex \in Nat /\ w.fileno \in Nat
    BY <1>0, InFlightIs
  <2>2. AnyWalk(w) /\ GcWalk(w)
    BY <2>1 DEF Deep, WalkRight, GoodWalk
  <2>3. AnyWalk(w)'
    BY <1>6, <2>2 DEF AnyWalk
  <2>4. GcWalk(w)'
    <3>1. \A a : End(a)' = End(a)
      BY DEF End, Refcnt
    <3>2. Refs(w.ops)' = Refs(w.ops) /\ Over(w)' = Over(w) /\ Target(w)' = Target(w)
      BY DEF Refs, Over, Target, TagEnds
    <3>3. Fresh(w) => w.fileno # x /\ w.activeindex # x
      BY <1>7, <1>8, <2>1
    <3>4. Fresh(w) => Fresh(w)'
      BY <1>0, <1>a, <3>1, <3>2, <3>3 DEF Fresh
    <3>5. \A r : RefGrows(w, r) => RefGrows(w, r)'
      BY <1>0, <1>6, <3>2 DEF RefGrows
    <3>6. \A g : Span(g)' = Span(g)
      BY <1>6 DEF Span
    <3> QED BY <1>6, <2>2, <3>2, <3>4, <3>5, <3>6 DEF GcWalk
  <2> QED BY <2>1, <2>3, <2>4 DEF GoodWalk
<1> QED BY <1>1, <1>11, <1>12, <1>14, <1>15, <1>16, <1>17, <1>18, <1>19, <1>20 DEF Deep, Storing, Working, Kept

\* A consumer writes a GCTAG.
LEMMA TagFileKeeps ==
  ASSUME CollectInv, NEW c \in Consumers, TagFile(c)
  PROVE  CollectInv'
<1>0. TypesInv /\ ObjsRight /\ Counted
  BY DEF CollectInv
<1>1. UNCHANGED <<layout, tail, linked, refs, recent, objs, w, crashes>>
  BY DEF TagFile, stream, bounds
<1>2. Fades
  BY <1>1 DEF Fades, Alive
<1>3. /\ ThreadType' /\ InFlight' = InFlight /\ Op(c) \in RefOps
      /\ \/ UNCHANGED <<gctag, young>>
         \/ Tagged(Op(c), Op(c).count > 0)
  BY <1>0, TagFileStep
<1>4. ObjsRight' /\ StreamType' /\ WalkerType' /\ Counted' /\ crashes' \in Nat
  BY <1>0, <1>1, <1>2, <1>3, ObjsRightStays, WalkerTypeStays, CountedStays DEF TypesInv, StreamType
<1>5. StorageType'
  <2>1. gctag' \in [Files -> Tag] /\ recent \subseteq young'
    <3>1. gctag \in [Files -> Tag] /\ recent \subseteq young
      BY <1>0 DEF TypesInv, StorageType
    <3>2. ASSUME Tagged(Op(c), Op(c).count > 0) PROVE gctag' \in [Files -> Tag] /\ recent \subseteq young'
      <4> DEFINE tag == [refcnt |-> Refcnt(Op(c)), eos |-> Op(c).eos, inprog |-> Op(c).count > 0,
                         delzero |-> Op(c).delzero]
      <4>1. Op(c).delzero \in BOOLEAN /\ Op(c).eos \in BOOLEAN /\ Refcnt(Op(c)) \in Nat
        BY <1>3, EndIs DEF RefOps
      <4>2. tag \in Tag
        BY <4>1 DEF Tag
      <4>3. gctag' = [gctag EXCEPT ![Op(c).prev] = tag] /\ young' = young \cup {Op(c).prev}
        BY <3>2 DEF Tagged
      <4> QED BY <3>1, <4>2, <4>3
    <3> QED BY <1>3, <3>1, <3>2
  <2> QED BY <1>0, <1>1, <2>1 DEF TypesInv, StorageType, Files
<1>6. ASSUME (Alive # {})' PROVE Deep'
  <2>1. Deep
    BY <1>2, <1>6 DEF Fades, CollectInv
  <2> QED BY <1>0, <1>1, <1>2, <2>1, TagFileDeep
<1> QED BY <1>3, <1>4, <1>5, <1>6 DEF CollectInv, TypesInv

\* A consumer clears the mark of a GCTAG.
LEMMA ClearTagKeeps ==
  ASSUME CollectInv, NEW c \in Consumers, ClearTag(c)
  PROVE  CollectInv'
<1>0. TypesInv /\ ObjsRight /\ Counted
  BY DEF CollectInv
<1>1. UNCHANGED <<layout, tail, linked, refs, recent, objs, w, crashes>>
  BY DEF ClearTag, stream, bounds
<1>2. Fades
  BY <1>1 DEF Fades, Alive
<1>3. /\ ThreadType' /\ InFlight' = InFlight /\ Op(c) \in RefOps /\ Tagged(Op(c), FALSE)
  BY <1>0, ClearTagStep
<1>4. ObjsRight' /\ StreamType' /\ WalkerType' /\ Counted' /\ crashes' \in Nat
  BY <1>0, <1>1, <1>2, <1>3, ObjsRightStays, WalkerTypeStays, CountedStays DEF TypesInv, StreamType
<1>5. StorageType'
  <2>1. gctag \in [Files -> Tag] /\ recent \subseteq young
    BY <1>0 DEF TypesInv, StorageType
  <2> DEFINE tag == [refcnt |-> Refcnt(Op(c)), eos |-> Op(c).eos, inprog |-> FALSE, delzero |-> Op(c).delzero]
  <2>2. Op(c).delzero \in BOOLEAN /\ Op(c).eos \in BOOLEAN /\ Refcnt(Op(c)) \in Nat
    BY <1>3, EndIs DEF RefOps
  <2>3. tag \in Tag
    BY <2>2 DEF Tag
  <2>4. gctag' = [gctag EXCEPT ![Op(c).prev] = tag] /\ young' = young \cup {Op(c).prev}
    BY <1>3 DEF Tagged
  <2>5. gctag' \in [Files -> Tag] /\ recent \subseteq young'
    BY <2>1, <2>3, <2>4
  <2> QED BY <1>0, <1>1, <2>5 DEF TypesInv, StorageType, Files
<1>6. ASSUME (Alive # {})' PROVE Deep'
  <2>1. Deep
    BY <1>2, <1>6 DEF Fades, CollectInv
  <2> QED BY <1>0, <1>1, <1>2, <2>1, ClearTagDeep
<1> QED BY <1>3, <1>4, <1>5, <1>6 DEF CollectInv, TypesInv

\* A consumer deletes a ref.
LEMMA UnlinkRefKeeps ==
  ASSUME CollectInv, NEW c \in Consumers, UnlinkRef(c)
  PROVE  CollectInv'
<1>0. TypesInv /\ ObjsRight /\ Counted
  BY DEF CollectInv
<1>1. UNCHANGED <<layout, tail, linked, young, recent, gctag, objs, w, crashes>>
  BY DEF UnlinkRef, stream
<1>2. Fades
  BY <1>1 DEF Fades, Alive
<1>3. /\ ThreadType' /\ InFlight' = InFlight /\ refs' \subseteq refs
      /\ \A d \in Consumers : d # c => cons'[d] = cons[d]
      /\ cons'[c].at = "log" => refs' = refs
  BY <1>0, UnlinkRefStep
<1>4. ObjsRight' /\ StreamType' /\ WalkerType' /\ Counted' /\ crashes' \in Nat
  BY <1>0, <1>1, <1>2, <1>3, ObjsRightStays, WalkerTypeStays, CountedStays DEF TypesInv, StreamType
<1>5. StorageType'
  BY <1>0, <1>1, <1>3 DEF TypesInv, StorageType, Files
<1>6. ASSUME (Alive # {})' PROVE Deep'
  <2>1. Deep
    BY <1>2, <1>6 DEF Fades, CollectInv
  <2>2. CASE cons'[c].at # "log"
    BY <1>0, <1>1, <1>2, <2>1, <2>2, UnlinkRefDeep
  <2>3. CASE cons'[c].at = "log"
    <3>1. Calm
      <4>1. \A d \in Consumers : Mid(d)' => cons'[d] = cons[d]
        BY <1>3, <2>3 DEF Mid
      <4>2. ASSUME NEW d \in Consumers, cons'[d].at = "obj" PROVE cons'[d].k < Op(d)'.count
        <5>1. d # c
          BY <1>3, <2>3, <4>2
        <5>2. cons'[d] = cons[d] /\ Op(d)' = Op(d)
          BY <1>3, <5>1 DEF Op
        <5> QED BY <2>1, <4>2, <5>2 DEF Deep, Working, WorkRight
      <4> QED BY <1>1, <1>2, <1>3, <2>3, <4>1, <4>2 DEF Calm, Quietly
    <3>2. DataThere'
      BY <1>1, <1>2, <2>1, DataStays DEF Deep, Storing, Kept
    <3> QED BY <2>1, <3>1, <3>2, CalmIs
  <2> QED BY <2>2, <2>3
<1> QED BY <1>3, <1>4, <1>5, <1>6 DEF CollectInv, TypesInv

-----------------------------------------------------------------------------
(* Steps of the walker                                                     *)

\* The walker becomes x and hands over the chain ops: what has to be true of them.
AsWalker(x) == x \in Walkers /\ Shaped(x) /\ x.fileno \in Files /\ x.ft \in Files
\* deletions of refs that start where none in flight is
RefsFit(ops) ==
  \A r \in Refs(ops) : RefSafe(r) /\ Passed(r.prev) /\ \A a \in InFlight : IsRef(a) => End(a) <= r.prev
GoesOn(x, ops) ==
  /\ GoodWalk(x)
  /\ x.gc => \/ x.ops = <<>> /\ Over(x)
             \/ Fresh(x) /\ \A r \in Refs(ops) : End(r) <= x.activeindex
  /\ ~x.gc => ops = <<>>
Moves(x, ops) ==
  /\ x = NoWalker \/ x = LostRun \/ AsWalker(x)
  /\ ops \in Seq(Ops) /\ OneRef(ops) /\ ObjsSafe(ops)
  /\ x.on /\ ~x.failed => CountOK(x)
  /\ Alive # {} => RefsFit(ops) /\ (x.on /\ ~x.failed => GoesOn(x, ops))

\* The walker moves, and the producer gets the chain.
LEMMA MoveStep ==
  ASSUME CollectInv, NEW x, NEW ops, w' = x, gcops' = ops, Moves(x, ops), gcops = <<>>,
         UNCHANGED <<layout, tail, linked, refs, young, recent, gctag, objs, queue, cons, crashes>>
  PROVE  CollectInv'
<1>0. TypesInv /\ ObjsRight /\ Counted
  BY DEF CollectInv
<1>1. Fades /\ Alive' = Alive
  BY DEF Fades, Alive
<1>2. ops \in Seq(Ops) /\ OneRef(ops) /\ ObjsSafe(ops)
  BY DEF Moves
<1>3. ThreadType'
  <2>1. \A c \in Consumers : Op(c)' = Op(c)
    BY DEF Op
  <2> QED BY <1>0, <1>2, <2>1 DEF TypesInv, ThreadType
<1>4. \A op \in InFlight' : op \in InFlight \/ \E i \in 1 .. Len(ops) : op = ops[i]
  BY DEF InFlight, Flying
<1>5. ops = <<>> => InFlight' = InFlight
  BY FlightSame
<1>6. ObjsRight'
  <2> SUFFICES ASSUME NEW op \in InFlight', IsObj(op) PROVE op.count > 0 /\ ObjSafe(op)'
    BY DEF ObjsRight
  <2>1. op.count > 0 /\ ObjSafe(op)
    BY <1>0, <1>2, <1>4 DEF ObjsRight, ObjsSafe
  <2> QED BY <1>1, <2>1, Fading
<1>7. Files' = Files
  BY <1>1, Fading
<1>8. StorageType' /\ StreamType'
  BY <1>0, StorageStays DEF TypesInv, StreamType
<1>9. WalkerType'
  <2>1. Shaped(x) => Shaped(x)'
    BY <1>1, Fading DEF Shaped, OneRef, ObjsSafe
  <2>2. LostRun' = LostRun /\ NoWalker' = NoWalker
    BY DEF LostRun, NoWalker
  <2> QED BY <1>7, <2>1, <2>2 DEF Moves, AsWalker, WalkerType
<1>10. Counted'
  <2>1. CountOK(x) => CountOK(x)'
    BY DEF CountOK, Behind, Ahead
  <2> QED BY <2>1 DEF Counted, Moves
<1>11. ASSUME (Alive # {})' PROVE Deep'
  <2>0. Deep /\ RefsFit(ops) /\ (x.on /\ ~x.failed => GoesOn(x, ops))
    BY <1>1, <1>11 DEF CollectInv, Moves
  <2>1. DataThere'
    BY <1>1, <2>0, DataStays DEF Deep, Storing, Kept
  <2>2. Storing'
    BY <1>1, <2>0, <2>1, StoringStays DEF Deep, Storing, Kept
  <2>3. \A d \in Consumers : cons'[d] = cons[d] /\ Op(d)' = Op(d)
    BY DEF Op
  <2>a. \A f : Passed(f) => Passed(f)'
    BY PassedStays
  <2>4. TagsTight' /\ WorkRight'
    <3>1. \A d \in Consumers : cons'[d].at = "obj" => cons'[d].k < Op(d)'.count
      BY <2>0, <2>3 DEF Deep, Working, WorkRight
    <3> QED BY <1>1, <2>0, <2>3, <3>1, WorkStays DEF Deep
  <2>5. \A op \in InFlight' : IsRef(op) => op \in InFlight \/ op \in Refs(ops)
    BY <1>4 DEF Refs
  <2>6. RefsRight'
    <3> SUFFICES ASSUME NEW op \in InFlight', IsRef(op) PROVE RefSafe(op)'
      BY DEF RefsRight
    <3>1. RefSafe(op)
      BY <2>0, <2>5 DEF RefsFit, Deep, Working, RefsRight
    <3> QED BY <1>1, <3>1, RefSafeStays
  <2>7. Ordered'
    <3>1. \A op : End(op)' = End(op)
      BY DEF End, Refcnt
    <3>2. \A r, q \in Refs(ops) : r = q
      BY <1>2 DEF Refs, OneRef
    <3>3. \A a, b \in InFlight : IsRef(a) /\ IsRef(b) => a = b \/ End(a) <= b.prev \/ End(b) <= a.prev
      BY <2>0 DEF Deep, Working, Ordered
    <3>4. \A a \in InFlight, r \in Refs(ops) : IsRef(a) => End(a) <= r.prev
      BY <2>0 DEF RefsFit
    <3>5. \A a, b \in InFlight' : IsRef(a) /\ IsRef(b) => a = b \/ End(a) <= b.prev \/ End(b) <= a.prev
      BY <2>5, <3>2, <3>3, <3>4
    <3> QED BY <3>1, <3>5 DEF Ordered
  <2>8. WalkRight'
    <3> SUFFICES ASSUME x.on, ~x.failed PROVE GoodWalk(x)'
      BY DEF WalkRight
    <3>0. /\ Files' = Files /\ LastFile' = LastFile /\ refs' = refs /\ gctag' = gctag /\ layout' = layout
          /\ (\A a, b : Free(a, b) => Free(a, b)') /\ (\A p : FreeAfter(p) => FreeAfter(p)')
      BY <1>1, Fading
    <3>1. GoesOn(x, ops) /\ GoodWalk(x)
      BY <2>0 DEF GoesOn
    <3>2. AnyWalk(x)'
      BY <3>0, <3>1 DEF GoodWalk, AnyWalk
    <3>3. ASSUME x.gc PROVE GcWalk(x)'
      <4>1. \A a : End(a)' = End(a)
        BY DEF End, Refcnt
      <4>2. Refs(x.ops)' = Refs(x.ops) /\ Over(x)' = Over(x) /\ Target(x)' = Target(x)
        BY DEF Refs, Over, Target, TagEnds
      <4>3. (x.ops = <<>> /\ Over(x)) \/ Fresh(x)'
        <5>1. ASSUME Fresh(x), \A r \in Refs(ops) : End(r) <= x.activeindex PROVE Fresh(x)'
          BY <2>5, <2>a, <3>0, <4>1, <4>2, <5>1 DEF Fresh
        <5> QED BY <3>1, <3>3, <5>1 DEF GoesOn
      <4>4. \A r : RefGrows(x, r) => RefGrows(x, r)'
        BY <3>0, <4>2 DEF RefGrows
      <4>5. \A g : Span(g)' = Span(g)
        BY <3>0 DEF Span
      <4>6. GcWalk(x)
        BY <3>1, <3>3 DEF GoodWalk
      <4> QED BY <1>1, <3>0, <4>2, <4>3, <4>4, <4>5, <4>6 DEF GcWalk
    <3>4. ASSUME ~x.gc PROVE PlainWalk(x)'
      BY <1>5, <3>0, <3>1, <3>4 DEF GoodWalk, PlainWalk, GoesOn
    <3> QED BY <3>2, <3>3, <3>4 DEF GoodWalk
  <2>9. Reached'
    <3>1. \A op \in InFlight' : IsRef(op) => Passed(op.prev)
      BY <2>0, <2>5 DEF RefsFit, Deep, Working, Reached
    <3> QED BY <2>a, <3>1 DEF Reached
  <2> QED BY <2>2, <2>4, <2>6, <2>7, <2>8, <2>9 DEF Deep, Working
<1> QED BY <1>0, <1>3, <1>6, <1>8, <1>9, <1>10, <1>11 DEF CollectInv, TypesInv

\* Files behind which nothing is kept.
LEMMA FreeOn ==
  ASSUME TypesInv, NEW a \in Nat, NEW b \in Nat, a <= b, Free(a + 1, b), FreeAfter(b)
  PROVE  FreeAfter(a)
<1>1. Files \subseteq Nat
  BY StreamShape DEF TypesInv, StreamType
<1> SUFFICES ASSUME NEW g \in Files, g > a PROVE g \notin Alive
  BY DEF FreeAfter
<1>2. g \in Nat
  BY <1>1
<1>3. CASE g <= b
  BY <1>2, <1>3 DEF Free
<1>4. CASE g > b
  BY <1>4 DEF FreeAfter
<1> QED BY <1>2, <1>3, <1>4

\* A walk that is over has seen every file that must be kept.
LEMMA OverAfter ==
  ASSUME TypesInv, NEW s \in Walkers, s.fileno \in Files, AnyWalk(s), Over(s)
  PROVE  FreeAfter(s.fileno)
<1>1. Files = 0 .. LastFile /\ LastFile \in Nat
  BY StreamShape DEF TypesInv, StreamType
<1>2. CASE ~s.fin
  <2>1. s.fileno = LastFile
    BY <1>2 DEF AnyWalk
  <2> QED BY <1>1, <2>1 DEF FreeAfter
<1>3. CASE s.end
  BY <1>3 DEF AnyWalk
<1>4. CASE TagEnds(s)
  BY <1>4 DEF AnyWalk, TagEnds
<1> QED BY <1>2, <1>3, <1>4 DEF Over

\* The deletion of refs of a walk ends where the walk goes on.
LEMMA GrownEnd ==
  ASSUME NEW s \in Walkers, s.activeindex <= s.fileno, NEW r \in RefOps, RefGrows(s, r)
  PROVE  End(r) = Target(s) /\ r.prev = s.activeindex
<1>1. /\ r.prev \in Nat /\ r.fileno \in Nat /\ r.count \in Nat
      /\ r.count > 0 /\ r.fileno > r.prev => End(r) = r.fileno + r.count
      /\ r.count = 0 => End(r) = IF r.fileno > r.prev + 1 THEN r.fileno ELSE r.prev + 1
  BY EndIs
<1>2. s.activeindex \in Nat /\ s.fileno \in Nat /\ s.gct.refcnt \in Nat
  BY DEF Walkers, Tag
<1>3. CASE r.count > 0
  BY <1>1, <1>3 DEF RefGrows
<1>4. CASE r.count = 0
  <2>1. r.prev = 0 /\ r.fileno = 0 /\ s.fileno = 0 /\ s.gct.refcnt = 0
    BY <1>2, <1>4 DEF RefGrows
  <2> QED BY <1>1, <1>4, <2>1 DEF RefGrows, Target
<1> QED BY <1>1, <1>3, <1>4 DEF RefGrows

\* A chain that differs in what it notes about object 0.
LEMMA KinGrows ==
  ASSUME NEW s, NEW r, NEW q, AsRef(r, q)
  PROVE  /\ RefGrows(s, q) => RefGrows(s, r)
         /\ End(r) = End(q) /\ (RefSafe(q) => RefSafe(r))
<1>1. r.count = q.count /\ r.fileno = q.fileno /\ r.prev = q.prev /\ r.eos = q.eos
  BY DEF AsRef
<1>2. End(r) = End(q)
  BY <1>1 DEF End, Refcnt
<1> QED BY <1>1, <1>2 DEF RefGrows, RefSafe

\* The deletion of refs of a walk is right when it is handed over where a ref is, or behind
\* all that is kept.
LEMMA GrownIsSafe ==
  ASSUME TypesInv, NEW s \in Walkers, AnyWalk(s), GcWalk(s), Fresh(s), NEW r \in RefOps, RefGrows(s, r),
         Target(s) \in Files => Target(s) \in refs \/ FreeAfter(s.activeindex)
  PROVE  /\ RefSafe(r) /\ Passed(r.prev) /\ (\A a \in InFlight : IsRef(a) => End(a) <= r.prev)
         /\ End(r) = Target(s)
<1>0. s.activeindex \in Nat /\ s.fileno \in Nat /\ s.gct.refcnt \in Nat /\ s.activeindex <= s.fileno
  BY DEF Walkers, Tag, GcWalk
<1>1. End(r) = Target(s) /\ r.prev = s.activeindex
  BY <1>0, GrownEnd
<1>2. r.prev \in refs /\ r.prev \in Files /\ Files \subseteq Nat
  BY <1>1, StreamShape DEF Fresh, TypesInv, StreamType, StorageType
<1>3. Free(r.prev + 1, End(r) - 1)
  <2> SUFFICES ASSUME NEW g \in Files, r.prev + 1 <= g, g <= End(r) - 1 PROVE g \notin Alive
    BY DEF Free
  <2>1. g \in Nat /\ g <= s.fileno + s.gct.refcnt /\ s.activeindex + 1 <= g
    BY <1>0, <1>1, <1>2 DEF Target
  <2>2. CASE g <= s.fileno
    BY <2>1, <2>2 DEF GcWalk, Free
  <2>3. CASE s.fileno + 1 <= g
    BY <2>1, <2>3 DEF AnyWalk, Free
  <2> QED BY <1>0, <2>1, <2>2, <2>3
<1>4. \A g \in refs : ~(r.prev < g /\ g < r.fileno)
  <2>1. CASE r.count > 0
    BY <2>1 DEF RefGrows
  <2>2. CASE r.count = 0
    <3>1. r.fileno = 0 /\ r.prev \in Nat /\ refs \subseteq Nat
      BY <1>2, <2>2 DEF RefGrows, TypesInv, StorageType
    <3> QED BY <3>1
  <2> QED BY <2>1, <2>2, EndIs
<1>5. r.count > 0 => r.fileno > r.prev
  BY DEF RefGrows
<1>6. r.eos => FreeAfter(r.prev)
  BY DEF RefGrows
<1>7. RefSafe(r)
  BY <1>1, <1>2, <1>3, <1>4, <1>5, <1>6 DEF RefSafe
<1> QED BY <1>1, <1>7 DEF Fresh

\* A walker without operations hands over none.
LEMMA HandOverIs ==
  ASSUME NEW s \in Walkers, gcops = <<>>, HandOver(s)
  PROVE  w' = [s EXCEPT !.ops = <<>>] /\ gcops' = s.ops
<1>1. CASE s.ops = <<>>
  <2>1. s = [s EXCEPT !.ops = <<>>]
    BY <1>1 DEF Walkers
  <2> QED BY <1>1, <2>1 DEF HandOver
<1>2. CASE s.ops # <<>>
  BY <1>2 DEF HandOver
<1> QED BY <1>1, <1>2

\* A walker that has handed over its chain.
LEMMA Emptied ==
  ASSUME NEW s \in Walkers, Shaped(s), s.fileno \in Files, s.ft \in Files
  PROVE  LET x == [s EXCEPT !.ops = <<>>]
         IN  /\ AsWalker(x) /\ Same(x, s) /\ x.ops = <<>> /\ Refs(x.ops) = {} /\ x.failed = s.failed /\ x.on
             /\ x.activefiles = s.activefiles /\ x.objno = s.objno
             /\ (CountOK(s) => CountOK(x)) /\ (AnyWalk(s) => AnyWalk(x)) /\ (Over(s) => Over(x))
<1> DEFINE x == [s EXCEPT !.ops = <<>>]
<1>1. /\ x \in Walkers /\ Same(x, s) /\ x.ops = <<>> /\ x.failed = s.failed /\ x.on
      /\ x.activefiles = s.activefiles /\ x.objno = s.objno
  <2> DEFINE e == <<>>
  <2>1. e \in Seq(Ops)
    OBVIOUS
  <2>2. x = [s EXCEPT !.ops = e]
    OBVIOUS
  <2> HIDE DEF e, x
  <2>3. x \in Walkers /\ x.ops = e
    BY <2>1, <2>2 DEF Walkers
  <2>4. Same(x, s) /\ x.failed = s.failed /\ x.activefiles = s.activefiles /\ x.objno = s.objno
    BY <2>2 DEF Walkers, Same
  <2>5. x.on
    BY <2>3 DEF Walkers
  <2> QED BY <2>3, <2>4, <2>5 DEF e
<1> HIDE DEF x
<1>2. OneRef(x.ops) /\ ObjsSafe(x.ops) /\ Refs(x.ops) = {}
  BY <1>1 DEF OneRef, ObjsSafe, Refs
<1>3. AsWalker(x)
  BY <1>1, <1>2 DEF AsWalker, Shaped, Same
<1>4. (CountOK(s) => CountOK(x)) /\ (AnyWalk(s) => AnyWalk(x)) /\ (Over(s) => Over(x))
  BY <1>1 DEF CountOK, AnyWalk, Over, TagEnds, Same
<1> QED BY <1>1, <1>2, <1>3, <1>4 DEF x

\* The end of a walk.
LEMMA FinishMoves ==
  ASSUME TypesInv, gcops = <<>>, NEW s, AsWalker(s), Finish(s), CountOK(s),
         Alive # {} => GoodWalk(s) /\ Over(s)
  PROVE  \E x, ops : w' = x /\ gcops' = ops /\ Moves(x, ops)
<1>0. s \in Walkers /\ Shaped(s) /\ s.ops \in Seq(Ops) /\ OneRef(s.ops) /\ ObjsSafe(s.ops)
  BY DEF AsWalker, Walkers, Shaped
<1>1. CASE s.ops # <<>>
  <2> DEFINE x == [s EXCEPT !.ops = <<>>]
  <2>1. w' = x /\ gcops' = s.ops
    BY <1>0, <1>1, HandOverIs DEF Finish
  <2>2. /\ AsWalker(x) /\ Same(x, s) /\ x.ops = <<>> /\ Refs(x.ops) = {} /\ x.failed = s.failed /\ x.on
        /\ x.activefiles = s.activefiles /\ x.objno = s.objno
        /\ CountOK(x) /\ (AnyWalk(s) => AnyWalk(x)) /\ (Over(s) => Over(x))
    BY <1>0, Emptied DEF AsWalker
  <2> HIDE DEF x
  <2>3. ASSUME Alive # {} PROVE RefsFit(s.ops) /\ GoesOn(x, s.ops)
    <3>1. AnyWalk(s) /\ Over(s) /\ s.gc
      BY <1>1, <2>3 DEF GoodWalk, PlainWalk
    <3>2. GcWalk(s) /\ Fresh(s)
      BY <1>1, <2>3, <3>1 DEF GoodWalk, GcWalk
    <3>3. FreeAfter(s.activeindex)
      <4>1. s.activeindex \in Nat /\ s.fileno \in Nat
        BY <1>0 DEF Walkers
      <4> QED BY <1>0, <3>1, <3>2, <4>1, OverAfter, FreeOn DEF GcWalk, AsWalker
    <3>4. RefsFit(s.ops)
      <4> SUFFICES ASSUME NEW r \in Refs(s.ops)
                   PROVE RefSafe(r) /\ Passed(r.prev) /\ \A a \in InFlight : IsRef(a) => End(a) <= r.prev
        BY DEF RefsFit
      <4>1. r \in RefOps /\ RefGrows(s, r)
        BY <1>0, <3>2, TheRef DEF GcWalk
      <4> QED BY <1>0, <3>1, <3>2, <3>3, <4>1, GrownIsSafe
    <3>5. GcWalk(x)
      BY <2>2, <3>1, <3>2 DEF GcWalk, Same
    <3> QED BY <2>2, <3>1, <3>4, <3>5 DEF GoesOn, GoodWalk, Same
  <2> QED BY <1>0, <2>1, <2>2, <2>3 DEF Moves
<1>2. CASE s.ops = <<>>
  <2>0. gcops' = <<>> /\ <<>> \in Seq(Ops) /\ OneRef(<<>>) /\ ObjsSafe(<<>>) /\ RefsFit(<<>>)
    BY <1>2 DEF Finish, OneRef, ObjsSafe, RefsFit, Refs
  <2>1. CASE Over(s)
    <3>1. w' = NoWalker /\ ~NoWalker.on
      BY <1>2, <2>1 DEF Finish, Over, NoWalker
    <3> QED BY <2>0, <3>1 DEF Moves
  <2>2. CASE ~Over(s)
    <3>1. w' = [s EXCEPT !.failed = TRUE]
      BY <1>2, <2>2 DEF Finish, Over
    <3> DEFINE x == [s EXCEPT !.failed = TRUE]
    <3>2. AsWalker(x) /\ x.failed
      BY <1>0 DEF AsWalker, Walkers, Shaped
    <3> QED BY <2>0, <3>1, <3>2 DEF Moves
  <2> QED BY <2>1, <2>2
<1> QED BY <1>1, <1>2

\* What the FTAG of a file says.
LEMMA FtagIs ==
  ASSUME TypesInv
  PROVE  \A f \in Files : /\ EndOfStream(f) \in BOOLEAN /\ Finalized(f) \in BOOLEAN
                          /\ gctag[f] \in Tag
                          /\ ~HasFtag(f) => f = LastFile
                          /\ EndOfStream(f) => FreeAfter(f)
                          /\ ~Finalized(f) => f = LastFile /\ FreeAfter(f)
<1>1. Files = 0 .. LastFile /\ LastFile \in Nat
  BY StreamShape DEF TypesInv, StreamType
<1>2. FreeAfter(LastFile)
  BY <1>1 DEF FreeAfter
<1>3. \A f \in Files : gctag[f] \in Tag
  BY DEF TypesInv, StorageType
<1> QED BY <1>2, <1>3 DEF HasFtag, EndOfStream, Finalized

\* When there is no ref where the walk goes on, nothing that must be kept lies ahead.
LEMMA NothingAhead ==
  ASSUME TypesInv, NextThere, NEW s \in Walkers, s.fileno \in Files, AnyWalk(s), s.fileno \in refs,
         s.gct = gctag[s.fileno], Target(s) \notin refs
  PROVE  FreeAfter(s.fileno)
<1>1. Files = 0 .. LastFile /\ LastFile \in Nat
  BY StreamShape DEF TypesInv, StreamType
<1>2. NextOf(s.fileno) = Target(s)
  BY DEF NextOf, Target
<1>3. CASE Target(s) \in Files
  BY <1>2, <1>3 DEF NextThere
<1>4. CASE Target(s) \notin Files
  <2> SUFFICES ASSUME NEW g \in Files, g > s.fileno PROVE g \notin Alive
    BY DEF FreeAfter
  <2>1. s.fileno \in Nat /\ s.gct.refcnt \in Nat /\ g \in Nat /\ g <= LastFile
    BY <1>1 DEF Walkers, Tag
  <2>2. s.fileno + 1 + s.gct.refcnt > LastFile
    BY <1>1, <1>4, <2>1 DEF Target
  <2>3. s.fileno + 1 <= g /\ g <= s.fileno + s.gct.refcnt
    BY <1>1, <2>1, <2>2
  <2> QED BY <2>3 DEF AnyWalk, Free
<1> QED BY <1>3, <1>4

\* The deletion of refs notes that the stream ends.
LEMMA SetEosIs ==
  ASSUME NEW ops \in Seq(Ops), OneRef(ops), ObjsSafe(ops), RefOp(ops) # 0
  PROVE  LET new == [ops EXCEPT ![RefOp(ops)].eos = TRUE]
         IN  /\ new \in Seq(Ops) /\ OneRef(new) /\ ObjsSafe(new)
             /\ \E r, q \in RefOps : /\ Refs(new) = {r} /\ Refs(ops) = {q}
                                     /\ r.count = q.count /\ r.fileno = q.fileno /\ r.prev = q.prev
<1> DEFINE i == RefOp(ops)
           r == [ops[i] EXCEPT !.eos = TRUE]
<1>1. i \in 1 .. Len(ops) /\ Refs(ops) = {ops[i]} /\ ops[i] \in RefOps
  BY TheRef
<1>2. IsRef(ops[i])
  BY <1>1 DEF RefOps, IsRef
<1>3. [ops EXCEPT ![RefOp(ops)].eos = TRUE] = [ops EXCEPT ![i] = r]
  BY <1>1
<1>4. r \in RefOps /\ r.count = ops[i].count /\ r.fileno = ops[i].fileno /\ r.prev = ops[i].prev
  BY <1>1 DEF RefOps
<1> HIDE DEF i, r
<1>5. LET new == [ops EXCEPT ![i] = r]
      IN  new \in Seq(Ops) /\ OneRef(new) /\ ObjsSafe(new) /\ Refs(new) = {r} /\ new # <<>>
  BY <1>1, <1>2, <1>4, ReplaceRef
<1> QED BY <1>1, <1>3, <1>4, <1>5

\* a walker at the same place, with the same deletions of refs except for their eos
EosAdded(x, s) ==
  /\ AsWalker(x) /\ x.gc = s.gc /\ x.fileno = s.fileno /\ x.ft = s.ft /\ x.end /\ x.fin = s.fin
  /\ x.gct = s.gct /\ x.activeindex = s.activeindex /\ x.usage = s.usage /\ x.before = s.before
  /\ x.objno = s.objno /\ x.activefiles = s.activefiles /\ x.failed = s.failed
  /\ ~s.gc => x.ops = s.ops
  /\ s.ops = <<>> => x.ops = <<>>
  /\ (\A q \in Refs(s.ops) : \E r \in Refs(x.ops) : q.count = r.count)
  /\ \A r \in Refs(x.ops) : \E q \in Refs(s.ops) :
       r.count = q.count /\ r.fileno = q.fileno /\ r.prev = q.prev
\* The walker notes that the stream ends where it is.
LEMMA EosAddedIs ==
  ASSUME NEW s, AsWalker(s)
  PROVE  EosAdded([s EXCEPT !.end = TRUE,
                            !.ops = IF s.gc /\ RefOp(s.ops) # 0 THEN [s.ops EXCEPT ![RefOp(s.ops)].eos = TRUE]
                                    ELSE s.ops], s)
<1> DEFINE new == IF s.gc /\ RefOp(s.ops) # 0 THEN [s.ops EXCEPT ![RefOp(s.ops)].eos = TRUE] ELSE s.ops
           x   == [s EXCEPT !.end = TRUE, !.ops = new]
<1>0. s \in Walkers /\ s.ops \in Seq(Ops) /\ OneRef(s.ops) /\ ObjsSafe(s.ops)
  BY DEF AsWalker, Walkers, Shaped
<1>1. /\ new \in Seq(Ops) /\ OneRef(new) /\ ObjsSafe(new)
      /\ (\A q \in Refs(s.ops) : \E r \in Refs(new) : q.count = r.count)
      /\ \A r \in Refs(new) : \E q \in Refs(s.ops) :
           r.count = q.count /\ r.fileno = q.fileno /\ r.prev = q.prev
  <2>1. CASE s.gc /\ RefOp(s.ops) # 0
    <3>1. LET y == [s.ops EXCEPT ![RefOp(s.ops)].eos = TRUE]
          IN  /\ y \in Seq(Ops) /\ OneRef(y) /\ ObjsSafe(y)
              /\ \E r, q \in RefOps : /\ Refs(y) = {r} /\ Refs(s.ops) = {q}
                                      /\ r.count = q.count /\ r.fileno = q.fileno /\ r.prev = q.prev
      BY <1>0, <2>1, SetEosIs
    <3> QED BY <2>1, <3>1
  <2>2. CASE ~(s.gc /\ RefOp(s.ops) # 0)
    BY <1>0, <2>2
  <2> QED BY <2>1, <2>2
<1>2. (~s.gc => new = s.ops) /\ (s.ops = <<>> => new = <<>>)
  <2>1. ASSUME s.ops = <<>> PROVE RefOp(s.ops) = 0
    <3>1. Len(s.ops) = 0
      BY <2>1
    <3>2. RefOp(s.ops) = 0 \/ RefOp(s.ops) \in 1 .. Len(s.ops)
      BY <1>0, RefOpIs
    <3> QED BY <3>1, <3>2
  <2> QED BY <2>1
<1>3. /\ x \in Walkers /\ x.ops = new /\ x.end
      /\ x.gc = s.gc /\ x.fileno = s.fileno /\ x.ft = s.ft /\ x.fin = s.fin
      /\ x.gct = s.gct /\ x.activeindex = s.activeindex /\ x.usage = s.usage /\ x.before = s.before
      /\ x.objno = s.objno /\ x.activefiles = s.activefiles /\ x.failed = s.failed
  <2> HIDE DEF new
  <2> QED BY <1>0, <1>1 DEF Walkers
<1> HIDE DEF new, x
<1>4. EosAdded(x, s)
  BY <1>1, <1>2, <1>3 DEF EosAdded, AsWalker, Shaped
<1> QED BY <1>4 DEF new, x

\* The walk finds no next ref.
LEMMA MissingMoves ==
  ASSUME TypesInv, NEW s, AsWalker(s), CountOK(s), Target(s) \notin refs,
         Alive # {} => TagsTrue /\ NextThere /\ GoodWalk(s) /\ ~Over(s)
  PROVE  Moves(Missing(s), <<>>)
<1>0. s \in Walkers /\ Shaped(s) /\ s.fileno \in Files /\ s.ft \in Files /\ s.on
  BY DEF AsWalker, Walkers
<1>a. <<>> \in Seq(Ops) /\ OneRef(<<>>) /\ ObjsSafe(<<>>) /\ RefsFit(<<>>) /\ Refs(<<>>) = {}
  BY DEF OneRef, ObjsSafe, RefsFit, Refs
<1>1. CASE s.fileno = 0 \/ (s.fileno = s.ft /\ ~JustFin(s.ft))
  <2> DEFINE x == [s EXCEPT !.failed = TRUE]
  <2>1. Missing(s) = x
    BY <1>1 DEF Missing
  <2>2. AsWalker(x) /\ x.failed
    BY <1>0 DEF AsWalker, Walkers, Shaped
  <2> QED BY <1>a, <2>1, <2>2 DEF Moves
<1>2. CASE s.fileno # 0 /\ s.fileno = s.ft /\ JustFin(s.ft)
  <2> DEFINE x == [s EXCEPT !.end = TRUE,
                            !.ops = IF s.gc /\ RefOp(s.ops) # 0 THEN [s.ops EXCEPT ![RefOp(s.ops)].eos = TRUE]
                                    ELSE s.ops]
  <2>1. Missing(s) = x
    BY <1>2 DEF Missing
  <2>2. EosAdded(x, s)
    BY EosAddedIs
  <2> HIDE DEF x
  <2>3. AsWalker(x) /\ CountOK(x)
    BY <2>2 DEF EosAdded, CountOK
  <2>4. ASSUME Alive # {} PROVE GoesOn(x, <<>>)
    <3>1. AnyWalk(s) /\ s.fileno \in refs /\ s.gct = gctag[s.fileno] /\ (s.gc => GcWalk(s) /\ Fresh(s))
          /\ (~s.gc => PlainWalk(s))
      <4>1. CASE s.gc
        BY <2>4, <4>1 DEF GoodWalk, GcWalk, Fresh
      <4>2. CASE ~s.gc
        BY <1>2, <2>4, <4>2 DEF GoodWalk, PlainWalk
      <4> QED BY <4>1, <4>2
    <3>2. FreeAfter(s.fileno)
      BY <1>0, <2>4, <3>1, NothingAhead
    <3>3. AnyWalk(x)
      BY <2>2, <3>1, <3>2 DEF AnyWalk, EosAdded
    <3>4. ASSUME s.gc PROVE GcWalk(x) /\ Fresh(x)
      <4>1. Fresh(x)
        BY <2>2, <3>1, <3>4 DEF Fresh, EosAdded
      <4>2. FreeAfter(s.activeindex)
        <5>1. s.activeindex \in Nat /\ s.fileno \in Nat
          BY <1>0 DEF Walkers
        <5> QED BY <3>1, <3>2, <3>4, <5>1, FreeOn DEF GcWalk
      <4>3. Target(x) = Target(s)
        BY <2>2 DEF Target, EosAdded
      <4>4. \A r \in Refs(x.ops) : RefGrows(x, r)
        <5> SUFFICES ASSUME NEW r \in Refs(x.ops) PROVE RefGrows(x, r)
          OBVIOUS
        <5>1. PICK q \in Refs(s.ops) : r.count = q.count /\ r.fileno = q.fileno /\ r.prev = q.prev
          BY <2>2 DEF EosAdded
        <5>2. RefGrows(s, q)
          BY <3>1, <3>4 DEF GcWalk
        <5> QED BY <2>2, <4>2, <4>3, <5>1, <5>2 DEF RefGrows, EosAdded
      <4> QED BY <2>2, <3>1, <3>4, <4>1, <4>4 DEF GcWalk, EosAdded
    <3>5. ASSUME ~s.gc PROVE PlainWalk(x)
      BY <2>2, <3>1, <3>5 DEF PlainWalk, EosAdded
    <3>6. x.gc = s.gc
      BY <2>2 DEF EosAdded
    <3> QED BY <1>a, <3>3, <3>4, <3>5, <3>6 DEF GoesOn, GoodWalk
  <2> QED BY <1>a, <2>1, <2>3, <2>4 DEF Moves
<1>3. CASE s.fileno # 0 /\ s.fileno # s.ft /\ HasFtag(s.fileno)
  <2> DEFINE f == s.fileno
             x == [s EXCEPT !.ft = f, !.gct = gctag[f], !.end = EndOfStream(f), !.fin = Finalized(f)]
  <2>1. /\ EndOfStream(f) \in BOOLEAN /\ Finalized(f) \in BOOLEAN /\ gctag[f] \in Tag
        /\ EndOfStream(f) => FreeAfter(f)
        /\ ~Finalized(f) => f = LastFile
    BY <1>0, FtagIs
  <2>2. Missing(s) = x
    BY <1>3, <2>1 DEF Missing
  <2>3. /\ x \in Walkers /\ x.ops = s.ops /\ x.gc = s.gc /\ x.fileno = f /\ x.ft = f /\ x.end = EndOfStream(f)
        /\ x.fin = Finalized(f) /\ x.gct = gctag[f] /\ x.usage = s.usage /\ x.before = s.before
    BY <1>0, <2>1 DEF Walkers
  <2> HIDE DEF x, f
  <2>4. AsWalker(x) /\ CountOK(x)
    BY <1>0, <2>3 DEF AsWalker, Shaped, CountOK, f
  <2>5. ASSUME Alive # {} PROVE GoesOn(x, <<>>)
    <3>1. ~s.gc /\ PlainWalk(s) /\ AnyWalk(s)
      BY <1>3, <2>5 DEF GoodWalk, GcWalk
    <3>2. AnyWalk(x)
      BY <1>0, <2>1, <2>3, <2>5 DEF AnyWalk, TagsTrue, f
    <3>3. x.ft <= x.fileno
      BY <2>3 DEF Walkers
    <3>4. PlainWalk(x)
      BY <2>3, <3>1, <3>3 DEF PlainWalk, f
    <3> QED BY <2>3, <3>1, <3>2, <3>4 DEF GoesOn, GoodWalk
  <2> QED BY <1>a, <2>2, <2>4, <2>5 DEF Moves
<1>4. CASE s.fileno # 0 /\ s.fileno # s.ft /\ ~HasFtag(s.fileno)
  <2> DEFINE f == s.fileno
             x == [s EXCEPT !.fin = FALSE, !.gct = gctag[f]]
  <2>1. gctag[f] \in Tag /\ f = LastFile
    BY <1>0, <1>4, FtagIs
  <2>2. Missing(s) = x
    BY <1>4 DEF Missing
  <2>3. /\ x \in Walkers /\ x.ops = s.ops /\ x.gc = s.gc /\ x.fileno = f /\ x.ft = s.ft /\ x.end = s.end
        /\ x.fin = FALSE /\ x.gct = gctag[f] /\ x.usage = s.usage /\ x.before = s.before
    BY <1>0, <2>1 DEF Walkers
  <2> HIDE DEF x, f
  <2>4. AsWalker(x) /\ CountOK(x)
    BY <1>0, <2>3 DEF AsWalker, Shaped, CountOK, f
  <2>5. ASSUME Alive # {} PROVE GoesOn(x, <<>>)
    <3>1. ~s.gc /\ PlainWalk(s) /\ AnyWalk(s)
      BY <1>4, <2>5 DEF GoodWalk, GcWalk
    <3>2. AnyWalk(x)
      BY <1>0, <2>1, <2>3, <2>5, <3>1 DEF AnyWalk, TagsTrue, f
    <3>3. PlainWalk(x)
      BY <2>3, <3>1 DEF PlainWalk, f
    <3> QED BY <2>3, <3>1, <3>2, <3>3 DEF GoesOn, GoodWalk
  <2> QED BY <1>a, <2>2, <2>4, <2>5 DEF Moves
<1> QED BY <1>1, <1>2, <1>3, <1>4

\* v: the walker u when it has looked at file f
Visited(v, u, f) ==
  /\ AsWalker(v) /\ v.fileno = f /\ v.ops = u.ops /\ v.gc = u.gc /\ v.before = u.before /\ v.failed = u.failed
  /\ v.activeindex = (IF InUse(u, f) THEN f ELSE u.activeindex)
  /\ v.usage = (IF FileState(f) = 2 THEN u.usage + 1 ELSE u.usage)
  /\ u.gc => /\ v.ft = f /\ v.gct = gctag[f] /\ v.end = EndOfStream(f) /\ v.fin = Finalized(f)
             /\ v.objno = layout[f].endobj
             /\ InUse(u, f) => v.activefiles > 0
             /\ ~InUse(u, f) => v.activefiles = (IF u.objno # layout[f].endobj THEN 0 ELSE u.activefiles)
  /\ ~u.gc => v.gct = NoTag /\ v.ft = u.ft /\ v.end = u.end /\ v.fin = u.fin
\* The walker looks at the next file.
LEMMA VisitIs ==
  ASSUME TypesInv, NEW u, AsWalker(u), NEW f \in Files
  PROVE  Visited(Visit(u, f), u, f)
<1> DEFINE final == IF u.gc THEN layout[f].endobj ELSE u.objno
           n     == IF u.objno # final THEN 0 ELSE u.activefiles
           use   == InUse(u, f)
           known == IF ~u.gc THEN [u EXCEPT !.gct = NoTag]
                    ELSE [u EXCEPT !.ft = f, !.gct = gctag[f], !.end = EndOfStream(f), !.fin = Finalized(f)]
           af    == IF use THEN n + 1 ELSE n
           ai    == IF use THEN f ELSE u.activeindex
           us    == IF FileState(f) = 2 THEN u.usage + 1 ELSE u.usage
           v     == [known EXCEPT !.fileno = f, !.objno = final, !.activefiles = af, !.activeindex = ai,
                                  !.usage = us]
<1>0. /\ u \in Walkers /\ u.objno \in Nat /\ u.activefiles \in Nat /\ u.activeindex \in Nat /\ u.usage \in Nat
      /\ u.gc \in BOOLEAN /\ f \in Nat /\ layout[f].endobj \in Nat /\ u.fileno \in Files
  <2>1. f \in Nat /\ layout[f].endobj \in Nat
    BY StreamShape DEF TypesInv, StreamType
  <2>2. u \in Walkers /\ u.fileno \in Files
    BY DEF AsWalker
  <2> QED BY <2>1, <2>2 DEF Walkers
<1>1. /\ EndOfStream(f) \in BOOLEAN /\ Finalized(f) \in BOOLEAN /\ gctag[f] \in Tag /\ NoTag \in Tag
  BY FtagIs DEF NoTag, Tag
<1>2. /\ known \in Walkers /\ known.activeindex = u.activeindex /\ known.usage = u.usage
      /\ known.ops = u.ops /\ known.gc = u.gc /\ known.before = u.before /\ known.failed = u.failed
      /\ u.gc => known.ft = f /\ known.gct = gctag[f] /\ known.end = EndOfStream(f) /\ known.fin = Finalized(f)
      /\ ~u.gc => known.gct = NoTag /\ known.ft = u.ft /\ known.end = u.end /\ known.fin = u.fin
  <2>1. CASE u.gc
    BY <1>0, <1>1, <2>1 DEF Walkers
  <2>2. CASE ~u.gc
    BY <1>0, <1>1, <2>2 DEF Walkers
  <2> QED BY <2>1, <2>2
<1>3. Visit(u, f) = v
  <2> HIDE DEF final, n, use
  <2>1. Visit(u, f) = [known EXCEPT !.fileno = f, !.objno = final, !.activefiles = IF use THEN n + 1 ELSE n,
                                    !.activeindex = IF use THEN f ELSE @,
                                    !.usage = IF FileState(f) = 2 THEN @ + 1 ELSE @]
    BY DEF Visit, final, n, use
  <2> HIDE DEF known
  <2>3. (IF FileState(f) = 2 THEN known.usage + 1 ELSE known.usage) = us
    BY <1>2
  <2>4. (IF use THEN f ELSE known.activeindex) = ai
    BY <1>2
  <2> QED BY <2>1, <2>3, <2>4
<1>4. final \in Nat /\ n \in Nat /\ af \in Nat /\ ai \in Nat /\ us \in Nat /\ (use => af > 0) /\ (~use => af = n)
  BY <1>0
<1> HIDE DEF known, af, ai, us, final, n, use
<1>5. /\ v \in Walkers /\ v.fileno = f /\ v.objno = final /\ v.activefiles = af /\ v.activeindex = ai /\ v.usage = us
      /\ v.ops = u.ops /\ v.gc = u.gc /\ v.before = u.before /\ v.failed = u.failed
      /\ v.ft = known.ft /\ v.gct = known.gct /\ v.end = known.end /\ v.fin = known.fin
  BY <1>0, <1>2, <1>4 DEF Walkers
<1> HIDE DEF v
<1>6. AsWalker(v)
  <2>1. Shaped(v)
    BY <1>5 DEF AsWalker, Shaped
  <2>2. v.ft \in Files
    BY <1>0, <1>2, <1>5 DEF AsWalker
  <2> QED BY <1>5, <2>1, <2>2 DEF AsWalker
<1>7. Visited(v, u, f)
  BY <1>2, <1>4, <1>5, <1>6 DEF Visited, af, ai, us, final, n, use
<1> QED BY <1>3, <1>7

\* The walker counts a file in use, and no file in use is passed over.
LEMMA CountVisit ==
  ASSUME TypesInv, NEW s, NEW v, NEW f \in Files, s.fileno \in Nat, s.fileno < f, Free(s.fileno + 1, f - 1),
         s.usage \in Nat, s.before \in Nat, CountOK(s),
         v.fileno = f, v.before = s.before, v.usage = IF f \in linked THEN s.usage + 1 ELSE s.usage
  PROVE  CountOK(v)
<1> DEFINE m == s.fileno
<1>1. linked \subseteq Files /\ Files \subseteq Nat
  BY StreamShape DEF TypesInv, StreamType, StorageType
<1>2. \A g \in linked : g \in Nat /\ (g <= m \/ g = f \/ g > f)
  <2> SUFFICES ASSUME NEW g \in linked PROVE g \in Nat /\ (g <= m \/ g = f \/ g > f)
    OBVIOUS
  <2>1. g \in Nat /\ f \in Nat /\ g \in Files
    BY <1>1
  <2>2. ~(m + 1 <= g /\ g <= f - 1)
    BY <2>1 DEF Free, Alive
  <2> QED BY <2>1, <2>2
<1>a. m \in Nat /\ f \in Nat
  BY <1>1
<1>3. /\ IsFiniteSet(Behind(m)) /\ Cardinality(Behind(m)) \in Nat /\ IsFiniteSet(Behind(f))
      /\ IsFiniteSet(Ahead(m)) /\ Cardinality(Ahead(m)) \in Nat
      /\ IsFiniteSet(Ahead(f)) /\ Cardinality(Ahead(f)) \in Nat
  BY FewFiles DEF Behind, Ahead
<1>4. Cardinality(Behind(m)) <= s.usage /\ s.usage + Cardinality(Ahead(m)) <= s.before
  BY DEF CountOK
<1>5. CASE f \in linked
  <2>1. Behind(f) = Behind(m) \cup {f} /\ f \notin Behind(m)
    <3>1. \A g \in linked : g <= f <=> g <= m \/ g = f
      BY <1>a, <1>2
    <3>2. ~(f <= m)
      BY <1>a
    <3> QED BY <1>5, <3>1, <3>2 DEF Behind
  <2>2. Cardinality(Behind(f)) = Cardinality(Behind(m)) + 1
    BY <1>3, <2>1, FS_AddElement
  <2>3. Ahead(m) = Ahead(f) \cup {f} /\ f \notin Ahead(f)
    <3>1. \A g \in linked : g > m <=> g > f \/ g = f
      BY <1>a, <1>2
    <3>2. ~(f > f)
      BY <1>a
    <3> QED BY <1>5, <3>1, <3>2 DEF Ahead
  <2>4. Cardinality(Ahead(m)) = Cardinality(Ahead(f)) + 1
    BY <1>3, <2>3, FS_AddElement
  <2> QED BY <1>3, <1>4, <1>5, <2>2, <2>4 DEF CountOK
<1>6. CASE f \notin linked
  <2>1. Behind(f) = Behind(m) /\ Ahead(f) = Ahead(m)
    <3>1. \A g \in linked : (g <= f <=> g <= m) /\ (g > f <=> g > m)
      BY <1>a, <1>2, <1>6
    <3> QED BY <3>1 DEF Behind, Ahead
  <2> QED BY <1>3, <1>4, <1>6, <2>1 DEF CountOK
<1> QED BY <1>5, <1>6

\* how many files of the present object are known to be in use when file f comes next
Users(s, f) == IF layout[f].objno = s.objno THEN s.activefiles ELSE 0
\* the objects that may go when the walker s comes to file f
MaySweep(s, f) ==
  /\ s.activefiles = 0 /\ layout[f].objno # s.objno => Unheld(s.objno)
  /\ f \notin Alive =>
       /\ Users(s, f) = 0 /\ layout[f].endobj # layout[f].objno => Unheld(layout[f].objno)
       /\ layout[f].endobj # layout[f].objno =>
            \A x \in Nat : layout[f].objno < x /\ x < layout[f].endobj => Unheld(x)
       /\ EosAt(f) /\ (layout[f].endobj # layout[f].objno \/ Users(s, f) = 0) => Unheld(layout[f].endobj)
       /\ layout[f].endobj # layout[f].objno \/ Users(s, f) = 0 =>
            \A g \in Alive : g <= f => layout[f].endobj \notin Span(g)

\* The end of the stream is behind all that must be kept.
LEMMA EosAfter ==
  ASSUME TypesInv, TagsTrue, NEW f \in Files, EosAt(f)
  PROVE  FreeAfter(f)
BY FtagIs DEF EosAt, TagsTrue

\* No file that must be kept has data in the objects the walker leaves behind.
LEMMA SweepSafe ==
  ASSUME TypesInv, NEW s \in Walkers, s.gc, s.fileno \in Files, NEW f \in Files, f = Target(s),
         Alive # {} => TagsTrue /\ GoodWalk(s)
  PROVE  MaySweep(s, f)
<1>1. CASE Alive = {}
  BY <1>1 DEF MaySweep, Unheld
<1>2. CASE Alive # {}
  <2>0. AnyWalk(s) /\ GcWalk(s) /\ TagsTrue
    BY <1>2 DEF GoodWalk
  <2>1. /\ Files \subseteq Nat
        /\ \A g \in Files : /\ layout[g].objno \in Nat /\ layout[g].endobj \in Nat
                            /\ layout[g].objno <= layout[g].endobj
        /\ \A g, h \in Files : g < h => layout[g].endobj <= layout[h].objno
    BY StreamShape DEF TypesInv, StreamType
  <2> DEFINE first == layout[f].objno
             final == layout[f].endobj
             m == s.fileno
             o == s.objno
  <2>2. /\ first \in Nat /\ final \in Nat /\ first <= final /\ m \in Nat /\ m < f /\ f \in Nat
        /\ o = layout[m].endobj /\ o \in Nat /\ o <= first
    <3>1. m \in Nat /\ s.gct.refcnt \in Nat /\ f \in Nat
      BY <2>1 DEF Walkers, Tag
    <3>2. m < f
      BY <3>1 DEF Target
    <3> QED BY <2>0, <2>1, <3>1, <3>2 DEF GcWalk
  <2>3. ASSUME NEW g \in Alive
        PROVE  /\ g \in Files /\ g \in Nat /\ (g <= m \/ g >= f)
               /\ g <= m => layout[g].endobj <= o
               /\ g > f => final <= layout[g].objno
    <3>1. g \in Files /\ g \in Nat
      BY <2>1 DEF Alive, TypesInv, StorageType
    <3>2. ~(m + 1 <= g /\ g <= m + s.gct.refcnt)
      BY <2>0, <3>1 DEF AnyWalk, Free
    <3>3. s.gct.refcnt \in Nat
      BY DEF Walkers, Tag
    <3>4. g <= m \/ g >= f
      BY <2>2, <3>1, <3>2, <3>3 DEF Target
    <3>5. ASSUME g < m PROVE layout[g].endobj <= o
      BY <2>1, <2>2, <3>1, <3>5
    <3>6. g > f => final <= layout[g].objno
      BY <2>1, <2>2, <3>1
    <3> QED BY <2>2, <3>1, <3>4, <3>5, <3>6
  <2>5. ASSUME NEW g \in Files, NEW x, x \in Span(g)
        PROVE  x \in Nat /\ layout[g].objno <= x /\ x <= layout[g].endobj
    <3>1. layout[g].objno \in Nat /\ layout[g].endobj \in Nat
      BY <2>1
    <3>2. x \in layout[g].objno .. layout[g].endobj
      BY <2>5 DEF Span
    <3> QED BY <3>1, <3>2
  <2>6. ASSUME s.activefiles = 0, first # o PROVE Unheld(o)
    <3> SUFFICES ASSUME NEW g \in Alive, o \in Span(g) PROVE FALSE
      BY DEF Unheld
    <3>1. CASE g <= m
      BY <2>0, <2>6, <3>1 DEF GcWalk
    <3>2. CASE g = f
      BY <2>2, <2>3, <2>5, <2>6, <3>2
    <3>3. CASE g > f
      BY <2>1, <2>2, <2>3, <2>5, <2>6, <3>3
    <3> QED BY <2>2, <2>3, <3>1, <3>2, <3>3
  <2>7. ASSUME f \notin Alive, NEW g \in Alive, g <= f
        PROVE  /\ layout[g].endobj <= first /\ g <= m
               /\ Users(s, f) = 0 => first \notin Span(g)
    <3>1. g <= m /\ layout[g].endobj <= o
      BY <2>2, <2>3, <2>7
    <3>2. layout[g].endobj \in Nat
      BY <2>1, <2>3
    <3>3. ASSUME Users(s, f) = 0, first \in Span(g) PROVE FALSE
      <4>1. first <= layout[g].endobj
        BY <2>3, <2>5, <3>3
      <4>2. first = o
        BY <2>2, <3>1, <3>2, <4>1
      <4>3. s.activefiles = 0
        BY <3>3, <4>2 DEF Users
      <4> QED BY <2>0, <3>1, <3>3, <4>2, <4>3 DEF GcWalk
    <3> QED BY <2>2, <3>1, <3>2, <3>3
  <2>8. ASSUME f \notin Alive, NEW x \in Nat, first <= x, x < final, x # first \/ Users(s, f) = 0
        PROVE  Unheld(x)
    <3> SUFFICES ASSUME NEW g \in Alive, x \in Span(g) PROVE FALSE
      BY DEF Unheld
    <3>1. g \in Files /\ g \in Nat /\ layout[g].objno <= x /\ x <= layout[g].endobj
          /\ layout[g].objno \in Nat /\ layout[g].endobj \in Nat
      BY <2>1, <2>3, <2>5
    <3>2. CASE g <= f
      BY <2>2, <2>7, <2>8, <3>1, <3>2
    <3>3. CASE g > f
      BY <2>2, <2>3, <2>8, <3>1, <3>3
    <3> QED BY <2>2, <3>1, <3>2, <3>3
  <2>9. ASSUME f \notin Alive, final # first \/ Users(s, f) = 0, NEW g \in Alive, g <= f
        PROVE  final \notin Span(g)
    <3>1. ASSUME final \in Span(g) PROVE FALSE
      <4>1. final <= layout[g].endobj /\ layout[g].endobj \in Nat
        BY <2>1, <2>3, <2>5, <3>1
      <4>2. final = first
        BY <2>2, <2>7, <2>9, <4>1
      <4> QED BY <2>7, <2>9, <3>1, <4>2
    <3> QED BY <3>1
  <2>10. ASSUME f \notin Alive, EosAt(f), final # first \/ Users(s, f) = 0 PROVE Unheld(final)
    <3>1. FreeAfter(f)
      BY <2>0, <2>10, EosAfter
    <3> SUFFICES ASSUME NEW g \in Alive PROVE final \notin Span(g)
      BY DEF Unheld
    <3>2. g <= f
      BY <2>2, <2>3, <3>1 DEF FreeAfter
    <3> QED BY <2>9, <2>10, <3>2
  <2>11. ASSUME f \notin Alive, Users(s, f) = 0, final # first PROVE Unheld(first)
    BY <2>2, <2>8, <2>11
  <2>12. ASSUME f \notin Alive, NEW x \in Nat, first < x, x < final PROVE Unheld(x)
    BY <2>2, <2>8, <2>12
  <2> QED BY <2>6, <2>9, <2>10, <2>11, <2>12 DEF MaySweep
<1> QED BY <1>1, <1>2

\* The next file, when nothing between it and the walker must be kept.
LEMMA TargetIs ==
  ASSUME TypesInv, NEW s, AsWalker(s), Target(s) \in refs, Alive # {} => AnyWalk(s)
  PROVE  /\ Target(s) \in Files /\ Target(s) \in Nat /\ s.fileno \in Nat /\ s.fileno < Target(s)
         /\ Free(s.fileno + 1, Target(s) - 1)
<1>1. s.fileno \in Nat /\ s.gct.refcnt \in Nat
  BY DEF AsWalker, Walkers, Tag
<1>2. Target(s) = s.fileno + 1 + s.gct.refcnt /\ Target(s) - 1 = s.fileno + s.gct.refcnt
  BY <1>1 DEF Target
<1>3. Free(s.fileno + 1, Target(s) - 1)
  <2>1. CASE Alive = {}
    BY <2>1 DEF Free
  <2>2. CASE Alive # {}
    BY <1>2, <2>2 DEF AnyWalk
  <2> QED BY <2>1, <2>2
<1>4. Target(s) \in Files
  BY DEF TypesInv, StorageType
<1> QED BY <1>1, <1>2, <1>3, <1>4

\* the GCTAG the walker read last does not tell of a deletion of refs in progress
Settled(s) == ~(s.gct.refcnt > 0 /\ s.gct.inprog)
\* the walker s goes on to file f
WalksAt(s, f) ==
  /\ AsWalker(s) /\ CountOK(s) /\ f = Target(s) /\ f \in refs /\ ~s.end /\ s.fin
  /\ s.gc => Settled(s)
  /\ Alive # {} => Storing /\ Working /\ GoodWalk(s) /\ ~Over(s)

\* Such a GCTAG right where the walker is tells of no ref that exists.
LEMMA NoRefBetween ==
  ASSUME TypesInv, Working, NEW s \in Walkers, Fresh(s), Settled(s)
  PROVE  \A g \in refs : ~(s.fileno < g /\ g < Target(s))
<1> SUFFICES ASSUME NEW g \in refs, s.fileno < g, g < Target(s) PROVE FALSE
  OBVIOUS
<1>0. s.fileno \in Nat /\ s.gct.refcnt \in Nat /\ g \in Nat
  BY StreamShape DEF Walkers, Tag, TypesInv, StreamType, StorageType
<1>1. g <= s.fileno + gctag[s.fileno].refcnt /\ s.fileno \in refs /\ s.gct = gctag[s.fileno]
  BY <1>0 DEF Target, Fresh
<1>2. gctag[s.fileno].inprog
  BY <1>1 DEF Working, TagsTight
<1>3. s.gct.refcnt > 0
  BY <1>0 DEF Target
<1> QED BY <1>1, <1>2, <1>3 DEF Settled

\* No GCTAG leads over the file where the walk goes on.
LEMMA TargetPassed ==
  ASSUME TypesInv, Working, NEW s \in Walkers, Fresh(s), Settled(s)
  PROVE  Passed(Target(s))
<1> SUFFICES ASSUME NEW p \in refs, p < Target(s) PROVE NextOf(p) <= Target(s)
  BY DEF Passed
<1>0. s.fileno \in Nat /\ s.gct.refcnt \in Nat /\ p \in Nat /\ gctag[p].refcnt \in Nat
  BY StreamShape DEF Walkers, Tag, TypesInv, StreamType, StorageType
<1>1. CASE p < s.fileno
  <2>1. NextOf(p) <= s.fileno
    BY <1>1 DEF Fresh, Passed
  <2> QED BY <1>0, <2>1 DEF Target, NextOf
<1>2. CASE p = s.fileno
  BY <1>0, <1>2 DEF Target, NextOf, Fresh
<1>3. CASE p > s.fileno
  BY <1>3, NoRefBetween
<1> QED BY <1>0, <1>1, <1>2, <1>3

\* What the walker reads of a file is true.
LEMMA ReadsAny ==
  ASSUME TypesInv, TagsTrue, NEW u, NEW v, NEW f \in Files, Visited(v, u, f), u.gc
  PROVE  AnyWalk(v)
<1>1. v.fileno = f /\ v.gct = gctag[f] /\ v.end = EndOfStream(f) /\ v.fin = Finalized(f)
  BY DEF Visited
<1> QED BY <1>1, FtagIs DEF AnyWalk, TagsTrue

\* A deletion of refs that only notes that object 0 goes.
LEMMA FirstIsSafe ==
  ASSUME TypesInv, Working, NEW s \in Walkers, AnyWalk(s), GcWalk(s), Fresh(s), Settled(s), s.activefiles = 0,
         Refs(s.ops) = {}, NEW f, f = Target(s), f \in refs, NEW r \in RefOps, FreshRef(r, f)
  PROVE  RefSafe(r) /\ Passed(r.prev) /\ (\A a \in InFlight : IsRef(a) => End(a) <= r.prev) /\ End(r) = f
<1>1. s.fileno \in Nat /\ s.activeindex \in Nat /\ s.gct.refcnt \in Nat
  BY DEF Walkers, Tag
<1>2. s.activeindex = 0 /\ s.fileno = 0
  BY <1>1 DEF Fresh, GcWalk
<1>3. r.count = 0 /\ r.fileno = f /\ r.prev = 0 /\ ~r.eos
  BY DEF FreshRef
<1>4. f = 1 + s.gct.refcnt /\ f \in Nat
  BY <1>1, <1>2 DEF Target
<1>5. End(r) = f
  <2>1. End(r) = IF r.fileno > r.prev + 1 THEN r.fileno ELSE r.prev + 1
    BY <1>3, EndIs
  <2>2. End(r) = IF f > 0 + 1 THEN f ELSE 0 + 1
    BY <1>3, <2>1
  <2>3. f >= 1
    BY <1>1, <1>4
  <2> QED BY <1>4, <2>2, <2>3
<1>6. r.prev \in refs /\ r.prev \in Files
  BY <1>2, <1>3 DEF Fresh, TypesInv, StorageType
<1>7. Free(r.prev + 1, End(r) - 1)
  BY <1>1, <1>2, <1>3, <1>4, <1>5 DEF AnyWalk
<1>8. \A g \in refs : ~(r.prev < g /\ g < r.fileno)
  BY <1>2, <1>3, NoRefBetween
<1>9. RefSafe(r)
  BY <1>3, <1>5, <1>6, <1>7, <1>8 DEF RefSafe
<1> QED BY <1>2, <1>3, <1>5, <1>9 DEF Fresh

\* A walker that reads the xattrs comes to a file in use.
LEMMA InUseMoves ==
  ASSUME TypesInv, NEW s, NEW f, WalksAt(s, f), InUse(s, f), s.gc, NEW v,
         v = Visit(LeaveObject(s, f), f)
  PROVE  v \in Walkers /\ Moves([v EXCEPT !.ops = <<>>], v.ops)
<1> DEFINE t == LeaveObject(s, f)
           x == [v EXCEPT !.ops = <<>>]
<1>0. s \in Walkers /\ AsWalker(s) /\ Shaped(s) /\ CountOK(s) /\ s.fileno \in Files /\ s.ft \in Files
  BY DEF WalksAt, AsWalker
<1>1. /\ f \in Files /\ f \in Nat /\ s.fileno \in Nat /\ s.fileno < f /\ Free(s.fileno + 1, f - 1)
      /\ layout[f].objno \in Nat
  <2>1. Alive # {} => AnyWalk(s)
    BY DEF WalksAt, GoodWalk
  <2> QED BY <1>0, <2>1, TargetIs, StreamShape DEF WalksAt, TypesInv, StreamType
<1>2. MaySweep(s, f)
  BY <1>0, <1>1, SweepSafe DEF WalksAt, Storing
<1>3. Left(t, s, f)
  BY <1>0, <1>1, <1>2, LeaveObjectIs DEF MaySweep
<1> HIDE DEF t
<1>4. AsWalker(t) /\ t.gc = s.gc /\ t.usage = s.usage /\ t.before = s.before
  BY <1>0, <1>3 DEF Left, Same, AsWalker
<1>5. Visited(v, t, f)
  BY <1>1, <1>4, VisitIs DEF t
<1>6. InUse(t, f)
  BY <1>4 DEF InUse, Volatile
<1>7. AsWalker(v) /\ v \in Walkers /\ Shaped(v) /\ v.fileno \in Files /\ v.ft \in Files
      /\ v.ops \in Seq(Ops) /\ OneRef(v.ops) /\ ObjsSafe(v.ops) /\ v.ops = t.ops
  BY <1>5 DEF Visited, AsWalker, Walkers, Shaped
<1>8. CountOK(v)
  <2>1. v.usage = IF f \in linked THEN s.usage + 1 ELSE s.usage
    BY <1>4, <1>5 DEF Visited, FileState, WalksAt
  <2>2. s.usage \in Nat /\ s.before \in Nat
    BY <1>0 DEF Walkers
  <2> QED BY <1>0, <1>1, <1>4, <1>5, <2>1, <2>2, CountVisit DEF Visited
<1>9. /\ AsWalker(x) /\ Same(x, v) /\ x.ops = <<>> /\ Refs(x.ops) = {} /\ x.failed = v.failed /\ x.on
      /\ x.activefiles = v.activefiles /\ x.objno = v.objno
      /\ CountOK(x) /\ (AnyWalk(v) => AnyWalk(x))
  BY <1>7, <1>8, Emptied
<1> HIDE DEF x
<1>10. ASSUME Alive # {} PROVE RefsFit(v.ops) /\ GoesOn(x, v.ops)
  <2>0. TagsTrue /\ Working /\ AnyWalk(s) /\ GcWalk(s) /\ Fresh(s) /\ Settled(s)
    BY <1>10 DEF WalksAt, Storing, GoodWalk, GcWalk
  <2>1. ASSUME NEW r \in Refs(v.ops)
        PROVE RefSafe(r) /\ Passed(r.prev) /\ (\A a \in InFlight : IsRef(a) => End(a) <= r.prev) /\ End(r) = f
    <3>0. r \in Refs(t.ops) /\ r \in RefOps
      BY <1>7, <2>1, TheRef
    <3>1. CASE Kin(t.ops, s.ops)
      <4>1. PICK q \in Refs(s.ops) : AsRef(r, q)
        BY <3>0, <3>1 DEF Kin
      <4>2. q \in RefOps /\ RefGrows(s, q)
        <5>1. s.ops \in Seq(Ops) /\ OneRef(s.ops)
          BY <1>0 DEF Walkers, Shaped
        <5> QED BY <2>0, <4>1, <5>1, TheRef DEF GcWalk
      <4>3. RefSafe(q) /\ Passed(q.prev) /\ (\A a \in InFlight : IsRef(a) => End(a) <= q.prev) /\ End(q) = f
        BY <1>0, <2>0, <4>2, GrownIsSafe DEF WalksAt
      <4>4. r.prev = q.prev
        BY <4>1 DEF AsRef
      <4> QED BY <4>1, <4>3, <4>4, KinGrows
    <3>2. CASE /\ s.gc /\ s.objno = 0 /\ s.activefiles = 0 /\ Refs(s.ops) = {}
               /\ \E q \in RefOps : Refs(t.ops) = {q} /\ FreshRef(q, f)
      <4>1. FreshRef(r, f)
        BY <3>0, <3>2
      <4> QED BY <1>0, <2>0, <3>0, <3>2, <4>1, FirstIsSafe DEF WalksAt
    <3> QED BY <1>3, <3>1, <3>2 DEF Left
  <2>2. /\ v.gc /\ v.fileno = f /\ v.ft = f /\ v.gct = gctag[f] /\ v.objno = layout[f].endobj
        /\ v.activefiles > 0 /\ v.activeindex = f
    BY <1>4, <1>5, <1>6 DEF Visited
  <2>3. AnyWalk(v)
    BY <1>1, <1>4, <1>5, <2>0, ReadsAny
  <2>4. Passed(f)
    BY <1>0, <2>0, TargetPassed DEF WalksAt
  <2>5. \A a \in InFlight : IsRef(a) => End(a) <= f
    <3> SUFFICES ASSUME NEW a \in InFlight, IsRef(a) PROVE End(a) <= f
      OBVIOUS
    <3>1. End(a) <= s.activeindex /\ s.activeindex <= s.fileno
      BY <2>0 DEF Fresh, GcWalk
    <3>2. a \in RefOps
      BY OpKinds DEF InFlight
    <3>3. End(a) \in Nat /\ s.activeindex \in Nat
      BY <1>0, <3>2, EndIs DEF Walkers
    <3> QED BY <1>1, <3>1, <3>3
  <2>6. Fresh(x)
    BY <1>9, <2>2, <2>4, <2>5 DEF Fresh, Same, WalksAt
  <2>7. Free(f + 1, f)
    BY <1>1, StreamShape DEF Free, TypesInv, StreamType
  <2>8. v.activefiles \in Nat
    BY <1>7 DEF Walkers
  <2>9. GcWalk(x)
    BY <1>1, <1>9, <2>2, <2>6, <2>7, <2>8 DEF GcWalk, Same
  <2>10. RefsFit(v.ops)
    BY <2>1 DEF RefsFit
  <2>11. \A r \in Refs(v.ops) : End(r) <= x.activeindex
    BY <1>1, <1>9, <2>1, <2>2 DEF Same
  <2> QED BY <1>9, <2>2, <2>3, <2>6, <2>9, <2>10, <2>11 DEF GoesOn, GoodWalk, Same
<1>11. Moves(x, v.ops)
  BY <1>7, <1>9, <1>10 DEF Moves
<1> QED BY <1>7, <1>11 DEF x

\* A walker that only counts comes to a file.
LEMMA PlainMoves ==
  ASSUME TypesInv, NEW s, NEW f, WalksAt(s, f), ~s.gc, NEW v,
         v = Visit(LeaveObject(s, f), f)
  PROVE  v \in Walkers /\ Moves([v EXCEPT !.ops = <<>>], v.ops)
<1> DEFINE x == [v EXCEPT !.ops = <<>>]
<1>0. s \in Walkers /\ AsWalker(s) /\ Shaped(s) /\ CountOK(s) /\ s.fileno \in Files /\ s.ft \in Files
  BY DEF WalksAt, AsWalker
<1>1. /\ f \in Files /\ f \in Nat /\ s.fileno \in Nat /\ s.fileno < f /\ Free(s.fileno + 1, f - 1)
  <2>1. Alive # {} => AnyWalk(s)
    BY DEF WalksAt, GoodWalk
  <2> QED BY <1>0, <2>1, TargetIs DEF WalksAt
<1>2. LeaveObject(s, f) = s
  BY DEF LeaveObject
<1>3. Visited(v, s, f)
  BY <1>0, <1>1, <1>2, VisitIs
<1>4. AsWalker(v) /\ v \in Walkers /\ Shaped(v) /\ v.fileno \in Files /\ v.ft \in Files
      /\ v.ops \in Seq(Ops) /\ OneRef(v.ops) /\ ObjsSafe(v.ops) /\ v.ops = s.ops
  BY <1>3 DEF Visited, AsWalker, Walkers, Shaped
<1>5. CountOK(v)
  <2>1. v.usage = IF f \in linked THEN s.usage + 1 ELSE s.usage
    BY <1>3 DEF Visited, FileState, WalksAt
  <2>2. s.usage \in Nat /\ s.before \in Nat
    BY <1>0 DEF Walkers
  <2> QED BY <1>0, <1>1, <1>3, <2>1, <2>2, CountVisit DEF Visited
<1>6. /\ AsWalker(x) /\ Same(x, v) /\ x.ops = <<>> /\ Refs(x.ops) = {} /\ x.failed = v.failed /\ x.on
      /\ CountOK(x) /\ (AnyWalk(v) => AnyWalk(x))
  BY <1>4, <1>5, Emptied
<1> HIDE DEF x
<1>7. ASSUME Alive # {} PROVE RefsFit(v.ops) /\ GoesOn(x, v.ops)
  <2>0. AnyWalk(s) /\ PlainWalk(s)
    BY <1>7 DEF WalksAt, GoodWalk
  <2>1. v.ops = <<>> /\ RefsFit(v.ops)
    BY <1>4, <2>0 DEF PlainWalk, RefsFit, Refs
  <2>2. v.fileno = f /\ v.gct = NoTag /\ v.ft = s.ft /\ v.end = s.end /\ v.fin = s.fin /\ ~v.gc
    BY <1>3 DEF Visited
  <2>3. NoTag.refcnt = 0 /\ ~NoTag.eos
    BY DEF NoTag
  <2>4. Free(f + 1, f + 0)
    BY <1>1, StreamShape DEF Free, TypesInv, StreamType
  <2>5. AnyWalk(v)
    BY <2>2, <2>3, <2>4 DEF AnyWalk, WalksAt
  <2>6. s.ft \in Nat /\ s.ft <= s.fileno
    BY <1>0, <2>0 DEF PlainWalk, Walkers
  <2>7. s.ft < f
    BY <1>1, <2>6
  <2>8. PlainWalk(x)
    BY <1>1, <1>6, <2>0, <2>2, <2>6, <2>7 DEF PlainWalk, Same, WalksAt
  <2> QED BY <1>6, <2>1, <2>2, <2>5, <2>8 DEF GoesOn, GoodWalk, Same
<1>8. Moves(x, v.ops)
  BY <1>4, <1>6, <1>7 DEF Moves
<1> QED BY <1>4, <1>8 DEF x

\* The deletion of refs of a walk grows by a file that is garbage.
LEMMA GarbageGrows ==
  ASSUME TypesInv, TagsTrue, Working, NEW s \in Walkers, AnyWalk(s), GcWalk(s), Fresh(s), Settled(s),
         NEW f \in Files, f = Target(s), s.fileno < f, Free(s.fileno + 1, f - 1), f \notin Alive,
         NEW t, Left(t, s, f), NEW v, v.activeindex = s.activeindex, Target(v) = f + 1 + gctag[f].refcnt,
         NEW r \in RefOps, gctag[f].refcnt \in Nat,
         NoCount(t.ops) => /\ r.count = 1 + gctag[f].refcnt /\ r.fileno = f /\ r.prev = t.activeindex
                           /\ r.eos = EosAt(f),
         ~NoCount(t.ops) => \E q \in RefOps :
                              /\ Refs(t.ops) = {q} /\ q.count > 0
                              /\ r.count = q.count + (1 + gctag[f].refcnt) /\ r.fileno = q.fileno
                              /\ r.prev = q.prev /\ (r.eos => q.eos \/ EosAt(f))
  PROVE  RefGrows(v, r) /\ r.count > 0
<1> DEFINE n == gctag[f].refcnt
<1>0. s.fileno \in Nat /\ s.activeindex \in Nat /\ f \in Nat /\ s.activeindex <= s.fileno /\ n \in Nat
  BY StreamShape DEF Walkers, GcWalk, TypesInv, StreamType
<1>1. Free(s.activeindex + 1, f)
  <2> SUFFICES ASSUME NEW g \in Files, s.activeindex + 1 <= g, g <= f PROVE g \notin Alive
    BY DEF Free
  <2>1. g \in Nat
    BY StreamShape DEF TypesInv, StreamType
  <2>2. CASE g <= s.fileno
    BY <2>2 DEF GcWalk, Free
  <2>3. CASE s.fileno + 1 <= g /\ g <= f - 1
    BY <2>3 DEF Free
  <2> QED BY <1>0, <2>1, <2>2, <2>3
<1>2. EosAt(f) => FreeAfter(s.activeindex)
  BY <1>0, <1>1, EosAfter, FreeOn
<1>3. CASE NoCount(t.ops)
  <2>1. NoCount(s.ops)
    <3>1. CASE Kin(t.ops, s.ops)
      BY <1>3, <3>1 DEF NoCount, Kin, AsRef
    <3>2. CASE Refs(s.ops) = {}
      BY <3>2 DEF NoCount
    <3> QED BY <3>1, <3>2 DEF Left
  <2>2. s.activeindex = s.fileno
    BY <2>1 DEF Fresh, NoCount
  <2>3. \A g \in refs : ~(s.fileno < g /\ g < f)
    BY <2>2, NoRefBetween
  <2>4. r.prev = s.activeindex /\ r.count = 1 + n /\ r.fileno = f /\ r.eos = EosAt(f)
    BY <1>3 DEF Left, Same
  <2>5. r.count > 0 /\ r.fileno + r.count = f + 1 + n
    BY <1>0, <2>4
  <2> QED BY <1>2, <2>2, <2>3, <2>4, <2>5 DEF RefGrows
<1>4. CASE ~NoCount(t.ops)
  <2>1. PICK q \in RefOps :
          /\ Refs(t.ops) = {q} /\ q.count > 0
          /\ r.count = q.count + (1 + n) /\ r.fileno = q.fileno
          /\ r.prev = q.prev /\ (r.eos => q.eos \/ EosAt(f))
    BY <1>4
  <2>2. Kin(t.ops, s.ops)
    <3>1. CASE \E p \in RefOps : Refs(t.ops) = {p} /\ FreshRef(p, f)
      <4>1. PICK p \in RefOps : Refs(t.ops) = {p} /\ FreshRef(p, f)
        BY <3>1
      <4>2. p = q
        BY <2>1, <4>1
      <4>3. p.count = 0
        BY <4>1 DEF FreshRef
      <4> QED BY <2>1, <4>2, <4>3
    <3> QED BY <3>1 DEF Left
  <2>3. RefGrows(s, q)
    <3>1. PICK p \in Refs(s.ops) : AsRef(q, p)
      BY <2>1, <2>2 DEF Kin
    <3> QED BY <3>1, KinGrows DEF GcWalk
  <2>4. q.prev = s.activeindex /\ (q.eos => FreeAfter(q.prev)) /\ q.fileno > q.prev
        /\ q.fileno + q.count = f /\ \A g \in refs : ~(q.prev < g /\ g < q.fileno)
    BY <2>1, <2>3 DEF RefGrows
  <2>5. q.fileno \in Nat /\ q.count \in Nat
    BY DEF RefOps
  <2>6. r.count > 0 /\ r.fileno + r.count = f + 1 + n
    BY <1>0, <2>1, <2>4, <2>5
  <2>7. r.eos => FreeAfter(r.prev)
    BY <1>2, <2>1, <2>4
  <2> QED BY <2>1, <2>4, <2>6, <2>7 DEF RefGrows
<1> QED BY <1>3, <1>4

\* A walker that reads the xattrs comes to a file that is garbage.
LEMMA GarbageMoves ==
  ASSUME TypesInv, NEW s, NEW f, WalksAt(s, f), Garbage(s, f), NEW v,
         v = Visit(GarbageObjs(GarbageRef(LeaveObject(s, f), f), f), f)
  PROVE  Moves(v, <<>>) /\ v \in Walkers
<1> DEFINE t == LeaveObject(s, f)
           u == GarbageRef(t, f)
           g == GarbageObjs(u, f)
           n == gctag[f].refcnt
<1>0. s \in Walkers /\ AsWalker(s) /\ Shaped(s) /\ CountOK(s) /\ s.fileno \in Files /\ s.ft \in Files /\ s.gc
  BY DEF WalksAt, AsWalker, Garbage
<1>a. f \in refs /\ f \notin linked /\ f \notin Alive /\ ~InUse(s, f)
  BY DEF Garbage, FileState, Old, Alive, InUse, Volatile, TypesInv, StorageType
<1>1. /\ f \in Files /\ f \in Nat /\ s.fileno \in Nat /\ s.fileno < f /\ Free(s.fileno + 1, f - 1)
      /\ layout[f].objno \in Nat /\ layout[f].endobj \in Nat /\ n \in Nat /\ 1 + n \in Nat /\ f = Target(s)
  <2>1. Alive # {} => AnyWalk(s)
    BY DEF WalksAt, GoodWalk
  <2>2. /\ f \in Files /\ f \in Nat /\ s.fileno \in Nat /\ s.fileno < f /\ Free(s.fileno + 1, f - 1)
        /\ f = Target(s)
    BY <1>0, <2>1, TargetIs DEF WalksAt
  <2>3. layout[f].objno \in Nat /\ layout[f].endobj \in Nat
    BY <2>2, StreamShape DEF TypesInv, StreamType
  <2>4. n \in Nat
    BY <2>2, FtagIs DEF Tag
  <2> QED BY <2>2, <2>3, <2>4
<1>b. EosAt(f) \in BOOLEAN
  BY DEF EosAt
<1>2. MaySweep(s, f)
  BY <1>0, <1>1, SweepSafe DEF WalksAt, Storing
<1>3. Left(t, s, f)
  BY <1>0, <1>1, <1>2, LeaveObjectIs DEF MaySweep
<1> HIDE DEF t
<1>4. /\ t \in Walkers /\ Shaped(t) /\ Same(t, s) /\ t.objno = layout[f].objno /\ t.activefiles = Users(s, f)
  BY <1>0, <1>3 DEF Left, Users
<1>5. /\ u \in Walkers /\ Shaped(u) /\ Same(u, t) /\ u.objno = t.objno /\ u.activefiles = t.activefiles
      /\ \E r \in RefOps :
           /\ Refs(u.ops) = {r}
           /\ NoCount(t.ops) => r.count = 1 + n /\ r.fileno = f /\ r.prev = t.activeindex /\ r.eos = EosAt(f)
           /\ ~NoCount(t.ops) =>
                \E q \in RefOps :
                  /\ Refs(t.ops) = {q} /\ q.count > 0
                  /\ r.count = q.count + (1 + n) /\ r.fileno = q.fileno /\ r.prev = q.prev
                  /\ r.eos => q.eos \/ EosAt(f)
  <2> DEFINE m == 1 + n
             eos == EosAt(f)
  <2>1. u = DeleteRef(t, f, f, m, eos)
    BY DEF GarbageRef
  <2>2. m \in Nat /\ eos \in BOOLEAN
    BY <1>1, <1>b
  <2> HIDE DEF u, n, m, eos
  <2>3. /\ u \in Walkers /\ Shaped(u) /\ Same(u, t) /\ u.objno = t.objno /\ u.activefiles = t.activefiles
        /\ \E r \in RefOps :
             /\ Refs(u.ops) = {r}
             /\ NoCount(t.ops) => r.count = m /\ r.fileno = f /\ r.prev = t.activeindex /\ r.eos = eos
             /\ ~NoCount(t.ops) =>
                  \E q \in RefOps :
                    /\ Refs(t.ops) = {q} /\ q.count > 0
                    /\ r.count = q.count + m /\ r.fileno = q.fileno /\ r.prev = q.prev
                    /\ r.eos => q.eos \/ eos
    <3>1. Joined(u, t, f, m, eos)
      BY <1>1, <1>4, <2>1, <2>2, DeleteRefIs
    <3> QED BY <3>1 DEF Joined
  <2> QED BY <2>3 DEF m, eos
<1> HIDE DEF u
<1>6. Swept(g, u)
  <2>1. /\ u.activefiles = 0 /\ layout[f].endobj # u.objno => Unheld(layout[f].objno)
        /\ layout[f].endobj # u.objno =>
             \A x \in Nat : layout[f].objno < x /\ x < layout[f].endobj => Unheld(x)
        /\ EosAt(f) /\ (layout[f].endobj # u.objno \/ u.activefiles = 0) => Unheld(layout[f].endobj)
    BY <1>2, <1>4, <1>5, <1>a DEF MaySweep
  <2> QED BY <1>1, <1>5, <2>1, GarbageObjsIs
<1> HIDE DEF g
<1>7. /\ AsWalker(g) /\ Same(g, s) /\ g.gc /\ g.objno = layout[f].objno /\ g.activefiles = Users(s, f)
      /\ Kin(g.ops, u.ops)
  BY <1>0, <1>4, <1>5, <1>6 DEF Swept, Same, AsWalker
<1>8. Visited(v, g, f) /\ ~InUse(g, f)
  <2>1. v = Visit(g, f)
    BY DEF g, u, t
  <2> QED BY <1>1, <1>7, <1>0, <1>a, <2>1, VisitIs DEF InUse, Volatile, Same
<1>9. /\ AsWalker(v) /\ v \in Walkers /\ v.fileno = f /\ v.ft = f /\ v.gct = gctag[f] /\ v.gc
      /\ v.objno = layout[f].endobj /\ v.activeindex = s.activeindex /\ v.ops = g.ops
      /\ v.activefiles = (IF layout[f].objno # layout[f].endobj THEN 0 ELSE Users(s, f))
      /\ v.before = s.before /\ v.usage = (IF f \in linked THEN s.usage + 1 ELSE s.usage)
  BY <1>7, <1>8, <1>a DEF Visited, Same, FileState, AsWalker
<1>10. CountOK(v)
  <2>1. s.usage \in Nat /\ s.before \in Nat
    BY <1>0 DEF Walkers
  <2> QED BY <1>0, <1>1, <1>9, <2>1, CountVisit
<1>11. ASSUME Alive # {} PROVE GoesOn(v, <<>>)
  <2>0. TagsTrue /\ Working /\ AnyWalk(s) /\ GcWalk(s) /\ Fresh(s) /\ Settled(s)
    BY <1>0, <1>11 DEF WalksAt, Storing, GoodWalk, GcWalk
  <2>1. AnyWalk(v)
    BY <1>1, <1>7, <1>8, <2>0, ReadsAny
  <2>2. Passed(f)
    BY <1>0, <1>1, <2>0, TargetPassed
  <2>3. s.activeindex \in Nat /\ s.activeindex <= s.fileno /\ Free(s.activeindex + 1, s.fileno)
    BY <1>0, <2>0 DEF Walkers, GcWalk
  <2>4. Free(s.activeindex + 1, f)
    <3> SUFFICES ASSUME NEW h \in Files, s.activeindex + 1 <= h, h <= f PROVE h \notin Alive
      BY DEF Free
    <3>1. h \in Nat
      BY StreamShape DEF TypesInv, StreamType
    <3>2. CASE h <= s.fileno
      BY <2>3, <3>2 DEF Free
    <3>3. CASE s.fileno + 1 <= h /\ h <= f - 1
      BY <1>1, <3>3 DEF Free
    <3>4. CASE h = f
      BY <1>a, <3>4
    <3> QED BY <1>1, <3>1, <3>2, <3>3, <3>4
  <2>5. Target(v) = f + 1 + n
    BY <1>9 DEF Target
  <2>6. PICK r \in RefOps : Refs(u.ops) = {r} /\ RefGrows(v, r) /\ r.count > 0
    <3>1. PICK r \in RefOps :
           /\ Refs(u.ops) = {r}
           /\ NoCount(t.ops) => r.count = 1 + n /\ r.fileno = f /\ r.prev = t.activeindex /\ r.eos = EosAt(f)
           /\ ~NoCount(t.ops) =>
                \E q \in RefOps :
                  /\ Refs(t.ops) = {q} /\ q.count > 0
                  /\ r.count = q.count + (1 + n) /\ r.fileno = q.fileno /\ r.prev = q.prev
                  /\ r.eos => q.eos \/ EosAt(f)
      BY <1>5
    <3>2. RefGrows(v, r) /\ r.count > 0
      BY <1>0, <1>1, <1>3, <1>9, <1>a, <2>0, <2>5, <3>1, GarbageGrows
    <3> QED BY <3>1, <3>2
  <2>7. \A q \in Refs(v.ops) : RefGrows(v, q)
    <3> SUFFICES ASSUME NEW q \in Refs(v.ops) PROVE RefGrows(v, q)
      OBVIOUS
    <3>1. AsRef(q, r)
      BY <1>7, <1>9, <2>6 DEF Kin
    <3> QED BY <2>6, <3>1, KinGrows
  <2>8. ~NoCount(v.ops)
    <3>1. PICK q \in Refs(v.ops) : AsRef(q, r)
      BY <1>7, <1>9, <2>6 DEF Kin
    <3>2. q.count > 0
      BY <2>6, <3>1 DEF AsRef
    <3> QED BY <3>2 DEF NoCount
  <2>9. Fresh(v)
    BY <1>9, <1>a, <2>0, <2>2, <2>8 DEF Fresh, NoCount
  <2>10. v.activefiles = 0 => \A h \in Alive : h <= f => layout[f].endobj \notin Span(h)
    BY <1>2, <1>9, <1>a DEF MaySweep
  <2>11. v.activeindex <= f /\ v.activeindex # f
    BY <1>1, <1>9, <2>3
  <2>12. GcWalk(v)
    BY <1>9, <2>4, <2>7, <2>9, <2>10, <2>11 DEF GcWalk
  <2>13. Refs(<<>>) = {}
    BY DEF Refs
  <2> QED BY <1>9, <2>1, <2>9, <2>12, <2>13 DEF GoesOn, GoodWalk
<1>12. <<>> \in Seq(Ops) /\ OneRef(<<>>) /\ ObjsSafe(<<>>) /\ RefsFit(<<>>)
  BY DEF OneRef, ObjsSafe, RefsFit, Refs
<1> QED BY <1>9, <1>10, <1>11, <1>12 DEF Moves

\* r: the walker s, when it has taken up what its GCTAG says was in progress
Resumed(r, s) ==
  /\ AsWalker(r) /\ r.gc = s.gc /\ r.fileno = s.fileno /\ r.ft = s.ft /\ r.end = s.end /\ r.fin = s.fin
  /\ r.usage = s.usage /\ r.before = s.before /\ r.gct.refcnt = s.gct.refcnt /\ r.gct.eos = s.gct.eos
  /\ ~s.gc \/ Settled(s) => r = s
\* A deletion of refs in progress is taken up.
LEMMA ResumeIs ==
  ASSUME TypesInv, NEW s, AsWalker(s)
  PROVE  Resumed(Resume(s), s)
<1>0. /\ s \in Walkers /\ Shaped(s) /\ s.fileno \in Files /\ s.ft \in Files /\ s.ft \in Nat
      /\ s.gct \in Tag /\ s.gct.refcnt \in Nat /\ s.gct.eos \in BOOLEAN /\ s.failed \in BOOLEAN
  BY DEF AsWalker, Walkers, Tag
<1>1. CASE ~(s.gct.refcnt > 0 /\ s.gct.inprog /\ s.gc)
  <2>1. Resume(s) = s
    BY <1>1 DEF Resume
  <2> QED BY <2>1 DEF Resumed
<1>2. CASE s.gct.refcnt > 0 /\ s.gct.inprog /\ s.gc
  <2> DEFINE ops == WithRefOp(s.ops, s.ft + 1, layout[s.ft].objno)
             op  == ops[RefOp(ops)]
             t   == DeleteRef(s, s.ft, s.ft, s.gct.refcnt, s.gct.eos)
             e   == IF op.count = 0 THEN s.failed ELSE op.fileno + op.count - 1 # s.fileno
             g   == [t.gct EXCEPT !.inprog = FALSE]
             x   == [t EXCEPT !.gct = g, !.failed = e]
  <2>1. Resume(s) = x
    BY <1>2 DEF Resume
  <2>2. e \in BOOLEAN
    BY <1>0
  <2>3. layout[s.ft].objno \in Nat
    BY <1>0, StreamShape DEF TypesInv, StreamType
  <2>4. Joined(t, s, s.ft, s.gct.refcnt, s.gct.eos)
    BY <1>0, <2>3, DeleteRefIs
  <2> HIDE DEF e, t, ops, op
  <2>5. t \in Walkers /\ Shaped(t) /\ Same(t, s)
    BY <2>4 DEF Joined
  <2>6. g \in Tag /\ g.refcnt = s.gct.refcnt /\ g.eos = s.gct.eos
    BY <1>0, <2>5 DEF Same, Tag
  <2> HIDE DEF g
  <2>7. x \in Walkers /\ x.ops = t.ops /\ x.gct = g /\ x.gc = t.gc /\ x.fileno = t.fileno /\ x.ft = t.ft
        /\ x.end = t.end /\ x.fin = t.fin /\ x.usage = t.usage /\ x.before = t.before
    BY <2>2, <2>5, <2>6 DEF Walkers
  <2> HIDE DEF x
  <2>8. AsWalker(x)
    BY <1>0, <2>5, <2>7 DEF AsWalker, Shaped, Same
  <2> QED BY <1>2, <2>1, <2>5, <2>6, <2>7, <2>8 DEF Resumed, Same, Settled
<1> QED BY <1>1, <1>2

\* What the walker does, by what it finds.
LEMMA WalkCases ==
  ASSUME Walk, NEW s, s = Resume(w), NEW f, f = Target(s)
  PROVE  \/ (w.end \/ ~w.fin) /\ Finish(w)
         \/ ~(w.end \/ ~w.fin) /\ TagEnds(s) /\ Finish(s)
         \/ /\ ~(w.end \/ ~w.fin) /\ ~TagEnds(s)
            /\ \/ f \notin refs /\ w' = Missing(s) /\ gcops' = gcops
               \/ f \in refs /\ s.gc /\ ~HasFtag(f)
               \/ f \in refs /\ ~Garbage(s, f) /\ InUse(s, f) /\ HandOver(Visit(LeaveObject(s, f), f))
               \/ f \in refs /\ ~Garbage(s, f) /\ ~InUse(s, f)
               \/ f \in refs /\ Garbage(s, f) /\ InUse(s, f)
               \/ /\ f \in refs /\ Garbage(s, f) /\ ~InUse(s, f) /\ gcops' = gcops
                  /\ w' = Visit(GarbageObjs(GarbageRef(LeaveObject(s, f), f), f), f)
<1>1. IF w.end \/ ~w.fin THEN Finish(w)
      ELSE IF TagEnds(s) THEN Finish(s)
      ELSE IF f \notin refs THEN w' = Missing(s) /\ UNCHANGED <<gcops, log>>
      ELSE IF s.gc /\ ~HasFtag(f) THEN \E t \in {Tagless(s, f)} : Finish(t)
      ELSE \E t \in {LeaveObject(s, f)} :
           \E u \in {IF Garbage(s, f) THEN GarbageRef(t, f) ELSE t} :
           \E v \in {Visit(IF Garbage(s, f) THEN GarbageObjs(u, f) ELSE u, f)} :
             IF InUse(s, f) THEN HandOver(v) ELSE w' = v /\ UNCHANGED <<gcops, log>>
  BY DEF Walk
<1>2. CASE ~(w.end \/ ~w.fin) /\ ~TagEnds(s) /\ f \in refs /\ ~(s.gc /\ ~HasFtag(f)) /\ Garbage(s, f)
  BY <1>1, <1>2
<1>3. CASE ~(w.end \/ ~w.fin) /\ ~TagEnds(s) /\ f \in refs /\ ~(s.gc /\ ~HasFtag(f)) /\ ~Garbage(s, f)
  BY <1>1, <1>3
<1>4. CASE f \notin refs \/ (s.gc /\ ~HasFtag(f)) \/ w.end \/ ~w.fin \/ TagEnds(s)
  BY <1>1, <1>4
<1> QED BY <1>2, <1>3, <1>4

\* The walker goes on to the next file, or ends.
LEMMA WalkKeeps ==
  ASSUME CollectInv, Walk, ~astray'
  PROVE  CollectInv' /\ (w.on /\ ~w'.on /\ Alive # {} => GoodWalk(w) /\ Over(w))
<1> DEFINE s == Resume(w)
           f == Target(s)
<1>0. TypesInv /\ ObjsRight /\ Counted
  BY DEF CollectInv
<1>1. w.on /\ ~w.failed /\ gcops = <<>>
  BY DEF Walk, Walking
<1>2. AsWalker(w) /\ CountOK(w)
  BY <1>0, <1>1 DEF TypesInv, WalkerType, NoWalker, LostRun, Counted, AsWalker
<1>3. Resumed(s, w)
  BY <1>0, <1>2, ResumeIs
<1>4. AsWalker(s) /\ CountOK(s)
  BY <1>2, <1>3 DEF Resumed, CountOK
<1>5. Alive # {} => Storing /\ Working /\ GoodWalk(w)
  BY <1>1 DEF CollectInv, Deep, WalkRight
<1>a. ~Strays(w)
  BY DEF Walk
<1>b. ASSUME ~(w.end \/ ~w.fin) PROVE s = w /\ (s.gc => Settled(s))
  <2>1. ~w.gc \/ Settled(w)
    BY <1>a, <1>b DEF Strays, Settled
  <2> QED BY <1>3, <2>1 DEF Resumed
<1>6. /\ UNCHANGED <<layout, tail, linked, refs, young, recent, gctag, objs, queue, cons, crashes>>
  BY DEF Walk, stream, storage, bounds
<1> DEFINE Moved == \E x, ops : w' = x /\ gcops' = ops /\ Moves(x, ops)
           Ended0 == w.on /\ ~w'.on /\ Alive # {} => GoodWalk(w) /\ Over(w)
<1>7. ASSUME Moved PROVE CollectInv'
  <2>1. PICK x, ops : w' = x /\ gcops' = ops /\ Moves(x, ops)
    BY <1>7
  <2> QED BY <1>1, <1>6, <2>1, MoveStep
<1>8. ASSUME NEW x, NEW ops, Moves(x, ops), w' = x, gcops' = ops, x \in Walkers PROVE Moved /\ Ended0
  BY <1>8 DEF Walkers
<1>9. /\ s.gc = w.gc /\ s.fileno = w.fileno /\ s.end = w.end /\ s.fin = w.fin
      /\ (TagEnds(s) <=> TagEnds(w))
  BY <1>3 DEF Resumed, TagEnds
<1> HIDE DEF s, f
<1>10. CASE (w.end \/ ~w.fin) /\ Finish(w)
  <2>1. Over(w)
    BY <1>10 DEF Over
  <2>2. Moved
    BY <1>0, <1>1, <1>2, <1>5, <1>10, <2>1, FinishMoves
  <2> HIDE DEF Moved
  <2> QED BY <1>5, <1>7, <2>1, <2>2
<1>11. CASE ~(w.end \/ ~w.fin) /\ TagEnds(s) /\ Finish(s)
  <2>1. Over(s) /\ Over(w) /\ s = w
    BY <1>9, <1>b, <1>11 DEF Over
  <2>2. Moved
    BY <1>0, <1>1, <1>4, <1>5, <1>11, <2>1, FinishMoves
  <2> HIDE DEF Moved
  <2> QED BY <1>5, <1>7, <2>1, <2>2
<1>12. CASE ~(w.end \/ ~w.fin) /\ ~TagEnds(s)
  <2>0. ~s.end /\ s.fin /\ ~Over(s)
    BY <1>9, <1>12 DEF Over
  <2>b. s = w /\ (s.gc => Settled(s))
    BY <1>b, <1>12
  <2>a. Alive # {} => Storing /\ Working /\ GoodWalk(s) /\ ~Over(s)
    BY <1>5, <2>0, <2>b
  <2>1. ASSUME f \in refs PROVE WalksAt(s, f) /\ (s.gc => HasFtag(f))
    <3>1. s.gc => HasFtag(f)
      BY <1>12, <1>a, <2>0, <2>1, <2>b DEF Strays, f
    <3> QED BY <1>4, <2>0, <2>a, <2>b, <2>1, <3>1 DEF WalksAt, f
  <2>2. ASSUME f \notin refs, w' = Missing(s), gcops' = gcops PROVE Moved /\ Ended0
    <3>1. Moves(Missing(s), <<>>)
      BY <1>0, <1>4, <2>2, <2>a, MissingMoves DEF f, Storing
    <3>2. Missing(s).on
      <4>1. s \in Walkers /\ s.on
        BY <1>4 DEF AsWalker, Walkers
      <4> QED BY <4>1 DEF Missing, Walkers
    <3> QED BY <1>1, <2>2, <3>1, <3>2
  <2>3. ASSUME f \in refs, InUse(s, f), HandOver(Visit(LeaveObject(s, f), f)) PROVE Moved /\ Ended0
    <3> DEFINE v == Visit(LeaveObject(s, f), f)
               x == [v EXCEPT !.ops = <<>>]
    <3>1. v \in Walkers /\ Moves(x, v.ops)
      BY <1>0, <2>1, <2>3, InUseMoves, PlainMoves
    <3>2. w' = x /\ gcops' = v.ops
      <4> HIDE DEF v
      <4>1. HandOver(v)
        BY <2>3 DEF v
      <4> QED BY <1>1, <3>1, <4>1, HandOverIs
    <3>3. x.on
      <4> HIDE DEF v
      <4> QED BY <3>1 DEF Walkers
    <3> HIDE DEF x, v
    <3> QED BY <3>1, <3>2, <3>3
  <2>4. ASSUME f \in refs, ~Garbage(s, f), ~InUse(s, f) PROVE FALSE
    BY <2>4 DEF Garbage, InUse, FileState, Old, Volatile
  <2>5. ASSUME f \in refs, Garbage(s, f), InUse(s, f) PROVE FALSE
    BY <2>5 DEF Garbage, InUse, FileState, Old, Volatile
  <2>6. ASSUME f \in refs, Garbage(s, f), gcops' = gcops,
               w' = Visit(GarbageObjs(GarbageRef(LeaveObject(s, f), f), f), f)
        PROVE  Moved /\ Ended0
    <3> DEFINE v == Visit(GarbageObjs(GarbageRef(LeaveObject(s, f), f), f), f)
    <3>1. Moves(v, <<>>) /\ v \in Walkers
      BY <1>0, <2>1, <2>6, GarbageMoves
    <3> HIDE DEF v
    <3>2. v.on
      BY <3>1 DEF Walkers
    <3> QED BY <1>1, <2>6, <3>1, <3>2 DEF v
  <2>7. Moved /\ Ended0
    <3> HIDE DEF Moved, Ended0
    <3> QED BY <1>12, <2>1, <2>2, <2>3, <2>4, <2>5, <2>6, WalkCases DEF s, f
  <2> HIDE DEF Moved
  <2> QED BY <1>7, <2>7
<1> QED
  <2>1. \/ (w.end \/ ~w.fin) /\ Finish(w)
        \/ ~(w.end \/ ~w.fin) /\ TagEnds(s) /\ Finish(s)
        \/ ~(w.end \/ ~w.fin) /\ ~TagEnds(s)
    BY WalkCases DEF s
  <2> QED BY <1>10, <1>11, <1>12, <2>1

-----------------------------------------------------------------------------
(* The first step of a walk                                                *)

\* a walker that is where a walk begins
Opening(o, gc) ==
  /\ AsWalker(o) /\ o.gc = gc /\ o.fileno = 0 /\ o.ft = 0 /\ o.objno = layout[0].endobj
  /\ o.end = EndOfStream(0) /\ o.fin = Finalized(0) /\ o.gct = gctag[0] /\ o.activeindex = 0
  /\ o.usage = (IF 0 \in linked THEN 1 ELSE 0) /\ o.before = Cardinality(linked)
\* A walk begins.
LEMMA OpenWalkerIs ==
  ASSUME TypesInv, 0 \in refs, NEW gc \in BOOLEAN
  PROVE  Opening(OpenWalker(gc), gc) /\ OpenWalker(gc).ops = <<>>
<1> DEFINE e == <<>>
           a == IF 0 \in linked THEN 1 ELSE 0
           n == Cardinality(linked)
           o == [on |-> TRUE, gc |-> gc, fileno |-> 0, objno |-> layout[0].endobj, ft |-> 0,
                 end |-> EndOfStream(0), fin |-> Finalized(0), gct |-> gctag[0], activefiles |-> 0,
                 activeindex |-> 0, ops |-> e, usage |-> a, before |-> n, failed |-> FALSE]
<1>1. OpenWalker(gc) = o
  BY DEF OpenWalker
<1>2. 0 \in Files
  BY DEF TypesInv, StorageType
<1>3. /\ EndOfStream(0) \in BOOLEAN /\ Finalized(0) \in BOOLEAN /\ gctag[0] \in Tag
      /\ layout[0].endobj \in Nat /\ a \in Nat
  BY <1>2, FtagIs, StreamShape DEF TypesInv, StreamType
<1>4. n \in Nat
  BY FewFiles, FS_CardinalityType
<1>5. e \in Seq(Ops) /\ OneRef(e) /\ ObjsSafe(e)
  BY DEF OneRef, ObjsSafe
<1> HIDE DEF e, a, n
<1>6. o \in Walkers
  BY <1>3, <1>4, <1>5 DEF Walkers
<1>7. AsWalker(o)
  BY <1>2, <1>5, <1>6 DEF AsWalker, Shaped
<1> QED BY <1>1, <1>7 DEF Opening, e, a, n

\* What opens on garbage, and at the end of the stream, leaves nothing that must be kept.
LEMMA OpenAlive ==
  ASSUME TypesInv, 0 \in refs, NEW s, OpensOnGarbage(s), Alive # {} => TagsTrue
  PROVE  0 \notin Alive /\ s.gc /\ (EosAtOpen => Alive = {})
<1>1. 0 \in Files /\ Alive \subseteq Files /\ Files \subseteq Nat
  BY StreamShape DEF TypesInv, StorageType, StreamType, Alive
<1>2. 0 \notin Alive /\ s.gc
  BY DEF OpensOnGarbage, FileState, Old, Alive, TypesInv, StorageType
<1>3. ASSUME EosAtOpen, Alive # {} PROVE FALSE
  <2>1. FreeAfter(0)
    BY <1>1, <1>3, FtagIs DEF EosAtOpen, TagsTrue
  <2>2. \A g \in Alive : g \in Files /\ (g = 0 \/ g > 0)
    BY <1>1
  <2> QED BY <1>2, <1>3, <2>1, <2>2 DEF FreeAfter
<1> QED BY <1>2, <1>3

\* The ref of a first file that is all there is left goes.
LEMMA OpenRefsIs ==
  ASSUME TypesInv, 0 \in refs, NEW gc \in BOOLEAN, NEW o, Opening(o, gc), Alive # {} => TagsTrue
  PROVE  Opening(OpenRefs(o), gc) /\ (Alive # {} => OpenRefs(o) = o)
<1>1. CASE ~(OpensOnGarbage(o) /\ EosAtOpen)
  BY <1>1 DEF OpenRefs
<1>2. CASE OpensOnGarbage(o) /\ EosAtOpen
  <2> DEFINE r == DeleteRef(o, 0, 0, 1, TRUE)
  <2>1. OpenRefs(o) = r
    BY <1>2 DEF OpenRefs
  <2>2. Alive = {}
    BY <1>2, OpenAlive
  <2>3. layout[0].objno \in Nat /\ 0 \in Nat /\ 1 \in Nat /\ TRUE \in BOOLEAN
    BY StreamShape DEF TypesInv, StreamType, StorageType
  <2>4. o \in Walkers /\ Shaped(o)
    BY DEF Opening, AsWalker
  <2>5. Joined(r, o, 0, 1, TRUE)
    BY <2>3, <2>4, DeleteRefIs
  <2> HIDE DEF r
  <2>6. r \in Walkers /\ Shaped(r) /\ Same(r, o) /\ r.objno = o.objno
    BY <2>5 DEF Joined
  <2>7. Opening(r, gc)
    BY <2>6 DEF Opening, AsWalker, Same
  <2> QED BY <2>1, <2>2, <2>7
<1> QED BY <1>1, <1>2

\* the chain of a walk that begins on garbage
OpenChain(ops, s) ==
  /\ ops \in Seq(Ops) /\ OneRef(ops) /\ ObjsSafe(ops)
  /\ \E r \in RefOps :
       /\ Refs(ops) = {r}
       /\ Alive # {} => /\ r.prev = 0 /\ ~r.eos
                        /\ IF s.gct.refcnt > 0 THEN r.count = s.gct.refcnt /\ r.fileno = 1
                           ELSE r.count = 0 /\ r.fileno = 0
\* The objects go that end within a first file that is garbage.
LEMMA OpenObjsIs ==
  ASSUME TypesInv, 0 \in refs, NEW gc \in BOOLEAN, NEW s, Opening(s, gc), Alive # {} => TagsTrue,
         Alive # {} => s.ops = <<>>
  PROVE  \/ OpenObjs(s) = s
         \/ s.gc /\ \E new : OpenObjs(s) = [s EXCEPT !.ops = new] /\ OpenChain(new, s)
<1>1. CASE ~(OpensOnGarbage(s) /\ (layout[0].endobj # 0 \/ EosAtOpen) /\ ~s.gct.delzero)
  BY <1>1 DEF OpenObjs
<1>2. CASE OpensOnGarbage(s) /\ (layout[0].endobj # 0 \/ EosAtOpen) /\ ~s.gct.delzero
  <2> DEFINE endobj == layout[0].endobj
             last   == IF EosAtOpen THEN endobj ELSE endobj - 1
             ops1   == DeleteObjs(s.ops, 0, 0, last)
             ops    == WithRefOp(ops1, 0, 0)
             i      == RefOp(ops)
             op     == ops[i]
             more   == op.count = 0 /\ s.gct.refcnt > 0
             cnt    == IF more THEN s.gct.refcnt ELSE op.count
             fno    == IF more THEN op.fileno + 1 ELSE op.fileno
             eos    == EosAtOpen
             r      == [op EXCEPT !.count = cnt, !.fileno = fno, !.delzero = TRUE, !.eos = eos]
             new    == [ops EXCEPT ![i] = r]
  <2>1. OpenObjs(s) = [s EXCEPT !.ops = new]
    <3> DEFINE seen == [ops EXCEPT ![RefOp(ops)] =
                         [op EXCEPT !.count = IF more THEN s.gct.refcnt ELSE @,
                                    !.fileno = IF more THEN @ + 1 ELSE @,
                                    !.delzero = TRUE, !.eos = EosAtOpen]]
    <3>1. OpenObjs(s) =
            IF ~(OpensOnGarbage(s) /\ (endobj # 0 \/ EosAtOpen) /\ ~s.gct.delzero) THEN s
            ELSE [s EXCEPT !.ops = seen]
      BY DEF OpenObjs
    <3>2. seen = new
      OBVIOUS
    <3> HIDE DEF seen, new
    <3> QED BY <1>2, <3>1, <3>2
  <2>2. 0 \notin Alive /\ s.gc /\ (EosAtOpen => Alive = {})
    BY <1>2, OpenAlive
  <2>3. /\ 0 \in Files /\ Alive \subseteq Files /\ Files \subseteq Nat /\ endobj \in Nat
        /\ \A g \in Files : layout[g].objno \in Nat /\ layout[g].endobj \in Nat
        /\ \A g, h \in Files : g < h => layout[g].endobj <= layout[h].objno
    BY StreamShape DEF TypesInv, StorageType, StreamType, Alive
  <2>4. last \in Int /\ \A x \in Nat : 0 <= x /\ x <= last => Unheld(x)
    <3> SUFFICES ASSUME NEW x \in Nat, x <= last, NEW g \in Alive, x \in Span(g) PROVE FALSE
      BY <2>3 DEF Unheld
    <3>1. ~EosAtOpen /\ x < endobj
      BY <2>2, <2>3
    <3>2. g \in Files /\ g > 0 /\ layout[g].objno \in Nat /\ layout[g].endobj \in Nat
      BY <2>2, <2>3
    <3>3. endobj <= layout[g].objno
      BY <2>3, <3>2
    <3>4. layout[g].objno <= x
      <4>1. x \in layout[g].objno .. layout[g].endobj
        BY DEF Span
      <4> QED BY <3>2, <4>1
    <3> QED BY <2>3, <3>1, <3>2, <3>3, <3>4
  <2>5. /\ s \in Walkers /\ s.ops \in Seq(Ops) /\ OneRef(s.ops) /\ ObjsSafe(s.ops)
        /\ s.gct.refcnt \in Nat /\ eos \in BOOLEAN
    BY DEF Opening, AsWalker, Walkers, Shaped, Tag, EosAtOpen
  <2>6. ops1 \in Seq(Ops) /\ OneRef(ops1) /\ ObjsSafe(ops1) /\ Refs(ops1) = Refs(s.ops)
    <3>1. 0 \in Nat
      OBVIOUS
    <3> HIDE DEF last
    <3> QED BY <2>4, <2>5, <3>1, DeleteObjsIs
  <2>7. GotRef(ops, ops1, 0)
    <3>1. 0 \in Nat
      OBVIOUS
    <3> HIDE DEF ops1
    <3> QED BY <2>6, <3>1, WithRefOpIs
  <2> HIDE DEF ops1, ops, i
  <2>8. ops \in Seq(Ops) /\ OneRef(ops) /\ ObjsSafe(ops) /\ i \in 1 .. Len(ops) /\ op \in RefOps /\ IsRef(ops[i])
    BY <2>7 DEF GotRef, i
  <2>9. Alive # {} => op.count = 0 /\ op.fileno = 0 /\ op.prev = 0
    <3>1. Alive # {} => Refs(s.ops) = {}
      BY DEF Refs
    <3> QED BY <2>6, <2>7, <3>1 DEF GotRef, i
  <2>10. op.count \in Nat /\ op.fileno \in Nat /\ cnt \in Nat /\ fno \in Nat
    <3>1. op.count \in Nat /\ op.fileno \in Nat
      BY <2>8 DEF RefOps
    <3> HIDE DEF op
    <3> QED BY <2>5, <3>1
  <2>11. /\ Alive # {} => IF s.gct.refcnt > 0 THEN cnt = s.gct.refcnt /\ fno = 1 ELSE cnt = 0 /\ fno = 0
    <3> HIDE DEF op
    <3> QED BY <2>9
  <2> HIDE DEF op, cnt, fno, eos, more
  <2>12. r \in RefOps /\ r.count = cnt /\ r.fileno = fno /\ r.prev = op.prev /\ r.eos = eos
    BY <2>5, <2>8, <2>10 DEF RefOps
  <2> HIDE DEF r
  <2>13. new \in Seq(Ops) /\ OneRef(new) /\ ObjsSafe(new) /\ Refs(new) = {r}
    BY <2>8, <2>12, ReplaceRef
  <2> HIDE DEF new
  <2>14. OpenChain(new, s)
    BY <2>2, <2>9, <2>11, <2>12, <2>13 DEF OpenChain, eos
  <2> QED BY <2>1, <2>2, <2>14
<1> QED BY <1>1, <1>2

\* x: a walker at its first file
Begun(x, gc) ==
  /\ Opening(x, gc)
  /\ x.activefiles = (IF FileState(0) = 2 \/ Volatile(x, 0) THEN 1 ELSE 0)
  /\ Alive # {} => x.ops = <<>> \/ (gc /\ OpenChain(x.ops, x))
\* The walker is at its first file.
LEMMA BegunIs ==
  ASSUME TypesInv, 0 \in refs, NEW gc \in BOOLEAN, Alive # {} => TagsTrue,
         NEW x, x = OpenUse(OpenObjs(OpenRefs(OpenWalker(gc))))
  PROVE  Begun(x, gc)
<1> DEFINE o == OpenWalker(gc)
           r == OpenRefs(o)
           p == OpenObjs(r)
           a == IF FileState(0) = 2 \/ Volatile(p, 0) THEN 1 ELSE 0
<1>1. Opening(o, gc) /\ o.ops = <<>>
  BY OpenWalkerIs
<1> HIDE DEF o
<1>2. Opening(r, gc) /\ (Alive # {} => r.ops = <<>>)
  BY <1>1, OpenRefsIs
<1> HIDE DEF r
<1>3. p = r \/ (r.gc /\ \E new : p = [r EXCEPT !.ops = new] /\ OpenChain(new, r))
  BY <1>2, OpenObjsIs
<1> HIDE DEF p
<1>4. Opening(p, gc) /\ (Alive # {} => p.ops = <<>> \/ (gc /\ OpenChain(p.ops, p)))
  <2>1. CASE p = r
    BY <1>2, <2>1
  <2>2. CASE p # r
    <3>1. PICK new : p = [r EXCEPT !.ops = new] /\ OpenChain(new, r)
      BY <1>3, <2>2
    <3>2. new \in Seq(Ops) /\ OneRef(new) /\ ObjsSafe(new)
      BY <3>1 DEF OpenChain
    <3>3. r \in Walkers /\ r.gc = gc /\ gc
      BY <1>2, <1>3, <2>2 DEF Opening, AsWalker
    <3>4. /\ p \in Walkers /\ p.ops = new /\ Same(p, r) /\ p.objno = r.objno
      BY <3>1, <3>2, <3>3 DEF Walkers, Same
    <3>5. Opening(p, gc)
      BY <1>2, <3>2, <3>4 DEF Opening, AsWalker, Shaped, Same
    <3>6. OpenChain(p.ops, p)
      <4>1. p.gct = r.gct
        BY <3>4 DEF Same
      <4> QED BY <3>1, <3>4, <4>1 DEF OpenChain
    <3> QED BY <3>3, <3>5, <3>6
  <2> QED BY <2>1, <2>2
<1>5. x = [p EXCEPT !.activefiles = a]
  BY DEF OpenUse, p, r, o
<1>6. a \in Nat
  OBVIOUS
<1> HIDE DEF a
<1>7. p \in Walkers
  BY <1>4 DEF Opening, AsWalker
<1>8. x \in Walkers /\ x.ops = p.ops /\ Same(x, p) /\ x.objno = p.objno /\ x.activefiles = a
  BY <1>5, <1>6, <1>7 DEF Walkers, Same
<1>9. Opening(x, gc)
  BY <1>4, <1>8 DEF Opening, AsWalker, Shaped, Same
<1>10. Alive # {} => x.ops = <<>> \/ (gc /\ OpenChain(x.ops, x))
  <2>1. x.gct = p.gct
    BY <1>8 DEF Same
  <2> QED BY <1>4, <1>8, <2>1 DEF OpenChain
<1>11. Volatile(x, 0) <=> Volatile(p, 0)
  BY <1>8 DEF Volatile, Same
<1> QED BY <1>8, <1>9, <1>10, <1>11 DEF Begun, a

\* The first file is counted.
LEMMA CountOpen ==
  ASSUME TypesInv, NEW x, x.fileno = 0, x.usage = (IF 0 \in linked THEN 1 ELSE 0),
         x.before = Cardinality(linked)
  PROVE  CountOK(x)
<1>1. \A g \in linked : (g <= 0 <=> g = 0) /\ (g > 0 <=> g # 0)
  <2>1. linked \subseteq Nat
    BY StreamShape DEF TypesInv, StreamType, StorageType
  <2> QED BY <2>1
<1>a. Behind(0) = {g \in linked : g = 0} /\ Ahead(0) = {g \in linked : g # 0}
  BY <1>1 DEF Behind, Ahead
<1>2. IsFiniteSet(Ahead(0)) /\ Cardinality(Ahead(0)) \in Nat
  BY FewFiles DEF Ahead
<1>3. CASE 0 \in linked
  <2>1. Behind(0) = {0}
    BY <1>a, <1>3
  <2>2. Cardinality(Behind(0)) = 1
    BY <2>1, FS_Singleton
  <2>3. linked = Ahead(0) \cup {0} /\ 0 \notin Ahead(0)
    BY <1>a, <1>3
  <2>4. Cardinality(linked) = Cardinality(Ahead(0)) + 1
    BY <1>2, <2>3, FS_AddElement
  <2> QED BY <1>2, <1>3, <2>2, <2>4 DEF CountOK
<1>4. CASE 0 \notin linked
  <2>1. Behind(0) = {}
    BY <1>a, <1>4
  <2>2. Cardinality(Behind(0)) = 0
    BY <2>1, FS_EmptySet
  <2>3. linked = Ahead(0)
    BY <1>a, <1>4
  <2>4. Cardinality(linked) = Cardinality(Ahead(0))
    BY <2>3
  <2> QED BY <1>2, <1>4, <2>2, <2>4 DEF CountOK
<1> QED BY <1>3, <1>4

\* A walk begins with nothing in flight.
LEMMA OpenMoves ==
  ASSUME TypesInv, 0 \in refs, NEW gc \in BOOLEAN, InFlight = {}, \A c \in Consumers : ~Mid(c),
         Alive # {} => Storing /\ Working, NEW x, x = OpenUse(OpenObjs(OpenRefs(OpenWalker(gc))))
  PROVE  Moves(x, <<>>) /\ x \in Walkers
<1>1. Begun(x, gc)
  BY BegunIs DEF Storing
<1>2. /\ AsWalker(x) /\ x \in Walkers /\ x.gc = gc /\ x.fileno = 0 /\ x.ft = 0 /\ x.objno = layout[0].endobj
      /\ x.end = EndOfStream(0) /\ x.fin = Finalized(0) /\ x.gct = gctag[0] /\ x.activeindex = 0
      /\ x.usage = (IF 0 \in linked THEN 1 ELSE 0) /\ x.before = Cardinality(linked)
  BY <1>1 DEF Begun, Opening, AsWalker
<1>3. CountOK(x)
  BY <1>2, CountOpen
<1>4. 0 \in Files /\ Files \subseteq Nat /\ refs \subseteq Nat /\ Alive \subseteq Nat
  BY StreamShape DEF TypesInv, StreamType, StorageType, Alive
<1>5. ASSUME Alive # {} PROVE GoesOn(x, <<>>)
  <2>0. TagsTrue
    BY <1>5 DEF Storing
  <2>1. AnyWalk(x)
    BY <1>2, <1>4, <2>0, FtagIs DEF AnyWalk, TagsTrue
  <2>2. ASSUME gc PROVE GcWalk(x) /\ Fresh(x)
    <3>1. Passed(0)
      BY <1>4 DEF Passed
    <3>2. Free(0 + 1, 0)
      BY <1>4 DEF Free
    <3>3. x.activefiles = 0 => \A g \in Alive : g <= 0 => x.objno \notin Span(g)
      <4> SUFFICES ASSUME x.activefiles = 0, NEW g \in Alive, g <= 0 PROVE FALSE
        OBVIOUS
      <4>1. g = 0
        BY <1>4
      <4>2. ~(FileState(0) = 2) /\ ~Volatile(x, 0)
        BY <1>1 DEF Begun
      <4> QED BY <4>1, <4>2 DEF FileState, Volatile, Alive, TypesInv, StorageType
    <3>4. \A r \in Refs(x.ops) : RefGrows(x, r)
      <4> SUFFICES ASSUME NEW r \in Refs(x.ops) PROVE RefGrows(x, r)
        OBVIOUS
      <4>1. x.ops # <<>>
        BY DEF Refs
      <4>2. OpenChain(x.ops, x)
        BY <1>1, <1>5, <4>1 DEF Begun
      <4>3. /\ r.prev = 0 /\ ~r.eos
            /\ IF x.gct.refcnt > 0 THEN r.count = x.gct.refcnt /\ r.fileno = 1
               ELSE r.count = 0 /\ r.fileno = 0
        BY <1>5, <4>2 DEF OpenChain
      <4>4. x.gct.refcnt \in Nat
        BY <1>2 DEF Walkers, Tag
      <4>5. \A h \in refs : ~(0 < h /\ h < 1)
        BY <1>4
      <4>6. Target(x) = 1 + x.gct.refcnt
        BY <1>2, <4>4 DEF Target
      <4> QED BY <1>2, <4>3, <4>4, <4>5, <4>6 DEF RefGrows
    <3>5. Fresh(x)
      BY <1>2, <3>1 DEF Fresh
    <3> QED BY <1>2, <3>2, <3>3, <3>4, <3>5 DEF GcWalk
  <2>3. ASSUME ~gc PROVE PlainWalk(x)
    BY <1>1, <1>2, <1>5, <2>3 DEF PlainWalk, Begun
  <2>4. Refs(<<>>) = {}
    BY DEF Refs
  <2> QED BY <1>2, <2>1, <2>2, <2>3, <2>4 DEF GoesOn, GoodWalk
<1>6. <<>> \in Seq(Ops) /\ OneRef(<<>>) /\ ObjsSafe(<<>>) /\ RefsFit(<<>>)
  BY DEF OneRef, ObjsSafe, RefsFit, Refs
<1> QED BY <1>2, <1>3, <1>5, <1>6 DEF Moves

\* With nothing to do there is nothing in flight.
LEMMA NoneInFlight ==
  ASSUME Quiet
  PROVE  InFlight = {} /\ \A c \in Consumers : ~Mid(c)
<1>1. gcops = <<>> /\ queue = <<>> /\ \A c \in Consumers : cons[c] = Idle
  BY DEF Quiet
<1>2. Idle.ops = <<>> /\ Idle.at = "idle"
  BY DEF Idle
<1>3. InFlight = {}
  BY <1>1, <1>2 DEF InFlight, Flying
<1> QED BY <1>1, <1>2, <1>3 DEF Mid

\* A run begins a walk.
LEMMA StartKeeps ==
  ASSUME CollectInv, NEW gc \in BOOLEAN, Start(gc), ~astray'
  PROVE  CollectInv' /\ w'.on
<1>0. TypesInv
  BY DEF CollectInv
<1>1. Quiet /\ 0 \in refs
  BY DEF Start, Running
<1>2. InFlight = {} /\ \A c \in Consumers : ~Mid(c)
  BY <1>1, NoneInFlight
<1>3. gcops = <<>> /\ gcops' = <<>>
       /\ UNCHANGED <<layout, tail, linked, refs, young, recent, gctag, objs, queue, cons, crashes>>
  BY <1>1 DEF Start, Quiet, stream, storage, bounds
<1> DEFINE x == OpenUse(OpenObjs(OpenRefs(OpenWalker(gc))))
<1>5. w' = x
  BY DEF Start
<1>6. Moves(x, <<>>) /\ x \in Walkers
  BY <1>0, <1>1, <1>2, OpenMoves DEF CollectInv, Deep
<1> HIDE DEF x
<1>7. x.on
  BY <1>6 DEF Walkers
<1> QED BY <1>3, <1>5, <1>6, <1>7, MoveStep

\* At first nothing was deleted.
LEMMA InitOK == Init => CollectInv
<1> SUFFICES ASSUME Init PROVE CollectInv
  OBVIOUS
<1>1. TypesInv
  BY TypesInit
<1>2. /\ refs = Files /\ linked \subseteq Files /\ recent = {} /\ gctag = [f \in Files |-> NoTag]
      /\ objs = UNION {Span(f) : f \in Files} /\ w = NoWalker /\ gcops = <<>> /\ queue = <<>>
      /\ cons = [c \in Consumers |-> Idle]
  BY DEF Init
<1>3. Quiet
  BY <1>2 DEF Quiet
<1>4. InFlight = {} /\ \A c \in Consumers : ~Mid(c) /\ cons[c].at = "idle"
  BY <1>2, <1>3, NoneInFlight DEF Idle
<1>5. Files \subseteq Nat /\ Files = 0 .. LastFile /\ LastFile \in Nat
  BY <1>1, StreamShape DEF TypesInv, StreamType
<1>6. \A p \in Files : gctag[p].refcnt = 0 /\ ~gctag[p].eos /\ ~gctag[p].inprog
  BY <1>2 DEF NoTag
<1>7. Kept
  <2>1. \A f \in linked \cup recent : Span(f) \subseteq objs
    BY <1>2
  <2> QED BY <1>2, <2>1 DEF Kept, DataThere, Alive
<1>8. TagsTrue
  BY <1>5, <1>6 DEF TagsTrue, Free
<1>9. NextThere
  BY <1>2 DEF NextThere
<1>10. Working
  <2>1. TagsTight
    BY <1>2, <1>5, <1>6 DEF TagsTight
  <2> QED BY <1>4, <1>6, <2>1 DEF Working, RefsRight, Ordered, Reached, WorkRight
<1>11. ObjsRight /\ Counted /\ WalkRight
  BY <1>2, <1>4 DEF ObjsRight, Counted, WalkRight, NoWalker
<1> QED BY <1>1, <1>7, <1>8, <1>9, <1>10, <1>11 DEF CollectInv, Deep, Storing

-----------------------------------------------------------------------------
(* Every step                                                              *)

\* Nothing happens.
LEMMA StutterKeeps ==
  ASSUME CollectInv, UNCHANGED vars
  PROVE  CollectInv'
<1>0. TypesInv /\ ObjsRight
  BY DEF CollectInv
<1>1. UNCHANGED <<layout, tail, linked, refs, young, recent, gctag, objs, w, gcops, queue, cons, crashes>>
  BY DEF vars, stream, storage, thread, bounds
<1>2. Fades
  BY <1>1 DEF Fades, Alive
<1>3. InFlight' = InFlight
  BY <1>1, FlightSame
<1>4. ThreadType'
  BY <1>0, <1>1 DEF TypesInv, ThreadType, Op
<1>5. StorageType'
  BY <1>0, <1>1, StorageStays DEF TypesInv
<1>6. ObjsRight'
  BY <1>0, <1>2, <1>3, ObjsRightStays
<1>7. ASSUME Alive # {} PROVE Calm
  <2>1. Deep
    BY <1>7 DEF CollectInv
  <2>2. \A d \in Consumers : cons'[d] = cons[d] /\ Op(d)' = Op(d)
    BY <1>1 DEF Op
  <2>3. \A d \in Consumers : cons'[d].at = "obj" => cons'[d].k < Op(d)'.count
    BY <2>1, <2>2 DEF Deep, Working, WorkRight
  <2> QED BY <1>1, <1>2, <1>3, <2>2, <2>3 DEF Calm, Quietly
<1> QED BY <1>0, <1>1, <1>2, <1>4, <1>5, <1>6, <1>7, CalmStep DEF CollectInv, TypesInv

\* The invariant holds from step to step.
LEMMA NextKeeps ==
  ASSUME CollectInv, [Next]_vars, ~astray'
  PROVE  CollectInv'
<1>1. CASE \E gc \in BOOLEAN : Start(gc)
  BY <1>1, StartKeeps
<1>2. CASE Walk
  BY <1>2, WalkKeeps
<1>3. CASE Dispatch
  BY <1>3, DispatchKeeps
<1>4. CASE Crash
  BY <1>4, CrashKeeps
<1>5. ASSUME NEW c \in Consumers, Worker(c) PROVE CollectInv'
  <2>1. CASE Take(c)
    BY <2>1, TakeKeeps
  <2>2. CASE DeleteObj(c)
    BY <2>2, DeleteObjKeeps
  <2>3. CASE TagFile(c)
    BY <2>3, TagFileKeeps
  <2>4. CASE UnlinkRef(c)
    BY <2>4, UnlinkRefKeeps
  <2>5. CASE ClearTag(c)
    BY <2>5, ClearTagKeeps
  <2>6. CASE LogEnd(c)
    BY <2>6, LogEndKeeps
  <2> QED BY <1>5, <2>1, <2>2, <2>3, <2>4, <2>5, <2>6 DEF Worker
<1>6. CASE \E f \in Files : Unlink(f)
  BY <1>6, UnlinkKeeps
<1>7. CASE \E f \in Files : Age(f)
  BY <1>7, AgeKeeps
<1>8. CASE UNCHANGED vars
  BY <1>8, StutterKeeps
<1> QED BY <1>1, <1>2, <1>3, <1>4, <1>5, <1>6, <1>7, <1>8 DEF Next

\* A collection that went astray stays so.
LEMMA OnceAstray ==
  ASSUME [Next]_vars, astray
  PROVE  astray'
BY DEF Next, Start, Walk, Dispatch, Crash, Worker, Take, DeleteObj, TagFile, UnlinkRef, ClearTag, LogEnd,
       Unlink, Age, vars

\* The invariant of garbage collection: until a walk takes the number or the tags of one file for
\* those of another, the GCTAGs, the refs, the chains in flight and the walk agree, as long as
\* a file must be kept, wherever runs died before.
THEOREM CollectCorrect == Spec => [](astray \/ CollectInv)
<1>1. (astray \/ CollectInv) /\ [Next]_vars => (astray \/ CollectInv)'
  BY NextKeeps, OnceAstray
<1>2. Init => astray \/ CollectInv
  BY InitOK
<1> QED BY <1>1, <1>2, PTL DEF Spec

\* The objects of a file in use, or unlinked after the threshold, are not deleted before a walk
\* went astray, if ever.
THEOREM DataKept == Spec => []DataIsKept
<1>1. astray \/ CollectInv => DataIsKept
  <2> SUFFICES ASSUME CollectInv PROVE DataThere
    BY DEF DataIsKept
  <2>1. CASE Alive = {}
    BY <2>1 DEF Alive, DataThere
  <2>2. CASE Alive # {}
    BY <2>2 DEF CollectInv, Deep, Storing, Kept
  <2> QED BY <2>1, <2>2
<1> QED BY <1>1, CollectCorrect, PTL

\* A file in use does not lose its reference file before a walk went astray, if ever.
THEOREM RefKept == Spec => []RefIsKept
<1>1. astray \/ CollectInv => RefIsKept
  <2> SUFFICES ASSUME CollectInv PROVE RefsThere
    BY DEF RefIsKept
  <2>1. CASE Alive = {}
    BY <2>1 DEF Alive, RefsThere
  <2>2. CASE Alive # {}
    BY <2>2 DEF CollectInv, Deep, Storing, Kept, Alive, RefsThere
  <2> QED BY <2>1, <2>2
<1> QED BY <1>1, CollectCorrect, PTL

\* The end of a walk finds all the files in use counted.
LEMMA AllCounted ==
  ASSUME TypesInv, NEW s \in Walkers, s.fileno \in Files, CountOK(s), Alive # {} => GoodWalk(s) /\ Over(s)
  PROVE  s.usage \in Cardinality(linked) .. s.before
<1>1. s.usage \in Nat /\ s.before \in Nat /\ Cardinality(linked) \in Nat
  BY FewFiles DEF Walkers
<1>2. Cardinality(Ahead(s.fileno)) \in Nat
  BY FewFiles DEF Ahead
<1>3. s.usage <= s.before
  BY <1>1, <1>2 DEF CountOK
<1>4. linked = Behind(s.fileno)
  <2>1. CASE Alive = {}
    BY <2>1 DEF Alive, Behind
  <2>2. CASE Alive # {}
    <3>1. FreeAfter(s.fileno)
      BY <2>2, OverAfter DEF GoodWalk
    <3>2. \A g \in linked : g \in Files /\ g \in Nat /\ s.fileno \in Nat /\ ~(g > s.fileno)
      BY <3>1, StreamShape DEF FreeAfter, Alive, TypesInv, StreamType, StorageType
    <3>3. \A g \in linked : g <= s.fileno
      BY <3>2
    <3> QED BY <3>3 DEF Behind
  <2> QED BY <2>1, <2>2
<1>5. Cardinality(linked) <= s.usage
  BY <1>4 DEF CountOK
<1> QED BY <1>1, <1>3, <1>5

\* A walk ends in no other step than its last.
LEMMA UsageStep ==
  ASSUME CollectInv, [Next]_vars, ~astray', w.on, ~w'.on, crashes' = crashes
  PROVE  w.usage \in Cardinality(linked) .. w.before
<1>0. TypesInv /\ Counted /\ crashes \in Nat
  BY DEF CollectInv, TypesInv
<1>1. Walk
  <2>1. ~ \E gc \in BOOLEAN : Start(gc)
    BY DEF Start, Running
  <2>2. ~Crash
    BY <1>0 DEF Crash
  <2>3. w' # w
    OBVIOUS
  <2>4. ~Dispatch /\ ~(\E f \in Files : Unlink(f) \/ Age(f)) /\ ~(UNCHANGED vars)
    BY <2>3 DEF Dispatch, Unlink, Age, vars
  <2>5. ASSUME NEW c \in Consumers, Worker(c) PROVE FALSE
    <3>1. ~Take(c) /\ ~DeleteObj(c) /\ ~TagFile(c) /\ ~UnlinkRef(c) /\ ~ClearTag(c)
      BY <2>3 DEF Take, DeleteObj, TagFile, UnlinkRef, ClearTag
    <3>2. CASE LogEnd(c)
      <4>1. w' \in {w, LostRun}
        BY <1>0, <3>2, LogEndStep
      <4> QED BY <4>1 DEF LostRun
    <3> QED BY <2>5, <3>1, <3>2 DEF Worker
  <2> QED BY <2>1, <2>2, <2>4, <2>5 DEF Next
<1>2. Alive # {} => GoodWalk(w) /\ Over(w)
  BY <1>1, WalkKeeps
<1>3. ~w.failed
  BY <1>1 DEF Walk, Walking
<1>4. w \in Walkers /\ w.fileno \in Files /\ CountOK(w)
  BY <1>0, <1>3 DEF TypesInv, WalkerType, NoWalker, LostRun, Counted
<1> QED BY <1>0, <1>2, <1>4, AllCounted

\* A walk that comes to its end, none having gone astray, has counted the files in use: none
\* too few, and none that was not in use when it began.
THEOREM UsageRight == Spec => UsageIsRight
<1>1. (astray \/ CollectInv) /\ [Next]_vars =>
        [~astray' /\ w.on /\ ~w'.on /\ crashes' = crashes => w.usage \in Cardinality(linked) .. w.before]_vars
  BY UsageStep, OnceAstray
<1> QED BY <1>1, CollectCorrect, PTL DEF Spec, UsageIsRight
=============================================================================

------------------------- MODULE RepackRebuildProofs -------------------------
(***************************************************************************)
(* Proofs about the two operations that leave traces in the names and tags *)
(* of a namespace.                                                         *)
(*                                                                         *)
(* Repack, for any number of attempts and of deaths, and of markers left   *)
(* behind: the names, the tags and the data alone say where the file is,   *)
(* which attempts have changed it over and left their marker (Left), and   *)
(* how far the last one has come: on its way (Forward), past the point of  *)
(* no return (Changing), or being taken back (Reverting).  A process that  *)
(* dies leaves no other trace.  This ends only when a cleanup takes the    *)
(* TREPACK of another attempt for the one it cleans up (mistaken).         *)
(*                                                                         *)
(* RebuildMarkers: the markers are sound, for any number of files, shared  *)
(* objects, readers and threads of a run, and any damage, failed calls and *)
(* deaths.                                                                 *)
(***************************************************************************)
EXTENDS Repack, RebuildMarkers, FiniteSetTheorems, TLAPS

-----------------------------------------------------------------------------
(* Repack *)

AnyTag == [stream : 0 .. (MaxAttempts + 1), state : {"none", "init", "fin", "readable"}]
TagSet == [ftag : AnyTag, trepack : AnyTag, orepack : AnyTag]
Ats == {"idle", "tagmarker", "link", "write", "fin", "close", "comp", "marker ftag", "orepack", "ftag",
        "untag", "rename", "c keep", "c strip", "c ftag", "c file", "c untag", "c rename"}
ProcSet == [at : Ats, from : Nat, active : AnyTag, mark : Nat, to : Nat]

Typed ==
  /\ names \in [Names -> Inodes \cup {NoInode}]
  /\ tags \in [Inodes \cup {NoInode} -> TagSet]
  /\ data \in [Streams -> {"none", "part", "whole"}]
  /\ attempt \in 0 .. MaxAttempts
  /\ proc \in ProcSet

\* The streams and inodes of attempts that are yet to come.
Unused ==
  /\ \A r \in Streams : r > attempt => names[Ref(r)] = NoInode /\ data[r] = "none"
  /\ \A i \in Inodes : i > attempt => tags[i] = NoTags

\* The references of the streams the file is not in: there is none, or it is a former marker,
\* 1 to n, with a tag of that stream.
Absent(r)    == names[Ref(r)] = NoInode /\ data[r] = "none"
Former(r, n) == names[Ref(r)] \in 1 .. n /\ tags[names[Ref(r)]].ftag.stream = r
\* Or it is the file still, and beside it stands the marker of an attempt, to stream s at most,
\* that has changed the file over and died.  Where the cleanup looks for the file there may
\* be the marker of a later repack by now, which has a TREPACK of its own.
Left(r, s, n) ==
  /\ names[Mark(r)] \in (r + 1) .. s /\ names[Ref(r)] = File
  /\ tags[names[Mark(r)]].ftag.stream = r /\ tags[names[Mark(r)]].trepack.stream = names[Mark(r)]
  /\ \/ names[Ref(names[Mark(r)])] = File
     \/ /\ names[Ref(names[Mark(r)])] \in 1 .. n
        /\ tags[names[Ref(names[Mark(r)])]].trepack.stream \in (names[Mark(r)] + 1) .. n
Other(r, s, n) == \/ names[Mark(r)] = NoInode /\ (Absent(r) \/ Former(r, n))
                  \/ Left(r, s, n)
Others(Except, s, n) == \A r \in Streams \ Except : Other(r, s, n)

\* The file is in stream s.  The TREPACK with which it came there may be left as well, along
\* with the marker of that attempt.
InStream(s) == names[Ref(s)] = File /\ data[s] = "whole" /\ tags[File].ftag = Tag(s, "readable")
Origin(s) == \E r \in 0 .. (s - 1) : names[Mark(r)] = s
Stays(s)  == tags[File].trepack = Tag(s, "readable") /\ Origin(s)

\* No attempt is on its way, of n that there were.
Clean(s, n) ==
  /\ n = attempt /\ s \in 0 .. n /\ InStream(s)
  /\ names[Mark(s)] = NoInode /\ Others({s}, s, n)
  /\ tags[File].trepack = NoTag \/ Stays(s)

\* The last attempt, n, has left its marker beside the reference of stream f, where the file
\* is: the names, and what the tags say of them.
Linked(n) == names[Ref(n)] = File
Frame(f, n) ==
  /\ n = attempt /\ f \in 0 .. (n - 1) /\ n > 0 /\ names[Ref(f)] = File /\ data[f] = "whole"
  /\ names[Mark(f)] = n /\ names[Mark(n)] = NoInode
  /\ names[Ref(n)] \in {NoInode, File}
  /\ Others({f, n}, f, n - 1)
TagsAgree(f, n) ==
  /\ tags[File].ftag = Tag(f, "readable")
  /\ tags[n].trepack = NoTag \/ tags[n].trepack.stream = n
  /\ tags[File].trepack = NoTag \/ tags[File].trepack.stream = n \/ Stays(f)
  /\ ~Linked(n) => tags[File].trepack.stream # n /\ data[n] = "none"
  /\ tags[n].trepack = NoTag => ~Linked(n)
\* on its way, past the point of no return, or being taken back
Forward(n) == tags[n].ftag = NoTag /\ (tags[File].trepack = Tag(n, "readable") => data[n] = "whole")
Changing(f, n) ==
  /\ tags[n].ftag = Tag(f, "readable") /\ data[n] = "whole" /\ Linked(n)
  /\ tags[File].trepack = Tag(n, "readable")
Reverting(n) == tags[n].ftag.stream = n /\ tags[File].trepack = NoTag /\ Linked(n)
Pending(f, n) == Frame(f, n) /\ TagsAgree(f, n) /\ (Forward(n) \/ Reverting(n) \/ Changing(f, n))
Rested == \E s, n \in Streams : Clean(s, n) \/ Pending(s, n)

\* Where the process at work is, and what it relies on: a repack from f,
RepacksFrom(f, n) ==
  \/ /\ Pending(f, n) /\ Forward(n)
     /\ \/ At("tagmarker") /\ ~Linked(n)
        \/ At("link") /\ tags[n].trepack # NoTag /\ ~Linked(n)
        \/ proc.at \in {"write", "fin"} /\ Linked(n) /\ tags[File].trepack.stream # n
        \/ At("close") /\ Linked(n)
        \/ At("comp") /\ Linked(n) /\ data[n] = "whole"
        \/ At("marker ftag") /\ Linked(n) /\ tags[File].trepack = Tag(n, "readable")
  \/ Pending(f, n) /\ Changing(f, n) /\ proc.at \in {"orepack", "ftag"}
  \/ /\ Clean(n, n) /\ Left(f, n, n) /\ names[Mark(f)] = n
     /\ At("untag") \/ (At("rename") /\ tags[File].trepack = NoTag)
Repacks == \E f, n \in Streams : proc.from = f /\ RepacksFrom(f, n)
\* the cleanup of the last attempt,
CleansOf(f, n) ==
  /\ Pending(f, n)
  /\ \/ proc.at \in {"c keep", "c strip"} /\ Forward(n) /\ Linked(n)
     \/ At("c ftag") /\ Forward(n) /\ Linked(n) /\ tags[File].trepack = NoTag
     \/ At("c file") /\ Changing(f, n) /\ proc.active = Tag(n, "readable")
     \/ At("c rename") /\ Reverting(n)
CleansUp ==
  \E f, n \in Streams :
    proc.mark = f /\ proc.to = n /\ proc.from = File /\ proc.active.stream = n /\ CleansOf(f, n)
\* and the cleanup of one, to stream k, that had changed the file over.
CleansPast(f, k, s, n) ==
  /\ Clean(s, n) \/ Pending(s, n)
  /\ Left(f, s, n) /\ names[Mark(f)] = k
  /\ \/ /\ proc.at \in {"c file", "c untag"} /\ proc.active = Tag(k, "readable")
        /\ tags[File].trepack = Tag(k, "readable")
     \/ At("c rename") /\ tags[File].trepack = NoTag
CleansLeft ==
  \E f, k, s, n \in Streams :
    proc.mark = f /\ proc.to = k /\ proc.from = File /\ CleansPast(f, k, s, n)
Rests == proc = Idle /\ Rested

RepackInv == Typed /\ Unused /\ (Rests \/ Repacks \/ CleansUp \/ CleansLeft)

-----------------------------------------------------------------------------
(* Names, inodes and single steps.                                         *)

LEMMA NameFacts ==
  /\ \A s \in Streams : Ref(s) \in Names /\ Mark(s) \in Names
  /\ \A s, r : Ref(s) # Mark(r) /\ (Ref(s) = Ref(r) => s = r) /\ (Mark(s) = Mark(r) => s = r)
BY DEF Ref, Mark, Names

LEMMA TagFacts ==
  /\ NoTag \in AnyTag /\ NoTag.state = "none"
  /\ \A s \in Streams : NoTag.stream # s
  /\ \A s \in Streams : \A x \in {"none", "init", "fin", "readable"} :
       Tag(s, x) \in AnyTag /\ Tag(s, x) # NoTag
  /\ \A s, x : Tag(s, x).stream = s /\ Tag(s, x).state = x
BY RepackAssumption DEF Streams, NoTag, Tag, AnyTag

LEMMA Numbers ==
  ASSUME Typed
  PROVE  /\ MaxAttempts \in Nat /\ attempt \in Nat /\ attempt \in Streams
         /\ Streams = 0 .. MaxAttempts /\ Inodes = 0 .. MaxAttempts /\ NoInode = MaxAttempts + 1
         /\ File = 0
BY RepackAssumption DEF Typed, Streams, NoInode, File, Inodes

\* One tag of one inode is set, and nothing else about them changes.
LEMMA SetFtag ==
  ASSUME Typed, NEW i \in Inodes, NEW t \in AnyTag, Set(i, "ftag", t)
  PROVE  /\ tags' \in [Inodes \cup {NoInode} -> TagSet] /\ \A j \in Inodes : j # i => tags'[j] = tags[j]
         /\ tags'[i].ftag = t /\ tags'[i].trepack = tags[i].trepack
BY DEF Typed, TagSet, Set
LEMMA SetTrepack ==
  ASSUME Typed, NEW i \in Inodes, NEW t \in AnyTag, Set(i, "trepack", t)
  PROVE  /\ tags' \in [Inodes \cup {NoInode} -> TagSet] /\ \A j \in Inodes : j # i => tags'[j] = tags[j]
         /\ tags'[i].trepack = t /\ tags'[i].ftag = tags[i].ftag
BY DEF Typed, TagSet, Set
LEMMA SetOrepack ==
  ASSUME Typed, NEW i \in Inodes, NEW t \in AnyTag, Set(i, "orepack", t)
  PROVE  /\ tags' \in [Inodes \cup {NoInode} -> TagSet] /\ \A j \in Inodes : j # i => tags'[j] = tags[j]
         /\ tags'[i].ftag = tags[i].ftag /\ tags'[i].trepack = tags[i].trepack
BY DEF Typed, TagSet, Set

LEMMA IdleType == Typed => Idle \in ProcSet /\ Idle.at = "idle"
BY TagFacts DEF Idle, ProcSet, Ats
LEMMA GotoFacts ==
  ASSUME Typed, NEW a \in Ats, Goto(a)
  PROVE  /\ proc' \in ProcSet /\ proc'.at = a
         /\ UNCHANGED <<proc.from, proc.active, proc.mark, proc.to>>
BY DEF Typed, ProcSet, Goto

\* What a step leaves alone of the reference of one stream and of the marker beside it.
Untouched(r) == UNCHANGED <<names[Ref(r)], names[Mark(r)], data[r]>>
LEMMA LeftKept ==
  ASSUME NEW r \in Nat, NEW s \in Nat, NEW n \in Nat, s <= n, NEW u \in Nat, NEW m \in Nat, s <= u, n <= m,
         Left(r, s, n), names'[Ref(r)] = names[Ref(r)], names'[Mark(r)] = names[Mark(r)],
         \A i \in 1 .. n : tags'[i].ftag = tags[i].ftag /\ tags'[i].trepack = tags[i].trepack,
         \A k \in 1 .. s : names'[Ref(k)] = names[Ref(k)]
  PROVE  Left(r, u, m)'
<1> DEFINE k == names[Mark(r)]
<1>1. k \in (r + 1) .. s /\ k \in 1 .. n /\ k \in 1 .. s /\ k \in (r + 1) .. u /\ names'[Mark(r)] = k
  BY DEF Left
<1>2. tags'[k].ftag = tags[k].ftag /\ tags'[k].trepack = tags[k].trepack /\ names'[Ref(k)] = names[Ref(k)]
  BY <1>1
<1>3. tags'[k].ftag.stream = r /\ tags'[k].trepack.stream = k /\ names'[Ref(r)] = File
  BY <1>2 DEF Left
<1>4. \/ names'[Ref(k)] = File
      \/ names'[Ref(k)] \in 1 .. m /\ tags'[names'[Ref(k)]].trepack.stream \in (k + 1) .. m
  <2>1. CASE names[Ref(k)] = File
    BY <1>2, <2>1
  <2>2. CASE names[Ref(k)] \in 1 .. n /\ tags[names[Ref(k)]].trepack.stream \in (k + 1) .. n
    <3>1. tags'[names[Ref(k)]].trepack = tags[names[Ref(k)]].trepack
      BY <2>2
    <3>2. names[Ref(k)] \in 1 .. m /\ tags[names[Ref(k)]].trepack.stream \in (k + 1) .. m
      BY <1>1, <2>2
    <3> QED BY <1>2, <3>1, <3>2
  <2> QED BY <2>1, <2>2 DEF Left
<1> HIDE DEF k
<1> QED BY <1>1, <1>3, <1>4 DEF Left
LEMMA OtherKept ==
  ASSUME NEW r \in Nat, NEW s \in Nat, NEW n \in Nat, s <= n, NEW u \in Nat, NEW m \in Nat, s <= u, n <= m,
         Other(r, s, n), Untouched(r),
         \A i \in 1 .. n : tags'[i].ftag = tags[i].ftag /\ tags'[i].trepack = tags[i].trepack,
         \A k \in 1 .. s : names'[Ref(k)] = names[Ref(k)]
  PROVE  Other(r, u, m)'
<1>1. CASE Left(r, s, n)
  <2>1. Left(r, u, m)'
    BY <1>1, LeftKept DEF Untouched
  <2> QED BY <2>1 DEF Other
<1>2. CASE names[Mark(r)] = NoInode /\ Absent(r)
  BY <1>2 DEF Other, Absent, Untouched
<1>3. CASE names[Mark(r)] = NoInode /\ Former(r, n)
  <2>1. names'[Ref(r)] \in 1 .. n /\ tags'[names'[Ref(r)]].ftag.stream = r
    BY <1>3 DEF Former, Untouched
  <2>2. Former(r, m)'
    BY <2>1 DEF Former
  <2> QED BY <1>3, <2>2 DEF Other, Untouched
<1> QED BY <1>1, <1>2, <1>3 DEF Other

\* The file with its marker, and a marker the file has left, are not the same.
LEMMA LeftIsOther ==
  ASSUME Typed, NEW f \in Streams, NEW s \in Streams, NEW n \in Streams, Left(f, s, n)
  PROVE  /\ names[Mark(f)] \in 1 .. s /\ names[Mark(f)] \in Streams /\ names[Mark(f)] # NoInode
         /\ Clean(s, n) => f # s
         /\ Pending(s, n) => f # s /\ f # n /\ Left(f, s, n - 1)
<1>1. names[Mark(f)] \in 1 .. s /\ names[Mark(f)] \in Streams /\ names[Mark(f)] # NoInode
  BY Numbers DEF Left
<1>2. Clean(s, n) => f # s
  BY <1>1 DEF Clean
<1>3. ASSUME Pending(s, n) PROVE f # s /\ f # n /\ Left(f, s, n - 1)
  <2>1. s \in 0 .. (n - 1) /\ names[Mark(s)] = n /\ names[Mark(n)] = NoInode /\ Others({s, n}, s, n - 1)
    BY <1>3 DEF Pending, Frame
  <2>2. f # s /\ f # n
    BY <1>1, <2>1, Numbers
  <2>3. Other(f, s, n - 1)
    BY <2>1, <2>2 DEF Others
  <2> QED BY <1>1, <2>2, <2>3 DEF Other
<1> QED BY <1>1, <1>2, <1>3

-----------------------------------------------------------------------------
(* Steps that set a tag of the file or of the marker of the last attempt.  *)

LEMMA TagsKeepFrame ==
  ASSUME Typed, Unused, NEW f \in Streams, NEW n \in Streams, Frame(f, n), UNCHANGED <<names, data, attempt>>,
         NEW i \in {File, n}, \A j \in Inodes : j # i => tags'[j] = tags[j],
         tags' \in [Inodes \cup {NoInode} -> TagSet], proc' \in ProcSet
  PROVE  Typed' /\ Unused' /\ Frame(f, n)' /\ (Linked(n)' <=> Linked(n)) /\ (Origin(f)' <=> Origin(f))
<1>1. /\ n \in Nat /\ n > 0 /\ f \in Nat /\ f <= n - 1 /\ n = attempt /\ n - 1 \in Nat
      /\ Others({f, n}, f, n - 1)
  BY Numbers DEF Frame
<1>2. Typed'
  BY DEF Typed
<1>3. Unused'
  BY <1>1, Numbers DEF Unused
<1>4. Others({f, n}, f, n - 1)'
  <2> SUFFICES ASSUME NEW r \in Streams \ {f, n} PROVE Other(r, f, n - 1)'
    BY DEF Others
  <2>1. Other(r, f, n - 1) /\ r \in Nat
    BY <1>1, Numbers DEF Others
  <2>2. \A j \in 1 .. (n - 1) : j \in Inodes /\ j # i
    BY <1>1, Numbers
  <2> QED BY <1>1, <2>1, <2>2, OtherKept DEF Untouched
<1>5. Frame(f, n)'
  BY <1>4 DEF Frame
<1> QED BY <1>2, <1>3, <1>5 DEF Linked, Origin

TagStep(f, n, i, a) ==
  /\ Typed' /\ Unused' /\ Frame(f, n)' /\ (Linked(n)' <=> Linked(n)) /\ (Origin(f)' <=> Origin(f))
  /\ UNCHANGED <<names, attempt, data, proc.from, proc.active, proc.mark, proc.to>> /\ proc'.at = a
  /\ i = File => tags'[n] = tags[n]
  /\ i = n => tags'[File] = tags[File]

LEMMA FtagStep ==
  ASSUME Typed, Unused, NEW f \in Streams, NEW n \in Streams, Frame(f, n), NEW i \in {File, n}, NEW t \in AnyTag,
         NEW a \in Ats, Set(i, "ftag", t), Goto(a), UNCHANGED <<names, data, attempt>>
  PROVE  TagStep(f, n, i, a) /\ tags'[i].ftag = t /\ tags'[i].trepack = tags[i].trepack
<1>1. i \in Inodes /\ File # n /\ File \in Inodes /\ n \in Inodes
  BY Numbers DEF Frame
<1> QED BY <1>1, SetFtag, TagsKeepFrame, GotoFacts DEF TagStep
LEMMA TrepackStep ==
  ASSUME Typed, Unused, NEW f \in Streams, NEW n \in Streams, Frame(f, n), NEW i \in {File, n}, NEW t \in AnyTag,
         NEW a \in Ats, Set(i, "trepack", t), Goto(a), UNCHANGED <<names, data, attempt>>
  PROVE  TagStep(f, n, i, a) /\ tags'[i].trepack = t /\ tags'[i].ftag = tags[i].ftag
<1>1. i \in Inodes /\ File # n /\ File \in Inodes /\ n \in Inodes
  BY Numbers DEF Frame
<1> QED BY <1>1, SetTrepack, TagsKeepFrame, GotoFacts DEF TagStep
LEMMA OrepackStep ==
  ASSUME Typed, Unused, NEW f \in Streams, NEW n \in Streams, Frame(f, n), NEW i \in {File, n}, NEW t \in AnyTag,
         NEW a \in Ats, Set(i, "orepack", t), Goto(a), UNCHANGED <<names, data, attempt>>
  PROVE  TagStep(f, n, i, a) /\ tags'[i].trepack = tags[i].trepack /\ tags'[i].ftag = tags[i].ftag
<1>1. i \in Inodes /\ File # n /\ File \in Inodes /\ n \in Inodes
  BY Numbers DEF Frame
<1> QED BY <1>1, SetOrepack, TagsKeepFrame, GotoFacts DEF TagStep

\* The file loses its TREPACK while no attempt is on its way.
LEMMA CleanUntagged ==
  ASSUME Typed, Unused, NEW s \in Streams, NEW n \in Streams, Clean(s, n), NEW a \in Ats,
         Set(File, "trepack", NoTag), Goto(a), UNCHANGED <<names, data, attempt>>
  PROVE  /\ Typed' /\ Unused' /\ Clean(s, n)' /\ tags'[File].trepack = NoTag
         /\ \A f \in Streams : Left(f, s, n) => Left(f, s, n)'
         /\ UNCHANGED <<proc.from, proc.active, proc.mark, proc.to>> /\ proc'.at = a
<1>1. /\ tags' \in [Inodes \cup {NoInode} -> TagSet] /\ \A j \in Inodes : j # File => tags'[j] = tags[j]
      /\ tags'[File].trepack = NoTag /\ tags'[File].ftag = tags[File].ftag
  <2>1. File \in Inodes /\ NoTag \in AnyTag
    BY TagFacts, Numbers
  <2> QED BY <2>1, SetTrepack
<1>2. n = attempt /\ s \in Nat /\ n \in Nat /\ s <= n /\ \A j \in 1 .. n : tags'[j] = tags[j]
  BY <1>1, Numbers DEF Clean
<1>3. Typed' /\ Unused' /\ UNCHANGED <<proc.from, proc.active, proc.mark, proc.to>> /\ proc'.at = a
  BY <1>1, <1>2, GotoFacts, Numbers DEF Typed, Unused
<1>4. ASSUME NEW r \in Streams, Other(r, s, n) PROVE Other(r, s, n)'
  BY <1>2, <1>4, OtherKept, Numbers DEF Untouched
<1>5. ASSUME NEW r \in Streams, Left(r, s, n) PROVE Left(r, s, n)'
  BY <1>2, <1>5, LeftKept, Numbers
<1>6. Clean(s, n)'
  BY <1>1, <1>4 DEF Clean, Others, InStream
<1> QED BY <1>1, <1>3, <1>5, <1>6

\* The file changes over to the stream of the last attempt, and so has left the one before.
LEMMA ChangesOver ==
  ASSUME Typed, Unused, NEW f \in Streams, NEW n \in Streams, Pending(f, n), Changing(f, n), NEW a \in Ats,
         Set(File, "ftag", Tag(n, "readable")), Goto(a), UNCHANGED <<names, data, attempt>>
  PROVE  /\ Typed' /\ Unused' /\ Clean(n, n)' /\ Left(f, n, n)' /\ names'[Mark(f)] = n
         /\ tags'[File].trepack = Tag(n, "readable")
         /\ UNCHANGED <<proc.from, proc.active, proc.mark, proc.to>> /\ proc'.at = a
<1>1. /\ tags' \in [Inodes \cup {NoInode} -> TagSet] /\ \A j \in Inodes : j # File => tags'[j] = tags[j]
      /\ tags'[File].ftag = Tag(n, "readable") /\ tags'[File].trepack = tags[File].trepack
  <2>1. File \in Inodes /\ Tag(n, "readable") \in AnyTag
    BY TagFacts, Numbers
  <2> QED BY <2>1, SetFtag
<1>2. /\ n = attempt /\ f \in Nat /\ n \in Nat /\ f <= n - 1 /\ n > 0 /\ n - 1 \in Nat /\ n - 1 <= n /\ f <= n
      /\ Others({f, n}, f, n - 1) /\ names[Mark(f)] = n /\ names[Mark(n)] = NoInode
      /\ names[Ref(f)] = File
  BY Numbers DEF Pending, Frame
<1>3. \A j \in 1 .. n : tags'[j] = tags[j]
  BY <1>1, <1>2, Numbers
<1>4. Typed' /\ Unused' /\ UNCHANGED <<proc.from, proc.active, proc.mark, proc.to>> /\ proc'.at = a
  BY <1>1, <1>2, GotoFacts, Numbers DEF Typed, Unused
<1>5. tags[n].ftag.stream = f /\ tags[n].trepack.stream = n /\ names[Ref(n)] = File /\ data[n] = "whole"
  BY TagFacts DEF Changing, Pending, TagsAgree, Linked
<1>6. Left(f, n, n)'
  <2>1. names'[Mark(f)] = n /\ n \in (f + 1) .. n /\ tags'[n] = tags[n]
    BY <1>2, <1>3
  <2> QED BY <1>2, <1>5, <2>1 DEF Left
<1>7. Others({n}, n, n)'
  <2> SUFFICES ASSUME NEW r \in Streams, r # n PROVE Other(r, n, n)'
    BY DEF Others
  <2>1. CASE r = f
    BY <1>6, <2>1 DEF Other
  <2>2. CASE r # f
    <3>1. Other(r, f, n - 1) /\ r \in Nat
      BY <1>2, <2>2, Numbers DEF Others
    <3> QED BY <1>2, <1>3, <3>1, OtherKept DEF Untouched
  <2> QED BY <2>1, <2>2
<1>8. Stays(n)'
  <2>1. tags'[File].trepack = Tag(n, "readable") /\ f \in 0 .. (n - 1) /\ names'[Mark(f)] = n
    BY <1>1, <1>2 DEF Changing
  <2> QED BY <2>1 DEF Stays, Origin
<1>9. Clean(n, n)'
  BY <1>1, <1>2, <1>5, <1>7, <1>8 DEF Clean, InStream
<1> QED BY <1>1, <1>2, <1>4, <1>6, <1>9 DEF Changing

\* Who is at work.
LEMMA WhoWorks ==
  ASSUME RepackInv
  PROVE  /\ proc.at \in {"tagmarker", "link", "write", "fin", "close", "comp", "marker ftag", "orepack",
                         "ftag", "untag", "rename"} => Repacks
         /\ proc.at \in {"c keep", "c strip", "c ftag"} => CleansUp
         /\ proc.at = "c untag" => CleansLeft
         /\ proc.at \in {"c file", "c rename"} => CleansUp \/ CleansLeft
         /\ At("idle") => Rests
<1>1. Rests => proc.at = "idle"
  BY DEF Rests, Idle
<1>2. Repacks => proc.at \in {"tagmarker", "link", "write", "fin", "close", "comp", "marker ftag", "orepack",
                         "ftag", "untag", "rename"}
  BY DEF Repacks, RepacksFrom, At
<1>3. CleansUp => proc.at \in {"c keep", "c strip", "c ftag", "c file", "c rename"}
  BY DEF CleansUp, CleansOf, At
<1>4. CleansLeft => proc.at \in {"c file", "c untag", "c rename"}
  BY DEF CleansLeft, CleansPast, At
<1> QED BY <1>1, <1>2, <1>3, <1>4 DEF RepackInv, At

-----------------------------------------------------------------------------
(* The steps of a repack.                                                  *)

LEMMA DoCreateMarker ==
  ASSUME RepackInv, CreateMarker
  PROVE  RepackInv'
<1>1. /\ At("idle") /\ attempt < MaxAttempts /\ UNCHANGED <<tags, data>>
      /\ names[Mark(tags[File].ftag.stream)] = NoInode /\ attempt' = attempt + 1
      /\ names' = [names EXCEPT ![Mark(tags[File].ftag.stream)] = attempt + 1]
      /\ proc' = [Idle EXCEPT !.at = "tagmarker", !.from = tags[File].ftag.stream]
  BY DEF CreateMarker, Marker
<1>2. Typed /\ Unused /\ Rested
  BY <1>1, WhoWorks DEF RepackInv, Rests
\* an attempt on its way stands in the way
<1>3. PICK c, n \in Streams : Clean(c, n)
  <2>1. ASSUME NEW s \in Streams, NEW n \in Streams, Pending(s, n) PROVE FALSE
    <3>1. tags[File].ftag.stream = s /\ names[Mark(s)] = n
      BY <2>1, TagFacts DEF Pending, Frame, TagsAgree
    <3> QED BY <1>1, <1>2, <3>1, Numbers
  <2> QED BY <1>2, <2>1 DEF Rested
<1>4. PICK m \in Nat : m = n + 1
  BY <1>2, Numbers
<1>5. /\ n = attempt /\ c \in Nat /\ c <= n /\ n \in Nat /\ m \in Streams /\ m \in Inodes /\ m - 1 = n /\ m # c
      /\ attempt' = m /\ tags[File].ftag.stream = c
  BY <1>1, <1>2, <1>3, <1>4, Numbers, TagFacts DEF Clean, InStream
<1>6. /\ names' \in [Names -> Inodes \cup {NoInode}]
      /\ names'[Mark(c)] = m
      /\ \A r \in Streams : names'[Ref(r)] = names[Ref(r)] /\ (r # c => names'[Mark(r)] = names[Mark(r)])
  BY <1>1, <1>2, <1>5, NameFacts DEF Typed
<1>7. proc'.at = "tagmarker" /\ proc'.from = c /\ proc' \in ProcSet
  BY <1>1, <1>2, <1>5, IdleType DEF ProcSet, Ats
<1>8. Typed' /\ Unused'
  BY <1>1, <1>2, <1>5, <1>6, <1>7, Numbers DEF Typed, Unused
<1>9. /\ names[Ref(m)] = NoInode /\ data[m] = "none" /\ tags[m] = NoTags /\ names[Mark(m)] = NoInode
  <2>1. names[Ref(m)] = NoInode /\ data[m] = "none" /\ tags[m] = NoTags
    BY <1>2, <1>4, <1>5 DEF Unused
  <2>2. Other(m, c, n) /\ ~Left(m, c, n)
    BY <1>3, <1>4, <1>5 DEF Clean, Others, Left
  <2> QED BY <2>1, <2>2 DEF Other
<1>10. Others({c, m}, c, m - 1)'
  <2> SUFFICES ASSUME NEW r \in Streams, r # c, r # m PROVE Other(r, c, n)'
    BY <1>5 DEF Others
  <2>1. Other(r, c, n) /\ Untouched(r) /\ r \in Nat
    BY <1>1, <1>2, <1>3, <1>6, Numbers DEF Clean, Others, Untouched
  <2>2. \A k \in 1 .. c : names'[Ref(k)] = names[Ref(k)]
    BY <1>2, <1>5, <1>6, Numbers
  <2> QED BY <1>1, <1>5, <2>1, <2>2, OtherKept
<1>11. names[Ref(c)] = File /\ data[c] = "whole" /\ tags[File].ftag = Tag(c, "readable")
  BY <1>3 DEF Clean, InStream
<1>12. Frame(c, m)'
  BY <1>1, <1>2, <1>5, <1>6, <1>9, <1>10, <1>11, Numbers DEF Frame
<1>13. ~Linked(m)' /\ tags[m].ftag = NoTag /\ tags[m].trepack = NoTag
  BY <1>2, <1>5, <1>6, <1>9, Numbers DEF Linked, NoTags
<1>14. tags[File].trepack = NoTag \/ Stays(c)'
  <2>1. Stays(c) => Stays(c)'
    <3> SUFFICES ASSUME Stays(c), NEW r \in 0 .. (c - 1), names[Mark(r)] = c PROVE Stays(c)'
      BY DEF Stays, Origin
    <3>1. r \in Streams /\ r # c
      BY <1>2, <1>5, Numbers
    <3>2. names'[Mark(r)] = c
      BY <1>6, <3>1
    <3> QED BY <1>1, <3>2 DEF Stays, Origin
  <2> QED BY <1>3, <2>1 DEF Clean
<1>15. tags[File].trepack.stream # m
  BY <1>3, <1>5, TagFacts DEF Clean, Stays
<1>16. TagsAgree(c, m)'
  BY <1>1, <1>9, <1>11, <1>13, <1>14, <1>15 DEF TagsAgree
<1>17. Forward(m)'
  BY <1>1, <1>5, <1>13, <1>15, TagFacts DEF Forward
<1>18. RepacksFrom(c, m)'
  BY <1>7, <1>12, <1>13, <1>16, <1>17 DEF RepacksFrom, Pending, At
<1> QED BY <1>5, <1>7, <1>8, <1>18 DEF RepackInv, Repacks

\* The steps of an attempt on its way that set a tag.
LEMMA DoTags ==
  ASSUME RepackInv, TagMarker \/ Fin \/ Complete \/ KeepOldTag \/ KeepFirstTag
  PROVE  RepackInv'
<1>0. Repacks /\ Typed /\ Unused
  BY WhoWorks DEF TagMarker, Fin, Complete, KeepOldTag, KeepFirstTag, At, RepackInv
<1>f. PICK f, n \in Streams : proc.from = f /\ RepacksFrom(f, n)
  BY <1>0 DEF Repacks
<1>1. /\ Frame(f, n) /\ TagsAgree(f, n) /\ (Forward(n) \/ Changing(f, n)) /\ Pending(f, n)
      /\ UNCHANGED <<names, data, attempt>>
  BY <1>f DEF RepacksFrom, Pending, TagMarker, Fin, Complete, KeepOldTag, KeepFirstTag, At
<1>2. /\ attempt = n /\ f # n /\ n # File /\ n > 0 /\ tags[File].ftag \in AnyTag /\ tags[File].orepack \in AnyTag
      /\ names[Mark(f)] = n /\ File \in Inodes /\ n \in Inodes
  <2>1. attempt = n /\ f # n /\ n # File /\ n > 0 /\ names[Mark(f)] = n /\ File \in Inodes /\ n \in Inodes
    BY <1>0, <1>1, Numbers DEF Frame
  <2> QED BY <1>0, <2>1 DEF Typed, TagSet
<1>3. CASE TagMarker
  <2>1. TagStep(f, n, n, "link") /\ tags'[n].trepack = Tag(n, "init") /\ tags'[n].ftag = tags[n].ftag
    <3>1. Set(n, "trepack", Tag(n, "init")) /\ Goto("link") /\ Tag(n, "init") \in AnyTag /\ "link" \in Ats
      BY <1>2, <1>3, TagFacts DEF TagMarker, Marker, Ats
    <3> QED BY <1>0, <1>1, <3>1, TrepackStep
  <2>2. Forward(n) /\ TagsAgree(f, n) /\ ~Linked(n)
    BY <1>f, <1>1, <1>3 DEF RepacksFrom, TagMarker, At
  <2>3. Forward(n)' /\ TagsAgree(f, n)' /\ tags'[n].trepack # NoTag /\ ~Linked(n)'
    BY <2>1, <2>2, TagFacts DEF TagStep, Forward, TagsAgree, Stays
  <2> QED BY <1>f, <2>1, <2>3 DEF TagStep, RepackInv, Repacks, RepacksFrom, Pending, At
<1>4. CASE Fin
  <2>1. TagStep(f, n, File, "close") /\ tags'[File].trepack = Tag(n, "fin") /\ tags'[File].ftag = tags[File].ftag
    BY <1>0, <1>1, <1>2, <1>4, TrepackStep, TagFacts DEF Fin, Ats
  <2>2. Forward(n) /\ TagsAgree(f, n) /\ Linked(n)
    BY <1>f, <1>1, <1>4 DEF RepacksFrom, Fin, At
  <2>3. Tag(n, "fin") # Tag(n, "readable") /\ Tag(n, "fin").stream = n
    BY DEF Tag
  <2>4. Forward(n)' /\ TagsAgree(f, n)' /\ Linked(n)'
    BY <2>1, <2>2, <2>3 DEF TagStep, Forward, TagsAgree
  <2> QED BY <1>f, <2>1, <2>4 DEF TagStep, RepackInv, Repacks, RepacksFrom, Pending, At
<1>5. CASE Complete
  <2>1. /\ TagStep(f, n, File, "marker ftag") /\ tags'[File].trepack = Tag(n, "readable")
        /\ tags'[File].ftag = tags[File].ftag
    BY <1>0, <1>1, <1>2, <1>5, TrepackStep, TagFacts DEF Complete, Ats
  <2>2. Forward(n) /\ TagsAgree(f, n) /\ Linked(n) /\ data[n] = "whole"
    BY <1>f, <1>1, <1>5 DEF RepacksFrom, Complete, At
  <2>3. Tag(n, "readable").stream = n
    BY DEF Tag
  <2>4. Forward(n)' /\ TagsAgree(f, n)' /\ Linked(n)'
    BY <2>1, <2>2, <2>3 DEF TagStep, Forward, TagsAgree
  <2> QED BY <1>f, <2>1, <2>4 DEF TagStep, RepackInv, Repacks, RepacksFrom, Pending, At
<1>6. CASE KeepOldTag
  <2>1. Forward(n) /\ TagsAgree(f, n) /\ Linked(n) /\ tags[File].trepack = Tag(n, "readable")
    BY <1>f, <1>1, <1>6 DEF RepacksFrom, KeepOldTag, At
  <2>2. /\ TagStep(f, n, n, "orepack") /\ tags'[n].ftag = tags[File].ftag
        /\ tags'[n].trepack = tags[n].trepack
    <3>1. Set(n, "ftag", tags[File].ftag) /\ Goto("orepack") /\ "orepack" \in Ats
      BY <1>2, <1>6, <1>f DEF KeepOldTag, Ats
    <3> QED BY <1>0, <1>1, <1>2, <3>1, FtagStep
  <2>3. Changing(f, n)' /\ TagsAgree(f, n)'
    BY <2>1, <2>2, TagFacts DEF TagStep, Forward, Changing, TagsAgree
  <2> QED BY <1>f, <2>2, <2>3 DEF TagStep, RepackInv, Repacks, RepacksFrom, Pending, At
<1>7. CASE KeepFirstTag
  <2>1. Changing(f, n) /\ TagsAgree(f, n)
    BY <1>f, <1>1, <1>7 DEF RepacksFrom, KeepFirstTag, At
  <2>2. /\ TagStep(f, n, File, "ftag") /\ tags'[File].ftag = tags[File].ftag
        /\ tags'[File].trepack = tags[File].trepack
    BY <1>0, <1>1, <1>2, <1>7, OrepackStep DEF KeepFirstTag, Ats
  <2>3. Changing(f, n)' /\ TagsAgree(f, n)'
    BY <2>1, <2>2, TagFacts DEF TagStep, Changing, TagsAgree
  <2> QED BY <1>f, <2>2, <2>3 DEF TagStep, RepackInv, Repacks, RepacksFrom, Pending, At
<1> QED BY <1>3, <1>4, <1>5, <1>6, <1>7

\* The change over, and what is left to do after it.
LEMMA DoChangeOver ==
  ASSUME RepackInv, ChangeOver \/ RemoveTag
  PROVE  RepackInv'
<1>0. Repacks /\ Typed /\ Unused
  BY WhoWorks DEF ChangeOver, RemoveTag, At, RepackInv
<1>f. PICK f, n \in Streams : proc.from = f /\ RepacksFrom(f, n)
  BY <1>0 DEF Repacks
<1>1. CASE ChangeOver
  <2>1. Pending(f, n) /\ Changing(f, n) /\ attempt = n
    BY <1>f, <1>1 DEF ChangeOver, RepacksFrom, At, Pending, Frame
  <2>2. Set(File, "ftag", Tag(n, "readable")) /\ Goto("untag") /\ UNCHANGED <<names, data, attempt>>
    BY <1>1, <2>1 DEF ChangeOver
  <2>3. /\ Typed' /\ Unused' /\ Clean(n, n)' /\ Left(f, n, n)' /\ names'[Mark(f)] = n /\ proc'.at = "untag"
        /\ proc'.from = proc.from
    BY <1>0, <2>1, <2>2, ChangesOver DEF Ats
  <2> QED BY <1>f, <2>3 DEF RepackInv, Repacks, RepacksFrom, At
<1>2. CASE RemoveTag
  <2>1. Clean(n, n) /\ Left(f, n, n) /\ names[Mark(f)] = n
    BY <1>f, <1>2 DEF RemoveTag, RepacksFrom, At
  <2>2. Set(File, "trepack", NoTag) /\ Goto("rename") /\ UNCHANGED <<names, data, attempt>>
    BY <1>2 DEF RemoveTag
  <2>3. /\ Typed' /\ Unused' /\ Clean(n, n)' /\ Left(f, n, n)' /\ names'[Mark(f)] = n /\ proc'.at = "rename"
        /\ proc'.from = proc.from /\ tags'[File].trepack = NoTag
    BY <1>0, <2>1, <2>2, CleanUntagged DEF Ats
  <2> QED BY <1>f, <2>3 DEF RepackInv, Repacks, RepacksFrom, At
<1> QED BY <1>1, <1>2

\* A step that adds the new reference, or writes the new stream.
LEMMA DoWrites ==
  ASSUME RepackInv, LinkNewRef \/ Write \/ CloseObj
  PROVE  RepackInv'
<1>0. Repacks /\ Typed /\ Unused
  BY WhoWorks DEF LinkNewRef, Write, CloseObj, At, RepackInv
<1>f. PICK f, n \in Streams : proc.from = f /\ RepacksFrom(f, n)
  BY <1>0 DEF Repacks
<1>1. Frame(f, n) /\ TagsAgree(f, n) /\ Forward(n) /\ UNCHANGED <<tags, attempt>>
  BY <1>f DEF RepacksFrom, Pending, LinkNewRef, Write, CloseObj, At
<1>2. /\ attempt = n /\ f # n /\ n # File /\ n \in Nat /\ n > 0 /\ n - 1 \in Nat /\ f \in Nat /\ f <= n - 1
      /\ names[Ref(f)] = File /\ Others({f, n}, f, n - 1)
  BY <1>0, <1>1, Numbers DEF Frame
<1>3. CASE LinkNewRef
  <2>1. /\ names' = [names EXCEPT ![Ref(n)] = File] /\ data' = data /\ Goto("write")
        /\ tags[n].trepack # NoTag /\ tags[File].trepack.stream # n
    BY <1>f, <1>1, <1>2, <1>3 DEF LinkNewRef, RepacksFrom, TagsAgree, At
  <2>2. /\ names' \in [Names -> Inodes \cup {NoInode}]
        /\ names'[Ref(n)] = File
        /\ \A r \in Streams : names'[Mark(r)] = names[Mark(r)] /\ (r # n => names'[Ref(r)] = names[Ref(r)])
    BY <1>0, <2>1, NameFacts, Numbers DEF Typed
  <2>3. proc' \in ProcSet /\ proc'.at = "write" /\ proc'.from = f
    BY <1>0, <1>f, <2>1, GotoFacts DEF Ats
  <2>4. Typed' /\ Unused'
    BY <1>0, <1>1, <1>2, <2>1, <2>2, <2>3 DEF Typed, Unused
  <2>5. Others({f, n}, f, n - 1)'
    <3> SUFFICES ASSUME NEW r \in Streams, r # f, r # n PROVE Other(r, f, n - 1)'
      BY DEF Others
    <3>1. Other(r, f, n - 1) /\ r \in Nat /\ Untouched(r)
      BY <1>0, <1>2, <2>1, <2>2, Numbers DEF Others, Untouched
    <3>2. \A k \in 1 .. f : names'[Ref(k)] = names[Ref(k)]
      BY <1>0, <1>2, <2>2, Numbers
    <3> QED BY <1>1, <1>2, <3>1, <3>2, OtherKept
  <2>6. Frame(f, n)' /\ Linked(n)'
    BY <1>1, <1>2, <2>1, <2>2, <2>5 DEF Frame, Linked
  <2>7. Stays(f)' <=> Stays(f)
    <3>1. \A r \in 0 .. (f - 1) : r \in Streams
      BY <1>0, <1>2, Numbers
    <3> QED BY <1>1, <2>2, <3>1 DEF Stays, Origin
  <2>8. TagsAgree(f, n)' /\ Forward(n)'
    BY <1>1, <2>1, <2>6, <2>7 DEF TagsAgree, Forward
  <2>9. RepacksFrom(f, n)'
    BY <1>1, <2>1, <2>3, <2>6, <2>8 DEF RepacksFrom, Pending, At
  <2> QED BY <2>3, <2>4, <2>9 DEF RepackInv, Repacks
<1>4. CASE Write \/ CloseObj
  <2>1. PICK d \in {"part", "whole"}, a \in {"fin", "comp"} :
          /\ UNCHANGED names /\ data' = [data EXCEPT ![n] = d] /\ Goto(a) /\ Linked(n)
          /\ a = "comp" => d = "whole"
          /\ a = "fin" => At("write") /\ tags[File].trepack.stream # n
    BY <1>f, <1>2, <1>4 DEF Write, CloseObj, RepacksFrom, At
  <2>2. /\ data' \in [Streams -> {"none", "part", "whole"}] /\ data'[n] = d
        /\ \A r \in Streams : r # n => data'[r] = data[r]
    BY <1>0, <2>1 DEF Typed
  <2>3. proc' \in ProcSet /\ proc'.at = a /\ proc'.from = f
    BY <1>0, <1>f, <2>1, GotoFacts DEF Ats
  <2>4. Typed' /\ Unused'
    BY <1>0, <1>1, <1>2, <2>1, <2>2, <2>3 DEF Typed, Unused
  <2>5. Others({f, n}, f, n - 1)'
    <3> SUFFICES ASSUME NEW r \in Streams, r # f, r # n PROVE Other(r, f, n - 1)'
      BY DEF Others
    <3>1. Other(r, f, n - 1) /\ r \in Nat /\ Untouched(r)
      BY <1>0, <1>2, <2>1, <2>2, Numbers DEF Others, Untouched
    <3> QED BY <1>1, <1>2, <2>1, <3>1, OtherKept
  <2>6. Frame(f, n)' /\ Linked(n)'
    BY <1>1, <1>2, <2>1, <2>2, <2>5 DEF Frame, Linked
  <2>7. Stays(f)' <=> Stays(f)
    BY <1>1, <2>1 DEF Stays, Origin
  <2>8. TagsAgree(f, n)'
    BY <1>1, <2>1, <2>6, <2>7 DEF TagsAgree, Linked
  <2>9. Forward(n)' /\ data'[n] = d
    BY <1>1, <2>1, <2>2, TagFacts DEF Forward
  <2>10. RepacksFrom(f, n)'
    BY <1>1, <2>1, <2>3, <2>6, <2>8, <2>9 DEF RepacksFrom, Pending, At
  <2> QED BY <2>3, <2>4, <2>10 DEF RepackInv, Repacks
<1> QED BY <1>3, <1>4

-----------------------------------------------------------------------------
(* The marker becomes a reference, or goes.                                *)

\* A marker the file has left takes the place of the file's reference beside it.
LEMMA OtherRenamed ==
  ASSUME Typed, NEW f \in Streams, NEW s \in Streams, NEW n \in Streams, s <= n, Left(f, s, n),
         Rename(Mark(f), Ref(f)), UNCHANGED <<tags, data>>
  PROVE  /\ names' \in [Names -> Inodes \cup {NoInode}] /\ names'[Mark(f)] = NoInode
         /\ \A r \in Streams : r # f => names'[Ref(r)] = names[Ref(r)] /\ names'[Mark(r)] = names[Mark(r)]
         /\ \A r \in Streams : Other(r, s, n) => Other(r, s, n)'
<1>1. f \in Nat /\ s \in Nat /\ n \in Nat /\ \A r \in Streams : r \in Nat
  BY Numbers
<1>2. PICK k \in Streams : k = names[Mark(f)] /\ k \in (f + 1) .. s /\ k \in 1 .. n /\ tags[k].ftag.stream = f
                           /\ tags[k].trepack.stream = k
  BY <1>1, Numbers DEF Left
<1>3. /\ names' \in [Names -> Inodes \cup {NoInode}]
      /\ names'[Mark(f)] = NoInode /\ names'[Ref(f)] = k
      /\ \A r \in Streams : names'[Ref(r)] = (IF r = f THEN k ELSE names[Ref(r)])
      /\ \A r \in Streams : r # f => names'[Ref(r)] = names[Ref(r)] /\ names'[Mark(r)] = names[Mark(r)]
  <2>1. names' = [names EXCEPT ![Ref(f)] = k, ![Mark(f)] = NoInode]
    BY <1>2 DEF Rename
  <2> QED BY <1>2, <2>1, NameFacts, Numbers DEF Typed
<1>4. Other(f, s, n)'
  BY <1>2, <1>3 DEF Other, Former
<1>5. ASSUME NEW r \in Streams, r # f, Other(r, s, n) PROVE Other(r, s, n)'
  <2>1. CASE names[Mark(r)] = NoInode /\ (Absent(r) \/ Former(r, n))
    BY <1>3, <1>5, <2>1 DEF Other, Absent, Former
  <2>2. CASE Left(r, s, n)
    <3>1. PICK j \in Streams : j = names[Mark(r)]
      BY <1>1, <2>2, Numbers DEF Left
    <3>2. /\ j \in (r + 1) .. s /\ names[Ref(r)] = File /\ tags[j].ftag.stream = r /\ tags[j].trepack.stream = j
          /\ \/ names[Ref(j)] = File
             \/ names[Ref(j)] \in 1 .. n /\ tags[names[Ref(j)]].trepack.stream \in (j + 1) .. n
      BY <2>2, <3>1 DEF Left
    <3>3. names'[Mark(r)] = j /\ names'[Ref(r)] = File
      BY <1>3, <1>5, <3>1, <3>2
    <3>4. \/ names'[Ref(j)] = File
          \/ names'[Ref(j)] \in 1 .. n /\ tags[names'[Ref(j)]].trepack.stream \in (j + 1) .. n
      <4>1. CASE j = f
        <5>1. names'[Ref(j)] = k /\ k \in 1 .. n /\ tags[k].trepack.stream = k /\ k \in (j + 1) .. n
          BY <1>1, <1>2, <1>3, <4>1
        <5> QED BY <5>1
      <4>2. CASE j # f
        BY <1>3, <3>2, <4>2
      <4> QED BY <4>1, <4>2
    <3>5. Left(r, s, n)'
      BY <3>2, <3>3, <3>4 DEF Left
    <3> QED BY <3>5 DEF Other
  <2> QED BY <1>5, <2>1, <2>2 DEF Other
<1> QED BY <1>3, <1>4, <1>5

LEMMA MarkerToOld ==
  ASSUME Typed, Unused, NEW f \in Streams, NEW s \in Streams, NEW n \in Streams,
         Clean(s, n) \/ Pending(s, n), Left(f, s, n), tags[File].trepack = NoTag,
         Rename(Mark(f), Ref(f)), UNCHANGED <<tags, data, attempt>>, proc' = Idle
  PROVE  RepackInv'
<1>1. /\ s <= n /\ n = attempt /\ f # s /\ s \in Nat /\ n \in Nat /\ f \in Nat /\ f < n /\ f >= 0
  <2>1. Clean(s, n) => s <= n /\ n = attempt
    BY Numbers DEF Clean
  <2>2. Pending(s, n) => s <= n /\ n = attempt
    BY Numbers DEF Pending, Frame
  <2>3. f # s /\ s \in Nat /\ n \in Nat /\ f \in Nat
    BY LeftIsOther, Numbers
  <2>4. f < s
    BY <2>3, Numbers DEF Left
  <2> QED BY <2>1, <2>2, <2>3, <2>4
<1>2. /\ names' \in [Names -> Inodes \cup {NoInode}] /\ names'[Mark(f)] = NoInode
      /\ \A r \in Streams : r # f => names'[Ref(r)] = names[Ref(r)] /\ names'[Mark(r)] = names[Mark(r)]
      /\ \A r \in Streams : Other(r, s, n) => Other(r, s, n)'
  BY <1>1, OtherRenamed
<1>3. Typed' /\ Unused'
  <2>1. \A r \in Streams : r > attempt => r # f
    BY <1>1
  <2> QED BY <1>2, <2>1, IdleType DEF Typed, Unused
<1>4. CASE Clean(s, n)
  <2>1. Others({s}, s, n)'
    BY <1>2, <1>4 DEF Clean, Others
  <2>2. Clean(s, n)'
    BY <1>1, <1>2, <1>4, <2>1 DEF Clean, InStream
  <2> QED BY <1>3, <2>2 DEF RepackInv, Rests, Rested
<1>5. CASE Pending(s, n)
  <2>1. f # n /\ Left(f, s, n - 1) /\ n - 1 \in Streams /\ s <= n - 1
    BY <1>1, <1>5, LeftIsOther, Numbers DEF Pending, Frame
  <2>2. \A r \in Streams : Other(r, s, n - 1) => Other(r, s, n - 1)'
    BY <2>1, OtherRenamed
  <2>3. Others({s, n}, s, n - 1)'
    BY <1>5, <2>2 DEF Pending, Frame, Others
  <2>4. Frame(s, n)' /\ (Linked(n)' <=> Linked(n))
    BY <1>1, <1>2, <1>5, <2>1, <2>3 DEF Pending, Frame, Linked
  <2>5. Pending(s, n)'
    BY <1>5, <2>4 DEF Pending, TagsAgree, Forward, Reverting, Changing
  <2> QED BY <1>3, <2>5 DEF RepackInv, Rests, Rested
<1> QED BY <1>4, <1>5

LEMMA MarkerToNew ==
  ASSUME Typed, Unused, NEW f \in Streams, NEW n \in Streams, Pending(f, n), Reverting(n),
         Rename(Mark(f), Ref(n)), UNCHANGED <<tags, data, attempt>>, proc' = Idle
  PROVE  RepackInv'
<1>1. /\ n \in Nat /\ n = attempt /\ n > 0 /\ f \in Nat /\ f <= n - 1 /\ f <= n /\ f # n /\ n - 1 \in Nat /\ n - 1 <= n
      /\ Others({f, n}, f, n - 1) /\ names[Mark(n)] = NoInode /\ names[Mark(f)] = n
      /\ names[Ref(f)] = File /\ data[f] = "whole" /\ tags[File].ftag = Tag(f, "readable")
  BY Numbers DEF Pending, Frame, TagsAgree
<1>2. /\ names' \in [Names -> Inodes \cup {NoInode}]
      /\ names'[Mark(f)] = NoInode /\ names'[Ref(n)] = n
      /\ \A r \in Streams : r # f => names'[Mark(r)] = names[Mark(r)]
      /\ \A r \in Streams : r # n => names'[Ref(r)] = names[Ref(r)]
  <2>1. names' = [names EXCEPT ![Ref(n)] = n, ![Mark(f)] = NoInode]
    BY <1>1 DEF Rename
  <2> QED BY <1>1, <2>1, NameFacts, Numbers DEF Typed
<1>3. Typed' /\ Unused'
  BY <1>1, <1>2, IdleType, Numbers DEF Typed, Unused
<1>4. Others({f}, f, n)'
  <2> SUFFICES ASSUME NEW r \in Streams, r # f PROVE Other(r, f, n)'
    BY DEF Others
  <2>1. CASE r = n
    BY <1>1, <1>2, <2>1 DEF Reverting, Other, Former
  <2>2. CASE r # n
    <3>1. Other(r, f, n - 1) /\ r \in Nat /\ Untouched(r)
      BY <1>1, <1>2, <2>2, Numbers DEF Others, Untouched
    <3>2. \A k \in 1 .. f : names'[Ref(k)] = names[Ref(k)]
      BY <1>1, <1>2, Numbers
    <3> QED BY <1>1, <3>1, <3>2, OtherKept
  <2> QED BY <2>1, <2>2
<1>5. Clean(f, n)'
  BY <1>1, <1>2, <1>4 DEF Clean, InStream, Reverting
<1> QED BY <1>3, <1>5 DEF RepackInv, Rests, Rested

LEMMA MarkerDropped ==
  ASSUME Typed, Unused, NEW f \in Streams, NEW n \in Streams, Pending(f, n), ~Linked(n),
         names' = [names EXCEPT ![Mark(f)] = NoInode], UNCHANGED <<tags, data, attempt>>, proc' = Idle
  PROVE  RepackInv'
<1>1. /\ n \in Nat /\ n = attempt /\ n > 0 /\ f \in Nat /\ f <= n - 1 /\ f <= n /\ f # n /\ n - 1 \in Nat /\ n - 1 <= n
      /\ Others({f, n}, f, n - 1) /\ names[Mark(n)] = NoInode /\ names[Mark(f)] = n
      /\ names[Ref(f)] = File /\ data[f] = "whole" /\ tags[File].ftag = Tag(f, "readable")
      /\ names[Ref(n)] = NoInode /\ data[n] = "none"
  BY Numbers DEF Pending, Frame, TagsAgree, Linked
<1>2. /\ names' \in [Names -> Inodes \cup {NoInode}]
      /\ names'[Mark(f)] = NoInode
      /\ \A r \in Streams : r # f => names'[Mark(r)] = names[Mark(r)]
      /\ \A r \in Streams : names'[Ref(r)] = names[Ref(r)]
  BY NameFacts DEF Typed
<1>3. Typed' /\ Unused'
  BY <1>1, <1>2, IdleType DEF Typed, Unused
<1>4. Others({f}, f, n)'
  <2> SUFFICES ASSUME NEW r \in Streams, r # f PROVE Other(r, f, n)'
    BY DEF Others
  <2>1. CASE r = n
    BY <1>1, <1>2, <2>1 DEF Other, Absent
  <2>2. CASE r # n
    <3>1. Other(r, f, n - 1) /\ r \in Nat /\ Untouched(r)
      BY <1>1, <1>2, <2>2, Numbers DEF Others, Untouched
    <3>2. \A k \in 1 .. f : names'[Ref(k)] = names[Ref(k)]
      BY <1>1, <1>2, Numbers
    <3> QED BY <1>1, <3>1, <3>2, OtherKept
  <2> QED BY <2>1, <2>2
<1>5. tags[File].trepack = NoTag \/ Stays(f)'
  <2>1. ASSUME Stays(f) PROVE Stays(f)'
    <3>1. PICK r \in 0 .. (f - 1) : names[Mark(r)] = f
      BY <2>1 DEF Stays, Origin
    <3>2. r \in Streams /\ r # f
      BY <1>1, Numbers
    <3>3. names'[Mark(r)] = f
      BY <1>2, <3>1, <3>2
    <3> QED BY <2>1, <3>3 DEF Stays, Origin
  <2> QED BY <2>1 DEF Pending, TagsAgree
<1>6. Clean(f, n)'
  BY <1>1, <1>2, <1>4, <1>5 DEF Clean, InStream
<1> QED BY <1>3, <1>6 DEF RepackInv, Rests, Rested

LEMMA DoRenameMarker ==
  ASSUME RepackInv, RenameMarker
  PROVE  RepackInv'
<1>1. Repacks /\ Typed /\ Unused
  BY WhoWorks DEF RenameMarker, At, RepackInv
<1>2. PICK f, n \in Streams : proc.from = f /\ RepacksFrom(f, n)
  BY <1>1 DEF Repacks
<1>3. Clean(n, n) /\ Left(f, n, n) /\ tags[File].trepack = NoTag
  BY <1>2 DEF RepacksFrom, RenameMarker, At
<1> QED BY <1>1, <1>2, <1>3, MarkerToOld DEF RenameMarker

-----------------------------------------------------------------------------
(* The steps of a cleanup.                                                 *)

LEMMA StateKept ==
  ASSUME UNCHANGED <<names, tags, data, attempt>>, NEW s, NEW n
  PROVE  /\ Unused' <=> Unused
         /\ Clean(s, n)' <=> Clean(s, n)
         /\ Pending(s, n)' <=> Pending(s, n)
         /\ \A f : Left(f, s, n)' <=> Left(f, s, n)
         /\ Linked(n)' <=> Linked(n)
         /\ Forward(n)' <=> Forward(n)
         /\ Reverting(n)' <=> Reverting(n)
         /\ \A f : Changing(f, n)' <=> Changing(f, n)
<1>1. Unused' <=> Unused
  BY DEF Unused
<1>2. \A f, u, m : Left(f, u, m)' <=> Left(f, u, m)
  BY DEF Left
<1>3. \A r, u, m : Other(r, u, m)' <=> Other(r, u, m)
  BY <1>2 DEF Other, Absent, Former
<1>4. /\ Linked(n)' <=> Linked(n)
      /\ Forward(n)' <=> Forward(n)
      /\ Reverting(n)' <=> Reverting(n)
      /\ \A f : Changing(f, n)' <=> Changing(f, n)
      /\ Stays(s)' <=> Stays(s)
  BY DEF Linked, Forward, Reverting, Changing, Stays, Origin
<1>5. Clean(s, n)' <=> Clean(s, n)
  BY <1>3, <1>4 DEF Clean, InStream, Others
<1>6. Pending(s, n)' <=> Pending(s, n)
  <2>1. Frame(s, n)' <=> Frame(s, n)
    BY <1>3 DEF Frame, Others
  <2>2. TagsAgree(s, n)' <=> TagsAgree(s, n)
    BY <1>4 DEF TagsAgree
  <2> QED BY <1>4, <2>1, <2>2 DEF Pending
<1> QED BY <1>1, <1>2, <1>4, <1>5, <1>6

\* The marker of the last attempt is found.
LEMMA StartsOnLast ==
  ASSUME Typed, Unused, proc = Idle, NEW f \in Streams, NEW n \in Streams, Pending(f, n), CleanupStart(f), ~mistaken'
  PROVE  RepackInv'
<1>1. /\ names[Mark(f)] = n /\ n # NoInode /\ UNCHANGED <<tags, data, attempt>> /\ n \in Inodes /\ File \in Inodes
      /\ File # NoInode /\ TagsAgree(f, n) /\ names[Ref(n)] \in {NoInode, File} /\ f \in Nat /\ n \in Nat
      /\ f # n
  BY Numbers DEF Pending, Frame, CleanupStart
<1>2. CASE tags[n].trepack = NoTag \/ names[Ref(tags[n].trepack.stream)] = NoInode
  <2>1. ~Linked(n)
    BY <1>1, <1>2 DEF TagsAgree, Linked
  <2>2. names' = [names EXCEPT ![Mark(f)] = NoInode] /\ proc' = Idle
    BY <1>1, <1>2 DEF CleanupStart, Has
  <2> QED BY <1>1, <2>1, <2>2, MarkerDropped
<1>3. CASE ~(tags[n].trepack = NoTag \/ names[Ref(tags[n].trepack.stream)] = NoInode)
  <2>1. tags[n].trepack.stream = n /\ names[Ref(n)] = File /\ Linked(n)
    BY <1>1, <1>3 DEF TagsAgree, Linked
  <2> DEFINE active == tags[File].trepack
             use    == IF active # NoTag THEN active ELSE tags[n].trepack
  <2>2. /\ UNCHANGED names /\ ~OfAnother(active, n)
        /\ proc' = [Idle EXCEPT !.mark = f, !.active = use, !.to = n, !.from = File, !.at =
             IF tags[n].ftag = NoTag THEN (IF active # NoTag THEN "c keep" ELSE "c ftag")
             ELSE (IF active # NoTag THEN "c file" ELSE "c rename")]
    BY <1>1, <1>3, <2>1 DEF CleanupStart, Has, Reverts
  <2>3. active = NoTag \/ active.stream = n
    BY <2>2 DEF OfAnother
  <2>4. use \in AnyTag /\ use.stream = n /\ Idle \in ProcSet
    BY <1>1, <2>1, <2>3, IdleType DEF Typed, TagSet
  <2> HIDE DEF use
  <2>5. /\ proc' \in ProcSet /\ proc'.mark = f /\ proc'.from = File /\ proc'.to = n /\ proc'.active = use
        /\ proc'.at = IF tags[n].ftag = NoTag THEN (IF active # NoTag THEN "c keep" ELSE "c ftag")
                      ELSE (IF active # NoTag THEN "c file" ELSE "c rename")
    BY <1>1, <2>2, <2>4 DEF ProcSet, Ats, File
  <2>6. /\ Typed' /\ Unused' /\ Pending(f, n)' /\ Linked(n)'
        /\ Forward(n)' <=> Forward(n)
        /\ Reverting(n)' <=> Reverting(n)
        /\ Changing(f, n)' <=> Changing(f, n)
    BY <1>1, <2>1, <2>2, <2>5, StateKept DEF Typed
  <2>7. CASE tags[n].ftag = NoTag
    <3>1. Forward(n)
      BY <2>7, TagFacts DEF Pending, Forward, Reverting, Changing
    <3>2. CleansOf(f, n)'
      BY <1>1, <2>5, <2>6, <2>7, <3>1 DEF CleansOf, At
    <3> QED BY <2>4, <2>5, <2>6, <3>2 DEF RepackInv, CleansUp
  <2>8. CASE tags[n].ftag # NoTag /\ active # NoTag
    <3>1. Changing(f, n) /\ active = Tag(n, "readable") /\ use = active
      BY <2>8 DEF Pending, Forward, Reverting, Changing, use
    <3>2. CleansOf(f, n)'
      BY <2>5, <2>6, <2>8, <3>1 DEF CleansOf, At
    <3> QED BY <2>4, <2>5, <2>6, <3>2 DEF RepackInv, CleansUp
  <2>9. CASE tags[n].ftag # NoTag /\ active = NoTag
    <3>1. Reverting(n)
      BY <2>9, TagFacts DEF Pending, Forward, Changing
    <3>2. CleansOf(f, n)'
      BY <2>5, <2>6, <2>9, <3>1 DEF CleansOf, At
    <3> QED BY <2>4, <2>5, <2>6, <3>2 DEF RepackInv, CleansUp
  <2> QED BY <2>7, <2>8, <2>9
<1> QED BY <1>2, <1>3

\* The TREPACK of the file tells of the stream the file came to last, or of the last attempt.
LEMMA TrepackOfLast ==
  ASSUME Typed, NEW s \in Streams, NEW n \in Streams, Clean(s, n) \/ Pending(s, n), NEW k \in 1 .. s,
         tags[File].trepack.stream = k
  PROVE  k = s /\ tags[File].trepack = Tag(k, "readable") /\ tags[File].ftag = Tag(k, "readable")
<1>1. k \in Streams /\ k # 0 /\ NoTag.stream # k
  BY TagFacts, Numbers
<1>2. CASE Clean(s, n)
  BY <1>1, <1>2, TagFacts DEF Clean, InStream, Stays
<1>3. CASE Pending(s, n)
  <2>1. n # k
    BY <1>3, Numbers DEF Pending, Frame
  <2> QED BY <1>1, <1>3, <2>1, TagFacts DEF Pending, TagsAgree, Stays
<1> QED BY <1>2, <1>3

\* A marker the file has left is found.
LEMMA StartsOnLeft ==
  ASSUME Typed, Unused, proc = Idle, NEW s \in Streams, NEW n \in Streams, Clean(s, n) \/ Pending(s, n),
         NEW f \in Streams, Left(f, s, n), CleanupStart(f), ~mistaken'
  PROVE  RepackInv'
<1>1. PICK k \in Streams : k = names[Mark(f)] /\ k \in 1 .. s /\ k # NoInode
  BY LeftIsOther
<1>2. /\ tags[k].ftag.stream = f /\ tags[k].trepack.stream = k /\ f \in Nat
      /\ UNCHANGED <<tags, data, attempt>> /\ k \in Nat /\ File # NoInode
      /\ \/ names[Ref(k)] = File
         \/ /\ names[Ref(k)] \in 1 .. n
            /\ tags[names[Ref(k)]].trepack.stream \in (k + 1) .. n
  BY <1>1, Numbers DEF Left, CleanupStart
<1>3. Has(k, "trepack") /\ names[Ref(k)] # NoInode /\ tags[k].ftag # NoTag
  BY <1>1, <1>2, TagFacts, Numbers DEF Has
<1> DEFINE active == tags[names[Ref(k)]].trepack
<1>4. /\ UNCHANGED names /\ ~OfAnother(active, k)
      /\ proc' = [Idle EXCEPT !.mark = f, !.active = IF active # NoTag THEN active ELSE tags[k].trepack,
                              !.to = k, !.from = names[Ref(k)],
                              !.at = IF active # NoTag THEN "c file" ELSE "c rename"]
  BY <1>1, <1>2, <1>3 DEF CleanupStart, Reverts
<1>5. names[Ref(k)] = File
  <2> SUFFICES ASSUME names[Ref(k)] \in 1 .. n, active.stream \in (k + 1) .. n PROVE FALSE
    BY <1>2
  <2>1. active.stream # k /\ active.stream \in Streams
    BY <1>2, Numbers
  <2>2. active # NoTag
    BY <2>1, TagFacts
  <2> QED BY <1>4, <2>1, <2>2 DEF OfAnother
<1>6. active = tags[File].trepack /\ (active = NoTag \/ active = Tag(k, "readable"))
  <2>1. active = tags[File].trepack
    BY <1>5
  <2>2. active = NoTag \/ active.stream = k
    BY <1>4 DEF OfAnother
  <2> QED BY <1>1, <2>1, <2>2, TrepackOfLast
<1> HIDE DEF active
<1>7. /\ proc' \in ProcSet /\ proc'.mark = f /\ proc'.from = File /\ proc'.to = k
      /\ active # NoTag => proc'.at = "c file" /\ proc'.active = active
      /\ active = NoTag => proc'.at = "c rename"
  <2>1. tags[k].trepack \in AnyTag /\ tags[File].trepack \in AnyTag
    BY Numbers DEF Typed, TagSet
  <2>2. Idle \in ProcSet /\ f \in Nat /\ k \in Nat /\ File \in Nat
    BY <1>2, IdleType, Numbers
  <2>3. CASE active # NoTag
    <3>1. proc' = [Idle EXCEPT !.mark = f, !.active = active, !.to = k, !.from = File, !.at = "c file"]
      BY <1>4, <1>5, <2>3
    <3>2. active \in AnyTag /\ "c file" \in Ats
      BY <1>6, <2>1 DEF Ats
    <3> QED BY <2>2, <2>3, <3>1, <3>2 DEF ProcSet
  <2>4. CASE active = NoTag
    <3>1. proc' = [Idle EXCEPT !.mark = f, !.active = tags[k].trepack, !.to = k, !.from = File, !.at = "c rename"]
      BY <1>4, <1>5, <2>4
    <3>2. "c rename" \in Ats
      BY DEF Ats
    <3> QED BY <2>1, <2>2, <2>4, <3>1, <3>2 DEF ProcSet
  <2> QED BY <2>3, <2>4
<1>8. Typed' /\ Unused' /\ (Clean(s, n)' \/ Pending(s, n)') /\ Left(f, s, n)'
  BY <1>2, <1>4, <1>7, StateKept DEF Typed
<1>9. CleansPast(f, k, s, n)'
  BY <1>1, <1>2, <1>4, <1>6, <1>7, <1>8 DEF CleansPast, At
<1> QED BY <1>7, <1>8, <1>9 DEF RepackInv, CleansLeft

LEMMA DoCleanupStart ==
  ASSUME RepackInv, NEW f \in Streams, CleanupStart(f), ~mistaken'
  PROVE  RepackInv'
<1>1. At("idle") /\ names[Mark(f)] # NoInode
  BY DEF CleanupStart
<1>2. Typed /\ Unused /\ proc = Idle /\ Rested
  BY <1>1, WhoWorks DEF RepackInv, Rests
<1>3. PICK s, n \in Streams : Clean(s, n) \/ Pending(s, n)
  BY <1>2 DEF Rested
<1>4. CASE Clean(s, n)
  <2>1. f # s /\ Other(f, s, n)
    BY <1>1, <1>4 DEF Clean, Others
  <2>2. Left(f, s, n)
    BY <1>1, <2>1 DEF Other
  <2> QED BY <1>2, <1>4, <2>2, StartsOnLeft
<1>5. CASE Pending(s, n) /\ f # s
  <2>1. f # n /\ Other(f, s, n - 1)
    BY <1>1, <1>5 DEF Pending, Frame, Others
  <2>2. Left(f, s, n - 1)
    BY <1>1, <2>1 DEF Other
  <2>3. Left(f, s, n)
    <3>1. n \in Nat /\ names[Mark(f)] \in Nat
      BY <1>2, <2>2, Numbers DEF Left
    <3> QED BY <2>2, <3>1 DEF Left
  <2> QED BY <1>2, <1>5, <2>3, StartsOnLeft
<1>6. CASE Pending(s, n) /\ f = s
  BY <1>2, <1>6, StartsOnLast
<1> QED BY <1>3, <1>4, <1>5, <1>6

\* The steps by which the last attempt is taken back, or goes on to the change over.
LEMMA DoCleanupTags ==
  ASSUME RepackInv, CleansUp, CleanupKeep \/ CleanupStrip \/ CleanupFtag \/ CleanupFile
  PROVE  RepackInv'
<1>0. Typed /\ Unused /\ UNCHANGED <<names, data, attempt>>
  BY DEF RepackInv, CleanupKeep, CleanupStrip, CleanupFtag, CleanupFile
<1>f. PICK f, n \in Streams : proc.mark = f /\ proc.to = n /\ proc.from = File /\ proc.active.stream = n
                              /\ CleansOf(f, n)
  BY DEF CleansUp
<1>1. PICK active \in AnyTag : active = proc.active /\ active.stream = n
  BY <1>0, <1>f DEF Typed, ProcSet
<1>2. /\ Frame(f, n) /\ TagsAgree(f, n) /\ names[Mark(f)] = n /\ n # File /\ active # NoTag /\ attempt = n
      /\ n \in {File, n} /\ File \in {File, n}
  <2>1. Frame(f, n) /\ TagsAgree(f, n)
    BY <1>f DEF CleansOf, Pending
  <2>2. names[Mark(f)] = n /\ attempt = n /\ n # File
    BY <1>0, <2>1, Numbers DEF Frame
  <2>3. active # NoTag
    BY <1>1, TagFacts
  <2> QED BY <2>1, <2>2, <2>3
<1>3. CASE CleanupKeep
  <2>1. TagStep(f, n, n, "c strip") /\ tags'[n].trepack = active /\ tags'[n].ftag = tags[n].ftag
    <3>1. Set(n, "trepack", active) /\ Goto("c strip")
      BY <1>1, <1>2, <1>3, <1>f DEF CleanupKeep
    <3>2. "c strip" \in Ats /\ n \in {File, n} /\ active \in AnyTag
      BY DEF Ats
    <3>3. Typed /\ Unused /\ Frame(f, n) /\ UNCHANGED <<names, data, attempt>>
      BY <1>0, <1>2
    <3> HIDE <1>0, <1>2
    <3> QED BY <3>1, <3>2, <3>3, TrepackStep
  <2>2. Forward(n) /\ Linked(n)
    BY <1>f, <1>3 DEF CleansOf, CleanupKeep, At
  <2>3. Forward(n)' /\ TagsAgree(f, n)' /\ Linked(n)'
    BY <1>1, <1>2, <2>1, <2>2 DEF TagStep, Forward, TagsAgree, Stays
  <2> QED BY <1>f, <2>1, <2>3 DEF TagStep, RepackInv, CleansUp, CleansOf, Pending, At
<1>4. CASE CleanupStrip
  <2>1. /\ TagStep(f, n, File, "c ftag") /\ tags'[File].trepack = NoTag /\ tags'[File].ftag = tags[File].ftag
    <3>1. Set(File, "trepack", NoTag) /\ Goto("c ftag") /\ "c ftag" \in Ats
      BY <1>4, <1>f DEF CleanupStrip, Ats
    <3> QED BY <1>0, <1>2, <3>1, TrepackStep, TagFacts
  <2>2. Forward(n) /\ Linked(n)
    BY <1>f, <1>4 DEF CleansOf, CleanupStrip, At
  <2>3. Forward(n)' /\ TagsAgree(f, n)' /\ Linked(n)'
    BY <1>2, <2>1, <2>2, TagFacts DEF TagStep, Forward, TagsAgree
  <2> QED BY <1>f, <2>1, <2>3 DEF TagStep, RepackInv, CleansUp, CleansOf, Pending, At
<1>5. CASE CleanupFtag
  <2>1. TagStep(f, n, n, "c rename") /\ tags'[n].ftag = active /\ tags'[n].trepack = tags[n].trepack
    <3>1. Set(n, "ftag", active) /\ Goto("c rename")
      BY <1>1, <1>2, <1>5, <1>f DEF CleanupFtag
    <3>2. "c rename" \in Ats /\ n \in {File, n} /\ active \in AnyTag
      BY DEF Ats
    <3>3. Typed /\ Unused /\ Frame(f, n) /\ UNCHANGED <<names, data, attempt>>
      BY <1>0, <1>2
    <3> HIDE <1>0, <1>2
    <3> QED BY <3>1, <3>2, <3>3, FtagStep
  <2>2. Forward(n) /\ Linked(n) /\ tags[File].trepack = NoTag
    BY <1>f, <1>5 DEF CleansOf, CleanupFtag, At
  <2>3. Reverting(n)' /\ TagsAgree(f, n)'
    BY <1>1, <1>2, <2>1, <2>2 DEF TagStep, Reverting, TagsAgree
  <2> QED BY <1>f, <2>1, <2>3 DEF TagStep, RepackInv, CleansUp, CleansOf, Pending, At
<1>6. CASE CleanupFile
  <2>1. Pending(f, n) /\ Changing(f, n) /\ proc.active = Tag(n, "readable")
    BY <1>f, <1>6 DEF CleansOf, CleanupFile, At
  <2>2. Set(File, "ftag", Tag(n, "readable")) /\ Goto("c untag") /\ "c untag" \in Ats
    BY <1>6, <1>f, <2>1 DEF CleanupFile, Ats
  <2>3. /\ Typed' /\ Unused' /\ Clean(n, n)' /\ Left(f, n, n)' /\ names'[Mark(f)] = n
        /\ tags'[File].trepack = Tag(n, "readable")
        /\ UNCHANGED <<proc.from, proc.active, proc.mark, proc.to>> /\ proc'.at = "c untag"
    BY <1>0, <2>1, <2>2, ChangesOver
  <2>4. CleansPast(f, n, n, n)'
    BY <2>1, <2>3 DEF CleansPast, At
  <2> QED BY <1>f, <2>3, <2>4 DEF RepackInv, CleansLeft
<1> QED BY <1>3, <1>4, <1>5, <1>6

\* The steps by which an attempt that had changed the file over is completed.
LEMMA DoCleanupLeft ==
  ASSUME RepackInv, CleansLeft, CleanupFile \/ CleanupUntag
  PROVE  RepackInv'
<1>0. Typed /\ Unused /\ UNCHANGED <<names, data, attempt>>
  BY DEF RepackInv, CleanupFile, CleanupUntag
<1>f. PICK f, k, s, n \in Streams : proc.mark = f /\ proc.to = k /\ proc.from = File /\ CleansPast(f, k, s, n)
  BY DEF CleansLeft
<1>1. /\ Clean(s, n) \/ Pending(s, n)
      /\ Left(f, s, n) /\ names[Mark(f)] = k /\ tags[File].trepack = Tag(k, "readable")
      /\ proc.active = Tag(k, "readable")
  BY <1>f DEF CleansPast, CleanupFile, CleanupUntag, At
<1>2. k \in 1 .. s
  BY <1>0, <1>1, LeftIsOther
<1>3. tags[File].ftag = Tag(k, "readable") /\ k = s
  BY <1>0, <1>1, <1>2, TrepackOfLast, TagFacts
\* the file has the tag already
<1>4. CASE CleanupFile
  <2>1. Goto("c untag") /\ "c untag" \in Ats /\ Set(File, "ftag", tags[File].ftag)
    BY <1>f, <1>1, <1>3, <1>4 DEF CleanupFile, Ats
  <2>2. tags' = tags
    <3>1. File \in Inodes /\ tags \in [Inodes \cup {NoInode} -> TagSet]
      BY <1>0, Numbers DEF Typed
    <3>2. [tags[File] EXCEPT !["ftag"] = tags[File].ftag] = tags[File]
      BY <3>1 DEF TagSet
    <3> QED BY <2>1, <3>1, <3>2 DEF Set
  <2>3. /\ proc' \in ProcSet /\ proc'.at = "c untag"
        /\ UNCHANGED <<proc.from, proc.active, proc.mark, proc.to>>
    BY <1>0, <2>1, GotoFacts
  <2>4. Typed' /\ Unused' /\ (Clean(s, n)' \/ Pending(s, n)') /\ Left(f, s, n)'
    BY <1>0, <1>1, <2>2, <2>3, StateKept DEF Typed
  <2>5. CleansPast(f, k, s, n)'
    BY <1>0, <1>1, <2>2, <2>3, <2>4 DEF CleansPast, At
  <2> QED BY <1>f, <2>3, <2>4, <2>5 DEF RepackInv, CleansLeft
<1>5. CASE CleanupUntag
  <2>1. Set(File, "trepack", NoTag) /\ Goto("c rename") /\ "c rename" \in Ats
    BY <1>f, <1>5 DEF CleanupUntag, Ats
  <2>2. CASE Clean(s, n)
    <3>1. /\ Typed' /\ Unused' /\ Clean(s, n)' /\ tags'[File].trepack = NoTag /\ Left(f, s, n)'
          /\ UNCHANGED <<proc.from, proc.active, proc.mark, proc.to>> /\ proc'.at = "c rename"
      BY <1>0, <1>1, <2>1, <2>2, CleanUntagged
    <3>2. CleansPast(f, k, s, n)'
      BY <1>0, <1>1, <3>1 DEF CleansPast, At
    <3> QED BY <1>f, <3>1, <3>2 DEF RepackInv, CleansLeft
  <2>3. CASE Pending(s, n)
    <3>1. Frame(s, n) /\ TagsAgree(s, n) /\ n # File /\ n \in Nat /\ s \in Nat /\ s <= n - 1 /\ k # n
      BY <1>0, <1>2, <2>3, Numbers DEF Pending, Frame
    <3>2. TagStep(s, n, File, "c rename") /\ tags'[File].trepack = NoTag /\ tags'[File].ftag = tags[File].ftag
      BY <1>0, <2>1, <3>1, TrepackStep, TagFacts
    <3>3. Forward(n)
      BY <1>1, <2>3, <3>1, TagFacts DEF Pending, Reverting, Changing
    <3>4. Forward(n)' /\ TagsAgree(s, n)'
      BY <3>1, <3>2, <3>3, TagFacts DEF TagStep, Forward, TagsAgree
    <3>5. Left(f, s, n)'
      <4>1. \A i \in 1 .. n : tags'[i].ftag = tags[i].ftag /\ tags'[i].trepack = tags[i].trepack
        <5>1. \A j \in Inodes : j # File => tags'[j] = tags[j]
          <6>1. File \in Inodes /\ NoTag \in AnyTag
            BY <1>0, TagFacts, Numbers
          <6> QED BY <1>0, <2>1, <6>1, SetTrepack
        <5>2. \A i \in 1 .. n : i \in Inodes /\ i # File
          BY <1>0, Numbers
        <5> QED BY <5>1, <5>2
      <4>2. s <= n /\ f \in Nat
        BY <1>0, <3>1, Numbers
      <4> QED BY <1>0, <1>1, <3>1, <4>1, <4>2, LeftKept
    <3>6. CleansPast(f, k, s, n)'
      BY <1>0, <1>1, <3>2, <3>4, <3>5 DEF CleansPast, Pending, TagStep, At
    <3> QED BY <1>f, <3>2, <3>6 DEF RepackInv, CleansLeft, TagStep
  <2> QED BY <1>1, <2>2, <2>3
<1> QED BY <1>4, <1>5

LEMMA DoCleanupRename ==
  ASSUME RepackInv, CleanupRename
  PROVE  RepackInv'
<1>1. Typed /\ Unused /\ (CleansUp \/ CleansLeft)
  BY WhoWorks DEF CleanupRename, At, RepackInv
<1>2. CASE CleansUp
  <2>1. PICK f, n \in Streams : proc.mark = f /\ CleansOf(f, n)
    BY <1>2 DEF CleansUp
  <2>2. Pending(f, n) /\ Reverting(n) /\ names[Mark(f)] = n
    BY <2>1 DEF CleansOf, CleanupRename, At, Pending, Frame
  <2>3. Rename(Mark(f), Ref(n)) /\ proc' = Idle /\ UNCHANGED <<tags, data, attempt>>
    BY <2>1, <2>2 DEF CleanupRename, RenameTarget, Reverting
  <2> QED BY <1>1, <2>2, <2>3, MarkerToNew
<1>3. CASE CleansLeft
  <2>1. PICK f, k, s, n \in Streams : proc.mark = f /\ CleansPast(f, k, s, n)
    BY <1>3 DEF CleansLeft
  <2>2. (Clean(s, n) \/ Pending(s, n)) /\ Left(f, s, n) /\ tags[File].trepack = NoTag
    BY <2>1 DEF CleansPast, CleanupRename, At
  <2>3. Rename(Mark(f), Ref(f)) /\ proc' = Idle /\ UNCHANGED <<tags, data, attempt>>
    BY <2>1, <2>2 DEF CleanupRename, RenameTarget, Left
  <2> QED BY <1>1, <2>2, <2>3, MarkerToOld
<1> QED BY <1>1, <1>2, <1>3


-----------------------------------------------------------------------------
(* All steps.                                                              *)

\* A process that dies, or gives up, leaves the state at rest.
LEMMA DoCrash ==
  ASSUME RepackInv, Crash
  PROVE  RepackInv'
<1>1. proc' = Idle /\ UNCHANGED <<names, tags, data, attempt>> /\ Typed /\ Unused
  BY DEF Crash, RepackInv
<1>2. PICK s, n \in Streams : Clean(s, n) \/ Pending(s, n)
  BY DEF RepackInv, Rests, Rested, Repacks, RepacksFrom, CleansUp, CleansOf, CleansLeft, CleansPast
<1>3. Typed' /\ Unused'
  BY <1>1, IdleType, StateKept DEF Typed
<1>4. Clean(s, n)' \/ Pending(s, n)'
  BY <1>1, <1>2, StateKept
<1> QED BY <1>1, <1>3, <1>4 DEF RepackInv, Rests, Rested

LEMMA InvInit == Init => RepackInv
<1> SUFFICES ASSUME Init PROVE RepackInv
  OBVIOUS
<1>1. /\ MaxAttempts \in Nat /\ Streams = 0 .. MaxAttempts /\ Inodes = 0 .. MaxAttempts /\ File = 0
      /\ NoInode = MaxAttempts + 1 /\ 0 \in Streams
  BY RepackAssumption DEF Streams, Inodes, File, NoInode
<1>2. NoTag \in AnyTag /\ Tag(0, "readable") \in AnyTag /\ NoTags \in TagSet
  BY <1>1 DEF NoTag, Tag, AnyTag, NoTags, TagSet
<1>3. Idle \in ProcSet
  BY <1>2 DEF Idle, ProcSet, Ats
<1>4. [NoTags EXCEPT !.ftag = Tag(0, "readable")] \in TagSet
  BY <1>2 DEF TagSet, NoTags
<1>5. Typed
  <2>1. names \in [Names -> Inodes \cup {NoInode}]
    BY <1>1 DEF Init
  <2>2. tags \in [Inodes \cup {NoInode} -> TagSet]
    BY <1>2, <1>4 DEF Init
  <2> QED BY <1>1, <1>3, <2>1, <2>2 DEF Init, Typed
<1>6. \A r \in Streams : names[Mark(r)] = NoInode /\ names[Ref(r)] = IF r = 0 THEN File ELSE NoInode
  BY <1>1, NameFacts DEF Init
<1>7. attempt = 0 /\ data = [s \in Streams |-> IF s = 0 THEN "whole" ELSE "none"] /\ proc = Idle
  BY DEF Init
<1>8. Unused
  <2>1. \A r \in Streams : r > attempt => names[Ref(r)] = NoInode /\ data[r] = "none"
    BY <1>1, <1>6, <1>7
  <2>2. \A i \in Inodes : i > attempt => tags[i] = NoTags
    BY <1>1, <1>7 DEF Init
  <2> QED BY <2>1, <2>2 DEF Unused
<1>9. Clean(0, 0)
  <2>1. tags[File].ftag = Tag(0, "readable") /\ tags[File].trepack = NoTag
    BY <1>1 DEF Init, NoTags
  <2>2. Others({0}, 0, 0)
    BY <1>1, <1>6, <1>7 DEF Others, Other, Absent
  <2> QED BY <1>1, <1>6, <1>7, <2>1, <2>2 DEF Clean, InStream
<1> QED BY <1>1, <1>5, <1>7, <1>8, <1>9 DEF RepackInv, Rests, Rested

\* The history flag stays, and only the start of a cleanup raises it.
LEMMA MistakenKept ==
  ASSUME [Next]_vars
  PROVE  (mistaken => mistaken') /\ (~Cleanup => mistaken' = mistaken)
<1>1. CreateMarker \/ RepackStep => mistaken' = mistaken
  BY DEF CreateMarker, RepackStep, TagMarker, LinkNewRef, Write, Fin, CloseObj, Complete, KeepOldTag,
     KeepFirstTag, ChangeOver, RemoveTag, RenameMarker
<1>2. CleanupStep \/ Crash => mistaken' = mistaken
  BY DEF CleanupStep, CleanupKeep, CleanupStrip, CleanupFtag, CleanupFile, CleanupUntag, CleanupRename, Crash
<1>3. Cleanup => (mistaken => mistaken')
  BY DEF Cleanup, CleanupStart
<1>4. UNCHANGED vars => mistaken' = mistaken
  BY DEF vars
<1> QED BY <1>1, <1>2, <1>3, <1>4 DEF Next

LEMMA InvNext == (mistaken \/ RepackInv) /\ [Next]_vars => (mistaken \/ RepackInv)'
<1> SUFFICES ASSUME RepackInv, [Next]_vars, ~mistaken'
             PROVE  RepackInv'
  BY MistakenKept
<1>1. CASE CreateMarker
  BY <1>1, DoCreateMarker
<1>2. CASE RepackStep
  BY <1>2, DoTags, DoChangeOver, DoWrites, DoRenameMarker DEF RepackStep
<1>3. CASE Cleanup
  BY <1>3, DoCleanupStart DEF Cleanup
<1>4. CASE CleanupStep
  <2>1. CASE CleanupKeep \/ CleanupStrip \/ CleanupFtag
    <3>1. CleansUp
      BY <2>1, WhoWorks DEF CleanupKeep, CleanupStrip, CleanupFtag, At
    <3> QED BY <2>1, <3>1, DoCleanupTags
  <2>2. CASE CleanupFile
    <3>1. CleansUp \/ CleansLeft
      BY <2>2, WhoWorks DEF CleanupFile, At
    <3> QED BY <2>2, <3>1, DoCleanupTags, DoCleanupLeft
  <2>3. CASE CleanupUntag
    <3>1. CleansLeft
      BY <2>3, WhoWorks DEF CleanupUntag, At
    <3> QED BY <2>3, <3>1, DoCleanupLeft
  <2> QED BY <1>4, <2>1, <2>2, <2>3, DoCleanupRename DEF CleanupStep
<1>5. CASE Crash
  BY <1>5, DoCrash
<1>6. CASE UNCHANGED vars
  <2>1. UNCHANGED <<names, tags, data, attempt>> /\ proc' = proc
    BY <1>6 DEF vars
  <2>2. Typed' /\ Unused'
    BY <2>1 DEF RepackInv, Typed, Unused
  <2>3. \A s, n : (Clean(s, n)' <=> Clean(s, n)) /\ (Pending(s, n)' <=> Pending(s, n))
    BY <2>1, StateKept
  <2>4. \A n : (Linked(n)' <=> Linked(n)) /\ (Forward(n)' <=> Forward(n)) /\ (Reverting(n)' <=> Reverting(n))
    BY <2>1, StateKept
  <2>5. \A f, s, n : (Left(f, s, n)' <=> Left(f, s, n)) /\ (Changing(f, n)' <=> Changing(f, n))
    BY <2>1, StateKept
  <2>6. CASE Rests
    BY <2>1, <2>2, <2>3, <2>6 DEF RepackInv, Rests, Rested
  <2>7. CASE Repacks
    <3>1. PICK f, n \in Streams : proc.from = f /\ RepacksFrom(f, n)
      BY <2>7 DEF Repacks
    <3>2. RepacksFrom(f, n)'
      BY <2>1, <2>3, <2>4, <2>5, <3>1 DEF RepacksFrom, At
    <3> QED BY <2>1, <2>2, <3>1, <3>2 DEF RepackInv, Repacks
  <2>8. CASE CleansUp
    <3>1. PICK f, n \in Streams :
            proc.mark = f /\ proc.to = n /\ proc.from = File /\ proc.active.stream = n /\ CleansOf(f, n)
      BY <2>8 DEF CleansUp
    <3>2. CleansOf(f, n)'
      BY <2>1, <2>3, <2>4, <2>5, <3>1 DEF CleansOf, At
    <3> QED BY <2>1, <2>2, <3>1, <3>2 DEF RepackInv, CleansUp
  <2>9. CASE CleansLeft
    <3>1. PICK f, k, s, n \in Streams : proc.mark = f /\ proc.to = k /\ proc.from = File /\ CleansPast(f, k, s, n)
      BY <2>9 DEF CleansLeft
    <3>2. CleansPast(f, k, s, n)'
      BY <2>1, <2>3, <2>4, <2>5, <3>1 DEF CleansPast, At
    <3> QED BY <2>1, <2>2, <3>1, <3>2 DEF RepackInv, CleansLeft
  <2> QED BY <2>6, <2>7, <2>8, <2>9 DEF RepackInv
<1> QED BY <1>1, <1>2, <1>3, <1>4, <1>5, <1>6 DEF Next

-----------------------------------------------------------------------------
(* The theorems.                                                           *)

\* RepackInv holds until a cleanup takes the TREPACK of another attempt for the one it cleans up:
\* what attempts leave behind can be told from the names and the tags alone, whenever and how
\* often a process died, and in whatever order the markers are cleaned up
\* (datastream_repack, datastream_repack_cleanup).
THEOREM RepackCorrect == Spec => [](mistaken \/ RepackInv)
<1>1. Init => mistaken \/ RepackInv
  BY InvInit
<1> QED BY <1>1, InvNext, PTL DEF Spec

\* However far an attempt has come, the tag of the file leads to whole data.
LEMMA KeepsContent == mistaken \/ RepackInv => ContentIsKept
<1> SUFFICES ASSUME RepackInv PROVE tags[File].ftag.state = "readable" /\ data[tags[File].ftag.stream] = "whole"
  BY DEF ContentIsKept, ContentStays
<1>1. PICK s, n \in Streams : Clean(s, n) \/ Pending(s, n)
  BY DEF RepackInv, Rests, Rested, Repacks, RepacksFrom, CleansUp, CleansOf, CleansLeft, CleansPast
<1>2. tags[File].ftag = Tag(s, "readable") /\ data[s] = "whole"
  BY <1>1 DEF Clean, InStream, Pending, Frame, TagsAgree
<1> QED BY <1>2, TagFacts
\* A repack and its cleanups never take the last copy of the file's data away, whenever and how
\* often a process dies, and however many markers are left, as long as no cleanup has taken the
\* TREPACK of another attempt for its own (completefile, datastream_repack_cleanup).
THEOREM ContentSafe == Spec => []ContentIsKept
BY RepackCorrect, KeepsContent, PTL

\* Without a marker the names are clean.
LEMMA AgreesAtRest == mistaken \/ RepackInv => RefsAgree
<1> SUFFICES ASSUME RepackInv, Settled
             PROVE  /\ \A s \in Streams : names[Ref(s)] # NoInode =>
                         (names[Ref(s)] = File <=> s = tags[File].ftag.stream) /\ tags[names[Ref(s)]].ftag.stream = s
                    /\ \A s \in Streams : data[s] # "none" => names[Ref(s)] # NoInode
                    /\ ~Has(File, "trepack")
  BY DEF RefsAgree
<1>0. Typed /\ Rested /\ \A r \in Streams : names[Mark(r)] = NoInode
  BY WhoWorks DEF Settled, RepackInv, Rests
<1>1. PICK c, n \in Streams : Clean(c, n)
  <2>1. ASSUME NEW s \in Streams, NEW n \in Streams, Pending(s, n) PROVE FALSE
    <3>1. names[Mark(s)] = n
      BY <2>1 DEF Pending, Frame
    <3> QED BY <1>0, <3>1, Numbers
  <2> QED BY <1>0, <2>1 DEF Rested
<1>2. tags[File].trepack = NoTag
  <2>1. \A r \in 0 .. (c - 1) : r \in Streams /\ c # NoInode
    BY <1>0, Numbers
  <2>2. ~Origin(c)
    BY <1>0, <2>1 DEF Origin
  <2> QED BY <1>1, <2>2 DEF Clean, Stays
<1>3. /\ tags[File].ftag.stream = c /\ names[Ref(c)] = File /\ data[c] = "whole" /\ n = attempt
  BY <1>1, TagFacts DEF Clean, InStream
<1>4. \A r \in Streams \ {c} : Absent(r) \/ Former(r, n)
  <2> SUFFICES ASSUME NEW r \in Streams \ {c} PROVE Absent(r) \/ Former(r, n)
    OBVIOUS
  <2>1. Other(r, c, n)
    BY <1>1 DEF Clean, Others
  <2>2. ~Left(r, c, n)
    BY <1>0, LeftIsOther
  <2> QED BY <2>1, <2>2 DEF Other
<1>5. File # NoInode /\ \A i \in 1 .. n : i # NoInode /\ i # File
  BY <1>0, <1>3, Numbers
<1>6. \A r \in Streams : names[Ref(r)] # NoInode =>
        (names[Ref(r)] = File <=> r = c) /\ tags[names[Ref(r)]].ftag.stream = r
  BY <1>3, <1>4, <1>5 DEF Absent, Former
<1>7. \A r \in Streams : data[r] # "none" => names[Ref(r)] # NoInode
  BY <1>3, <1>4, <1>5 DEF Absent, Former
<1> QED BY <1>2, <1>3, <1>6, <1>7 DEF Has
\* Once no marker is left, every reference is what a walk over its stream expects, unless a
\* cleanup took the TREPACK of another attempt for its own (datastream_repack_cleanup).
THEOREM RefsCorrect == Spec => []RefsAgree
BY RepackCorrect, AgreesAtRest, PTL

\* Only a death changes the number of deaths, so that it is told from a last step.
LEMMA CrashesCounted == Spec => [](crashes \in Nat)
<1>1. Init => crashes \in Nat
  BY DEF Init
<1>2. crashes \in Nat /\ [Next]_vars => (crashes \in Nat)'
  <2>1. CreateMarker \/ RepackStep => crashes' = crashes
    BY DEF CreateMarker, RepackStep, TagMarker, LinkNewRef, Write, Fin, CloseObj, Complete, KeepOldTag,
       KeepFirstTag, ChangeOver, RemoveTag, RenameMarker
  <2>2. Cleanup \/ CleanupStep => crashes' = crashes
    BY DEF Cleanup, CleanupStart, CleanupStep, CleanupKeep, CleanupStrip, CleanupFtag, CleanupFile,
       CleanupUntag, CleanupRename
  <2>3. Crash => crashes' = crashes + 1
    BY DEF Crash
  <2>4. UNCHANGED vars => crashes' = crashes
    BY DEF vars
  <2> QED BY <2>1, <2>2, <2>3, <2>4 DEF Next
<1> QED BY <1>1, <1>2, PTL DEF Spec
\* What CleanupTellsTheTruth says of a step.
Truth == ret' # ret \/ (At("c rename") /\ proc' = Idle /\ crashes' = crashes) =>
           \/ mistaken
           \/ ret' = 0 <=> At("c rename") /\ tags[File].ftag.stream >= proc.to
\* The marker goes to the new stream if and only if the file has not.
LEMMA TruthOfRename ==
  ASSUME RepackInv, CleanupRename
  PROVE  ret' = 0 <=> tags[File].ftag.stream >= proc.to
<1>1. Typed /\ (CleansUp \/ CleansLeft)
  BY WhoWorks DEF CleanupRename, At, RepackInv
<1>2. CASE CleansUp
  <2>1. PICK f, n \in Streams : proc.mark = f /\ proc.to = n /\ CleansOf(f, n)
    BY <1>2 DEF CleansUp
  <2>2. Pending(f, n) /\ Reverting(n)
    BY <2>1 DEF CleansOf, CleanupRename, At
  <2>3. names[Mark(f)] = n /\ tags[n].ftag.stream = n /\ tags[File].ftag.stream = f /\ f \in 0 .. (n - 1)
    BY <2>2, TagFacts DEF Pending, Frame, TagsAgree, Reverting
  <2>4. ret' = 1
    BY <2>1, <2>3 DEF CleanupRename, RenameTarget, Returns
  <2>5. ~(f >= n)
    BY <1>1, <2>3, Numbers
  <2> QED BY <2>1, <2>3, <2>4, <2>5
<1>3. CASE CleansLeft
  <2>1. PICK f, k, s, n \in Streams : proc.mark = f /\ proc.to = k /\ CleansPast(f, k, s, n)
    BY <1>3 DEF CleansLeft
  <2>2. (Clean(s, n) \/ Pending(s, n)) /\ Left(f, s, n) /\ names[Mark(f)] = k
    BY <2>1 DEF CleansPast
  <2>3. k \in (f + 1) .. s /\ tags[k].ftag.stream = f
    BY <2>2 DEF Left
  <2>4. tags[File].ftag.stream = s
    BY <2>2, TagFacts DEF Clean, InStream, Pending, TagsAgree
  <2>5. f # k /\ s >= k
    BY <1>1, <2>3, Numbers
  <2>6. ret' = 0
    BY <2>1, <2>2, <2>3, <2>5 DEF CleanupRename, RenameTarget, Returns
  <2> QED BY <2>1, <2>4, <2>5, <2>6
<1> QED BY <1>1, <1>2, <1>3
LEMMA TruthStep ==
  ASSUME RepackInv, crashes \in Nat, Next
  PROVE  Truth
<1>1. CASE CleanupRename
  BY <1>1, TruthOfRename DEF Truth, CleanupRename
<1>2. CASE Cleanup
  BY <1>2 DEF Cleanup, CleanupStart, Truth, At
<1>3. CASE Crash
  <2>1. ret' = ret /\ crashes' = crashes + 1
    BY <1>3 DEF Crash
  <2>2. \A n \in Nat : n + 1 # n
    OBVIOUS
  <2>3. crashes' # crashes
    BY <2>1, <2>2
  <2> QED BY <2>1, <2>3 DEF Truth
<1>4. CASE CreateMarker
  BY <1>4 DEF CreateMarker, Truth, At
<1>5. CASE RepackStep
  BY <1>5 DEF RepackStep, TagMarker, LinkNewRef, Write, Fin, CloseObj, Complete, KeepOldTag, KeepFirstTag,
     ChangeOver, RemoveTag, RenameMarker, Truth, At
<1>6. CASE CleanupKeep \/ CleanupStrip \/ CleanupFtag \/ CleanupFile \/ CleanupUntag
  BY <1>6 DEF CleanupKeep, CleanupStrip, CleanupFtag, CleanupFile, CleanupUntag, Truth, At
<1> QED BY <1>1, <1>2, <1>3, <1>4, <1>5, <1>6 DEF Next, CleanupStep
\* A cleanup that comes to its end returns 0 exactly when the file has its data in the new
\* stream, or in one it was repacked to since, unless a cleanup took the TREPACK of another
\* attempt for its own (datastream_repack_cleanup).
THEOREM CleanupTruthful == Spec => CleanupTellsTheTruth
<1>1. (mistaken \/ RepackInv) /\ crashes \in Nat /\ [Next]_vars => [Truth]_vars
  BY TruthStep DEF Truth
<1>2. Spec => [][Truth]_vars
  BY <1>1, RepackCorrect, CrashesCounted, PTL DEF Spec
<1> QED BY <1>2 DEF CleanupTellsTheTruth, Truth

-----------------------------------------------------------------------------
(* Rebuild markers *)

(* The inductive invariant *)

Tags    == [bad : SUBSET Stripe, old : BOOLEAN]
MaybeFile == StreamFiles \cup {NoMark}
MarkOps == [objno : Nat, count : Nat, tag : Tags \cup {NoMark}, path : BOOLEAN]
Readers == [at : {"idle", "link", "open", "tag"}, file : MaybeFile, obj : Nat, found : SUBSET Stripe,
            inode : MaybeFile]
Scans   == [on : BOOLEAN, location : BOOLEAN,
            seen : SUBSET [type : {"ref", "rebuild", "other"}, val : StreamFiles \cup Nat]]
Hands   == [at : {"idle", "rebuild", "untag", "unlink"}, op : MarkOps \cup {NoMark}, k : Nat, tries : Nat,
            known : SUBSET Stripe]

MarkTypeOK ==
  /\ named \subseteq StreamFiles /\ refd \subseteq StreamFiles /\ fresh \subseteq StreamFiles
  /\ marker \in [Objs -> MaybeFile]
  /\ rtag \in [StreamFiles -> [Objs -> Tags \cup {NoMark}]]
  /\ damaged \in [Objs -> SUBSET Stripe] /\ reported \in [Objs -> SUBSET Stripe]
  /\ stored \subseteq Objs
  /\ mreader \in [MarkReaders -> Readers]
  /\ scan \in Scans
  /\ found \subseteq MarkOps
  /\ rebuilder \in [Rebuilders -> Hands]
  /\ \A t \in Rebuilders : rebuilder[t].at # "idle" => rebuilder[t].op \in MarkOps

\* A marker is a link to a file with a reference, and its object is there.
MarkersHoldFiles ==
  \A o \in Objs : marker[o] # NoMark => marker[o] \in refd /\ o \in ObjsOf[marker[o]] /\ o \in stored
\* Nothing is a link to a file a walk has found to be garbage, and none is on its way.
CondemnedAreUnused ==
  \A f \in condemned :
    /\ f \in refd /\ f \notin named
    /\ \A o \in Objs : marker[o] # f
    /\ \A r \in MarkReaders : ReaderAt(r, "link") => mreader[r].file # f

\* A reader that is about to link a marker
LinkerIsSafe(r) ==
  LET f == mreader[r].file
  IN  ReaderAt(r, "link") =>
        /\ f \in StreamFiles /\ mreader[r].obj \in ObjsOf[f]
        /\ f \in refd => mreader[r].obj \in stored
        /\ f \notin named => f \in fresh
\* The operations on the marker of an object
OnMarkerOf(op, o) == op.path /\ op.objno = o
Busy(t)  == rebuilder[t].at # "idle"
HasOp(o) == (\E op \in found : OnMarkerOf(op, o)) \/ \E t \in Rebuilders : Busy(t) /\ OnMarkerOf(rebuilder[t].op, o)
Tagging(r) == ReaderAt(r, "open") \/ ReaderAt(r, "tag")
\* A reader that has linked one: it is too young for a run to have taken it up.
TaggerIsSafe(r) ==
  LET f == mreader[r].file
      o == mreader[r].obj
  IN  Tagging(r) =>
        /\ o \in Objs /\ f \in StreamFiles /\ marker[o] = f /\ f \in fresh
        /\ rtag[f][o] = NoMark
        /\ ~HasOp(o)
        /\ ReaderAt(r, "tag") => mreader[r].inode = f
ReadersAreSafe ==
  /\ \A r \in MarkReaders : LinkerIsSafe(r) /\ TaggerIsSafe(r)
  /\ \A r, s \in MarkReaders : Tagging(r) /\ Tagging(s) /\ mreader[r].obj = mreader[s].obj => r = s

\* An operation on a marker has its marker, and the RTAG it was made for or none.
NotTagged(o) == rtag[marker[o]][o] = NoMark
OpIsSafe(op) ==
  op.path =>
    /\ op.count = 1 /\ op.objno \in Objs /\ marker[op.objno] # NoMark
    /\ op.tag = NoMark => NotTagged(op.objno)
    /\ scan.on => [type |-> "rebuild", val |-> op.objno] \in scan.seen
RebuilderIsSafe(t) ==
  LET op == rebuilder[t].op
  IN  Busy(t) =>
        /\ OpIsSafe(op)
        /\ op.path => rebuilder[t].k = 0
        /\ rebuilder[t].at # "rebuild" => op.path /\ reported[op.objno] = {}
        /\ RebuilderAt(t, "unlink") => NotTagged(op.objno)
\* There is one of them at a time.
OneOpEach ==
  /\ \A op, other \in found : op.path /\ other.path /\ op.objno = other.objno => op = other
  /\ \A op \in found, t \in Rebuilders : op.path /\ Busy(t) => ~OnMarkerOf(rebuilder[t].op, op.objno)
  /\ \A t, u \in Rebuilders :
       Busy(t) /\ Busy(u) /\ rebuilder[t].op.path /\ OnMarkerOf(rebuilder[u].op, rebuilder[t].op.objno) => t = u
OpsAreSafe ==
  /\ \A op \in found : OpIsSafe(op)
  /\ \A t \in Rebuilders : RebuilderIsSafe(t)
  /\ OneOpEach

MarkInv ==
  /\ MarkTypeOK /\ MarkersHoldFiles /\ CondemnedAreUnused /\ ReadersAreSafe /\ OpsAreSafe
  /\ ReportedStaysMarked /\ TagsHaveMarkers

-----------------------------------------------------------------------------
(* Initial states, and steps of readers *)

LEMMA ObjsFacts ==
  /\ Objs \subseteq Nat
  /\ \A f \in StreamFiles : ObjsOf[f] \subseteq Objs
BY StreamAssumption DEF Objs

LEMMA MarkersInit == InitMarkers \/ NoStreams => MarkInv
<1> SUFFICES ASSUME InitMarkers \/ NoStreams PROVE MarkInv
  OBVIOUS
<1> USE DEF InitMarkers, NoStreams, MarkersAtRest
<1>1. MarkTypeOK
  <2>1. mreader \in [MarkReaders -> Readers] /\ scan \in Scans
    <3>1. NoClose \in Readers
      BY DEF MaybeFile, NoClose, Readers
    <3>2. NoScan \in Scans
      BY DEF NoScan, Scans
    <3> QED BY <3>1, <3>2
  <2>2. rebuilder \in [Rebuilders -> Hands]
    BY DEF FreeHand, Hands
  <2>3. \A t \in Rebuilders : rebuilder[t].at = "idle"
    BY DEF FreeHand
  <2> QED BY <2>1, <2>2, <2>3 DEF MarkTypeOK, MaybeFile
<1>2. MarkersHoldFiles /\ CondemnedAreUnused
  BY DEF MarkersHoldFiles, CondemnedAreUnused
<1>3. ReadersAreSafe
  BY DEF ReadersAreSafe, LinkerIsSafe, TaggerIsSafe, Tagging, ReaderAt, NoClose
<1>4. OpsAreSafe
  BY DEF OpsAreSafe, RebuilderIsSafe, OneOpEach, Busy, FreeHand
<1>5. ReportedStaysMarked /\ TagsHaveMarkers
  BY DEF ReportedStaysMarked, TagsHaveMarkers
<1> QED BY <1>1, <1>2, <1>3, <1>4, <1>5 DEF MarkInv

LEMMA CloseDamagedSafe ==
  ASSUME MarkInv, NEW r \in MarkReaders, NEW f \in StreamFiles, NEW o \in Objs, CloseDamaged(r, f, o)
  PROVE  MarkInv'
<1> USE DEF MarkInv, CloseDamaged, files, objects, manager
<1>1. PICK bad \in SUBSET damaged[o] \ {{}} :
        mreader' = [mreader EXCEPT ![r] = [NoClose EXCEPT !.at = "link", !.file = f, !.obj = o, !.found = bad]]
  OBVIOUS
<1>2. bad \in SUBSET Stripe /\ o \in Nat
  BY ObjsFacts DEF MarkTypeOK
<1>3. MarkTypeOK'
  BY <1>1, <1>2 DEF MarkTypeOK, MaybeFile, NoClose, Readers
<1>4. \A s \in MarkReaders : s # r => mreader'[s] = mreader[s]
  BY <1>1 DEF MarkTypeOK
<1>5. mreader'[r] = [NoClose EXCEPT !.at = "link", !.file = f, !.obj = o, !.found = bad]
  BY <1>1 DEF MarkTypeOK
<1>6. MarkersHoldFiles' /\ ReportedStaysMarked' /\ TagsHaveMarkers'
  BY DEF MarkersHoldFiles, ReportedStaysMarked, TagsHaveMarkers
<1>7. CondemnedAreUnused'
  BY <1>4, <1>5 DEF CondemnedAreUnused, ReaderAt, NoClose
<1>8. ReadersAreSafe'
  BY <1>4, <1>5 DEF ReadersAreSafe, LinkerIsSafe, TaggerIsSafe, Tagging, ReaderAt, NoClose,
     HasOp, Busy
<1>9. OpsAreSafe'
  BY DEF OpsAreSafe, OpIsSafe, RebuilderIsSafe, OneOpEach, OnMarkerOf, Busy, NotTagged, RebuilderAt
<1> QED BY <1>3, <1>6, <1>7, <1>8, <1>9

\* A reader that gives up, or has done, leaves nothing behind.
LEMMA ReaderDoneSafe ==
  ASSUME MarkInv, NEW r \in MarkReaders, mreader' = [mreader EXCEPT ![r] = NoClose],
         UNCHANGED <<files, objects, manager>>
  PROVE  MarkInv'
<1> USE DEF MarkInv, files, objects, manager
<1>1. /\ \A s \in MarkReaders : s # r => mreader'[s] = mreader[s]
      /\ mreader'[r].at = "idle"
  BY DEF MarkTypeOK, NoClose
<1>2. MarkTypeOK'
  BY DEF MarkTypeOK, MaybeFile, NoClose, Readers
<1>3. MarkersHoldFiles' /\ ReportedStaysMarked' /\ TagsHaveMarkers'
  BY DEF MarkersHoldFiles, ReportedStaysMarked, TagsHaveMarkers
<1>4. CondemnedAreUnused'
  BY <1>1 DEF CondemnedAreUnused, ReaderAt
<1>5. ReadersAreSafe'
  BY <1>1 DEF ReadersAreSafe, LinkerIsSafe, TaggerIsSafe, Tagging, ReaderAt, HasOp, Busy
<1>6. OpsAreSafe'
  BY DEF OpsAreSafe, OpIsSafe, RebuilderIsSafe, OneOpEach, OnMarkerOf, Busy, NotTagged, RebuilderAt
<1> QED BY <1>2, <1>3, <1>4, <1>5, <1>6

LEMMA LinkMarkerSafe ==
  ASSUME MarkInv, NEW r \in MarkReaders, LinkMarker(r)
  PROVE  MarkInv'
<1> DEFINE f == mreader[r].file
           o == mreader[r].obj
<1> USE DEF MarkInv, manager
<1>1. ReaderAt(r, "link") /\ f \in StreamFiles /\ o \in ObjsOf[f] /\ o \in Objs
  BY ObjsFacts DEF LinkMarker, ReadersAreSafe, LinkerIsSafe
<1>a. UNCHANGED <<named, refd, rtag, damaged, stored, scan, found, rebuilder, condemned>>
  BY DEF LinkMarker
<1>2. CASE marker[o] = NoMark /\ f \in refd
  <2>1. /\ marker' = [marker EXCEPT ![o] = f] /\ fresh' = fresh \cup {f}
        /\ reported' = [reported EXCEPT ![o] = mreader[r].found]
        /\ mreader' = [mreader EXCEPT ![r].at = "open"]
    BY <1>2 DEF LinkMarker, ReaderTo
  <2>2. MarkTypeOK'
    <3>1. mreader[r].found \in SUBSET Stripe /\ f \in MaybeFile
      BY DEF MarkTypeOK, Readers
    <3>2. marker' \in [Objs -> MaybeFile] /\ fresh' \subseteq StreamFiles /\ reported' \in [Objs -> SUBSET Stripe]
      BY <1>1, <2>1, <3>1 DEF MarkTypeOK
    <3>3. mreader' \in [MarkReaders -> Readers]
      BY <2>1 DEF MarkTypeOK, Readers
    <3> QED BY <1>a, <3>2, <3>3 DEF MarkTypeOK
  <2>3. /\ \A p \in Objs : marker'[p] = IF p = o THEN f ELSE marker[p]
        /\ \A p \in Objs : p # o => reported'[p] = reported[p]
        /\ \A s \in MarkReaders : s # r => mreader'[s] = mreader[s]
        /\ mreader'[r].at = "open" /\ mreader'[r].file = f /\ mreader'[r].obj = o
    BY <1>1, <2>1 DEF MarkTypeOK, Readers
  <2>4. f # NoMark /\ o \in stored
    BY <1>1, <1>2, MarkAssumption DEF ReadersAreSafe, LinkerIsSafe
  <2>5. MarkersHoldFiles' /\ ReportedStaysMarked'
    BY <1>a, <1>1, <1>2, <2>3, <2>4 DEF MarkersHoldFiles, ReportedStaysMarked
  <2>6. TagsHaveMarkers'
    BY <1>a, <1>1, <1>2, <2>3, MarkAssumption DEF TagsHaveMarkers
  <2>7. CondemnedAreUnused'
    BY <1>a, <1>1, <2>3 DEF CondemnedAreUnused, ReaderAt
  <2>8. ~HasOp(o)
    BY <1>2 DEF HasOp, OpsAreSafe, OpIsSafe, RebuilderIsSafe, OnMarkerOf
  <2>9. rtag[f][o] = NoMark
    BY <1>1, <1>2, MarkAssumption DEF TagsHaveMarkers
  <2>10. \A s \in MarkReaders : Tagging(s) => mreader[s].obj # o
    BY <1>2, MarkAssumption DEF ReadersAreSafe, TaggerIsSafe
  <2>11. \A p : HasOp(p)' = HasOp(p)
    BY <1>a DEF HasOp, Busy
  <2>12. ReadersAreSafe'
    <3>1. TaggerIsSafe(r)' /\ LinkerIsSafe(r)'
      BY <1>a, <1>1, <2>1, <2>3, <2>8, <2>9, <2>11 DEF TaggerIsSafe, LinkerIsSafe, Tagging, ReaderAt
    <3>2. ASSUME NEW s \in MarkReaders, s # r
          PROVE  TaggerIsSafe(s)' /\ LinkerIsSafe(s)'
      BY <1>a, <1>1, <2>1, <2>3, <2>10, <2>11, <3>2 DEF ReadersAreSafe, TaggerIsSafe, LinkerIsSafe, Tagging, ReaderAt
    <3>3. (\A s, u \in MarkReaders : Tagging(s) /\ Tagging(u) /\ mreader[s].obj = mreader[u].obj => s = u)'
      BY <2>3, <2>10 DEF ReadersAreSafe, Tagging, ReaderAt
    <3> QED BY <3>1, <3>2, <3>3 DEF ReadersAreSafe
  <2>13. OpsAreSafe'
    BY <1>a, <1>2, <2>3, <2>4 DEF OpsAreSafe, OpIsSafe, RebuilderIsSafe, OneOpEach, OnMarkerOf, Busy, NotTagged,
       RebuilderAt
  <2> QED BY <2>2, <2>5, <2>6, <2>7, <2>12, <2>13
<1>3. CASE ~(marker[o] = NoMark /\ f \in refd)
  <2>1. mreader' = [mreader EXCEPT ![r] = NoClose] /\ UNCHANGED <<marker, fresh, reported>>
    BY <1>3 DEF LinkMarker, ReaderDone
  <2> QED BY <1>a, <2>1, ReaderDoneSafe DEF files, objects
<1> QED BY <1>2, <1>3

LEMMA OpenMarkerSafe ==
  ASSUME MarkInv, NEW r \in MarkReaders, OpenMarker(r)
  PROVE  MarkInv'
<1> DEFINE f == mreader[r].file
           o == mreader[r].obj
<1> USE DEF MarkInv, files, objects, manager
<1>1. /\ ReaderAt(r, "open") /\ f \in StreamFiles /\ f # NoMark /\ o \in Objs /\ marker[o] = f
  BY MarkAssumption DEF OpenMarker, ReadersAreSafe, TaggerIsSafe, Tagging
<1>2. mreader' = [mreader EXCEPT ![r] = [@ EXCEPT !.at = "tag", !.inode = f]]
  BY <1>1 DEF OpenMarker
<1>3. /\ \A s \in MarkReaders : s # r => mreader'[s] = mreader[s]
      /\ mreader'[r].at = "tag" /\ mreader'[r].file = f /\ mreader'[r].obj = o /\ mreader'[r].inode = f
  BY <1>2 DEF MarkTypeOK, Readers
<1>4. UNCHANGED <<files, objects, manager>>
  BY DEF OpenMarker
<1>5. MarkTypeOK'
  <2>1. mreader' \in [MarkReaders -> Readers]
    BY <1>1, <1>2 DEF MarkTypeOK, MaybeFile, Readers
  <2> QED BY <1>4, <2>1 DEF MarkTypeOK
<1>6. MarkersHoldFiles' /\ ReportedStaysMarked' /\ TagsHaveMarkers'
  BY <1>4 DEF MarkersHoldFiles, ReportedStaysMarked, TagsHaveMarkers
<1>7. CondemnedAreUnused'
  BY <1>3, <1>4 DEF CondemnedAreUnused, ReaderAt
<1>8. ReadersAreSafe'
  BY <1>1, <1>3, <1>4 DEF ReadersAreSafe, LinkerIsSafe, TaggerIsSafe, Tagging, ReaderAt, HasOp, Busy
<1>9. OpsAreSafe'
  BY <1>4 DEF OpsAreSafe, OpIsSafe, RebuilderIsSafe, OneOpEach, OnMarkerOf, Busy, NotTagged, RebuilderAt
<1> QED BY <1>5, <1>6, <1>7, <1>8, <1>9

LEMMA TagMarkedSafe ==
  ASSUME MarkInv, NEW r \in MarkReaders, TagMarked(r)
  PROVE  MarkInv'
<1> DEFINE f == mreader[r].file
           o == mreader[r].obj
<1> USE DEF MarkInv
<1>1. /\ ReaderAt(r, "tag") /\ f \in StreamFiles /\ o \in Objs /\ marker[o] = f /\ mreader[r].inode = f
      /\ rtag[f][o] = NoMark /\ ~HasOp(o)
  BY DEF TagMarked, ReadersAreSafe, TaggerIsSafe, Tagging
<1>2. /\ mreader' = [mreader EXCEPT ![r] = NoClose]
      /\ UNCHANGED <<named, refd, marker, objects, manager>>
  BY DEF TagMarked, ReaderDone
<1>3. CASE UNCHANGED <<rtag, fresh>>
  BY <1>2, <1>3, ReaderDoneSafe DEF files
<1>4. CASE /\ rtag' = [rtag EXCEPT ![f][o] = [bad |-> mreader[r].found, old |-> FALSE]]
           /\ fresh' = fresh \cup {f}
  <2> USE DEF objects, manager
  <2>1. /\ \A s \in MarkReaders : s # r => mreader'[s] = mreader[s]
        /\ mreader'[r].at = "idle"
    BY <1>2 DEF MarkTypeOK, NoClose
  <2>2. \A g \in StreamFiles, p \in Objs : g # f \/ p # o => rtag'[g][p] = rtag[g][p]
    BY <1>1, <1>4 DEF MarkTypeOK
  <2>3. MarkTypeOK'
    <3>1. [bad |-> mreader[r].found, old |-> FALSE] \in Tags
      BY DEF MarkTypeOK, Tags, Readers
    <3>2. rtag' \in [StreamFiles -> [Objs -> Tags \cup {NoMark}]] /\ fresh' \subseteq StreamFiles
      BY <1>1, <1>4, <3>1 DEF MarkTypeOK
    <3>3. mreader' \in [MarkReaders -> Readers]
      BY <1>2 DEF MarkTypeOK, NoClose, MaybeFile, Readers
    <3> QED BY <1>2, <3>2, <3>3 DEF MarkTypeOK
  <2>4. MarkersHoldFiles' /\ ReportedStaysMarked'
    BY <1>2 DEF MarkersHoldFiles, ReportedStaysMarked
  <2>5. TagsHaveMarkers'
    BY <1>1, <1>2, <2>2 DEF TagsHaveMarkers
  <2>6. CondemnedAreUnused'
    BY <1>2, <2>1 DEF CondemnedAreUnused, ReaderAt
  <2>7. \A s \in MarkReaders : s # r /\ Tagging(s) => mreader[s].obj # o
    BY <1>1 DEF ReadersAreSafe, Tagging
  <2>8. ReadersAreSafe'
    BY <1>1, <1>2, <1>4, <2>1, <2>2, <2>7
       DEF ReadersAreSafe, LinkerIsSafe, TaggerIsSafe, Tagging, ReaderAt, HasOp, Busy
  <2>9. \A p \in Objs : p # o /\ marker[p] # NoMark => NotTagged(p)' = NotTagged(p)
    BY <1>2, <2>2 DEF NotTagged, MarkTypeOK, MaybeFile
  <2>10. OpsAreSafe'
    BY <1>1, <1>2, <2>9
       DEF OpsAreSafe, OpIsSafe, RebuilderIsSafe, OneOpEach, OnMarkerOf, HasOp, Busy, RebuilderAt
  <2> QED BY <2>3, <2>4, <2>5, <2>6, <2>8, <2>10
<1> QED BY <1>1, <1>3, <1>4 DEF TagMarked

-----------------------------------------------------------------------------
(* Steps of a run *)

LEMMA StartScanSafe ==
  ASSUME MarkInv, NEW location \in BOOLEAN, NEW kept \in SUBSET fresh, StartScan(location, kept)
  PROVE  MarkInv'
<1> USE DEF MarkInv, StartScan, objects, RunIsOver
<1>1. /\ found = {} /\ \A t \in Rebuilders : ~Busy(t)
      /\ found' = {} /\ \A t \in Rebuilders : ~Busy(t)'
  BY DEF Busy, FreeHand
<1>2. \A f \in StreamFiles, o \in Objs : rtag[f][o] = NoMark => rtag'[f][o] = NoMark
  OBVIOUS
<1>4. MarkTypeOK'
  <2>1. rtag' \in [StreamFiles -> [Objs -> Tags \cup {NoMark}]]
    <3>1. \A tag \in Tags : [tag EXCEPT !.old = TRUE] \in Tags
      BY DEF Tags
    <3> QED BY <3>1 DEF MarkTypeOK
  <2>2. fresh' \subseteq StreamFiles
    BY DEF MarkTypeOK
  <2>3. scan' \in Scans
    BY DEF Scans
  <2> QED BY <2>1, <2>2, <2>3 DEF MarkTypeOK
<1>5. MarkersHoldFiles' /\ ReportedStaysMarked'
  BY DEF MarkersHoldFiles, ReportedStaysMarked
<1>6. TagsHaveMarkers'
  BY <1>2 DEF TagsHaveMarkers
<1>7. CondemnedAreUnused'
  BY DEF CondemnedAreUnused
<1>8. ReadersAreSafe'
  <2>1. ASSUME NEW r \in MarkReaders PROVE LinkerIsSafe(r)'
    BY DEF ReadersAreSafe, LinkerIsSafe, ReaderAt, AtWork, MarkTypeOK
  <2>2. ASSUME NEW r \in MarkReaders PROVE TaggerIsSafe(r)'
    BY <1>1, <1>2 DEF ReadersAreSafe, TaggerIsSafe, Tagging, ReaderAt, AtWork, HasOp
  <2> QED BY <2>1, <2>2 DEF ReadersAreSafe, Tagging, ReaderAt
<1>9. OpsAreSafe'
  BY <1>1 DEF OpsAreSafe, RebuilderIsSafe, OneOpEach
<1> QED BY <1>4, <1>5, <1>6, <1>7, <1>8, <1>9

LEMMA SeeMarkerSafe ==
  ASSUME MarkInv, NEW o \in Objs, SeeMarker(o)
  PROVE  MarkInv'
<1> DEFINE e == [type |-> "rebuild", val |-> o]
<1> USE DEF MarkInv, files, objects
<1>1. /\ scan.on /\ e \notin scan.seen /\ marker[o] # NoMark
      /\ scan' = [scan EXCEPT !.seen = @ \cup {e}]
      /\ UNCHANGED <<files, objects, mreader, rebuilder, condemned>>
  BY DEF SeeMarker, Unseen, DirEntries, Saw
<1>2. ~HasOp(o)
  BY <1>1 DEF HasOp, OpsAreSafe, OpIsSafe, RebuilderIsSafe, OnMarkerOf
<1>3. /\ scan'.on /\ scan'.seen = scan.seen \cup {e}
  BY <1>1 DEF MarkTypeOK, Scans
<1>4. marker[o] \in StreamFiles
  BY <1>1 DEF MarkTypeOK, MaybeFile
<1>5. CASE found' = found
  <2>1. MarkTypeOK'
    <3>1. scan' \in Scans
      BY <1>1, ObjsFacts DEF MarkTypeOK, Scans
    <3> QED BY <1>1, <1>5, <3>1 DEF MarkTypeOK
  <2>2. OpsAreSafe'
    BY <1>1, <1>3, <1>5
       DEF OpsAreSafe, OpIsSafe, RebuilderIsSafe, OneOpEach, OnMarkerOf, Busy, NotTagged, RebuilderAt
  <2>3. ReadersAreSafe'
    BY <1>1, <1>5 DEF ReadersAreSafe, LinkerIsSafe, TaggerIsSafe, Tagging, ReaderAt, HasOp, Busy
  <2> QED BY <1>1, <2>1, <2>2, <2>3
          DEF MarkersHoldFiles, CondemnedAreUnused, ReportedStaysMarked, TagsHaveMarkers, ReaderAt
<1>6. CASE Due(o) /\ found' = found \cup {MarkerOp(o)}
  <2>1. MarkerOp(o) \in MarkOps /\ MarkerOp(o).path /\ MarkerOp(o).objno = o /\ MarkerOp(o).count = 1
        /\ MarkerOp(o).tag = rtag[marker[o]][o]
    BY <1>4, ObjsFacts DEF MarkerOp, MarkOps, MarkTypeOK
  <2>2. MarkTypeOK'
    <3>1. scan' \in Scans
      BY <1>1, ObjsFacts DEF MarkTypeOK, Scans
    <3> QED BY <1>1, <1>6, <2>1, <3>1 DEF MarkTypeOK
  <2> HIDE DEF e
  <2>3. /\ marker[o] # NoMark /\ MarkerOp(o).tag = NoMark => NotTagged(o)
        /\ [type |-> "rebuild", val |-> o] \in scan'.seen
    BY <1>1, <1>3, <2>1 DEF NotTagged, e
  <2>4. OpsAreSafe'
    <3>1. ASSUME NEW op \in found PROVE OpIsSafe(op)'
      BY <1>1, <1>3 DEF OpsAreSafe, OpIsSafe, NotTagged
    <3>a. ASSUME NEW op, op = MarkerOp(o) PROVE OpIsSafe(op)'
      BY <1>1, <2>1, <2>3, <3>a DEF OpIsSafe, NotTagged
    <3>2. \A t \in Rebuilders : RebuilderIsSafe(t)'
      BY <1>1, <1>3 DEF OpsAreSafe, OpIsSafe, RebuilderIsSafe, Busy, NotTagged, RebuilderAt
    <3>3. OneOpEach'
      BY <1>1, <1>2, <1>6, <2>1 DEF OpsAreSafe, OneOpEach, HasOp, OnMarkerOf, Busy
    <3> QED BY <1>6, <3>1, <3>a, <3>2, <3>3 DEF OpsAreSafe
  \* a marker that is due is not that of a reader at work
  <2>5. \A r \in MarkReaders : Tagging(r) => mreader[r].obj # o
    BY <1>6 DEF Due, ReadersAreSafe, TaggerIsSafe
  <2>6. \A p : p # o => (HasOp(p)' <=> HasOp(p))
    BY <1>1, <1>6, <2>1 DEF HasOp, OnMarkerOf, Busy
  <2>7. ReadersAreSafe'
    BY <1>1, <2>5, <2>6 DEF ReadersAreSafe, LinkerIsSafe, TaggerIsSafe, Tagging, ReaderAt
  <2> QED BY <1>1, <2>2, <2>4, <2>7
          DEF MarkersHoldFiles, CondemnedAreUnused, ReportedStaysMarked, TagsHaveMarkers, ReaderAt
<1> QED BY <1>5, <1>6 DEF SeeMarker

\* A file with one link, its reference, has neither a name nor a marker.
LEMMA LinksOne ==
  ASSUME NEW f, f \in refd, Links(f) = 1
  PROVE  f \notin named /\ \A o \in Objs : marker[o] # f
<1> DEFINE M == {o \in Objs : marker[o] = f}
<1>1. IsFiniteSet(M) /\ IsFiniteSet({f} \cap named) /\ IsFiniteSet({f} \cap refd)
  BY StreamAssumption, FS_Subset, FS_Singleton
<1>2. Cardinality(M) \in Nat /\ Cardinality({f} \cap named) \in Nat
  BY <1>1, FS_CardinalityType
<1>3. Cardinality({f} \cap refd) = 1
  <2>1. {f} \cap refd = {f}
    OBVIOUS
  <2> QED BY <2>1, FS_Singleton
<1>4. Cardinality(M) = 0 /\ Cardinality({f} \cap named) = 0
  BY <1>2, <1>3 DEF Links
<1>5. M = {} /\ {f} \cap named = {}
  BY <1>1, <1>4, FS_EmptySet
<1> QED BY <1>5

LEMMA SeeStreamSafe ==
  ASSUME MarkInv, SeeStream
  PROVE  MarkInv'
<1> USE DEF MarkInv, SeeStream, Saw, files, objects
<1>1. PICK picked \in SUBSET {LocationOp} : found' = found \cup picked
  OBVIOUS
<1>2. 0 \in StreamFiles
  BY DEF Unseen, DirEntries, MarkTypeOK
<1>3. LocationOp \in MarkOps /\ ~LocationOp.path
  <2>1. IsFiniteSet(ObjsOf[0])
    BY <1>2, ObjsFacts, StreamAssumption, FS_Subset
  <2> QED BY <2>1, FS_CardinalityType DEF LocationOp, MarkOps
<1>4. scan'.on = scan.on /\ scan.seen \subseteq scan'.seen
  BY DEF MarkTypeOK, Scans
<1>5. MarkTypeOK'
  <2>1. scan' \in Scans
    BY DEF MarkTypeOK, Scans
  <2> QED BY <1>1, <1>3, <2>1 DEF MarkTypeOK
<1>6. MarkersHoldFiles' /\ ReportedStaysMarked' /\ TagsHaveMarkers'
  BY DEF MarkersHoldFiles, ReportedStaysMarked, TagsHaveMarkers
<1>7. CondemnedAreUnused'
  <2>1. \A f \in condemned' : f \in refd /\ f \notin fresh /\ f \notin named /\ \A o \in Objs : marker[o] # f
    BY LinksOne
  <2>2. \A f \in condemned', r \in MarkReaders : ReaderAt(r, "link") => mreader[r].file # f
    BY <2>1 DEF ReadersAreSafe, LinkerIsSafe
  <2> QED BY <2>1, <2>2 DEF CondemnedAreUnused, ReaderAt
<1>8. \A o : HasOp(o)' <=> HasOp(o)
  BY <1>1, <1>3 DEF HasOp, OnMarkerOf, Busy
<1>9. ReadersAreSafe'
  BY <1>8 DEF ReadersAreSafe, LinkerIsSafe, TaggerIsSafe, Tagging, ReaderAt
<1>10. OpsAreSafe'
  BY <1>1, <1>3, <1>4
     DEF OpsAreSafe, OpIsSafe, RebuilderIsSafe, OneOpEach, OnMarkerOf, Busy, NotTagged, RebuilderAt
<1> QED BY <1>5, <1>6, <1>7, <1>9, <1>10

LEMMA EndScanSafe ==
  ASSUME MarkInv, EndScan
  PROVE  MarkInv'
<1> USE DEF MarkInv, EndScan, NoScan, files, objects
<1>1. MarkTypeOK'
  <2>1. scan' \in Scans
    BY DEF Scans
  <2> QED BY <2>1 DEF MarkTypeOK
<1>2. MarkersHoldFiles' /\ ReportedStaysMarked' /\ TagsHaveMarkers' /\ CondemnedAreUnused'
  BY DEF MarkersHoldFiles, ReportedStaysMarked, TagsHaveMarkers, CondemnedAreUnused, ReaderAt
<1>3. ReadersAreSafe'
  BY DEF ReadersAreSafe, LinkerIsSafe, TaggerIsSafe, Tagging, ReaderAt, HasOp, Busy
<1>4. OpsAreSafe'
  BY DEF OpsAreSafe, OpIsSafe, RebuilderIsSafe, OneOpEach, OnMarkerOf, Busy, NotTagged, RebuilderAt
<1> QED BY <1>1, <1>2, <1>3, <1>4

LEMMA CollectSafe ==
  ASSUME MarkInv, Collect
  PROVE  MarkInv'
<1> USE DEF MarkInv, Collect
<1>1. MarkTypeOK'
  BY DEF MarkTypeOK
<1>2. MarkersHoldFiles'
  BY DEF MarkersHoldFiles, CondemnedAreUnused
<1>3. ReportedStaysMarked' /\ TagsHaveMarkers' /\ CondemnedAreUnused'
  BY DEF ReportedStaysMarked, TagsHaveMarkers, CondemnedAreUnused
<1>4. ReadersAreSafe'
  BY DEF ReadersAreSafe, CondemnedAreUnused, LinkerIsSafe, TaggerIsSafe, Tagging, ReaderAt, HasOp, Busy
<1>5. OpsAreSafe'
  BY DEF OpsAreSafe, OpIsSafe, RebuilderIsSafe, OneOpEach, OnMarkerOf, Busy, NotTagged, RebuilderAt
<1> QED BY <1>1, <1>2, <1>3, <1>4, <1>5

-----------------------------------------------------------------------------
(* Steps of the consumers *)

LEMMA RebuilderStaysSafe ==
  ASSUME NEW u \in Rebuilders, rebuilder'[u] = rebuilder[u], RebuilderIsSafe(u), UNCHANGED <<files, scan>>,
         \A o \in Objs : reported[o] = {} => reported'[o] = {}
  PROVE  RebuilderIsSafe(u)'
<1> DEFINE op == rebuilder[u].op
<1> SUFFICES ASSUME Busy(u)' PROVE RebuilderIsSafe(u)'
  BY DEF RebuilderIsSafe
<1>1. Busy(u) /\ OpIsSafe(op)
  BY DEF RebuilderIsSafe, Busy
<1>2. OpIsSafe(op)' /\ rebuilder'[u].op = op
  BY <1>1 DEF OpIsSafe, NotTagged, files
<1>3. op.path => op.objno \in Objs
  BY <1>1 DEF OpIsSafe
<1>4. NotTagged(op.objno)' = NotTagged(op.objno)
  BY DEF NotTagged, files
<1> QED BY <1>1, <1>2, <1>3, <1>4 DEF RebuilderIsSafe, RebuilderAt

\* A consumer gives up, and leaves the marker to another run.
LEMMA GivesUpSafe ==
  ASSUME MarkInv, NEW t \in Rebuilders, rebuilder' = [rebuilder EXCEPT ![t] = FreeHand],
         UNCHANGED <<files, stored, mreader, scan, found, condemned>>,
         damaged' \in [Objs -> SUBSET Stripe], reported' \in [Objs -> SUBSET Stripe],
         \A o \in Objs : reported'[o] \subseteq reported[o]
  PROVE  MarkInv'
<1> USE DEF MarkInv, files
<1>1. /\ \A u \in Rebuilders : u # t => rebuilder'[u] = rebuilder[u]
      /\ ~Busy(t)'
  BY DEF MarkTypeOK, FreeHand, Busy
<1>2. MarkTypeOK'
  <2>1. rebuilder' \in [Rebuilders -> Hands]
    BY DEF MarkTypeOK, FreeHand, Hands
  <2> QED BY <1>1, <2>1 DEF MarkTypeOK, Busy
<1>3. MarkersHoldFiles' /\ TagsHaveMarkers' /\ CondemnedAreUnused'
  BY DEF MarkersHoldFiles, TagsHaveMarkers, CondemnedAreUnused, ReaderAt
<1>a. \A o \in Objs : reported[o] = {} => reported'[o] = {}
  BY DEF MarkTypeOK
<1>4. ReportedStaysMarked'
  BY <1>a DEF ReportedStaysMarked, MarkTypeOK
<1>5. ReadersAreSafe'
  BY <1>1 DEF ReadersAreSafe, LinkerIsSafe, TaggerIsSafe, Tagging, ReaderAt, HasOp, Busy
<1>6. \A op \in found' : OpIsSafe(op)'
  BY DEF OpsAreSafe, OpIsSafe, NotTagged
<1>7. \A u \in Rebuilders : RebuilderIsSafe(u)'
  <2>1. RebuilderIsSafe(t)'
    BY <1>1 DEF RebuilderIsSafe
  <2>2. ASSUME NEW u \in Rebuilders, u # t PROVE RebuilderIsSafe(u)'
    BY <1>1, <1>a, <2>2, RebuilderStaysSafe DEF OpsAreSafe
  <2> QED BY <2>1, <2>2
<1>8. OneOpEach'
  BY <1>1 DEF OpsAreSafe, OneOpEach, OnMarkerOf, Busy
<1> QED BY <1>2, <1>3, <1>4, <1>5, <1>6, <1>7, <1>8 DEF OpsAreSafe

LEMMA TakeRebuildSafe ==
  ASSUME MarkInv, NEW t \in Rebuilders, TakeRebuild(t)
  PROVE  MarkInv'
<1> USE DEF MarkInv, files, objects
<1>1. PICK op \in found :
        /\ rebuilder' = [rebuilder EXCEPT ![t] = [FreeHand EXCEPT !.at = "rebuild", !.op = op, !.known = Seed(op)]]
        /\ found' = found \ {op}
  BY DEF TakeRebuild
<1>2. UNCHANGED <<files, objects, mreader, scan, condemned>> /\ ~Busy(t)
  BY DEF TakeRebuild, Busy, FreeHand
<1>3. op \in MarkOps /\ Seed(op) \in SUBSET Stripe
  BY DEF MarkTypeOK, MarkOps, Tags, Seed
<1>4. /\ \A u \in Rebuilders : u # t => rebuilder'[u] = rebuilder[u]
      /\ rebuilder'[t].op = op /\ rebuilder'[t].at = "rebuild" /\ rebuilder'[t].k = 0
  BY <1>1 DEF MarkTypeOK, FreeHand
<1>5. MarkTypeOK'
  <2>1. rebuilder' \in [Rebuilders -> Hands]
    BY <1>1, <1>3 DEF MarkTypeOK, FreeHand, Hands
  <2> QED BY <1>1, <1>2, <1>3, <1>4, <2>1 DEF MarkTypeOK
<1>6. MarkersHoldFiles' /\ ReportedStaysMarked' /\ TagsHaveMarkers' /\ CondemnedAreUnused'
  BY <1>2 DEF MarkersHoldFiles, ReportedStaysMarked, TagsHaveMarkers, CondemnedAreUnused, ReaderAt
<1>7. \A o : HasOp(o)' => HasOp(o)
  BY <1>1, <1>4 DEF HasOp, Busy
<1>8. ReadersAreSafe'
  BY <1>2, <1>7 DEF ReadersAreSafe, LinkerIsSafe, TaggerIsSafe, Tagging, ReaderAt
<1>9. \A p \in found' : OpIsSafe(p)'
  BY <1>1, <1>2 DEF OpsAreSafe, OpIsSafe, NotTagged
<1>10. \A u \in Rebuilders : RebuilderIsSafe(u)'
  <2>1. RebuilderIsSafe(t)'
    BY <1>2, <1>4 DEF OpsAreSafe, RebuilderIsSafe, OpIsSafe, NotTagged, RebuilderAt
  <2>2. ASSUME NEW u \in Rebuilders, u # t PROVE RebuilderIsSafe(u)'
    BY <1>2, <1>4, <2>2 DEF OpsAreSafe, RebuilderIsSafe, OpIsSafe, NotTagged, RebuilderAt, Busy
  <2> QED BY <2>1, <2>2
<1>11. OneOpEach'
  BY <1>1, <1>2, <1>4 DEF OpsAreSafe, OneOpEach, OnMarkerOf, Busy
<1> QED BY <1>5, <1>6, <1>8, <1>9, <1>10, <1>11 DEF OpsAreSafe

\* A consumer goes on with its operation: to the next object, to another attempt, or, with all
\* of them rebuilt, to the marker.
LEMMA GoesOnSafe ==
  ASSUME MarkInv, NEW t \in Rebuilders, RebuilderAt(t, "rebuild"),
         NEW hand \in Hands, rebuilder' = [rebuilder EXCEPT ![t] = hand],
         hand.op = rebuilder[t].op, hand.at # "idle",
         hand.op.path => hand.k = 0,
         hand.at # "rebuild" => hand.op.path /\ reported'[hand.op.objno] = {},
         hand.at = "unlink" => hand.op.tag = NoMark,
         UNCHANGED <<files, stored, mreader, scan, found, condemned>>,
         damaged' \in [Objs -> SUBSET Stripe], reported' \in [Objs -> SUBSET Stripe],
         \A o \in Objs : reported'[o] \subseteq reported[o]
  PROVE  MarkInv'
<1> USE DEF MarkInv, files
<1>1. /\ \A u \in Rebuilders : u # t => rebuilder'[u] = rebuilder[u]
      /\ rebuilder'[t] = hand /\ Busy(t) /\ Busy(t)'
  BY DEF MarkTypeOK, Busy, RebuilderAt
<1>2. MarkTypeOK'
  BY <1>1 DEF MarkTypeOK, Busy
<1>3. MarkersHoldFiles' /\ TagsHaveMarkers' /\ CondemnedAreUnused'
  BY DEF MarkersHoldFiles, TagsHaveMarkers, CondemnedAreUnused, ReaderAt
<1>a. \A o \in Objs : reported[o] = {} => reported'[o] = {}
  BY DEF MarkTypeOK
<1>4. ReportedStaysMarked'
  BY <1>a DEF ReportedStaysMarked, MarkTypeOK
<1>5. \A o : HasOp(o)' <=> HasOp(o)
  BY <1>1 DEF HasOp, Busy
<1>6. ReadersAreSafe'
  BY <1>5 DEF ReadersAreSafe, LinkerIsSafe, TaggerIsSafe, Tagging, ReaderAt
<1>7. \A op \in found' : OpIsSafe(op)'
  BY DEF OpsAreSafe, OpIsSafe, NotTagged
<1>8. \A u \in Rebuilders : RebuilderIsSafe(u)'
  <2>1. OpIsSafe(hand.op)
    BY <1>1 DEF OpsAreSafe, RebuilderIsSafe
  <2>2. RebuilderIsSafe(t)'
    BY <1>1, <2>1 DEF RebuilderIsSafe, OpIsSafe, NotTagged, RebuilderAt
  <2>3. ASSUME NEW u \in Rebuilders, u # t PROVE RebuilderIsSafe(u)'
    BY <1>1, <1>a, <2>3, RebuilderStaysSafe DEF OpsAreSafe
  <2> QED BY <2>2, <2>3
<1>9. OneOpEach'
  BY <1>1 DEF OpsAreSafe, OneOpEach, OnMarkerOf, Busy
<1> QED BY <1>2, <1>3, <1>4, <1>6, <1>7, <1>8, <1>9 DEF OpsAreSafe

LEMMA RebuildSafe ==
  ASSUME MarkInv, NEW t \in Rebuilders, Rebuild(t)
  PROVE  MarkInv'
<1> DEFINE o == Current(t)
           op == rebuilder[t].op
<1>1. RebuilderAt(t, "rebuild") /\ UNCHANGED <<files, stored, mreader, scan, found, condemned>>
  BY DEF Rebuild
<1>2. MarkTypeOK /\ op \in MarkOps /\ rebuilder[t] \in Hands /\ Busy(t)
  BY <1>1 DEF MarkInv, MarkTypeOK, RebuilderAt, Busy
<1>3. CASE GivesUp(t) /\ UNCHANGED <<damaged, reported>>
  BY <1>1, <1>2, <1>3, GivesUpSafe DEF GivesUp, MarkTypeOK
<1>4. CASE o \in stored /\ ~(GivesUp(t) /\ UNCHANGED <<damaged, reported>>)
  <2>1. PICK missed \in SUBSET (damaged[o] \cap rebuilder[t].known) :
          LET left == (damaged[o] \ rebuilder[t].known) \cup missed
          IN  /\ damaged' = [damaged EXCEPT ![o] = left]
              /\ reported' = [reported EXCEPT ![o] = @ \cap left]
              /\ IF left = {} THEN Rebuilt(t) ELSE NotRebuilt(t, left)
    BY <1>4 DEF Rebuild
  <2> DEFINE left == (damaged[o] \ rebuilder[t].known) \cup missed
  <2>2. o \in Objs /\ left \in SUBSET Stripe
    BY <1>2, <1>4 DEF MarkTypeOK
  <2>3. /\ damaged' \in [Objs -> SUBSET Stripe] /\ reported' \in [Objs -> SUBSET Stripe]
        /\ \A p \in Objs : reported'[p] \subseteq reported[p]
        /\ left = {} => reported'[o] = {}
    BY <1>2, <2>1, <2>2 DEF MarkTypeOK
  <2>4. op.path => rebuilder[t].k = 0 /\ op.count = 1 /\ o = op.objno
    <3>1. op.path => rebuilder[t].k = 0 /\ op.count = 1
      BY <1>2 DEF MarkInv, OpsAreSafe, RebuilderIsSafe, OpIsSafe
    <3> QED BY <1>2, <3>1 DEF Current, MarkOps
  <2>5. CASE left = {}
    <3>1. Rebuilt(t)
      BY <2>1, <2>5
    <3>2. Seed(op) \in SUBSET Stripe
      BY <1>2 DEF MarkOps, Tags, Seed
    <3>3. CASE rebuilder[t].k + 1 < op.count
      <4> DEFINE hand == [rebuilder[t] EXCEPT !.k = @ + 1, !.tries = 0, !.known = Seed(op)]
      <4>1. rebuilder' = [rebuilder EXCEPT ![t] = hand]
        BY <1>2, <3>1, <3>3 DEF Rebuilt, MarkTypeOK
      <4>2. hand \in Hands /\ hand.op = op /\ hand.at = "rebuild"
        <5>1. PICK n \in Nat : n = rebuilder[t].k + 1
          BY <1>2 DEF Hands
        <5>2. hand = [rebuilder[t] EXCEPT !.k = n, !.tries = 0, !.known = Seed(op)]
          BY <5>1
        <5> QED BY <1>1, <1>2, <3>2, <5>2 DEF Hands, RebuilderAt
      <4>3. ~op.path
        BY <2>4, <3>3
      <4> HIDE DEF hand
      <4> QED BY <1>1, <2>3, <4>1, <4>2, <4>3, GoesOnSafe
    <3>4. CASE ~(rebuilder[t].k + 1 < op.count) /\ ~op.path
      <4>1. rebuilder' = [rebuilder EXCEPT ![t] = FreeHand]
        BY <3>1, <3>4 DEF Rebuilt, MarkTypeOK
      <4> QED BY <1>1, <2>3, <4>1, GivesUpSafe
    <3>5. CASE ~(rebuilder[t].k + 1 < op.count) /\ op.path
      <4> DEFINE hand == [rebuilder[t] EXCEPT !.at = IF op.tag # NoMark THEN "untag" ELSE "unlink"]
      <4>1. rebuilder' = [rebuilder EXCEPT ![t] = hand]
        BY <1>2, <3>1, <3>5 DEF Rebuilt, MarkTypeOK
      <4>2. hand \in Hands /\ hand.op = op /\ hand.at # "idle" /\ hand.at # "rebuild" /\ hand.k = 0
            /\ (hand.at = "unlink" => op.tag = NoMark)
        BY <1>2, <2>4, <3>5 DEF Hands
      <4>3. reported'[op.objno] = {}
        BY <2>3, <2>4, <2>5, <3>5
      <4> HIDE DEF hand
      <4> QED BY <1>1, <2>3, <3>5, <4>1, <4>2, <4>3, GoesOnSafe
    <3> QED BY <3>3, <3>4, <3>5
  <2>6. CASE left # {} /\ rebuilder[t].tries = 1
    <3>1. rebuilder' = [rebuilder EXCEPT ![t] = FreeHand]
      BY <2>1, <2>6 DEF NotRebuilt, GivesUp
    <3> QED BY <1>1, <2>3, <3>1, GivesUpSafe
  <2>7. CASE left # {} /\ rebuilder[t].tries # 1
    <3> DEFINE hand == [rebuilder[t] EXCEPT !.tries = rebuilder[t].tries + 1, !.known = left]
    <3> HIDE DEF left
    <3>1. rebuilder' = [rebuilder EXCEPT ![t] = hand]
      <4>1. NotRebuilt(t, left)
        BY <2>1, <2>7 DEF left
      <4>2. rebuilder' = [rebuilder EXCEPT ![t].tries = @ + 1, ![t].known = left]
        BY <2>7, <4>1 DEF NotRebuilt
      <4> QED BY <1>2, <4>2 DEF MarkTypeOK
    <3>2. hand \in Hands /\ hand.op = op /\ hand.at = "rebuild" /\ hand.k = rebuilder[t].k
      <4>1. PICK n \in Nat : n = rebuilder[t].tries + 1
        BY <1>2 DEF Hands
      <4>2. hand = [rebuilder[t] EXCEPT !.tries = n, !.known = left]
        BY <4>1
      <4> QED BY <1>1, <1>2, <2>2, <4>2 DEF Hands, RebuilderAt
    <3> HIDE DEF hand
    <3> QED BY <1>1, <2>3, <2>4, <3>1, <3>2, GoesOnSafe
  <2> QED BY <2>5, <2>6, <2>7
<1> QED BY <1>3, <1>4 DEF Rebuild

LEMMA RebuildFailsSafe ==
  ASSUME MarkInv, NEW t \in Rebuilders, RebuildFails(t)
  PROVE  MarkInv'
BY GivesUpSafe DEF RebuildFails, GivesUp, objects, MarkInv, MarkTypeOK

LEMMA RemoveRtagSafe ==
  ASSUME MarkInv, NEW t \in Rebuilders, RemoveRtag(t)
  PROVE  MarkInv'
<1> DEFINE op == rebuilder[t].op
           o  == op.objno
           g  == marker[o]
<1>1. /\ RebuilderAt(t, "untag") /\ Busy(t) /\ g # NoMark
      /\ UNCHANGED <<named, refd, marker, objects, mreader, scan, found, condemned>>
  BY DEF RemoveRtag, RebuilderAt, Busy
<1>2. MarkTypeOK /\ op \in MarkOps /\ op.path /\ o \in Objs /\ g \in StreamFiles /\ rebuilder[t].k = 0
  BY <1>1 DEF MarkInv, MarkTypeOK, OpsAreSafe, RebuilderIsSafe, OpIsSafe, Busy, RebuilderAt, MaybeFile
<1>3. CASE GivesUp(t) /\ UNCHANGED <<rtag, fresh>>
  BY <1>1, <1>2, <1>3, GivesUpSafe DEF GivesUp, files, objects, MarkTypeOK
<1>4. CASE RebuilderTo(t, "unlink") /\ rtag' = [rtag EXCEPT ![g][o] = NoMark] /\ fresh' = fresh \cup {g}
  <2> USE DEF MarkInv, objects
  <2>1. /\ \A u \in Rebuilders : u # t => rebuilder'[u] = rebuilder[u]
        /\ rebuilder'[t].at = "unlink" /\ rebuilder'[t].op = op /\ rebuilder'[t].k = 0
    BY <1>2, <1>4 DEF MarkTypeOK, Hands, RebuilderTo
  <2>2. \A f \in StreamFiles, p \in Objs : rtag'[f][p] = IF f = g /\ p = o THEN NoMark ELSE rtag[f][p]
    BY <1>2, <1>4 DEF MarkTypeOK
  <2>3. MarkTypeOK'
    <3>1. rtag' \in [StreamFiles -> [Objs -> Tags \cup {NoMark}]] /\ fresh' \subseteq StreamFiles
      BY <1>2, <1>4 DEF MarkTypeOK
    <3>2. rebuilder' \in [Rebuilders -> Hands]
      BY <1>2, <1>4 DEF MarkTypeOK, Hands, RebuilderTo
    <3>3. \A u \in Rebuilders : rebuilder'[u].at # "idle" => rebuilder'[u].op \in MarkOps
      BY <1>2, <2>1 DEF MarkTypeOK
    <3> QED BY <1>1, <1>2, <3>1, <3>2, <3>3 DEF MarkTypeOK
  <2>4. MarkersHoldFiles' /\ ReportedStaysMarked' /\ CondemnedAreUnused'
    BY <1>1 DEF MarkersHoldFiles, ReportedStaysMarked, CondemnedAreUnused, ReaderAt
  <2>5. TagsHaveMarkers'
    BY <1>1, <2>2 DEF TagsHaveMarkers
  <2>6. \A p : HasOp(p)' <=> HasOp(p)
    BY <1>1, <2>1 DEF HasOp, Busy
  <2>7. ReadersAreSafe'
    <3>1. ASSUME NEW r \in MarkReaders PROVE LinkerIsSafe(r)'
      BY <1>1, <1>4 DEF ReadersAreSafe, LinkerIsSafe, ReaderAt
    <3>2. ASSUME NEW r \in MarkReaders PROVE TaggerIsSafe(r)'
      BY <1>1, <1>4, <2>2, <2>6 DEF ReadersAreSafe, TaggerIsSafe, Tagging, ReaderAt
    <3> QED BY <1>1, <3>1, <3>2 DEF ReadersAreSafe, Tagging, ReaderAt
  <2>8. \A p \in Objs : marker[p] # NoMark /\ NotTagged(p) => NotTagged(p)'
    BY <1>1, <2>2 DEF NotTagged, MarkTypeOK, MaybeFile
  <2>9. \A p : OpIsSafe(p) => OpIsSafe(p)'
    BY <1>1, <2>8 DEF OpIsSafe
  <2>10. \A p \in found' : OpIsSafe(p)'
    BY <1>1, <2>9 DEF OpsAreSafe
  <2>11. \A u \in Rebuilders : RebuilderIsSafe(u)'
    <3>1. RebuilderIsSafe(t)'
      <4>1. OpIsSafe(op) /\ reported[o] = {}
        BY <1>1 DEF OpsAreSafe, RebuilderIsSafe, RebuilderAt
      <4>2. OpIsSafe(op)'
        BY <2>1, <2>9, <4>1
      <4>3. NotTagged(o)'
        BY <1>1, <1>2, <2>1, <2>2 DEF NotTagged
      <4> QED BY <1>1, <1>2, <2>1, <4>1, <4>2, <4>3 DEF RebuilderIsSafe, RebuilderAt
    <3>2. ASSUME NEW u \in Rebuilders, u # t PROVE RebuilderIsSafe(u)'
      <4>1. RebuilderIsSafe(u) /\ rebuilder'[u] = rebuilder[u]
        BY <2>1, <3>2 DEF OpsAreSafe
      <4> QED BY <1>1, <2>8, <2>9, <4>1 DEF RebuilderIsSafe, OpIsSafe, RebuilderAt, Busy
    <3> QED BY <3>1, <3>2
  <2>12. OneOpEach'
    BY <1>1, <2>1 DEF OpsAreSafe, OneOpEach, OnMarkerOf, Busy
  <2> QED BY <2>3, <2>4, <2>5, <2>7, <2>10, <2>11, <2>12 DEF OpsAreSafe
<1> QED BY <1>3, <1>4 DEF RemoveRtag, Untagged

LEMMA UnlinkMarkerSafe ==
  ASSUME MarkInv, NEW t \in Rebuilders, UnlinkMarker(t)
  PROVE  MarkInv'
<1> DEFINE op == rebuilder[t].op
           o  == op.objno
           e  == [type |-> "rebuild", val |-> o]
<1>1. /\ RebuilderAt(t, "unlink") /\ Busy(t) /\ marker[o] # NoMark
      /\ rebuilder' = [rebuilder EXCEPT ![t] = FreeHand]
      /\ UNCHANGED <<named, refd, rtag, objects, mreader, found, condemned>>
  BY DEF UnlinkMarker, RebuilderAt, Busy, GivesUp
<1>2. MarkTypeOK /\ op \in MarkOps /\ op.path /\ o \in Objs /\ NotTagged(o) /\ reported[o] = {}
  BY <1>1 DEF MarkInv, MarkTypeOK, OpsAreSafe, RebuilderIsSafe, OpIsSafe, Busy, RebuilderAt
<1>3. CASE UNCHANGED <<marker, fresh, scan>>
  BY <1>1, <1>2, <1>3, GivesUpSafe DEF files, objects, MarkTypeOK
<1>4. CASE /\ marker' = [marker EXCEPT ![o] = NoMark] /\ fresh' = fresh \cup {marker[o]}
           /\ scan' = [scan EXCEPT !.seen = @ \ {e}]
  <2> USE DEF MarkInv, objects
  <2>1. /\ \A u \in Rebuilders : u # t => rebuilder'[u] = rebuilder[u]
        /\ ~Busy(t)'
    BY <1>1, <1>2 DEF MarkTypeOK, FreeHand, Busy
  <2>2. \A p \in Objs : marker'[p] = IF p = o THEN NoMark ELSE marker[p]
    BY <1>2, <1>4 DEF MarkTypeOK
  <2>3. scan'.on = scan.on /\ scan'.seen = scan.seen \ {e}
    BY <1>2, <1>4 DEF MarkTypeOK, Scans
  <2>4. MarkTypeOK'
    <3>1. marker' \in [Objs -> MaybeFile] /\ fresh' \subseteq StreamFiles
      BY <1>1, <1>2, <1>4 DEF MarkTypeOK, MaybeFile
    <3>2. scan' \in Scans
      BY <1>2, <1>4 DEF MarkTypeOK, Scans
    <3>3. rebuilder' \in [Rebuilders -> Hands]
      BY <1>1, <1>2 DEF MarkTypeOK, FreeHand, Hands
    <3> QED BY <1>1, <1>2, <2>1, <3>1, <3>2, <3>3 DEF MarkTypeOK, Busy
  <2>5. MarkersHoldFiles' /\ ReportedStaysMarked'
    BY <1>1, <1>2, <2>2 DEF MarkersHoldFiles, ReportedStaysMarked
  <2>6. TagsHaveMarkers'
    BY <1>1, <1>2, <2>2 DEF TagsHaveMarkers, NotTagged
  <2>7. CondemnedAreUnused'
    <3>1. \A f \in condemned : f # NoMark
      BY <1>2, MarkAssumption DEF CondemnedAreUnused, MarkTypeOK
    <3> QED BY <1>1, <2>2, <3>1 DEF CondemnedAreUnused, ReaderAt
  \* no reader is at work on the marker, and there is no other operation on it
  <2>8. \A r \in MarkReaders : Tagging(r) => mreader[r].obj # o
    BY <1>1, <1>2 DEF ReadersAreSafe, TaggerIsSafe, HasOp, OnMarkerOf
  <2>9. /\ \A p \in found : p.path => p.objno # o
        /\ \A u \in Rebuilders : u # t /\ Busy(u) /\ rebuilder[u].op.path => rebuilder[u].op.objno # o
    BY <1>1, <1>2 DEF OpsAreSafe, OneOpEach, OnMarkerOf
  <2>10. \A p : HasOp(p)' => HasOp(p)
    BY <1>1, <2>1 DEF HasOp, Busy
  <2>11. ReadersAreSafe'
    BY <1>1, <1>4, <2>2, <2>8, <2>10 DEF ReadersAreSafe, LinkerIsSafe, TaggerIsSafe, Tagging, ReaderAt
  <2>12. \A p : OpIsSafe(p) /\ p.objno # o => OpIsSafe(p)'
    BY <1>1, <2>2, <2>3 DEF OpIsSafe, NotTagged
  <2>13. \A p : OpIsSafe(p) /\ ~p.path => OpIsSafe(p)'
    BY DEF OpIsSafe
  <2>14. \A p \in found' : OpIsSafe(p)'
    BY <1>1, <2>9, <2>12, <2>13 DEF OpsAreSafe
  <2>15. \A u \in Rebuilders : RebuilderIsSafe(u)'
    <3>1. RebuilderIsSafe(t)'
      BY <2>1 DEF RebuilderIsSafe
    <3>2. ASSUME NEW u \in Rebuilders, u # t PROVE RebuilderIsSafe(u)'
      <4>1. RebuilderIsSafe(u) /\ rebuilder'[u] = rebuilder[u]
        BY <2>1, <3>2 DEF OpsAreSafe
      <4>2. CASE Busy(u)'
        <5>1. Busy(u) /\ OpIsSafe(rebuilder[u].op)
          BY <4>1, <4>2 DEF RebuilderIsSafe, Busy
        <5>2. OpIsSafe(rebuilder[u].op)'
          BY <2>9, <2>12, <2>13, <3>2, <4>1, <5>1
        <5> QED BY <1>1, <2>2, <2>9, <3>2, <4>1, <5>1, <5>2 DEF RebuilderIsSafe, OpIsSafe, RebuilderAt, NotTagged
      <4> QED BY <4>2 DEF RebuilderIsSafe
    <3> QED BY <3>1, <3>2
  <2>16. OneOpEach'
    BY <1>1, <2>1 DEF OpsAreSafe, OneOpEach, OnMarkerOf, Busy
  <2> QED BY <2>4, <2>5, <2>6, <2>7, <2>11, <2>14, <2>15, <2>16 DEF OpsAreSafe
<1> QED BY <1>3, <1>4 DEF UnlinkMarker

-----------------------------------------------------------------------------
(* Users, damage, and deaths *)

LEMMA UnlinkFileSafe ==
  ASSUME MarkInv, NEW f \in StreamFiles, UnlinkFile(f)
  PROVE  MarkInv'
<1> USE DEF MarkInv, UnlinkFile, objects, manager
<1>1. MarkTypeOK'
  BY DEF MarkTypeOK
<1>2. MarkersHoldFiles' /\ ReportedStaysMarked' /\ TagsHaveMarkers' /\ CondemnedAreUnused'
  BY DEF MarkersHoldFiles, ReportedStaysMarked, TagsHaveMarkers, CondemnedAreUnused, ReaderAt
<1>3. ReadersAreSafe'
  BY DEF ReadersAreSafe, LinkerIsSafe, TaggerIsSafe, Tagging, ReaderAt, HasOp, Busy
<1>4. OpsAreSafe'
  BY DEF OpsAreSafe, OpIsSafe, RebuilderIsSafe, OneOpEach, OnMarkerOf, Busy, NotTagged, RebuilderAt
<1> QED BY <1>1, <1>2, <1>3, <1>4

LEMMA DamageBlockSafe ==
  ASSUME MarkInv, NEW o \in Objs, NEW b \in Stripe, DamageBlock(o, b)
  PROVE  MarkInv'
<1> USE DEF MarkInv, DamageBlock, files, manager
<1>1. MarkTypeOK'
  <2>1. damaged' \in [Objs -> SUBSET Stripe]
    BY DEF MarkTypeOK
  <2> QED BY <2>1 DEF MarkTypeOK
<1>2. MarkersHoldFiles' /\ ReportedStaysMarked' /\ TagsHaveMarkers' /\ CondemnedAreUnused'
  BY DEF MarkersHoldFiles, ReportedStaysMarked, TagsHaveMarkers, CondemnedAreUnused, ReaderAt
<1>3. ReadersAreSafe'
  BY DEF ReadersAreSafe, LinkerIsSafe, TaggerIsSafe, Tagging, ReaderAt, HasOp, Busy
<1>4. OpsAreSafe'
  BY DEF OpsAreSafe, OpIsSafe, RebuilderIsSafe, OneOpEach, OnMarkerOf, Busy, NotTagged, RebuilderAt
<1> QED BY <1>1, <1>2, <1>3, <1>4

LEMMA RunDiesSafe ==
  ASSUME MarkInv, RunDies
  PROVE  MarkInv'
<1> USE DEF MarkInv, RunDies, files, objects
<1>1. \A t \in Rebuilders : ~Busy(t)'
  BY DEF Busy, FreeHand
<1>2. MarkTypeOK'
  <2>1. scan' \in Scans
    BY DEF NoScan, Scans
  <2>2. rebuilder' \in [Rebuilders -> Hands]
    <3>1. FreeHand \in Hands
      BY DEF FreeHand, Hands
    <3> QED BY <3>1
  <2> QED BY <1>1, <2>1, <2>2 DEF MarkTypeOK, Busy
<1>3. MarkersHoldFiles' /\ ReportedStaysMarked' /\ TagsHaveMarkers' /\ CondemnedAreUnused'
  BY DEF MarkersHoldFiles, ReportedStaysMarked, TagsHaveMarkers, CondemnedAreUnused
<1>4. ReadersAreSafe'
  BY <1>1 DEF ReadersAreSafe, LinkerIsSafe, TaggerIsSafe, Tagging, ReaderAt, HasOp
<1>5. OpsAreSafe'
  BY <1>1 DEF OpsAreSafe, RebuilderIsSafe, OneOpEach
<1> QED BY <1>2, <1>3, <1>4, <1>5

-----------------------------------------------------------------------------
(* The theorem *)

LEMMA MarkersStep == MarkInv /\ [MarkNext]_mvars => MarkInv'
<1> SUFFICES ASSUME MarkInv, [MarkNext]_mvars PROVE MarkInv'
  OBVIOUS
<1>1. ASSUME NEW r \in MarkReaders, MarkStep(r) PROVE MarkInv'
  <2>1. CASE ReaderDies(r)
    BY <2>1, ReaderDoneSafe DEF ReaderDies, ReaderDone
  <2> QED BY <1>1, <2>1, CloseDamagedSafe, LinkMarkerSafe, OpenMarkerSafe, TagMarkedSafe DEF MarkStep
<1>2. ASSUME NEW location \in BOOLEAN, NEW kept \in SUBSET fresh, StartScan(location, kept) PROVE MarkInv'
  BY <1>2, StartScanSafe
<1>3. CASE ScanStep
  BY <1>3, SeeStreamSafe, EndScanSafe, SeeMarkerSafe DEF ScanStep
<1>4. CASE Collect \/ RunDies
  BY <1>4, CollectSafe, RunDiesSafe
<1>5. ASSUME NEW t \in Rebuilders, RebuildStep(t) \/ RebuildFails(t) PROVE MarkInv'
  BY <1>5, TakeRebuildSafe, RebuildSafe, RebuildFailsSafe, RemoveRtagSafe, UnlinkMarkerSafe DEF RebuildStep
<1>6. ASSUME NEW f \in StreamFiles, UnlinkFile(f) PROVE MarkInv'
  BY <1>6, UnlinkFileSafe
<1>7. ASSUME NEW o \in Objs, NEW b \in Stripe, DamageBlock(o, b) PROVE MarkInv'
  BY <1>7, DamageBlockSafe
<1>8. CASE UNCHANGED mvars
  <2> USE <1>8 DEF mvars, files, objects, manager
  <2>1. MarkTypeOK'
    BY DEF MarkInv, MarkTypeOK
  <2>2. MarkersHoldFiles' /\ ReportedStaysMarked' /\ TagsHaveMarkers' /\ CondemnedAreUnused'
    BY DEF MarkInv, MarkersHoldFiles, ReportedStaysMarked, TagsHaveMarkers, CondemnedAreUnused, ReaderAt
  <2>3. ReadersAreSafe'
    BY DEF MarkInv, ReadersAreSafe, LinkerIsSafe, TaggerIsSafe, Tagging, ReaderAt, HasOp, Busy
  <2>4. OpsAreSafe'
    BY DEF MarkInv, OpsAreSafe, OpIsSafe, RebuilderIsSafe, OneOpEach, OnMarkerOf, Busy, NotTagged, RebuilderAt
  <2> QED BY <2>1, <2>2, <2>3, <2>4 DEF MarkInv
<1> QED BY <1>1, <1>2, <1>3, <1>4, <1>5, <1>6, <1>7, <1>8 DEF MarkNext

\* The markers are a record that can be relied on, whoever reads, unlinks, rebuilds or dies
\* meanwhile: each leads to an object that is there, what was reported stays marked until it is
\* rebuilt, and an RTAG has its marker (close_current_obj, process_rebuild, process_getfileinfo).
THEOREM MarkersCorrect == MarkSpec => []MarkersAreSound
<1>1. MarkInv => MarkersAreSound
  BY DEF MarkInv, MarkersAreSound, MarkersLeadSomewhere, MarkersHoldFiles
<1> QED BY <1>1, MarkersInit, MarkersStep, PTL DEF MarkSpec
=============================================================================

-------------------------- MODULE GarbageCollection --------------------------
(***************************************************************************)
(* Garbage collection of one datastream by the resource manager: the       *)
(* streamwalker that follows the reference files of the stream             *)
(* (process_openstreamwalker, process_iteratestreamwalker), the producer   *)
(* thread that hands out the operations it finds, the resource log that    *)
(* decides which consumer goes on, and the consumers that delete objects   *)
(* and reference files (process_deleteobj, process_deleteref).  Users      *)
(* unlink files at any moment, deletions fail, and a run may die and be    *)
(* followed by another one.                                                *)
(*                                                                         *)
(* A stream is a sequence of files 0 .. n-1; file f has its data in the    *)
(* objects layout[f].objno .. layout[f].endobj.  Every file has a          *)
(* reference file ("ref"), a second link to the inode of the user's file;  *)
(* when the user unlinks the file, the ref is all that is left.            *)
(***************************************************************************)
EXTENDS Integers, Sequences, FiniteSets, SequencesExt

CONSTANTS
  Layouts,      \* the streams: functions from 0 .. n-1 to [objno, endobj]
  Tails,        \* in which state the writer left the last file
  Consumers,    \* the consumer threads of a run
  MaxCrashes,   \* bound: how often a run dies
  MaxFaults,    \* bound: how often ne_delete() fails
  SplitMayFail, \* may ne_delete() fail in a chain with several object deletions?
  MaxUnlinks    \* bound: how many files the users unlink

ASSUME GCAssumption ==
  /\ MaxCrashes \in Nat /\ MaxFaults \in Nat /\ MaxUnlinks \in Nat
  /\ SplitMayFail \in BOOLEAN
  /\ Tails \subseteq {"eos", "fin", "open", "tagless"}
  \* objects are filled one after the other: a file begins in the last object of the file
  \* before it, or in a later one
  /\ \A l \in Layouts :
       /\ IsFiniteSet(DOMAIN l) /\ DOMAIN l # {} /\ DOMAIN l = 0 .. (Cardinality(DOMAIN l) - 1)
       /\ \A f \in DOMAIN l :
            /\ l[f].objno \in Nat /\ l[f].endobj \in Nat /\ l[f].objno <= l[f].endobj
            /\ \A g \in DOMAIN l : f < g => l[f].endobj <= l[g].objno

VARIABLES
  layout, tail, \* what the writer of the stream left behind
  linked,       \* the files that have a name in the namespace
  refs,         \* the files whose reference file exists
  young,        \* the files with a ctime after the threshold of the runs
  recent,       \* the files the user unlinked after that threshold
  gctag,        \* the GCTAG xattr of the files
  objs,         \* the objects that exist
  w,            \* the streamwalker of the producer thread
  gcops,        \* the chain of operations the producer has yet to hand out
  queue,        \* the work in the ThreadQueue
  cons,         \* what the consumers work on
  log,          \* the chains of operations in progress in the resource log
  crashes, faults, unlinks,
  astray        \* history: a collecting walk has taken the number or the tags of one file for
                \* those of another (Strays)

storage == <<linked, refs, young, recent, gctag, objs>>
thread  == <<gcops, queue, cons, log>>
stream  == <<layout, tail>>
bounds  == <<crashes, faults, unlinks>>
vars == <<stream, storage, w, thread, bounds, astray>>

-----------------------------------------------------------------------------
(* The stream *)

Files   == DOMAIN layout
LastFile    == Cardinality(Files) - 1
Span(f) == layout[f].objno .. layout[f].endobj
NoTag   == [refcnt |-> 0, eos |-> FALSE, inprog |-> FALSE, delzero |-> FALSE]

\* the FTAG of a file: a creation that stopped early leaves a file without one, a writer that
\* stopped leaves a last file that is not finalized, or is, but not marked as the last
HasFtag(f)     == ~(tail = "tagless" /\ f = LastFile)
Finalized(f)   == ~(tail = "open" /\ f = LastFile)
EndOfStream(f) == tail = "eos" /\ f = LastFile
\* finalized, and not completed since its last object was not closed
JustFin(f)     == tail # "eos" /\ layout[f].endobj = layout[LastFile].endobj

-----------------------------------------------------------------------------
(* Chains of operations *)

\* searchoperations(): deletions of objects extend the one that ends at this object
ObjOp(ops, o) == SelectInSeq(ops, LAMBDA op : op.type = "obj" /\ op.objno + op.count = o)
RefOp(ops)    == SelectInSeq(ops, LAMBDA op : op.type = "ref")

\* process_identifyoperation(): a new deletion of objects goes to the front of the chain, a
\* new deletion of refs to its end.  Deletion of the objects o .. last.
DeleteObjs(ops, f, o, last) ==
  IF o > last THEN ops
  ELSE IF ObjOp(ops, o) # 0 THEN [ops EXCEPT ![ObjOp(ops, o)].count = @ + last + 1 - o]
  ELSE <<[type |-> "obj", objno |-> o, fileno |-> f, count |-> last + 1 - o, offset |-> 0]>> \o ops
WithRefOp(ops, f, o) ==
  IF RefOp(ops) # 0 THEN ops
  ELSE Append(ops, [type |-> "ref", objno |-> o, fileno |-> f, count |-> 0, prev |-> 0,
                    delzero |-> FALSE, eos |-> FALSE])
\* file f, and the refs its GCTAG says were deleted, join the deletion of refs; at is the
\* number a new operation starts from
DeleteRef(s, f, at, n, eos) ==
  LET ops == WithRefOp(s.ops, f, layout[f].objno)
      i   == RefOp(ops)
      new == [ops[i] EXCEPT !.count = n, !.fileno = at, !.prev = s.activeindex, !.eos = eos]
      old == [ops[i] EXCEPT !.count = @ + n, !.eos = @ \/ eos]
  IN  IF ops[i].count = 0 THEN [s EXCEPT !.ops = [ops EXCEPT ![i] = new]]
      ELSE [s EXCEPT !.ops = [ops EXCEPT ![i] = old],
                     !.failed = @ \/ ops[i].prev # s.activeindex]
SetDelzero(ops) == [ops EXCEPT ![RefOp(ops)].delzero = TRUE]

-----------------------------------------------------------------------------
(* The streamwalker: fileno and objno are where it is, ft is the file of   *)
(* the FTAG it read last, gct the GCTAG it read last, activefiles counts   *)
(* the files of the present object that are in use                         *)

NoWalker == [on |-> FALSE]
\* an error ends the run
LostRun  == [on |-> TRUE, failed |-> TRUE]
\* process_getfileinfo(): 0 there is no ref, 1 only the ref is left, 2 the file is in use
FileState(f) == IF f \notin refs THEN 0 ELSE IF f \in linked THEN 2 ELSE 1
Old(s, f)    == s.gc /\ f \notin young
Volatile(s, f) == ~s.gc \/ f \in young

\* process_openstreamwalker(): when file 0 is garbage, its ref goes if the stream ends with
\* it, and the objects that end within it go, unless they did before.  Mutant: an old but live
\* first file is taken for garbage.
OpenWalker(gc) ==
  [on |-> TRUE, gc |-> gc, fileno |-> 0, objno |-> layout[0].endobj, ft |-> 0, end |-> EndOfStream(0),
   fin |-> Finalized(0), gct |-> gctag[0], activefiles |-> 0, activeindex |-> 0, ops |-> <<>>,
   usage |-> IF 0 \in linked THEN 1 ELSE 0, before |-> Cardinality(linked), failed |-> FALSE]
OpensOnGarbage(s) == FileState(0) = 1 /\ Old(s, 0)
EosAtOpen == EndOfStream(0) \/ ~Finalized(0) \/ gctag[0].eos
OpenRefs(s) == IF OpensOnGarbage(s) /\ EosAtOpen THEN DeleteRef(s, 0, 0, 1, TRUE) ELSE s
OpenObjs(s) ==
  LET endobj == layout[0].endobj
      ops    == WithRefOp(DeleteObjs(s.ops, 0, 0, IF EosAtOpen THEN endobj ELSE endobj - 1), 0, 0)
      op     == ops[RefOp(ops)]
      more   == op.count = 0 /\ s.gct.refcnt > 0
  IN  IF ~(OpensOnGarbage(s) /\ (endobj # 0 \/ EosAtOpen) /\ ~s.gct.delzero) THEN s
      ELSE [s EXCEPT !.ops = [ops EXCEPT ![RefOp(ops)] =
              [op EXCEPT !.count = IF more THEN s.gct.refcnt ELSE @, !.fileno = IF more THEN @ + 1 ELSE @,
                         !.delzero = TRUE, !.eos = EosAtOpen]]]
OpenUse(s) ==
  [s EXCEPT !.activefiles = IF FileState(0) = 2 \/ Volatile(s, 0) THEN 1 ELSE 0]

\* A GCTAG says how many refs were deleted after the file.  When it says that the deletion
\* was in progress, it is done again.
Resume(s) ==
  LET ops == WithRefOp(s.ops, s.ft + 1, layout[s.ft].objno)
      op  == ops[RefOp(ops)]
      t   == DeleteRef(s, s.ft, s.ft, s.gct.refcnt, s.gct.eos)
  IN  IF ~(s.gct.refcnt > 0 /\ s.gct.inprog /\ s.gc) THEN s
      ELSE [t EXCEPT !.gct.inprog = FALSE,
                     !.failed = (IF op.count = 0 THEN s.failed ELSE op.fileno + op.count - 1 # s.fileno)]
\* the file to look at next, and the walk ends where the tag says so
Target(s)  == s.fileno + 1 + s.gct.refcnt
TagEnds(s) == s.gct.refcnt > 0 /\ s.gct.eos

\* the next file has no FTAG yet: the stream ends here, for now
Tagless(s, f) ==
  LET t == [s EXCEPT !.gct = gctag[f]]
  IN  IF FileState(f) = 1 /\ Old(s, f) THEN DeleteRef(t, s.ft, s.ft, 1 + t.gct.refcnt, TRUE) ELSE t
\* there is no next file; without xattrs so far, those of the file before it are read.
\* Mutant: they are not, and the walk ends there.
MissingEnds(s) ==
  IF s.fileno = 0 \/ (s.fileno = s.ft /\ ~JustFin(s.ft)) THEN [s EXCEPT !.failed = TRUE]
  ELSE [s EXCEPT !.end = TRUE]
Missing(s) ==
  IF s.fileno = 0 \/ (s.fileno = s.ft /\ ~JustFin(s.ft)) THEN [s EXCEPT !.failed = TRUE]
  ELSE IF s.fileno = s.ft
  THEN [s EXCEPT !.end = TRUE,
                 !.ops = IF s.gc /\ RefOp(@) # 0 THEN [@ EXCEPT ![RefOp(s.ops)].eos = TRUE] ELSE @]
  ELSE IF HasFtag(s.fileno)
  THEN [s EXCEPT !.ft = s.fileno, !.gct = gctag[s.fileno], !.end = EndOfStream(s.fileno),
                 !.fin = Finalized(s.fileno)]
  ELSE [s EXCEPT !.fin = FALSE, !.gct = gctag[s.fileno]]

\* the next file begins another object: the one before goes, if no file used it.
\* Mutants: the files that used it are not looked at; object 0 is left to the opening.
UnusedButFirst(s) == s.gc /\ s.activefiles = 0 /\ s.objno # 0
UnusedAnyway(s) == s.gc /\ (s.objno # 0 \/ ~s.gct.delzero)
Unused(s)       == s.gc /\ s.activefiles = 0 /\ (s.objno # 0 \/ ~s.gct.delzero)
LeaveObject(s, f) ==
  LET ops == DeleteObjs(s.ops, f, s.objno, s.objno)
  IN  IF ~s.gc \/ layout[f].objno = s.objno THEN s
      ELSE [s EXCEPT !.activefiles = 0, !.objno = layout[f].objno,
                     !.ops = IF ~Unused(s) THEN @
                             ELSE IF s.objno = 0 THEN SetDelzero(WithRefOp(ops, f, layout[f].objno))
                             ELSE ops]
\* a file that was unlinked long ago: its ref goes, the objects that end within it, and the
\* last object at the end of the stream
EosAt(f) == EndOfStream(f) \/ ~Finalized(f) \/ (gctag[f].refcnt > 0 /\ gctag[f].eos)
GarbageRef(s, f) == DeleteRef(s, f, f, 1 + gctag[f].refcnt, EosAt(f))
GarbageObjs(s, f) ==
  LET first == layout[f].objno
      final == layout[f].endobj
      whole == s.activefiles = 0 /\ (first # 0 \/ ~gctag[f].delzero)
      ops1  == IF ~whole THEN s.ops
               ELSE IF first = 0 THEN SetDelzero(DeleteObjs(s.ops, f, 0, 0))
               ELSE DeleteObjs(s.ops, f, first, first)
      ops2  == IF final = s.objno THEN s.ops ELSE DeleteObjs(ops1, f, first + 1, final - 1)
  IN  [s EXCEPT !.ops = IF EosAt(f) /\ (final # s.objno \/ s.activefiles = 0)
                        THEN DeleteObjs(ops2, f, final, final) ELSE ops2]
Garbage(s, f) == s.gc /\ FileState(f) = 1 /\ Old(s, f)
InUse(s, f) == FileState(f) = 2 \/ Volatile(s, f)
Visit(s, f) ==
  LET final == IF s.gc THEN layout[f].endobj ELSE s.objno
      n     == IF s.objno # final THEN 0 ELSE s.activefiles
      use   == InUse(s, f)
      known == IF ~s.gc THEN [s EXCEPT !.gct = NoTag]
               ELSE [s EXCEPT !.ft = f, !.gct = gctag[f], !.end = EndOfStream(f), !.fin = Finalized(f)]
  IN  [known EXCEPT !.fileno = f, !.objno = final, !.activefiles = IF use THEN n + 1 ELSE n,
                    !.activeindex = IF use THEN f ELSE @,
                    !.usage = IF FileState(f) = 2 THEN @ + 1 ELSE @]

-----------------------------------------------------------------------------
(* The resource log: a chain per set of operations in progress, with the   *)
(* count that is left of each operation                                    *)

Id(op) == <<op.type, op.objno, op.fileno>>
Entry(chain, op) == SelectInSeq(chain, LAMBDA e : e.id = Id(op))
Chain(op) == SelectInSeq(log, LAMBDA c : Entry(c, op) # 0)
\* processopinfo() of operations that start
Started(ops) ==
  LET entries == [i \in DOMAIN ops |-> [id |-> Id(ops[i]), left |-> ops[i].count, err |-> FALSE]]
  IN  IF Chain(ops[1]) = 0 THEN Append(log, entries) ELSE [log EXCEPT ![Chain(ops[1])] = entries]
\* processopinfo() of an operation that ends: none of its kind may be left for the chain to
\* go on
OthersLeft(c, i) == \E j \in DOMAIN c : j # i /\ c[j].id[1] = c[i].id[1] /\ c[j].left > 0
\* 0: others are still at it, 1: done, go on, -1: done, with an error.  Mutant: what is left
\* is not looked at.
ProgressAtOnce(c, i) == IF c[i].err THEN -1 ELSE 1
Progress(c, i) ==
  IF c[i].left > 0 \/ OthersLeft(c, i) THEN 0 ELSE IF c[i].err THEN -1 ELSE 1
\* the chain is freed with its last operation
Ended(c, i) == i = Len(c) /\ c[i].left = 0 /\ \A j \in 1 .. i - 1 : c[j].left = 0

-----------------------------------------------------------------------------
(* A run *)

Idle == [ops |-> <<>>, at |-> "idle", k |-> 0, err |-> FALSE, abort |-> FALSE]
Quiet == gcops = <<>> /\ queue = <<>> /\ \A c \in Consumers : cons[c] = Idle
Running == w.on \/ ~Quiet

\* a producer finds the ref of file 0 (process_refdir) and opens a streamwalker; one without
\* an FTAG that is to be deleted ends the run
Start(gc) ==
  /\ ~Running /\ 0 \in refs
  /\ \/ HasFtag(0) /\ (\E s \in {OpenRefs(OpenWalker(gc))} : w' = OpenUse(OpenObjs(s))) /\ UNCHANGED astray
     \/ ~HasFtag(0) /\ FileState(0) = 1 /\ gc /\ 0 \notin young
        /\ w' = LostRun /\ astray' = TRUE
  /\ log' = <<>>
  /\ UNCHANGED <<stream, storage, gcops, queue, cons, bounds>>

\* process_iteratestreamwalker() gives its operations to the producer, which logs them
HandOver(s) ==
  IF s.ops = <<>> THEN w' = s /\ UNCHANGED <<gcops, log>>
  ELSE w' = [s EXCEPT !.ops = <<>>] /\ gcops' = s.ops /\ log' = Started(s.ops)
\* the walk is over: process_closestreamwalker() finds out if it ended early
Finish(s) ==
  IF s.ops # <<>> THEN HandOver(s)
  ELSE /\ w' = IF s.end \/ TagEnds(s) \/ ~s.fin THEN NoWalker ELSE [s EXCEPT !.failed = TRUE]
       /\ UNCHANGED <<gcops, log>>
\* Two branches of the walk mean one file and use the number, or the tags, of another: the one
\* that resumes a deletion of refs, which counts from the file whose GCTAG it is, and the one
\* for a file without an FTAG, which counts from the file before it and keeps the GCTAG of
\* this one for that.
Strays(s) ==
  /\ s.gc /\ ~s.end /\ s.fin
  /\ \/ s.gct.refcnt > 0 /\ s.gct.inprog
     \/ ~TagEnds(s) /\ Target(s) \in refs /\ ~HasFtag(Target(s))
Walking == w.on /\ ~w.failed /\ gcops = <<>>
Walk ==
  /\ Walking
  /\ \E s \in {Resume(w)} :
       LET f == Target(s)
       IN  IF w.end \/ ~w.fin THEN Finish(w)
           ELSE IF TagEnds(s) THEN Finish(s)
           ELSE IF f \notin refs THEN w' = Missing(s) /\ UNCHANGED <<gcops, log>>
           ELSE IF s.gc /\ ~HasFtag(f) THEN \E t \in {Tagless(s, f)} : Finish(t)
           ELSE \E t \in {LeaveObject(s, f)} :
                \E u \in {IF Garbage(s, f) THEN GarbageRef(t, f) ELSE t} :
                \E v \in {Visit(IF Garbage(s, f) THEN GarbageObjs(u, f) ELSE u, f)} :
                  IF InUse(s, f) THEN HandOver(v) ELSE w' = v /\ UNCHANGED <<gcops, log>>
  /\ astray' = (astray \/ Strays(w))
  /\ UNCHANGED <<stream, storage, queue, cons, bounds>>

\* rthread_producer_func(): objects are handed out one by one, each with the deletion of the
\* refs behind it
HandsOutRest(ops) ==
  \/ ops[1].type = "ref"
  \/ ops[1].count = 1 /\ (Len(ops) = 1 \/ ops[2].type = "ref")
Dispatch ==
  /\ gcops # <<>>
  /\ LET one  == [gcops[1] EXCEPT !.count = 1]
         refs1 == IF RefOp(gcops) = 0 THEN <<>> ELSE <<gcops[RefOp(gcops)]>>
     IN  IF HandsOutRest(gcops) THEN queue' = Append(queue, gcops) /\ gcops' = <<>>
         ELSE /\ queue' = Append(queue, <<one>> \o refs1)
              /\ gcops' = IF gcops[1].count = 1 THEN Tail(gcops)
                          ELSE [gcops EXCEPT ![1].count = @ - 1, ![1].offset = @ + 1]
  /\ UNCHANGED <<stream, storage, w, cons, log, bounds, astray>>

\* where the execution of an operation begins
Begin(op) == IF op.type = "obj" THEN "obj" ELSE "tag"
Take(c) ==
  /\ cons[c] = Idle /\ queue # <<>>
  /\ cons' = [cons EXCEPT ![c] = [Idle EXCEPT !.ops = Head(queue), !.at = Begin(Head(queue)[1])]]
  /\ queue' = Tail(queue)
  /\ UNCHANGED <<stream, storage, w, gcops, log, bounds, astray>>

At(c, at) == cons[c].at = at
Op(c) == cons[c].ops[1]
Goto(c, at) == cons' = [cons EXCEPT ![c].at = at, ![c].k = 0]
Failing(c)  == cons' = [cons EXCEPT ![c].at = "log", ![c].k = 0, ![c].err = TRUE]
Split(c)    == \E e \in ToSet(log) : Cardinality({i \in DOMAIN e : e[i].id[1] = "obj"}) > 1

\* process_deleteobj(): an object that is not there is fine
DeleteObj(c) ==
  /\ At(c, "obj")
  /\ LET k == cons[c].k + 1
     IN  \/ /\ objs' = objs \ {Op(c).objno + Op(c).offset + cons[c].k}
            /\ cons' = [cons EXCEPT ![c].k = IF k < Op(c).count THEN k ELSE 0,
                                    ![c].at = IF k < Op(c).count THEN @ ELSE "log"]
            /\ UNCHANGED faults
         \/ /\ faults < MaxFaults /\ (SplitMayFail \/ ~Split(c))
            /\ faults' = faults + 1 /\ Failing(c) /\ UNCHANGED objs
  /\ UNCHANGED <<stream, linked, refs, young, recent, gctag, w, gcops, queue, log, crashes, unlinks, astray>>

\* process_deleteref(): the GCTAG goes to the last file before that is in use, then the refs
\* go, and then the mark that this is in progress.  A ref between that was deleted before is
\* counted in.
Refcnt(op) == op.count + (IF op.fileno > op.prev + 1 THEN op.fileno - 1 - op.prev ELSE 0)
SetTag(op, inprog) ==
  /\ gctag' = [gctag EXCEPT ![op.prev] = [refcnt |-> Refcnt(op), eos |-> op.eos,
                                          inprog |-> inprog, delzero |-> op.delzero]]
  /\ young' = young \cup {op.prev}
TagFile(c) ==
  /\ At(c, "tag")
  /\ \/ Op(c).prev \notin refs /\ Failing(c) /\ UNCHANGED <<gctag, young>>
     \/ /\ Op(c).prev \in refs /\ SetTag(Op(c), Op(c).count > 0)
        /\ Goto(c, IF Op(c).count > 0 THEN "unlink" ELSE "log")
  /\ UNCHANGED <<stream, linked, refs, recent, objs, w, gcops, queue, log, bounds, astray>>
UnlinkRef(c) ==
  /\ At(c, "unlink")
  /\ \E ok \in {TRUE, faults >= MaxFaults} :
       IF ~ok THEN Failing(c) /\ faults' = faults + 1 /\ UNCHANGED refs
       ELSE /\ refs' = refs \ {Op(c).fileno + cons[c].k}
            /\ IF cons[c].k + 1 < Op(c).count THEN cons' = [cons EXCEPT ![c].k = @ + 1]
               ELSE Goto(c, "clear")
            /\ UNCHANGED faults
  /\ UNCHANGED <<stream, linked, young, recent, gctag, objs, w, gcops, queue, log, crashes, unlinks, astray>>
ClearTag(c) ==
  /\ At(c, "clear") /\ SetTag(Op(c), FALSE) /\ Goto(c, "log")
  /\ UNCHANGED <<stream, linked, refs, recent, objs, w, gcops, queue, log, bounds, astray>>

\* process_executeoperation() logs the end of the operation, and goes on with the next one,
\* stops, or gives up the rest of the chain; an operation the log does not know ends the run
LogEnd(c) ==
  /\ At(c, "log")
  /\ LET n   == Chain(Op(c))
         i   == Entry(log[n], Op(c))
         e   == [log[n] EXCEPT ![i].left = @ - Op(c).count, ![i].err = @ \/ cons[c].err]
         p   == Progress(e, i)
         ops == Tail(cons[c].ops)
     IN  IF n = 0 THEN w' = LostRun /\ cons' = [cons EXCEPT ![c] = Idle] /\ UNCHANGED log ELSE
         /\ UNCHANGED w
         /\ log' = IF Ended(e, i) THEN RemoveAt(log, n) ELSE [log EXCEPT ![n] = e]
         /\ cons' = [cons EXCEPT ![c] =
              IF ops = <<>> \/ p = 0 THEN Idle
              ELSE [ops |-> ops, k |-> 0, abort |-> @.abort \/ p < 0, err |-> @.abort \/ p < 0,
                    at |-> IF @.abort \/ p < 0 THEN "log" ELSE Begin(ops[1])]]
  /\ UNCHANGED <<stream, storage, gcops, queue, bounds, astray>>

-----------------------------------------------------------------------------
(* Users, time, and the end of a run that was not meant to end *)

\* a user unlinks a file (or replaces it); its inode gets a new ctime
Unlink(f) ==
  /\ f \in linked /\ unlinks < MaxUnlinks /\ unlinks' = unlinks + 1
  /\ linked' = linked \ {f} /\ young' = young \cup {f} /\ recent' = recent \cup {f}
  /\ UNCHANGED <<stream, refs, gctag, objs, w, thread, crashes, faults, astray>>
\* thresholds belong to a run: only between runs does a file become old
Age(f) ==
  /\ ~Running /\ f \in young
  /\ young' = young \ {f} /\ recent' = recent \ {f}
  /\ UNCHANGED <<stream, linked, refs, gctag, objs, w, thread, bounds, astray>>
Crash ==
  /\ Running /\ crashes < MaxCrashes /\ crashes' = crashes + 1
  /\ w' = NoWalker /\ gcops' = <<>> /\ queue' = <<>> /\ cons' = [c \in Consumers |-> Idle]
  /\ UNCHANGED <<stream, storage, log, faults, unlinks, astray>>

\* the writer is gone; its last file may have no FTAG, and then it is in no namespace yet
Init ==
  /\ layout \in Layouts /\ tail \in Tails
  /\ (tail = "fin" => LastFile > 0)
  /\ refs = Files /\ linked = (IF tail = "tagless" THEN Files \ {LastFile} ELSE Files)
  /\ young = {} /\ recent = {} /\ gctag = [f \in Files |-> NoTag]
  /\ objs = UNION {Span(f) : f \in Files}
  /\ w = NoWalker /\ gcops = <<>> /\ queue = <<>> /\ cons = [c \in Consumers |-> Idle] /\ log = <<>>
  /\ crashes = 0 /\ faults = 0 /\ unlinks = 0 /\ astray = FALSE

Worker(c) == \/ Take(c) \/ DeleteObj(c) \/ TagFile(c) \/ UnlinkRef(c) \/ ClearTag(c)
              \/ LogEnd(c)
Next ==
  \/ \E gc \in BOOLEAN : Start(gc)
  \/ Walk \/ Dispatch \/ Crash
  \/ \E c \in Consumers : Worker(c)
  \/ \E f \in Files : Unlink(f) \/ Age(f)

\* threads keep going, collections are run again and again, and time goes by
Fairness ==
  /\ WF_vars(Walk \/ Dispatch \/ \E c \in Consumers : Worker(c))
  /\ SF_vars(Start(TRUE)) /\ SF_vars(\E f \in Files : Age(f))
Spec == Init /\ [][Next]_vars /\ Fairness

-----------------------------------------------------------------------------
(* Properties *)

(* Walks that resume a deletion of refs that stopped half way, and walks   *)
(* that reach a file without an FTAG, count from the wrong file (Strays):  *)
(* what they do to the stream is shown by a run of its own (RefsThere).    *)
(* The properties below are about every stream up to such a walk; deaths   *)
(* and failures within a deletion of refs are among what they cover.       *)

\* No file is without its objects, in use or unlinked after the threshold.
DataThere == \A f \in linked \cup recent : Span(f) \subseteq objs
\* Objects are deleted only when none of the files they hold data of is in use or was
\* unlinked after the threshold, whatever users unlink while the walk is under way, whatever
\* fails, and wherever runs died before (process_iteratestreamwalker).
DataIsKept == ~astray => DataThere
\* The deletion of refs that process_iteratestreamwalker() resumes begins, as its comment
\* has it, with the ref after the file that has the GCTAG: no file in use loses its ref.
RefsThere == linked \subseteq refs
\* A file in use keeps its reference file, without which no later walk would see that its
\* objects are in use (process_deleteref).
RefIsKept == ~astray => RefsThere
\* The refs go last: no object is left behind that no ref leads to, since no later walk would
\* find it (process_executeoperation and the progress of the resource log).  Not so for a
\* stream whose writer stopped between two files: its last ref goes, its last object stays.
NoOrphans == tail # "fin" /\ ~astray => \A o \in objs : \E f \in refs : o \in Span(f)
\* No walk ends in an error, which would end the whole run, and with it the collection of
\* every other stream of the rank (rthread_producer_func).
WalkGoesThrough == w.on /\ ~astray => ~w.failed
\* A walk counts the files in use, whether or not it reads the xattrs and wherever refs were
\* deleted before, or were about to be when a run died: the quota of the namespace is set to
\* that (process_iteratestreamwalker).
UsageIsRight ==
  [][~astray' /\ w.on /\ ~w'.on /\ crashes' = crashes => w.usage \in Cardinality(linked) .. w.before]_vars
\* In the end the objects none of whose files is in use are deleted, and when no file is in
\* use the refs are, too: no run gets stuck on what an earlier one left.
GarbageGoes ==
  tail # "fin" => <>[](\/ astray
                       \/ /\ \A o \in objs : \E f \in linked : o \in Span(f)
                          /\ linked = {} => refs = {})

\* What the collection leaves of a stream can be walked and collected by the next run: no
\* reference of a file in use goes, none goes before its objects, and no hole stops the walk.
StreamHoldsTogether == RefIsKept /\ NoOrphans /\ WalkGoesThrough
=============================================================================

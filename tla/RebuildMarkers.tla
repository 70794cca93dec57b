--------------------------- MODULE RebuildMarkers ---------------------------
(***************************************************************************)
(* The rebuild markers of a datastream.  Whoever closes an object that has *)
(* damaged blocks leaves a marker, a further link to the inode of the file *)
(* at hand, and an RTAG on that inode that says which blocks are damaged   *)
(* (close_current_obj); the resource manager comes upon the markers in the *)
(* reference directories, rebuilds the objects and takes the markers away  *)
(* (process_refdir, process_rebuildmarker, process_rebuild).  Users unlink *)
(* the files and the garbage collector follows.  Readers, the threads of   *)
(* the resource manager and users go on at the same time; readers and runs *)
(* die.                                                                    *)
(***************************************************************************)
EXTENDS Integers, FiniteSets

CONSTANTS
  StreamFiles,   \* the files of the stream
  ObjsOf,        \* the objects a file has data in, [StreamFiles -> SUBSET Nat]
  Stripe, Spare, \* the blocks of an object, and how many of them may be lost
  MarkReaders,   \* the processes that read the files
  Rebuilders,    \* the consumer threads of a run
  NoMark,        \* neither a file nor an RTAG
  MaxDamage, MaxMarkMishaps  \* bounds: blocks damaged, calls failed and deaths

ASSUME MarkAssumption == Spare \in Nat /\ NoMark \notin StreamFiles

VARIABLES
  named,         \* the files with a name in the namespace
  refd,          \* the files with a reference file
  marker,        \* the file that the marker of an object is a link to
  rtag,          \* the RTAGs on the inode of a file, one for each object
  fresh,         \* the inodes with a ctime after the threshold of the runs
  damaged,       \* the damaged blocks of the objects
  stored,        \* the objects that exist
  mreader,       \* the readers, on their way to a marker
  scan,          \* the run, and which markers it has come upon
  found,         \* the operations it has yet to hand out
  rebuilder,     \* what the consumers do
  condemned,     \* the files a walk has found to be garbage
  reported,      \* history: the damage that a marker was made for, as long as it is not repaired
  mmishaps, mdamage

files   == <<named, refd, marker, rtag, fresh>>
objects == <<damaged, stored, reported>>
manager == <<scan, found, rebuilder, condemned>>
mbounds == <<mmishaps, mdamage>>
mvars == <<files, objects, mreader, manager, mbounds>>

Objs == UNION {ObjsOf[f] : f \in StreamFiles}
\* objects have numbers, and a stream has finitely many
ASSUME StreamAssumption == ObjsOf \in [StreamFiles -> SUBSET Nat] /\ IsFiniteSet(Objs)
\* a call fails, or not; only so many do
MayFail(fails) == (fails => mmishaps < MaxMarkMishaps) /\ mmishaps' = IF fails THEN mmishaps + 1 ELSE mmishaps

-----------------------------------------------------------------------------
(* A reader closes an object with errors *)

\* it has linked a marker, or has a file open that was unlinked
AtWork(f) == \E r \in MarkReaders :
  mreader[r].file = f /\ (mreader[r].at \in {"open", "tag"} \/ (mreader[r].at = "link" /\ f \notin named))
NoClose == [at |-> "idle", file |-> NoMark, obj |-> 0, found |-> {}, inode |-> NoMark]
ReaderAt(r, at) == mreader[r].at = at
ReaderTo(r, at) == mreader' = [mreader EXCEPT ![r].at = at]
ReaderDone(r)   == mreader' = [mreader EXCEPT ![r] = NoClose]

\* ne_close() of an object that could be read, and has damaged blocks among those that were
\* looked at
CloseDamaged(r, f, o) ==
  /\ ReaderAt(r, "idle") /\ f \in named /\ o \in ObjsOf[f] \cap stored
  /\ Cardinality(damaged[o]) \in 1 .. Spare
  /\ \E bad \in SUBSET damaged[o] \ {{}} :
       mreader' = [mreader EXCEPT ![r] = [NoClose EXCEPT !.at = "link", !.file = f, !.obj = o, !.found = bad]]
  /\ UNCHANGED <<files, objects, manager, mbounds>>
\* linkref(): the name of a marker is that of its object, so there is one for all the files of
\* the object; one that is there already will do
LinkMarker(r) ==
  LET f == mreader[r].file
      o == mreader[r].obj
  IN  /\ ReaderAt(r, "link")
      /\ IF marker[o] = NoMark /\ f \in refd
         THEN /\ marker' = [marker EXCEPT ![o] = f] /\ fresh' = fresh \cup {f}
              /\ reported' = [reported EXCEPT ![o] = mreader[r].found] /\ ReaderTo(r, "open")
         ELSE ReaderDone(r) /\ UNCHANGED <<marker, fresh, reported>>
      /\ UNCHANGED <<named, refd, rtag, damaged, stored, manager, mbounds>>
\* openref() of the marker, and fstat() for the time of the RTAG
OpenMarker(r) ==
  LET g == marker[mreader[r].obj]
  IN  /\ ReaderAt(r, "open")
      /\ IF g = NoMark THEN ReaderDone(r)
         ELSE mreader' = [mreader EXCEPT ![r] = [@ EXCEPT !.at = "tag", !.inode = g]]
      /\ UNCHANGED <<files, objects, manager, mbounds>>
\* fsetxattr() with XATTR_CREATE: an RTAG that is there stays, and a failure is only logged
TagMarked(r) ==
  LET g == mreader[r].inode
      o == mreader[r].obj
  IN  /\ ReaderAt(r, "tag") /\ ReaderDone(r)
      /\ \E fails \in BOOLEAN :
           /\ MayFail(fails)
           /\ IF fails \/ rtag[g][o] # NoMark THEN UNCHANGED <<rtag, fresh>>
              ELSE /\ rtag' = [rtag EXCEPT ![g][o] = [bad |-> mreader[r].found, old |-> FALSE]]
                   /\ fresh' = fresh \cup {g}
      /\ UNCHANGED <<named, refd, marker, objects, manager, mdamage>>
ReaderDies(r) ==
  /\ ~ReaderAt(r, "idle") /\ mmishaps < MaxMarkMishaps /\ mmishaps' = mmishaps + 1 /\ ReaderDone(r)
  /\ UNCHANGED <<files, objects, manager, mdamage>>

-----------------------------------------------------------------------------
(* A run: a producer scans the reference directory, consumers rebuild.  It  *)
(* goes by the markers, or by a location, and then passes them over.        *)

NoScan == [on |-> FALSE, location |-> FALSE, seen |-> {}]
FreeHand == [at |-> "idle", op |-> NoMark, k |-> 0, tries |-> 0, known |-> {}]
RunIsOver == ~scan.on /\ found = {} /\ \A t \in Rebuilders : rebuilder[t] = FreeHand
\* Its threshold is taken when it starts: what has changed before, all but the files in kept,
\* is old from then on.  No reader takes as long as that.
StartScan(location, kept) ==
  /\ RunIsOver /\ condemned = {} /\ (refd # {} \/ \E o \in Objs : marker[o] # NoMark)
  /\ {f \in fresh : AtWork(f)} \subseteq kept /\ fresh' = kept
  /\ rtag' = [f \in StreamFiles |-> [o \in Objs |->
                IF f \in kept \/ rtag[f][o] = NoMark THEN rtag[f][o] ELSE [rtag[f][o] EXCEPT !.old = TRUE]]]
  /\ scan' = [on |-> TRUE, location |-> location, seen |-> {}]
  /\ UNCHANGED <<named, refd, marker, objects, mreader, found, rebuilder, condemned, mbounds>>
StartLate == StartScan(FALSE, {f \in fresh : AtWork(f)})
\* process_refdir(), ftag_metainfo(): the entries of the directory are the references, of which
\* only that of the first file is looked into, markers, each with the number of its object,
\* and names that say nothing, which are passed over.  (A marker made meanwhile may be seen; it
\* is too young to matter.)
DirEntries == {[type |-> "ref", val |-> f] : f \in refd}
             \cup {[type |-> "rebuild", val |-> o] : o \in {p \in Objs : marker[p] # NoMark}}
             \cup {[type |-> "other", val |-> 0]}
Passed(e) == (e.type = "ref" /\ e.val # 0) \/ e.type = "other"
Unseen(e) == e \in DirEntries /\ e \notin scan.seen /\ ~Passed(e)
Saw(e)    == scan' = [scan EXCEPT !.seen = @ \cup {e}]

\* process_rebuildmarker(): an object is rebuilt when the time in the RTAG is before the
\* threshold, or, without an RTAG, the ctime of the marker is.  Mutant: without one, never.
DueIfTagged(o) == rtag[marker[o]][o] # NoMark /\ rtag[marker[o]][o].old
Due(o) == IF rtag[marker[o]][o] # NoMark THEN rtag[marker[o]][o].old ELSE marker[o] \notin fresh
MarkerOp(o) == [objno |-> o, count |-> 1, tag |-> rtag[marker[o]][o], path |-> TRUE]
SeeMarker(o) ==
  /\ scan.on /\ Unseen([type |-> "rebuild", val |-> o]) /\ Saw([type |-> "rebuild", val |-> o])
  /\ found' = IF ~scan.location /\ Due(o) THEN found \cup {MarkerOp(o)} ELSE found
  /\ UNCHANGED <<files, objects, mreader, rebuilder, condemned, mbounds>>
\* the reference of the first file: a walker goes over the stream (see GarbageCollection), finds
\* the files that are garbage and, in a run that goes by a location, the objects to rebuild.
\* A file with more than one link is in use.  Mutant: markers do not count.  The walker picks
\* objects of files that are old enough, by a location that is not modelled.
LinksNamed(f) == Cardinality({f} \cap named) + Cardinality({f} \cap refd)
Links(f) == Cardinality({f} \cap named) + Cardinality({f} \cap refd) + Cardinality({o \in Objs : marker[o] = f})
LocationOp == [objno |-> 0, count |-> Cardinality(ObjsOf[0]), tag |-> NoMark, path |-> FALSE]
SeeStream ==
  /\ scan.on /\ Unseen([type |-> "ref", val |-> 0]) /\ Saw([type |-> "ref", val |-> 0])
  /\ \E picked \in SUBSET {LocationOp} : (picked # {} => scan.location /\ 0 \notin fresh) /\ found' = found \cup picked
  /\ condemned' = {f \in refd : Links(f) = 1 /\ f \notin fresh}
  /\ UNCHANGED <<files, objects, mreader, rebuilder, mbounds>>
EndScan ==
  /\ scan.on /\ \A e \in DirEntries : ~Unseen(e)
  /\ scan' = NoScan
  /\ UNCHANGED <<files, objects, mreader, found, rebuilder, condemned, mbounds>>
\* the objects none of whose files is in use go, and the references
Collect ==
  /\ condemned # {}
  /\ stored' = {o \in stored : \E f \in refd \ condemned : o \in ObjsOf[f]}
  /\ refd' = refd \ condemned /\ condemned' = {}
  /\ UNCHANGED <<named, marker, rtag, fresh, damaged, reported, mreader, scan, found, rebuilder, mbounds>>

-----------------------------------------------------------------------------
(* process_rebuild() *)

\* what the handle knows of the damage is what the RTAG says (ne_seed_status)
Seed(op) == IF op.tag = NoMark THEN {} ELSE op.tag.bad
TakeRebuild(t) ==
  /\ rebuilder[t] = FreeHand
  /\ \E op \in found :
       /\ rebuilder' = [rebuilder EXCEPT ![t] = [FreeHand EXCEPT !.at = "rebuild", !.op = op, !.known = Seed(op)]]
       /\ found' = found \ {op}
  /\ UNCHANGED <<files, objects, mreader, scan, condemned, mbounds>>
RebuilderAt(t, at) == rebuilder[t].at = at
RebuilderTo(t, at) == rebuilder' = [rebuilder EXCEPT ![t].at = at]
GivesUp(t) == rebuilder' = [rebuilder EXCEPT ![t] = FreeHand]
\* the object that is rebuilt, and what comes when all of them are
Current(t) == rebuilder[t].op.objno + rebuilder[t].k
Rebuilt(t) ==
  LET op   == rebuilder[t].op
      more == rebuilder[t].k + 1 < op.count
  IN  rebuilder' = [rebuilder EXCEPT ![t] =
        IF more THEN [rebuilder[t] EXCEPT !.k = @ + 1, !.tries = 0, !.known = Seed(op)]
        ELSE IF ~op.path THEN FreeHand
        ELSE [@ EXCEPT !.at = IF op.tag # NoMark THEN "untag" ELSE "unlink"]]
\* ne_rebuild() repairs the blocks it knows are damaged and finds the others, so that it is
\* called again when some are left; what is left then leaves the marker to another run.
NotRebuilt(t, left) ==
  IF rebuilder[t].tries = 1 THEN GivesUp(t)
  ELSE rebuilder' = [rebuilder EXCEPT ![t].tries = @ + 1, ![t].known = left]
Rebuild(t) ==
  LET o == Current(t)
  IN  /\ RebuilderAt(t, "rebuild")
      /\ IF o \notin stored \/ Cardinality(damaged[o]) > Spare
         THEN GivesUp(t) /\ UNCHANGED <<damaged, reported, mmishaps>>
         ELSE \E missed \in SUBSET (damaged[o] \cap rebuilder[t].known) :
              LET left == (damaged[o] \ rebuilder[t].known) \cup missed
              IN  /\ MayFail(missed # {})
                  /\ damaged' = [damaged EXCEPT ![o] = left]
                  /\ reported' = [reported EXCEPT ![o] = @ \cap left]
                  /\ IF left = {} THEN Rebuilt(t) ELSE NotRebuilt(t, left)
      /\ UNCHANGED <<files, stored, mreader, scan, found, condemned, mdamage>>
\* ne_open(), ne_rebuild() or ne_close() fails
RebuildFails(t) ==
  /\ RebuilderAt(t, "rebuild") /\ MayFail(TRUE) /\ GivesUp(t)
  /\ UNCHANGED <<files, objects, mreader, scan, found, condemned, mdamage>>
\* the RTAG goes first, then the marker.
Untagged(g, o) == [rtag EXCEPT ![g][o] = NoMark]
RemoveRtag(t) ==
  LET o == rebuilder[t].op.objno
      g == marker[o]
  IN  /\ RebuilderAt(t, "untag") /\ g # NoMark
      /\ \E fails \in BOOLEAN :
           /\ MayFail(fails)
           /\ IF fails \/ rtag[g][o] = NoMark THEN GivesUp(t) /\ UNCHANGED <<rtag, fresh>>
              ELSE RebuilderTo(t, "unlink") /\ rtag' = Untagged(g, o) /\ fresh' = fresh \cup {g}
      /\ UNCHANGED <<named, refd, marker, objects, mreader, scan, found, condemned, mdamage>>
UnlinkMarker(t) ==
  LET o == rebuilder[t].op.objno
  IN  /\ RebuilderAt(t, "unlink") /\ marker[o] # NoMark /\ GivesUp(t)
      /\ \E fails \in BOOLEAN :
           /\ MayFail(fails)
           /\ IF fails THEN UNCHANGED <<marker, fresh, scan>>
              ELSE /\ marker' = [marker EXCEPT ![o] = NoMark] /\ fresh' = fresh \cup {marker[o]}
                   /\ scan' = [scan EXCEPT !.seen = @ \ {[type |-> "rebuild", val |-> o]}]
      /\ UNCHANGED <<named, refd, rtag, objects, mreader, found, condemned, mdamage>>

-----------------------------------------------------------------------------
(* Users, damage, and a run that dies or ends in an error *)

UnlinkFile(f) ==
  /\ f \in named /\ named' = named \ {f} /\ fresh' = fresh \cup {f}
  /\ UNCHANGED <<refd, marker, rtag, objects, mreader, manager, mbounds>>
DamageBlock(o, b) ==
  /\ mdamage < MaxDamage /\ o \in stored /\ b \notin damaged[o]
  /\ mdamage' = mdamage + 1 /\ damaged' = [damaged EXCEPT ![o] = @ \cup {b}]
  /\ UNCHANGED <<files, stored, reported, mreader, manager, mmishaps>>
RunDies ==
  /\ ~RunIsOver /\ mmishaps < MaxMarkMishaps /\ mmishaps' = mmishaps + 1
  /\ scan' = NoScan /\ found' = {} /\ condemned' = {} /\ rebuilder' = [t \in Rebuilders |-> FreeHand]
  /\ UNCHANGED <<files, objects, mreader, mdamage>>

MarkersAtRest ==
  /\ marker = [o \in Objs |-> NoMark] /\ rtag = [f \in StreamFiles |-> [o \in Objs |-> NoMark]]
  /\ fresh = {} /\ damaged = [o \in Objs |-> {}] /\ reported = [o \in Objs |-> {}]
  /\ mreader = [r \in MarkReaders |-> NoClose] /\ scan = NoScan /\ found = {}
  /\ rebuilder = [t \in Rebuilders |-> FreeHand] /\ condemned = {}
  /\ mmishaps = 0 /\ mdamage = 0
InitMarkers == named = StreamFiles /\ refd = StreamFiles /\ stored = Objs /\ MarkersAtRest
\* nothing there at all
NoStreams == named = {} /\ refd = {} /\ stored = {} /\ MarkersAtRest

MarkStep(r) ==
  \/ \E f \in StreamFiles, o \in Objs : CloseDamaged(r, f, o)
  \/ LinkMarker(r) \/ OpenMarker(r) \/ TagMarked(r) \/ ReaderDies(r)
ScanStep == SeeStream \/ EndScan \/ \E o \in Objs : SeeMarker(o)
RebuildStep(t) == TakeRebuild(t) \/ Rebuild(t) \/ RemoveRtag(t) \/ UnlinkMarker(t)
MarkNext ==
  \/ \E r \in MarkReaders : MarkStep(r)
  \/ \E location \in BOOLEAN, kept \in SUBSET fresh : StartScan(location, kept)
  \/ ScanStep \/ Collect \/ RunDies
  \/ \E t \in Rebuilders : RebuildStep(t) \/ RebuildFails(t)
  \/ \E f \in StreamFiles : UnlinkFile(f)
  \/ \E o \in Objs, b \in Stripe : DamageBlock(o, b)

\* runs go on to their end and are started again and again, not always too early
MarkFairness ==
  /\ WF_mvars(ScanStep) /\ WF_mvars(Collect) /\ WF_mvars(\E t \in Rebuilders : RebuildStep(t))
  /\ WF_mvars(\E r \in MarkReaders : LinkMarker(r) \/ OpenMarker(r) \/ TagMarked(r))
  /\ SF_mvars(StartLate)

MarkSpec == (InitMarkers \/ NoStreams) /\ [][MarkNext]_mvars

-----------------------------------------------------------------------------
(* Properties *)

\* A marker leads to an object that exists, whatever files users unlink and whatever is
\* collected meanwhile: the link keeps the file in use (process_getfileinfo).  Else each run
\* from then on would fail to rebuild it (process_rebuild).
MarkersLeadSomewhere == \A o \in Objs : marker[o] # NoMark => o \in stored
\* What a marker was made for is repaired before it goes, whatever fails and whoever dies
\* (process_rebuild).
ReportedStaysMarked == \A o \in Objs : reported[o] # {} => marker[o] # NoMark
\* An RTAG is on an inode only while the marker of its object is a link to it: one that is left
\* over would be taken for that of the next marker (fsetxattr() with XATTR_CREATE), which then
\* would be rebuilt at once, for the damage of old.
TagsHaveMarkers == \A f \in StreamFiles, o \in Objs : rtag[f][o] # NoMark => marker[o] = f
\* Every marker goes in the end, with an RTAG or without one, unless more blocks of its object
\* are damaged than can be.
MarkedIsRebuilt ==
  \A o \in Objs : []<>(marker[o] = NoMark \/ Cardinality(damaged[o]) > Spare)

\* The markers are a record of the damage that can be relied on: each leads to an object that is
\* there, what was reported stays marked until it is rebuilt, and a tag has its marker.
MarkersAreSound == MarkersLeadSomewhere /\ ReportedStaysMarked /\ TagsHaveMarkers
=============================================================================

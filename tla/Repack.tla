-------------------------------- MODULE Repack --------------------------------
(***************************************************************************)
(* Repacking of a file: its data is copied into another stream, and then   *)
(* the file changes over to it (datastream_repack, open_repack_file, the   *)
(* repack branch of completefile).  A process may die between any two      *)
(* calls of the MDAL; datastream_repack_cleanup() then finds the marker it *)
(* left and completes or reverts what it had begun, and may die as well.   *)
(*                                                                         *)
(* F is the inode of the user's file; every attempt to repack it makes a   *)
(* marker, an inode of its own.  Stream 0 is where the file was created,   *)
(* attempt k writes stream k.  A name is the reference of the file in a    *)
(* stream, or the marker of an attempt, which stands beside the reference  *)
(* the attempt started from.  Per file there is one repacker at a time:    *)
(* each reference directory is handed to one thread.                       *)
(***************************************************************************)
EXTENDS Naturals, FiniteSets

CONSTANTS
  MaxAttempts,  \* bound: how often the file is repacked
  MaxCrashes    \* bound: how often a process dies

ASSUME RepackAssumption == MaxAttempts \in Nat /\ MaxCrashes \in Nat

VARIABLES
  names,   \* the inode of every name, or "none"
  tags,    \* the xattrs of the inodes: FTAG, TREPACK and OREPACK
  data,    \* of every stream: "none", "part" or "whole"
  proc,    \* the process at work: what it does next, and what it has read
  attempt, \* the attempts so far
  ret,     \* what the last cleanup returned: 0 completed, 1 reverted, -1 failed, 2 none yet
  crashes,
  mistaken \* history: a cleanup has taken the TREPACK of another attempt for that of its own

vars == <<names, tags, data, proc, attempt, ret, crashes, mistaken>>

Streams == 0 .. MaxAttempts
Marker(k) == k          \* the inode of the marker of attempt k
Inodes == {0} \cup 1 .. MaxAttempts
File == 0               \* F, as an inode
Ref(s)   == <<"ref", s>>
Mark(s)  == <<"marker", s>>
Names == {Ref(s) : s \in Streams} \cup {Mark(s) : s \in Streams}
NoInode == MaxAttempts + 1
\* a tag names a stream; the states below the one that counts as readable
Tag(s, state) == [stream |-> s, state |-> state]
NoTag == Tag(MaxAttempts + 1, "none")
NoTags == [ftag |-> NoTag, trepack |-> NoTag, orepack |-> NoTag]

Idle == [at |-> "idle", from |-> 0, active |-> NoTag, mark |-> 0, to |-> 0]
At(a) == proc.at = a
Goto(a) == proc' = [proc EXCEPT !.at = a]
Set(inode, which, tag) == tags' = [tags EXCEPT ![inode][which] = tag]
Has(inode, which) == tags[inode][which] # NoTag

\* nobody is at work and no marker is left
Settled == At("idle") /\ \A s \in Streams : names[Mark(s)] = NoInode

-----------------------------------------------------------------------------
(* open_repack_file() *)

\* The file is to be READABLE; the marker is created exclusively, so that an attempt that was
\* left stands in the way of another one from the same stream until it is cleaned up.
CreateMarker ==
  LET s == tags[File].ftag.stream
  IN  /\ At("idle") /\ attempt < MaxAttempts
      /\ names[Ref(s)] = File /\ tags[File].ftag.state = "readable" /\ names[Mark(s)] = NoInode
      /\ attempt' = attempt + 1
      /\ names' = [names EXCEPT ![Mark(s)] = Marker(attempt + 1)]
      /\ proc' = [Idle EXCEPT !.at = "tagmarker", !.from = s]
      /\ UNCHANGED <<tags, data, ret, crashes, mistaken>>
TagMarker ==
  /\ At("tagmarker") /\ Set(Marker(attempt), "trepack", Tag(attempt, "init")) /\ Goto("link")
  /\ UNCHANGED <<names, data, attempt, ret, crashes, mistaken>>
LinkNewRef ==
  /\ At("link") /\ names' = [names EXCEPT ![Ref(attempt)] = names[Ref(proc.from)]] /\ Goto("write")
  /\ UNCHANGED <<tags, data, attempt, ret, crashes, mistaken>>

(* datastream_write(), finfile() and the close of the last object *)
Write ==
  /\ At("write") /\ data' = [data EXCEPT ![attempt] = "part"] /\ Goto("fin")
  /\ UNCHANGED <<names, tags, attempt, ret, crashes, mistaken>>
Fin ==
  /\ At("fin") /\ Set(File, "trepack", Tag(attempt, "fin")) /\ Goto("close")
  /\ UNCHANGED <<names, data, attempt, ret, crashes, mistaken>>
\* Mutant: the failure of the close goes unnoticed
CloseObjAnyway ==
  /\ At("close") /\ Goto("comp")
  /\ UNCHANGED <<names, tags, data, attempt, ret, crashes, mistaken>>
CloseObj ==
  /\ At("close") /\ data' = [data EXCEPT ![attempt] = "whole"] /\ Goto("comp")
  /\ UNCHANGED <<names, tags, attempt, ret, crashes, mistaken>>

-----------------------------------------------------------------------------
(* completefile(): from the moment the marker has an FTAG there is no way  *)
(* back                                                                    *)

Complete ==
  /\ At("comp") /\ Set(File, "trepack", Tag(attempt, "readable")) /\ Goto("marker ftag")
  /\ UNCHANGED <<names, data, attempt, ret, crashes, mistaken>>
KeepOldTag ==
  /\ At("marker ftag") /\ Set(names[Mark(proc.from)], "ftag", tags[File].ftag) /\ Goto("orepack")
  /\ UNCHANGED <<names, data, attempt, ret, crashes, mistaken>>
KeepFirstTag ==
  /\ At("orepack") /\ Goto("ftag")
  /\ Set(File, "orepack", IF Has(File, "orepack") THEN tags[File].orepack ELSE tags[File].ftag)
  /\ UNCHANGED <<names, data, attempt, ret, crashes, mistaken>>
ChangeOver ==
  /\ At("ftag") /\ Set(File, "ftag", Tag(attempt, "readable")) /\ Goto("untag")
  /\ UNCHANGED <<names, data, attempt, ret, crashes, mistaken>>
RemoveTag ==
  /\ At("untag") /\ Set(File, "trepack", NoTag) /\ Goto("rename")
  /\ UNCHANGED <<names, data, attempt, ret, crashes, mistaken>>
Rename(from, to) == names' = [names EXCEPT ![to] = names[from], ![from] = NoInode]
RenameMarker ==
  /\ At("rename") /\ Rename(Mark(proc.from), Ref(proc.from)) /\ proc' = Idle
  /\ UNCHANGED <<tags, data, attempt, ret, crashes, mistaken>>

-----------------------------------------------------------------------------
(* datastream_repack_cleanup() *)

\* what it reads: a marker without a TREPACK, or whose reference was never linked, is dropped;
\* else it depends on the FTAG of the marker in which direction to go.  Mutant: it depends on
\* the TREPACK of the file being there.
RevertsIfBusy(m, tgt) == tags[tgt].trepack # NoTag
Reverts(m, tgt) == tags[m].ftag = NoTag
\* the TREPACK of the target is taken for that of the attempt, whichever stream it names
OfAnother(active, to) == active # NoTag /\ active.stream # to
CleanupStart(s) ==
  LET m      == names[Mark(s)]
      to     == tags[m].trepack.stream
      tgt    == names[Ref(to)]
      active == tags[tgt].trepack
      use    == IF active # NoTag THEN active ELSE tags[m].trepack
  IN  /\ At("idle") /\ m # NoInode
      /\ IF ~Has(m, "trepack") \/ names[Ref(to)] = NoInode
         THEN /\ names' = [names EXCEPT ![Mark(s)] = NoInode] /\ ret' = 1 /\ UNCHANGED <<proc, mistaken>>
         ELSE /\ mistaken' = (mistaken \/ OfAnother(active, to)) /\ UNCHANGED <<names, ret>>
              /\ proc' = [Idle EXCEPT !.mark = s, !.active = use, !.to = to, !.from = tgt, !.at =
                   IF Reverts(m, tgt) THEN (IF active # NoTag THEN "c keep" ELSE "c ftag")
                   ELSE (IF active # NoTag THEN "c file" ELSE "c rename")]
      /\ UNCHANGED <<tags, data, attempt, crashes>>
\* revert: the marker becomes the reference of the new stream, and is garbage
CleanupKeep ==
  /\ At("c keep") /\ Set(names[Mark(proc.mark)], "trepack", proc.active) /\ Goto("c strip")
  /\ UNCHANGED <<names, data, attempt, ret, crashes, mistaken>>
CleanupStrip ==
  /\ At("c strip") /\ Set(proc.from, "trepack", NoTag) /\ Goto("c ftag")
  /\ UNCHANGED <<names, data, attempt, ret, crashes, mistaken>>
CleanupFtag ==
  /\ At("c ftag") /\ ~Has(names[Mark(proc.mark)], "ftag")
  /\ Set(names[Mark(proc.mark)], "ftag", proc.active) /\ Goto("c rename")
  /\ UNCHANGED <<names, data, attempt, ret, crashes, mistaken>>
\* complete: the file changes over
CleanupFile ==
  /\ At("c file") /\ Set(proc.from, "ftag", proc.active) /\ Goto("c untag")
  /\ UNCHANGED <<names, data, attempt, ret, crashes, mistaken>>
CleanupUntag ==
  /\ At("c untag") /\ Set(proc.from, "trepack", NoTag) /\ Goto("c rename")
  /\ UNCHANGED <<names, data, attempt, ret, crashes, mistaken>>
\* Mutant: the marker always takes the place of the reference of the new stream
RenameTargetNew(m) == proc.to
RenameTarget(m) == tags[m].ftag.stream
Returns(s) == IF s = proc.to THEN 1 ELSE 0
CleanupRename ==
  LET m == names[Mark(proc.mark)]
      s == RenameTarget(m)
  IN  /\ At("c rename") /\ Rename(Mark(proc.mark), Ref(s)) /\ proc' = Idle
      /\ ret' = Returns(s)
      /\ UNCHANGED <<tags, data, attempt, crashes, mistaken>>

-----------------------------------------------------------------------------
\* the process dies, or gives up since a call failed
Crash ==
  /\ ~At("idle") /\ crashes < MaxCrashes /\ crashes' = crashes + 1 /\ proc' = Idle
  /\ UNCHANGED <<names, tags, data, attempt, ret, mistaken>>

Init ==
  /\ names = [n \in Names |-> IF n = Ref(0) THEN File ELSE NoInode]
  /\ tags = [i \in Inodes \cup {NoInode} |->
               IF i = File THEN [NoTags EXCEPT !.ftag = Tag(0, "readable")] ELSE NoTags]
  /\ data = [s \in Streams |-> IF s = 0 THEN "whole" ELSE "none"]
  /\ proc = Idle /\ attempt = 0 /\ ret = 2 /\ crashes = 0 /\ mistaken = FALSE

RepackStep == \/ TagMarker \/ LinkNewRef \/ Write \/ Fin \/ CloseObj \/ Complete \/ KeepOldTag
              \/ KeepFirstTag \/ ChangeOver \/ RemoveTag \/ RenameMarker
CleanupStep == \/ CleanupKeep \/ CleanupStrip \/ CleanupFtag \/ CleanupFile \/ CleanupUntag
               \/ CleanupRename
Cleanup == \E s \in Streams : CleanupStart(s)
Next == CreateMarker \/ RepackStep \/ Cleanup \/ CleanupStep \/ Crash
\* a process at work goes on, and what is left behind is cleaned up
Fairness == WF_vars(RepackStep) /\ WF_vars(CleanupStep) /\ WF_vars(Cleanup)
Spec == Init /\ [][Next]_vars /\ Fairness

-----------------------------------------------------------------------------
(* Properties *)

(* When two attempts have died, the cleanup of the one finds the TREPACK   *)
(* of the other at its target and writes it on (OfAnother): the file may   *)
(* then lead to data that is not all there (ContentStays fails).  The      *)
(* properties below are about everything up to such a cleanup.             *)

\* datastream_repack_cleanup() completes a repack or returns the file to its original state,
\* as datastream.h has it: either way its FTAG leads to data that is whole.
ContentStays == tags[File].ftag.state = "readable" /\ data[tags[File].ftag.stream] = "whole"
\* At every moment the FTAG of the file leads to data that is whole: a reader sees the old
\* copy or the new one, and no death of a process takes both away (completefile,
\* datastream_repack_cleanup).
ContentIsKept == ~mistaken => ContentStays
\* When nobody is at work and no marker is left, the reference of every stream is what a walk
\* over that stream expects: the file in the stream it has its data in, an inode with no
\* other name and a tag of that stream in all others.  Then garbage collection keeps the one
\* and takes the others, and finds the objects of every attempt (datastream_repack_cleanup).
RefsAgree ==
  Settled /\ ~mistaken =>
    /\ \A s \in Streams : names[Ref(s)] # NoInode =>
         (names[Ref(s)] = File <=> s = tags[File].ftag.stream) /\ tags[names[Ref(s)]].ftag.stream = s
    /\ \A s \in Streams : data[s] # "none" => names[Ref(s)] # NoInode
    /\ ~Has(File, "trepack")
\* A cleanup returns 0 exactly when the file has its data in the new stream, or in one it was
\* repacked to since, whichever steps an earlier cleanup had taken before it died
\* (datastream_repack_cleanup).
CleanupTellsTheTruth ==
  [][ret' # ret \/ (At("c rename") /\ proc' = Idle /\ crashes' = crashes) =>
       \/ mistaken
       \/ ret' = 0 <=> At("c rename") /\ tags[File].ftag.stream >= proc.to]_vars
\* Every attempt comes to an end, and no marker stays for ever, unless a cleanup was mistaken:
\* the file can be repacked again.
MarkersGo == []<>(Settled \/ mistaken)
=============================================================================

----------------------------- MODULE Datastream -----------------------------
(***************************************************************************)
(* A datastream, src/datastream/datastream.c: files packed one after the   *)
(* other into data objects of a fixed size.  Every object starts with a    *)
(* header; in each object the data of a file is followed by its recovery   *)
(* info.  A file is a reference file whose FTAG, an xattr, says where its  *)
(* data begins and how long it is.                                         *)
(*                                                                         *)
(* One CREATE stream writes the files; a file that it has extended is      *)
(* written chunk by chunk by EDIT streams of other processes; READ streams *)
(* come at any time.  A call of the CREATE stream is a sequence of *)
(* steps, `todo', each of which changes storage once.  The process may     *)
(* die, or a step may fail for good, between any two: what is in memory is *)
(* lost, the object being written included.                                *)
(*                                                                         *)
(* Data is counted in units; Data(f, k) is unit k of file f.                *)
(***************************************************************************)
EXTENDS Integers, Sequences, FiniteSets, FiniteSetsExt, SequencesExt

CONSTANTS
  ObjSize, ObjFiles,     \* objsize and objfiles of the data scheme
  HeaderLen,             \* recoveryheaderlen
  InfoLens,              \* possible lengths of the recovery info of each file
  NewInfoLens,           \* those that a new recovery path of it leads to
  LongPaths,             \* may its recovery info be longer than the room left in the object?
  MaxFiles, MaxBytes,    \* bounds on files in the stream and units in a file
  TruncLens,             \* lengths that files are truncated to
  MaxDegraded,           \* bound on objects closed with errors
  CreateAfterExtend,     \* may a create fail when the file at hand was extended?
  Editors                \* processes with EDIT streams

ASSUME StreamAssumption ==
  /\ ObjSize \in Nat /\ ObjFiles \in Nat /\ HeaderLen \in Nat \ {0}
  /\ {InfoLens, NewInfoLens} \subseteq [0 .. (MaxFiles - 1) -> SUBSET (Nat \ {0})]
  /\ \A f \in 0 .. (MaxFiles - 1) : \A r \in InfoLens[f] \cup NewInfoLens[f] : HeaderLen + r < ObjSize
  /\ TruncLens \subseteq Nat
  /\ MaxFiles \in Nat \ {0} /\ MaxBytes \in Nat /\ MaxDegraded \in Nat
  /\ CreateAfterExtend \in BOOLEAN /\ LongPaths \in BOOLEAN

VARIABLES
  objs,             \* data objects that were closed: number -> content
  degraded, marked, \* objects closed with errors; objects with a rebuild marker
  meta,             \* reference files: [tag, size, link]
  strm, todo,       \* the CREATE stream, and what is left of its current call
  ed                \* the EDIT streams

vars == <<objs, degraded, marked, meta, strm, todo, ed>>

Files  == 0 .. (MaxFiles - 1)
ObjNos == 0 .. (MaxFiles * (MaxBytes + 1))
INIT  == 0
SIZED == 2
FIN   == 3
COMP  == 4

NoFile   == [tag |-> <<>>, size |-> 0, link |-> FALSE]
NoStream == [on |-> FALSE]
NULL     == <<>>
Unit(t, f, k) == [t |-> t, f |-> f, k |-> k]
Header        == [k \in 1 .. HeaderLen |-> Unit("header", 0, k)]
Info(f, len)  == [k \in 1 .. len |-> Unit("info", f, k)]
Data(f, k)    == Unit("data", f, k)

-----------------------------------------------------------------------------
(* Where the data of a file is                                             *)

DataPerObj(tag) == ObjSize - (tag.rb + HeaderLen)
\* gettargets() with SEEK_CUR: the offset in the file of a position in an object
Here(tag, objno, offset) ==
  LET min == tag.offset - HeaderLen
  IN  IF objno > tag.objno
      THEN (DataPerObj(tag) - min) + (objno - (tag.objno + 1)) * DataPerObj(tag) + offset - HeaderLen
      ELSE offset - HeaderLen - min
\* gettargets(): the object and the offset in it for an offset in the file
gettargets(tag, off) ==
  LET k   == Min({off, tag.avail})
      at  == k + tag.offset - HeaderLen
      dpo == DataPerObj(tag)
      obj == IF at >= dpo THEN [objno |-> tag.objno + (at \div dpo), offset |-> (at % dpo) + HeaderLen]
             ELSE [objno |-> tag.objno, offset |-> at + HeaderLen]
  IN  [objno |-> obj.objno, offset |-> obj.offset, excess |-> off - k, remain |-> tag.avail - k]

\* datastream_filebounds(): the last object of a file.  Mutant: a file that ends with its
\* object is taken to reach into the next.
EndOf(tag) == tag.bytes + tag.offset - HeaderLen
EndsWithObject(tag) == tag.data >= FIN /\ EndOf(tag) \div DataPerObj(tag) > 0 /\ EndOf(tag) % DataPerObj(tag) = 0
datastream_filebounds(tag) ==
  tag.objno + (EndOf(tag) \div DataPerObj(tag)) - (IF EndsWithObject(tag) THEN 1 ELSE 0)

\* datastream_chunkbounds(): where chunk c begins, for a file that begins an object
datastream_chunkbounds(tag, c) == c * DataPerObj(tag)

-----------------------------------------------------------------------------
Init ==
  /\ objs = [o \in ObjNos |-> NULL] /\ degraded = {} /\ marked = {}
  /\ meta = [f \in Files |-> NoFile]
  /\ strm = NoStream /\ todo = <<>>
  /\ ed = [e \in Editors |-> NoStream]

storage == <<objs, degraded, marked>>
CurFile == Last(strm.files)
CurTag  == strm.tag[CurFile]
Prev    == Front(strm.files)
Begin(steps) == strm.on /\ todo = <<>> /\ todo' = steps
Doing(s)     == todo # <<>> /\ Head(todo)[1] = s
Done         == todo' = Tail(todo)
Then(steps)  == todo' = steps \o Tail(todo)
\* the files, from the last to the first.  Mutant: all but the first of them
CompletesButFirst(files) == [k \in 1 .. (Len(files) - 1) |-> <<"completefile", files[Len(files) + 1 - k]>>]
Completes(files) == [k \in 1 .. Len(files) |-> <<"completefile", files[Len(files) + 1 - k]>>]
Idle == strm.on /\ todo = <<>>

NewTag(rb, objno, offset) ==
  [objno |-> objno, offset |-> offset, bytes |-> 0, avail |-> 0, rb |-> rb, data |-> INIT,
   w |-> FALSE, r |-> FALSE, eos |-> FALSE]

\* freestream(): the caller gave up, a call failed for good, or the process died
freestream ==
  /\ strm.on /\ strm' = NoStream /\ todo' = <<>>
  /\ UNCHANGED <<storage, meta, ed>>

\* genstream(): a stream with its first file
genstream ==
  /\ ~strm.on /\ todo = <<>> /\ meta[0] = NoFile
  /\ \E rb \in InfoLens[0] :
       strm' = [on |-> TRUE, objno |-> 0, offset |-> HeaderLen, files |-> <<0>>,
                tag |-> [f \in Files |-> NewTag(rb, 0, HeaderLen)], h |-> NULL, hobj |-> 0, abort |-> FALSE]
  /\ todo' = <<<<"putftag">>, <<"linkfile">>>>
  /\ UNCHANGED <<storage, meta, ed>>

\* datastream_create() with a stream: the file at hand is finished, the next one made
datastream_create ==
  /\ Idle /\ CurFile + 1 \in Files
  /\ Begin(<<<<"finfile">>, <<"putftag">>, <<"create_new_file", strm.objno>>>>)
  /\ UNCHANGED <<storage, meta, strm, ed>>

\* open_current_obj() for writing: the file is SIZED from now on, the object begins with
\* its header
Opened(s, f) ==
  [s EXCEPT !.tag[f].data = Max({@, SIZED}), !.h = Header, !.hobj = s.objno]
\* putfinfo(): the recovery info follows the data
WithInfo(s, f) ==
  [s EXCEPT !.h = @ \o Info(f, s.tag[f].rb), !.offset = @ + s.tag[f].rb]

\* finfile(): a file without data is in an object too; a file that was extended and not
\* written here leaves its object
finfile ==
  /\ Doing("finfile")
  /\ IF CurTag.data >= FIN THEN Done /\ UNCHANGED strm
     ELSE IF CurTag.bytes = 0 /\ strm.h = NULL
     THEN todo' = <<<<"open_current_obj">>>> \o todo /\ UNCHANGED strm
     ELSE LET t == IF strm.h # NULL THEN WithInfo(strm, CurFile)
                   ELSE [strm EXCEPT !.objno = @ + 1, !.offset = HeaderLen]
          IN  Done /\ strm' = [t EXCEPT !.tag[CurFile].data = FIN]
  /\ UNCHANGED <<storage, meta, ed>>

\* putftag()
putftag ==
  /\ Doing("putftag") /\ Done
  /\ meta' = [meta EXCEPT ![CurFile].tag = CurTag]
  /\ UNCHANGED <<storage, strm, ed>>

\* linkfile(): from here on the file has its name in the namespace
linkfile ==
  /\ Doing("linkfile") /\ Done
  /\ meta' = [meta EXCEPT ![CurFile].link = TRUE]
  /\ UNCHANGED <<storage, strm, ed>>

\* create_new_file(): a file goes to the next object when its recovery info no longer fits
\* or when the object has its number of files.  Mutant: the check of the room is dropped.
NoRoomNever(rb) == FALSE
NoRoom(rb)  == ObjSize - strm.offset < rb
FullObject  == ObjFiles > 0 /\ Len(strm.files) >= ObjFiles
\* when the new file begins another object, datastream_create() closes the object before it
\* and completes the files before it
create_new_file ==
  /\ Doing("create_new_file")
  /\ \E rb \in InfoLens[CurFile + 1] :
       LET f    == CurFile + 1
           move == NoRoom(rb) \/ FullObject
           objno  == IF move THEN strm.objno + 1 ELSE strm.objno
           offset == IF move THEN HeaderLen ELSE strm.offset
       IN  /\ strm' = [strm EXCEPT !.files = Append(@, f), !.tag[f] = NewTag(rb, objno, offset),
                                   !.objno = objno, !.offset = offset]
           /\ Then(<<<<"putftag">>, <<"linkfile">>>> \o
                   (IF objno = Head(todo)[2] THEN <<>>
                    ELSE <<<<"close_current_obj">>>> \o Completes(strm.files) \o <<<<"shift", 0>>>>))
  /\ UNCHANGED <<storage, meta, ed>>
\* a failure leaves the stream with the file it had
create_fails ==
  /\ Doing("create_new_file") /\ Done /\ (CurTag.w => CreateAfterExtend)
  /\ UNCHANGED <<storage, meta, strm, ed>>

\* close_current_obj(): an object that was closed with errors is usable and gets a rebuild
\* marker; when that fails the stream is lost.
Lost(out) == out = "unmarked"
Outcomes == IF Cardinality(degraded) < MaxDegraded THEN {"fine", "marked", "unmarked"} ELSE {"fine"}
CloseObj(o, data, out) ==
  /\ objs' = [objs EXCEPT ![o] = data]
  /\ degraded' = IF out = "fine" THEN degraded ELSE degraded \cup {o}
  /\ marked' = IF out = "marked" THEN marked \cup {o} ELSE marked
close_current_obj ==
  /\ Doing("close_current_obj")
  /\ \/ strm.h = NULL /\ Done /\ UNCHANGED <<storage, strm>>
     \/ /\ strm.h # NULL
        /\ \E out \in Outcomes :
             /\ CloseObj(strm.hobj, strm.h, out)
             /\ IF Lost(out) THEN strm' = NoStream /\ todo' = <<>>
                ELSE strm' = [strm EXCEPT !.h = NULL] /\ Done
  /\ UNCHANGED <<meta, ed>>

\* completefile(): a file for parallel write is not completed here, and the call goes on
completefile ==
  /\ Doing("completefile")
  /\ LET f == Head(todo)[2]
         t == [strm.tag[f] EXCEPT !.data = COMP, !.r = TRUE, !.avail = strm.tag[f].bytes]
     IN  IF strm.tag[f].w
         THEN Done /\ strm' = [strm EXCEPT !.abort = TRUE] /\ UNCHANGED meta
         ELSE /\ meta' = [meta EXCEPT ![f].tag = t] /\ strm' = [strm EXCEPT !.tag[f] = t]
              /\ Then(<<<<"ftruncate", f>>>>)
  /\ UNCHANGED <<storage, ed>>
ftruncate ==
  /\ Doing("ftruncate") /\ Done
  /\ LET f == Head(todo)[2] IN meta' = [meta EXCEPT ![f].size = strm.tag[f].avail]
  /\ UNCHANGED <<storage, strm, ed>>

\* the last file becomes the first, in the same or in the next object; if one before it
\* failed to complete, the stream is lost
shift ==
  /\ Doing("shift")
  /\ IF strm.abort THEN strm' = NoStream /\ todo' = <<>>
     ELSE /\ Done
          /\ strm' = [strm EXCEPT !.files = <<CurFile>>, !.objno = @ + Head(todo)[2],
                                  !.offset = IF Head(todo)[2] = 1 THEN HeaderLen ELSE @]
  /\ UNCHANGED <<storage, meta, ed>>

\* datastream_write() of one unit; datastream_seek() forward writes zeroes this way.  A full
\* object is closed and the next one is opened.  Mutant: one unit too many goes into it.
FullLate(t) == DataPerObj(t) - (strm.offset - HeaderLen) < 0
\* (the subtraction is one of size_t: below zero it comes out huge, and not as full)
Full(t) == DataPerObj(t) - (strm.offset - HeaderLen) = 0
datastream_write ==
  /\ Idle /\ CurTag.data < FIN /\ ~CurTag.w /\ CurTag.bytes < MaxBytes
  /\ Begin((IF Full(CurTag)
            THEN (IF strm.h # NULL THEN <<<<"putfinfo">>>> ELSE <<>>) \o <<<<"close_current_obj">>>>
                 \o Completes(Prev) \o <<<<"shift", 1>>>>
            ELSE <<>>)
           \o (IF Full(CurTag) \/ strm.h = NULL THEN <<<<"open_current_obj">>>> ELSE <<>>)
           \o <<<<"ne_write">>>>)
  /\ UNCHANGED <<storage, meta, strm, ed>>
putfinfo ==
  /\ Doing("putfinfo") /\ Done /\ strm' = WithInfo(strm, CurFile)
  /\ UNCHANGED <<storage, meta, ed>>
\* a write handle starts with the object
open_current_obj ==
  /\ Doing("open_current_obj") /\ strm.offset = HeaderLen /\ Done
  /\ LET s == Opened(strm, CurFile)
     IN  strm' = s /\ meta' = [meta EXCEPT ![CurFile].tag = s.tag[CurFile]]
  /\ UNCHANGED <<storage, ed>>
ne_write ==
  /\ Doing("ne_write") /\ Done
  /\ strm' = [strm EXCEPT !.h = Append(@, Data(CurFile, CurTag.bytes)), !.offset = @ + 1,
                          !.tag[CurFile].bytes = @ + 1]
  /\ UNCHANGED <<storage, meta, ed>>

\* datastream_setrecoverypath(), before any data, to a shorter or to a longer path.  The
\* code does not check the room as create_new_file() does: a file that shares its object
\* can get a recovery info for which DataPerObj is less than what lies before the file.
datastream_setrecoverypath ==
  /\ Idle /\ CurTag.bytes = 0
  /\ \E rb \in NewInfoLens[CurFile] :
       /\ NoRoom(rb) => LongPaths
       /\ strm' = [strm EXCEPT !.tag[CurFile].rb = rb]
  /\ todo' = <<<<"putftag">>>>
  /\ UNCHANGED <<storage, meta, ed>>

\* datastream_extend(): the file gets objects of its own, for parallel write; the units of
\* the last object are not accessible yet
datastream_extend ==
  /\ Idle /\ CurTag.data < FIN /\ ~(CurTag.bytes # 0 /\ strm.h # NULL)
  /\ \E len \in (CurTag.bytes + 1) .. MaxBytes :
       Begin((IF Prev = <<>> THEN <<>>
              ELSE <<<<"close_current_obj">>>> \o Completes(Prev) \o <<<<"shift", 1>>>>)
             \o <<<<"extend", len, Prev # <<>>>>, <<"putftag">>>>)
  /\ UNCHANGED <<storage, meta, strm, ed>>
extend ==
  /\ Doing("extend")
  /\ LET t == IF Head(todo)[3] THEN [CurTag EXCEPT !.objno = strm.objno, !.offset = strm.offset] ELSE CurTag
         len == Head(todo)[2]
     IN  /\ t.offset = HeaderLen /\ Done
         /\ strm' = [strm EXCEPT !.tag[CurFile] =
                       [t EXCEPT !.w = TRUE, !.data = Max({@, SIZED}), !.bytes = len,
                                 !.avail = (len \div DataPerObj(t)) * DataPerObj(t)]]
  /\ UNCHANGED <<storage, meta, ed>>

\* datastream_release() of the one file of the stream, open for parallel write
datastream_release ==
  /\ Idle /\ CurTag.w /\ Prev = <<>>
  /\ Begin(<<<<"finfile">>, <<"endofstream">>, <<"close_current_obj">>, <<"putftag">>, <<"end">>>>)
  /\ UNCHANGED <<storage, meta, strm, ed>>
\* datastream_close()
datastream_close ==
  /\ Idle /\ ~CurTag.w
  /\ Begin(<<<<"finfile">>, <<"endofstream">>, <<"close_current_obj">>>> \o Completes(strm.files) \o <<<<"end">>>>)
  /\ UNCHANGED <<storage, meta, strm, ed>>
endofstream ==
  /\ Doing("endofstream") /\ Done
  /\ strm' = [strm EXCEPT !.tag[CurFile].eos = TRUE,
                          !.tag[CurFile].avail = IF CurTag.w THEN CurTag.bytes ELSE @]
  /\ UNCHANGED <<storage, meta, ed>>
end ==
  /\ Doing("end") /\ Done /\ strm' = NoStream
  /\ UNCHANGED <<storage, meta, ed>>

-----------------------------------------------------------------------------
(* EDIT streams: open_existing_file() copies the tag, and the copy is used *)
(* from then on.  An editor writes whole chunks.                           *)

At(s)     == Here(s.tag, s.objno, s.offset)
Remain(s) == gettargets(s.tag, At(s)).remain
Room(s)   == DataPerObj(s.tag) - (s.offset - HeaderLen)
Whole(s)  == s.h = NULL \/ Room(s) = 0 \/ Remain(s) = 0
\* close_current_obj() after putfinfo(), and what becomes of the stream
Leave(e, next) ==
  LET s == ed[e]
  IN  IF s.h = NULL THEN UNCHANGED storage /\ ed' = [ed EXCEPT ![e] = next]
      ELSE \E out \in Outcomes :
             /\ CloseObj(s.objno, s.h \o Info(s.f, s.tag.rb), out)
             /\ ed' = [ed EXCEPT ![e] = IF out = "unmarked" THEN NoStream ELSE next]

\* datastream_open()
edit_open(e) ==
  /\ ~ed[e].on
  /\ \E f \in Files :
       /\ meta[f].link /\ (meta[f].tag.w \/ meta[f].tag.data = COMP)
       /\ ed' = [ed EXCEPT ![e] = [on |-> TRUE, f |-> f, tag |-> meta[f].tag, objno |-> meta[f].tag.objno,
                                   offset |-> meta[f].tag.offset, h |-> NULL, compl |-> FALSE]]
  /\ UNCHANGED <<storage, meta, strm, todo>>

\* datastream_write(): no further than the units that are accessible
Writes(e) == ed[e].on /\ ~ed[e].compl /\ ed[e].tag.data \notin {INIT, COMP} /\ Remain(ed[e]) > 0
edit_write(e) ==
  /\ Writes(e) /\ Room(ed[e]) > 0 /\ (ed[e].h = NULL => ed[e].offset = HeaderLen)
  /\ LET s == ed[e] IN
       ed' = [ed EXCEPT ![e].h = Append(IF @ = NULL THEN Header ELSE @, Data(s.f, At(s))), ![e].offset = @ + 1]
  /\ UNCHANGED <<storage, meta, strm, todo>>
edit_next(e) ==
  /\ Writes(e) /\ Room(ed[e]) = 0
  /\ Leave(e, [ed[e] EXCEPT !.h = NULL, !.objno = @ + 1, !.offset = HeaderLen])
  /\ UNCHANGED <<meta, strm, todo>>
\* datastream_seek() to the beginning of a chunk, in another object than the one open
edit_seek(e) ==
  /\ ed[e].on /\ ~ed[e].compl /\ Whole(ed[e])
  /\ \E c \in 0 .. MaxBytes :
       LET off == datastream_chunkbounds(ed[e].tag, c)
           tgt == gettargets(ed[e].tag, off)
       IN  /\ off <= ed[e].tag.avail /\ tgt.offset = HeaderLen
           /\ ed[e].h # NULL => tgt.objno # ed[e].objno
           /\ Leave(e, [ed[e] EXCEPT !.h = NULL, !.objno = tgt.objno, !.offset = tgt.offset])
  /\ UNCHANGED <<meta, strm, todo>>
\* datastream_release()
edit_release(e) ==
  /\ ed[e].on /\ ~ed[e].compl /\ Whole(ed[e]) /\ Leave(e, NoStream)
  /\ UNCHANGED <<meta, strm, todo>>
\* datastream_close(), then completefile() with the tag read at open
edit_close(e) ==
  /\ ed[e].on /\ ~ed[e].compl /\ Whole(ed[e]) /\ ed[e].tag.w /\ ed[e].tag.data = FIN
  /\ Leave(e, [ed[e] EXCEPT !.h = NULL, !.compl = TRUE])
  /\ UNCHANGED <<meta, strm, todo>>
edit_complete(e) ==
  /\ ed[e].on /\ ed[e].compl
  /\ LET f == ed[e].f
         t == [ed[e].tag EXCEPT !.data = COMP, !.r = TRUE, !.avail = ed[e].tag.bytes]
     IN  \E size \in {meta[f].size, t.avail} : meta' = [meta EXCEPT ![f].tag = t, ![f].size = size]
  /\ ed' = [ed EXCEPT ![e] = NoStream]
  /\ UNCHANGED <<storage, strm, todo>>
\* datastream_truncate(): the size, then the tag unless that fails
datastream_truncate(e) ==
  /\ ed[e].on /\ ~ed[e].compl /\ ed[e].tag.data = COMP
  /\ \E len \in TruncLens :
       LET f == ed[e].f
           t == [ed[e].tag EXCEPT !.avail = Min({@, len})]
       IN  /\ \E tag \in {meta[f].tag, t} : meta' = [meta EXCEPT ![f].size = len, ![f].tag = tag]
           /\ ed' = [ed EXCEPT ![e].tag = t]
  /\ UNCHANGED <<storage, strm, todo>>
edit_lost(e) ==
  /\ ed[e].on /\ ed' = [ed EXCEPT ![e] = NoStream]
  /\ UNCHANGED <<storage, meta, strm, todo>>

-----------------------------------------------------------------------------
(* READ streams change nothing in storage: their calls are functions of    *)
(* it.  A stream is [f, tag, size, objno, offset, excess].                 *)

\* datastream_open(), of a READABLE file
ReadOpen(f) ==
  [f |-> f, tag |-> meta[f].tag, size |-> meta[f].size, objno |-> meta[f].tag.objno,
   offset |-> meta[f].tag.offset, excess |-> 0]
\* datastream_seek(), SEEK_SET
ReadSeek(s, off) ==
  LET tgt == gettargets(s.tag, off)
  IN  [s EXCEPT !.objno = tgt.objno, !.offset = tgt.offset, !.excess = tgt.excess]

\* datastream_read(): the units up to the end of the object, then those of the next; beyond
\* availbytes the file reads as zeroes up to its size
ReadNext(tag, p) ==
  IF DataPerObj(tag) - (p.offset - HeaderLen) = 0 THEN [objno |-> p.objno + 1, offset |-> HeaderLen] ELSE p
ReadPos(tag, p, n) ==
  LET at[i \in 0 .. n] ==
        IF i = 0 THEN p
        ELSE LET q == ReadNext(tag, at[i - 1]) IN [q EXCEPT !.offset = @ + 1]
  IN  at
Has(p)  == p.offset <= Len(objs[p.objno])
Cur(s)  == At(s) + s.excess
Excess(s) == (IF s.size > s.tag.avail THEN s.size - s.tag.avail ELSE 0) - gettargets(s.tag, Cur(s)).excess
datastream_read(s, n) ==
  LET data == Min({n, gettargets(s.tag, Cur(s)).remain})
      tail == Min({n - data, Excess(s)})
      at   == ReadPos(s.tag, [objno |-> s.objno, offset |-> s.offset], data)
      read == CHOOSE k \in 0 .. data : (\A i \in 1 .. k : Has(at[i])) /\ (k < data => ~Has(at[k + 1]))
      zero == IF read = data THEN tail ELSE 0
  IN  [stream |-> [s EXCEPT !.objno = at[read].objno, !.offset = at[read].offset, !.excess = @ + zero],
       got    |-> [i \in 1 .. read |-> objs[at[i].objno][at[i].offset]] \o [i \in 1 .. zero |-> Unit("zero", 0, 0)],
       err    |-> read < data]

-----------------------------------------------------------------------------
Create ==
  \/ genstream \/ datastream_create \/ datastream_write \/ datastream_setrecoverypath
  \/ datastream_extend \/ datastream_release \/ datastream_close
  \/ finfile \/ putftag \/ linkfile \/ create_new_file \/ create_fails \/ close_current_obj
  \/ completefile \/ ftruncate \/ shift \/ putfinfo \/ open_current_obj \/ ne_write \/ extend
  \/ endofstream \/ end \/ freestream
Edit(e) ==
  \/ edit_open(e) \/ edit_write(e) \/ edit_next(e) \/ edit_seek(e) \/ edit_release(e) \/ edit_close(e)
  \/ edit_complete(e) \/ datastream_truncate(e) \/ edit_lost(e)
\* Between two steps of the CREATE stream that only change its memory, others need not be
\* looked at: it would make no difference to anyone.
Inner == todo # <<>> /\ Head(todo)[1] \in {"finfile", "endofstream", "putfinfo", "ne_write", "shift", "extend", "end"}
Next == Create \/ (~Inner /\ \E e \in Editors : Edit(e))
Spec == Init /\ [][Next]_vars

-----------------------------------------------------------------------------
(* Properties                                                              *)

Objects == {o \in ObjNos : objs[o] # NULL}
Holds(o, f) == \E i \in 1 .. Len(objs[o]) : objs[o][i].t \in {"data", "info"} /\ objs[o][i].f = f
Stored(f) == meta[f].link /\ meta[f].tag.r

\* What datastream_read() returns for a READABLE file, after any seek and any read before
\* it, is the data of this file at the position the caller reckons, whatever files share
\* its objects and wherever a unit falls in them; a file that was not written in parallel
\* is there to the last unit.  Every state of storage is one in which all writers may have
\* died, so it is enough to look when there are none.
GotRight(s, from, res) ==
  /\ \A i \in 1 .. Len(res.got) :
       res.got[i] = IF from + i - 1 < s.tag.avail THEN Data(s.f, from + i - 1) ELSE Unit("zero", 0, 0)
  /\ Cur(res.stream) = from + Len(res.got)
  /\ ~s.tag.w => ~res.err
Quiet == ~strm.on /\ \A e \in Editors : ~ed[e].on
ReadIsRight == Quiet =>
  \A f \in {g \in Files : Stored(g)} : \A from \in 0 .. meta[f].size : \A n, m \in 1 .. MaxBytes :
    LET s   == ReadSeek(ReadOpen(f), from)
        one == datastream_read(s, n)
    IN  /\ GotRight(s, from, one)
        /\ Cur(one.stream) <= s.size /\ ~one.err =>
             GotRight(s, from + Len(one.got), datastream_read(one.stream, m))

\* The objects from the tag's objno to datastream_filebounds() are those that hold the
\* file: the garbage collector deletes and the rebuilder walks just these
BoundsRight ==
  \A f \in Files : Stored(f) =>
    LET span == meta[f].tag.objno .. datastream_filebounds(meta[f].tag)
    IN  /\ {o \in Objects : Holds(o, f)} \subseteq span
        /\ ~meta[f].tag.w => span \subseteq {o \in Objects : Holds(o, f)}

\* config.h calls objsize the "maximum data object size": no object outgrows it, whatever
\* recovery paths its files are given
ObjectsFit == \A o \in Objects : Len(objs[o]) <= ObjSize

\* An object can be taken apart without any metadata: it fits, it begins with
\* the header and the data of each file, in order, is followed by its info
ObjectsAreRecoverable == ObjectsFit /\
  \A o \in Objects :
    LET c == objs[o] IN
    /\ SubSeq(c, 1, HeaderLen) = Header
    /\ \A i \in (HeaderLen + 1) .. Len(c) :
         /\ c[i].t = "data" => /\ i < Len(c)
                               /\ c[i + 1] \in {Data(c[i].f, c[i].k + 1), Unit("info", c[i].f, 1)}
         /\ c[i].t = "info" => i = Len(c) \/ c[i + 1] = Unit("info", c[i].f, c[i].k + 1) \/ c[i + 1].f > c[i].f

\* datastream_close() and datastream_release() succeed only when every file of the stream
\* has its length and can be read, or is left to those who write it in parallel
CloseCompletes ==
  [][end /\ ~strm.abort =>
       \A f \in Files : meta[f].link =>
         /\ meta[f].tag.bytes = strm.tag[f].bytes
         /\ meta[f].tag.r \/ (meta[f].tag.w /\ meta[f].tag.data = FIN)]_vars

\* No file of the CREATE stream is completed before each of its objects that was closed
\* with errors has its rebuild marker, without which no one would rebuild it
DegradedIsMarked ==
  \A f \in Files : Stored(f) /\ ~meta[f].tag.w =>
    \A o \in degraded : Holds(o, f) => o \in marked

\* At every moment, deaths included, a file that can be read reads as what was written, and its
\* objects are those that datastream_filebounds() names; every object can be recovered from
\* itself, and one closed with errors is known to be so before a file in it is completed.
StreamIsSafe == ReadIsRight /\ BoundsRight /\ ObjectsAreRecoverable /\ DegradedIsMarked
=============================================================================

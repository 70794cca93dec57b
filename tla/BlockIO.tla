------------------------------ MODULE BlockIO ------------------------------
(***************************************************************************)
(* One block of an erasure-coded object: the ring of ioblocks of           *)
(* src/io/ioqueue.c, the reader or writer thread whose callbacks are in    *)
(* src/io/iothreads.c, and the master, the part of src/ne/ne.c that deals  *)
(* with this block.                                                        *)
(*                                                                         *)
(* The thread and the master exchange ioblocks through a ThreadQueue with  *)
(* one thread.  What module ThreadQueue establishes for it is used here: a *)
(* FIFO, control flags, and a pause that is quiescent.  An ioblock is      *)
(* never named when it is given back: release_ioblock() only counts, and   *)
(* relies on blocks coming back in the order they were reserved.           *)
(*                                                                         *)
(* A byte of the block is its position, 1 .. DataSz, so that misplaced or  *)
(* stale data show; JUNK is a byte that is not what was written.           *)
(***************************************************************************)
EXTENDS Integers, Sequences, SequencesExt, FiniteSets

CONSTANTS
  SuperBlockCnt,  \* SUPER_BLOCK_CNT: ioblocks in the ring
  CrcBytes,       \* CRC_BYTES
  Geometries,     \* possible <<versz, partsz, number of parts in the block>>
  Modes,          \* possible DAL modes of the handle
  AbortReads,     \* whether ne_abort() is called on a handle open for reading
  MayFail         \* whether opening, reading and writing may fail

ASSUME GeometryAssumption ==
  /\ SuperBlockCnt \in Nat \ {0} /\ CrcBytes \in Nat \ {0} /\ MayFail \in BOOLEAN
  /\ AbortReads \in BOOLEAN
  /\ Modes \subseteq {"DAL_READ", "DAL_WRITE"}
  /\ \A g \in Geometries : g \in Nat \X (Nat \ {0}) \X (Nat \ {0}) /\ g[1] > CrcBytes

VARIABLES
  dmode, minfo,                  \* gthread_state: mode and sizes of the block
  head, depth, block,            \* ioqueue: head, depth, block_list
  con_flags, queue,              \* the ThreadQueue: control flags and work
  tpc, offset, iob, cur_work,    \* the thread: thread_state and work package
  first, junk, res,              \* not in the main loop yet; junk_blocks; result
  crcsumchk, continuous,
  goffset, data_error,           \* gthread_state: offset and error marks
  meta_error, handle,            \*   and the state of the DAL handle
  mpc, miob, push, iob_offset,   \* the master: handle->iob[i], push_block,
  iob_datasz, target,            \*   iob_offset, iob_datasz, seek target
  written, ios,                  \* bytes given to ne_write(); IOs put
  faulted                        \* history: the DAL failed a call

ringVars   == <<head, depth, block>>
tqVars     == <<con_flags, queue>>
threadVars == <<tpc, first, offset, iob, cur_work, junk, res, crcsumchk, continuous>>
stateVars  == <<goffset, data_error, meta_error, handle, ios, faulted>>
masterVars == <<mpc, miob, push, iob_offset, iob_datasz, target, written>>
vars == <<dmode, minfo, ringVars, tqVars, threadVars, stateVars, masterVars>>

NULL    == -1
JUNK    == 0
Blocks  == 0 .. (SuperBlockCnt - 1)
Reading == dmode = "DAL_READ"
Writing == dmode = "DAL_WRITE"
Flagged(f) == f \in con_flags

-----------------------------------------------------------------------------
(* Sizes: create_ioqueue()                                                 *)

PartSz  == minfo.partsz
Payload == minfo.versz - CrcBytes                 \* data bytes of one IO
DataSz  == minfo.partsz * minfo.parts             \* data bytes of the block
PartCnt == IF PartSz > Payload THEN 1 ELSE Payload \div PartSz
Split   == IF Reading THEN PartCnt * PartSz ELSE Payload
BlockSz == Split + CrcBytes + (IF Reading THEN Payload ELSE PartSz)

\* minfo.blocksz: the data and one CRC per IO
NumIOs      == (DataSz + Payload - 1) \div Payload
StoredBlock == DataSz + NumIOs * CrcBytes
\* a sum of CRCs: how often that of each IO is in it; minfo.crcsum has each once
IOs    == 0 .. (NumIOs - 1)
NoCrcs == [k \in IOs |-> 0]
CrcSum == [k \in IOs |-> 1]

-----------------------------------------------------------------------------
(* The ring of ioblocks                                                    *)

Fill(b)  == Len(block[b].buff)                    \* data_size
Empty    == [buff |-> <<>>, error_end |-> 0]
Junk(n)  == [i \in 1 .. n |-> JUNK]
NextHead == IF head + 1 = SuperBlockCnt THEN 0 ELSE head + 1

\* release_ioblock(): fails on a full ring, and says so
Release(d)   == IF d = SuperBlockCnt THEN d ELSE d + 1
Released     == depth' = Release(depth) /\ UNCHANGED <<head, block>>

\* reserve_ioblock() returns 0 and leaves the ring alone
HasRoom(b) == b # NULL /\ Fill(b) < Split

\* What reserve_ioblock() makes of the ring when it takes another block: data
\* beyond the split goes to the new block, all of it marked bad if any is.
Spill(b) == SubSeq(block[b].buff, Split + 1, Fill(b))
Moved(b) ==
  IF b = NULL \/ Fill(b) = Split THEN Empty
  ELSE IF block[b].error_end > Split
       THEN [buff |-> Junk(Fill(b) - Split), error_end |-> Fill(b) - Split]
       ELSE [buff |-> Spill(b), error_end |-> 0]
Reserved(b) ==
  [i \in Blocks |->
     CASE i = head -> Moved(b)
       [] i = b /\ i # head -> [block[i] EXCEPT !.buff = SubSeq(@, 1, Split)]
       [] OTHER -> block[i]]

\* ... it waits for avail_block while the ring is empty
Reserve(b) ==
  /\ depth > 0
  /\ depth' = depth - 1
  /\ head' = NextHead

\* align_ioblock(): fake data so that the next split falls `trim' bytes into the IO
JunkBlocksShort(trim) == trim \div Split          \* Mutant: off by one.
JunkBlocks(trim) == trim \div Split + 1
Falsefill(trim)  == Split - (trim - (JunkBlocks(trim) - 1) * Split)

-----------------------------------------------------------------------------
(* ne_convert_handle() starts the thread halted; read_init() and           *)
(* write_init() open the block.                                            *)

Init ==
  /\ dmode \in Modes
  /\ \E g \in Geometries : minfo = [versz |-> g[1], partsz |-> g[2], parts |-> g[3]]
  /\ head = 0 /\ depth = SuperBlockCnt
  /\ block = [b \in Blocks |-> Empty]
  /\ con_flags = {"HALT"} /\ queue = <<>>
  /\ tpc = "halted" /\ first = TRUE /\ offset = 0 /\ iob = NULL /\ cur_work = NULL
  /\ junk = 0 /\ res = 0
  /\ crcsumchk = NoCrcs /\ continuous = TRUE
  /\ handle \in (IF MayFail THEN {"open", "none"} ELSE {"open"})
  /\ data_error = (handle = "none") /\ faulted = (handle = "none")
  /\ goffset = 0 /\ meta_error = FALSE
  /\ mpc = "start" /\ miob = NULL /\ push = NULL
  /\ iob_offset = 0 /\ iob_datasz = 0 /\ target = 0
  /\ written = 0 /\ ios = <<>>

-----------------------------------------------------------------------------
(* The reader thread                                                       *)

\* read_produce() returns r with work package w, to the producer loop or, while
\* junk blocks are due, to read_resume()
Produced(w, r) ==
  /\ cur_work' = w /\ res' = r
  /\ tpc' = IF junk = 0 THEN "post" ELSE "junked"
  /\ UNCHANGED junk

\* The offset is at the end of the block: compare the sum of the CRCs, then
\* hand out what is left, then say that nothing is.
read_produce_end ==
  /\ Reading /\ tpc = "work" /\ offset >= StoredBlock
  /\ data_error' = (data_error \/ (continuous /\ crcsumchk # CrcSum))
  /\ IF iob # NULL /\ Fill(iob) > 0
     THEN Produced(iob, 0) /\ iob' = NULL
     ELSE Produced(NULL, 2) /\ UNCHANGED iob
  /\ UNCHANGED <<dmode, minfo, ringVars, tqVars, first, offset, crcsumchk, continuous,
                 goffset, meta_error, handle, ios, faulted, masterVars>>

\* One turn of the loop of read_produce(), in a block with room: read an IO
\* (`ok': the DAL returned it and its CRC is right) and note how far the data
\* are bad; at the end of the data push the block as it is.
ToRead == IF minfo.versz > StoredBlock - offset THEN StoredBlock - offset ELSE minfo.versz
IoData == [i \in 1 .. (ToRead - CrcBytes) |-> (offset \div minfo.versz) * Payload + i]

FillFrom(b, blk, ok) ==
  LET buff == blk.buff \o (IF ok THEN IoData ELSE Junk(ToRead - CrcBytes))
  IN  /\ block' = [block EXCEPT ![b] =
                     [buff |-> buff, error_end |-> IF ok THEN blk.error_end ELSE Len(buff)]]
      /\ offset' = offset + ToRead
      /\ crcsumchk' = IF ok THEN [crcsumchk EXCEPT ![offset \div minfo.versz] = @ + 1] ELSE crcsumchk
      /\ data_error' = (data_error \/ ~ok)
      /\ faulted' = (faulted \/ ~ok)

read_produce_fill ==
  /\ Reading
  /\ \/ tpc = "work" /\ offset < StoredBlock
     \/ tpc = "loop"
  /\ ToRead > CrcBytes
  /\ \E ok \in BOOLEAN :
       /\ ok \/ MayFail
       /\ ok => handle = "open"
       /\ IF HasRoom(iob)
          THEN FillFrom(iob, block[iob], ok) /\ UNCHANGED <<iob, head, depth>>
          ELSE /\ iob = NULL
               /\ Reserve(NULL)
               /\ iob' = head
               /\ FillFrom(head, Empty, ok)
  /\ tpc' = "loop"
  /\ UNCHANGED <<dmode, minfo, tqVars, first, cur_work, junk, res, continuous,
                 goffset, meta_error, handle, ios, masterVars>>

\* the block is full: reserve the next one and push this one
read_produce_push ==
  /\ Reading
  /\ \/ tpc = "work" /\ offset < StoredBlock
     \/ tpc = "loop"
  /\ iob # NULL /\ ~HasRoom(iob)
  /\ Reserve(iob) /\ block' = Reserved(iob)
  /\ iob' = head
  /\ Produced(iob, 0)
  /\ UNCHANGED <<dmode, minfo, tqVars, first, offset, crcsumchk, continuous, stateVars,
                 masterVars>>

\* all data are read: push the incomplete block
read_produce_last ==
  /\ Reading /\ tpc = "loop"
  /\ HasRoom(iob) /\ ToRead = 0
  /\ Produced(iob, 0)
  /\ iob' = NULL
  /\ UNCHANGED <<dmode, minfo, ringVars, tqVars, first, offset, crcsumchk, continuous, stateVars,
                 masterVars>>

\* producer_thread() under its lock, with work package w: sleep, quit, or enqueue
\* and go on.  A thread that has not worked yet does that whatever the flags.
Loop(flags, w) ==
  /\ con_flags' = flags
  /\ first' = FALSE
  /\ IF first
     THEN tpc' = "work" /\ cur_work' = w /\ UNCHANGED queue
     ELSE IF "ABORT" \in flags
     THEN tpc' = "term" /\ cur_work' = w /\ UNCHANGED queue
     ELSE IF "HALT" \in flags /\ "FINISHED" \notin flags
     THEN tpc' = "halted" /\ cur_work' = w /\ UNCHANGED queue
     ELSE /\ queue' = IF w = NULL THEN queue ELSE Append(queue, w)
          /\ cur_work' = NULL
          /\ tpc' = IF "FINISHED" \in flags THEN "term" ELSE "work"

\* after the work function, whose result may halt the queue
producer_post ==
  /\ Reading /\ tpc = "post"
  /\ Loop(IF res = 2 /\ ~Flagged("ABORT") /\ ~Flagged("FINISHED")
          THEN con_flags \cup {"HALT"} ELSE con_flags, cur_work)
  /\ UNCHANGED <<dmode, minfo, ringVars, offset, iob, junk, res, crcsumchk, continuous,
                 stateVars, masterVars>>

\* a flag wakes a halted thread while HALT still stands: nothing is resumed
producer_wake ==
  /\ Reading /\ tpc = "halted"
  /\ Flagged("HALT") /\ (Flagged("FINISHED") \/ Flagged("ABORT"))
  /\ Loop(con_flags, cur_work)
  /\ UNCHANGED <<dmode, minfo, ringVars, offset, iob, junk, res, crcsumchk, continuous,
                 stateVars, masterVars>>

\* read_resume(), called with the lock of the ThreadQueue held once HALT is gone:
\* give back the block in hand; if the block in progress does not start at the
\* new offset, give that back too, move, and align by throwing blocks away.
IoCount == goffset \div Payload
Trim    == goffset % Payload
Curdata == IF iob = NULL THEN 0 ELSE Fill(iob)
IsSeek  == offset - Curdata # IoCount * minfo.versz + Trim

AfterPrevKept == depth          \* Mutant: the block in hand is forgotten.
AfterPrev == IF cur_work = NULL THEN depth ELSE Release(depth)
AfterIob  == IF Curdata = 0 THEN AfterPrev ELSE Release(AfterPrev)
Aligned(b) == [block EXCEPT ![b] = [buff |-> Junk(Falsefill(Trim)), error_end |-> Falsefill(Trim)]]

Resuming == Reading /\ tpc = "halted" /\ ~Flagged("HALT")

read_resume_stay ==
  /\ Resuming /\ ~IsSeek
  /\ depth' = AfterPrev
  /\ Loop(con_flags, NULL)
  /\ UNCHANGED <<dmode, minfo, head, block, offset, iob, junk, res, crcsumchk, continuous,
                 stateVars, masterVars>>

Reseek ==
  /\ crcsumchk' = NoCrcs
  /\ continuous' = (continuous /\ IoCount = 0)
  /\ offset' = IoCount * minfo.versz

read_resume_seek ==
  /\ Resuming /\ IsSeek /\ Trim = 0
  /\ Reseek
  /\ iob' = IF Curdata # 0 THEN NULL ELSE iob
  /\ depth' = AfterIob
  /\ Loop(con_flags, NULL)
  /\ UNCHANGED <<dmode, minfo, head, block, junk, res, stateVars, masterVars>>

read_resume_align ==
  /\ Resuming /\ IsSeek /\ Trim # 0
  /\ Reseek
  /\ IF iob = NULL \/ Curdata # 0
     THEN /\ AfterIob > 0
          /\ depth' = AfterIob - 1 /\ head' = NextHead
          /\ iob' = head /\ block' = Aligned(head)
     ELSE /\ depth' = AfterIob
          /\ block' = Aligned(iob) /\ UNCHANGED <<iob, head>>
  /\ junk' = JunkBlocks(Trim)
  /\ tpc' = "work" /\ cur_work' = NULL
  /\ UNCHANGED <<dmode, minfo, tqVars, first, res, stateVars, masterVars>>

\* read_resume() gives the block back that read_produce() made; when there was
\* none it fails, and the queue is aborted
junk_block ==
  /\ Reading /\ tpc = "junked"
  /\ IF res = 0 THEN Released ELSE UNCHANGED ringVars
  /\ junk' = IF res = 0 THEN junk - 1 ELSE 0
  /\ IF junk' > 0
     THEN tpc' = "work" /\ cur_work' = NULL /\ UNCHANGED <<first, tqVars>>
     ELSE Loop(IF res = 0 THEN con_flags ELSE con_flags \cup {"ABORT"}, NULL)
  /\ UNCHANGED <<dmode, minfo, offset, iob, res, crcsumchk, continuous, stateVars, masterVars>>

\* read_term(): give back what is in hand and close the block
read_term ==
  /\ Reading /\ tpc = "term"
  /\ depth' = LET d == IF cur_work = NULL THEN depth ELSE Release(depth)
              IN  IF iob = NULL THEN d ELSE Release(d)
  /\ cur_work' = NULL /\ iob' = NULL
  /\ handle' = "closed"
  /\ \E ok \in BOOLEAN :
       /\ ok \/ MayFail
       /\ data_error' = (data_error \/ ~ok) /\ faulted' = (faulted \/ ~ok)
  /\ tpc' = "exit"
  /\ UNCHANGED <<dmode, minfo, head, block, tqVars, first, offset, junk, res, crcsumchk,
                 continuous, goffset, meta_error, ios, masterVars>>

-----------------------------------------------------------------------------
(* The writer thread                                                       *)

\* consumer_thread() takes a block
consumer_take ==
  /\ Writing /\ tpc = "halted"
  /\ queue # <<>> /\ ~Flagged("ABORT") /\ (Flagged("HALT") => Flagged("FINISHED"))
  /\ cur_work' = Head(queue) /\ queue' = Tail(queue)
  /\ tpc' = "work"
  /\ UNCHANGED <<dmode, minfo, ringVars, con_flags, first, offset, iob, junk, res, crcsumchk,
                 continuous, stateVars, masterVars>>

\* ... or quits, with the flags that write_term() gets to see
consumer_quit ==
  /\ Writing /\ tpc = "halted"
  /\ Flagged("ABORT") \/ (Flagged("FINISHED") /\ queue = <<>>)
  /\ tpc' = IF Flagged("ABORT") THEN "abort" ELSE "term"
  /\ UNCHANGED <<dmode, minfo, ringVars, tqVars, first, offset, iob, cur_work, junk, res,
                 crcsumchk, continuous, stateVars, masterVars>>

\* write_consume(): put the data with their CRC, unless something failed before,
\* and give the block back.  Too much data for one IO aborts the queue.
write_consume ==
  /\ Writing /\ tpc = "work"
  /\ \E ok \in BOOLEAN :
       /\ ok \/ MayFail
       /\ LET data == block[cur_work].buff
              big  == Len(data) > Payload
              puts == ~big /\ data # <<>> /\ ~data_error
          IN  /\ ok \/ puts
              /\ ios' = IF puts /\ ok THEN Append(ios, data) ELSE ios
              /\ data_error' = (data_error \/ big \/ ~ok)
              /\ con_flags' = IF big THEN con_flags \cup {"ABORT"} ELSE con_flags
              /\ faulted' = (faulted \/ ~ok)
  /\ Released
  /\ cur_work' = NULL
  /\ tpc' = "halted"
  /\ UNCHANGED <<dmode, minfo, queue, first, offset, iob, junk, res, crcsumchk, continuous,
                 goffset, meta_error, handle, masterVars>>

\* write_term(): set the meta information, then commit the block, or drop it after
\* any error or an ABORT
write_term ==
  /\ Writing /\ tpc \in {"term", "abort"}
  /\ \E meta, close \in BOOLEAN :
       LET bad  == data_error \/ tpc = "abort"
           good == ~bad /\ handle = "open" /\ close
       IN  /\ meta = FALSE => MayFail
           /\ close = FALSE => MayFail /\ ~bad
           /\ handle = "none" => ~meta
           /\ handle' = IF handle = "none" THEN "none" ELSE IF good THEN "committed" ELSE "aborted"
           /\ data_error' = ~good
           /\ meta_error' = (bad \/ ~meta)
           /\ faulted' = (faulted \/ ~meta \/ ~close)
  /\ tpc' = "exit"
  /\ UNCHANGED <<dmode, minfo, ringVars, tqVars, first, offset, iob, cur_work, junk, res,
                 crcsumchk, continuous, goffset, ios, masterVars>>

-----------------------------------------------------------------------------
(* The master.  The thread holds the lock of the ThreadQueue while it      *)
(* resumes, so a call that needs the lock waits; a dequeued block that is  *)
(* given back at once is one step.                                         *)

TqFree == junk = 0
threadAlone == <<dmode, minfo, threadVars, stateVars>>

\* ne_convert_handle(): end the pause
start ==
  /\ mpc = "start" /\ TqFree
  /\ con_flags' = con_flags \ {"HALT"}
  /\ mpc' = "idle"
  /\ UNCHANGED <<threadAlone, ringVars, queue, miob, push, iob_offset, iob_datasz, target, written>>

\* read_stripes(): the previous block goes back ...
read_stripes ==
  /\ Reading /\ mpc = "idle"
  /\ iob_offset + iob_datasz < DataSz
  /\ iob_offset' = iob_offset + iob_datasz /\ iob_datasz' = 0
  /\ IF miob = NULL THEN UNCHANGED ringVars ELSE Released
  /\ miob' = NULL
  /\ mpc' = "dequeue"
  /\ UNCHANGED <<threadAlone, tqVars, push, target, written>>

\* ... and tq_dequeue() gets the next; on an aborted queue it fails, on an empty
\* one with a flag it returns NULL
dequeue ==
  /\ mpc = "dequeue" /\ TqFree
  /\ queue # <<>> \/ con_flags # {}
  /\ IF Flagged("ABORT")
     THEN mpc' = "failed" /\ UNCHANGED <<queue, miob, iob_datasz>>
     ELSE IF queue = <<>>
     THEN mpc' = "null" /\ UNCHANGED <<queue, miob, iob_datasz>>
     ELSE /\ miob' = Head(queue) /\ queue' = Tail(queue)
          /\ iob_datasz' = Fill(Head(queue))
          /\ mpc' = "idle"
  /\ UNCHANGED <<threadAlone, ringVars, con_flags, push, iob_offset, target, written>>

\* the tail of read_stripes() for an erasure block that is no longer needed
park ==
  /\ Reading /\ mpc = "idle" /\ miob # NULL /\ TqFree
  /\ con_flags' = con_flags \cup {"HALT"}
  /\ mpc' = "parked"
  /\ UNCHANGED <<threadAlone, ringVars, queue, miob, push, iob_offset, iob_datasz, target, written>>

\* The handle moves on without this block: read_stripes() gives back its ioblock,
\* and when the block is needed again, empties its queue and waits for the pause.
unpark(off) ==
  /\ mpc = "parked"
  /\ IF miob = NULL THEN UNCHANGED ringVars ELSE Released
  /\ miob' = NULL
  /\ target' = off
  /\ mpc' = "restart_drain"
  /\ UNCHANGED <<threadAlone, tqVars, push, iob_offset, iob_datasz, written>>

\* ne_seek() to part `off': set HALT, give back the block in hand, take one from
\* the queue in case the thread waits for a block, wait for the pause, empty the
\* queue, set the offset and go on
ne_seek(off) ==
  /\ Reading /\ mpc = "idle" /\ TqFree
  /\ con_flags' = con_flags \cup {"HALT"}
  /\ target' = off
  /\ mpc' = "seek_release"
  /\ UNCHANGED <<threadAlone, ringVars, queue, miob, push, iob_offset, iob_datasz, written>>

seek_release ==
  /\ mpc = "seek_release"
  /\ IF miob = NULL THEN UNCHANGED ringVars ELSE Released
  /\ miob' = NULL
  /\ mpc' = "seek_unblock"
  /\ UNCHANGED <<threadAlone, tqVars, push, iob_offset, iob_datasz, target, written>>

\* one block off the queue, if there is one, and given back
DropOne ==
  /\ queue # <<>> /\ TqFree
  /\ queue' = Tail(queue) /\ Released
  /\ UNCHANGED <<threadAlone, con_flags, miob, push, iob_offset, iob_datasz, target, written>>
Goto(pc) ==
  /\ mpc' = pc
  /\ UNCHANGED <<threadAlone, ringVars, tqVars, miob, push, iob_offset, iob_datasz, target,
                 written>>

\* Mutant: the thread may still be waiting for a block.
seek_unblockSkips == mpc = "seek_unblock" /\ TqFree /\ Goto("seek_wait")
seek_unblock ==
  /\ mpc = "seek_unblock" /\ TqFree
  /\ IF queue # <<>> /\ ~Flagged("ABORT")
     THEN DropOne /\ mpc' = "seek_wait"
     ELSE Goto("seek_wait")

\* tq_wait_for_pause()
wait_for_pause ==
  /\ mpc \in {"seek_wait", "restart_wait"} /\ TqFree
  /\ IF Flagged("ABORT") THEN Goto("failed")
     ELSE tpc = "halted" /\ Goto(IF mpc = "seek_wait" THEN "seek_drain" ELSE "go")

drain ==
  /\ mpc \in {"seek_drain", "restart_drain"}
  /\ IF queue # <<>> THEN DropOne /\ UNCHANGED mpc
     ELSE TqFree /\ Goto(IF mpc = "seek_drain" THEN "go" ELSE "restart_wait")

seek_go ==
  /\ mpc = "go" /\ TqFree
  /\ goffset' = target
  /\ con_flags' = con_flags \ {"HALT"}
  /\ iob_offset' = target /\ iob_datasz' = 0
  /\ mpc' = "dequeue"
  /\ UNCHANGED <<dmode, minfo, ringVars, queue, threadVars, data_error, meta_error, handle, ios,
                 faulted, miob, push, target, written>>

-----------------------------------------------------------------------------
(* The master writes: ne_write() for the parts of this block               *)

\* a part begins: reserve_ioblock() until the block has room, enqueueing full ones
write_reserve ==
  /\ Writing /\ mpc = "idle"
  /\ written < DataSz /\ written % PartSz = 0
  /\ ~HasRoom(miob)
  /\ Reserve(miob) /\ block' = Reserved(miob)
  /\ miob' = head /\ push' = miob
  /\ mpc' = IF miob = NULL THEN "idle" ELSE "enqueue"
  /\ UNCHANGED <<threadAlone, tqVars, iob_offset, iob_datasz, target, written>>

\* tq_enqueue(): refused on a queue with any flag (the ring is never full)
enqueue ==
  /\ mpc \in {"enqueue", "close_enqueue"} /\ TqFree
  /\ IF con_flags = {}
     THEN queue' = Append(queue, push) /\ mpc' = IF mpc = "enqueue" THEN "idle" ELSE "close"
     ELSE UNCHANGED queue /\ mpc' = IF mpc = "enqueue" THEN "failed" ELSE "close"
  /\ push' = NULL
  /\ UNCHANGED <<threadAlone, ringVars, con_flags, miob, iob_offset, iob_datasz, target, written>>

\* n bytes of a part are copied in; only the start of a part asks for room
ne_write(n) ==
  /\ Writing /\ mpc = "idle"
  /\ written < DataSz
  /\ written % PartSz # 0 \/ HasRoom(miob)
  /\ n <= PartSz - (written % PartSz)
  /\ block' = [block EXCEPT ![miob].buff = @ \o [i \in 1 .. n |-> written + i]]
  /\ written' = written + n
  /\ UNCHANGED <<threadAlone, head, depth, tqVars, mpc, miob, push, iob_offset, iob_datasz, target>>

-----------------------------------------------------------------------------
(* ne_close() and ne_abort()                                               *)

ne_close ==
  /\ mpc \in {"idle", "parked", "failed"}
  /\ Writing => written % PartSz = 0             \* the last stripe has been padded
  /\ Goto("close")

\* terminate_thread(): split what a writer still holds
terminate_split ==
  /\ Writing /\ mpc = "close" /\ miob # NULL /\ ~HasRoom(miob)
  /\ Reserve(miob) /\ block' = Reserved(miob)
  /\ miob' = head /\ push' = miob
  /\ mpc' = "close_enqueue"
  /\ UNCHANGED <<threadAlone, tqVars, iob_offset, iob_datasz, target, written>>

\* ... enqueue its last block, or give the block back
terminate_last ==
  /\ mpc = "close" /\ miob # NULL /\ TqFree
  /\ Writing => HasRoom(miob)
  /\ IF Writing /\ Fill(miob) > 0
     THEN /\ queue' = IF con_flags = {} THEN Append(queue, miob) ELSE queue
          /\ UNCHANGED ringVars
     ELSE Released /\ UNCHANGED queue
  /\ miob' = NULL
  /\ UNCHANGED <<threadAlone, con_flags, mpc, push, iob_offset, iob_datasz, target, written>>

\* ... and set FINISHED
terminate_thread ==
  /\ mpc = "close" /\ miob = NULL /\ TqFree
  /\ con_flags' = con_flags \cup {"FINISHED"}
  /\ mpc' = IF Reading THEN "completion" ELSE "join"
  /\ UNCHANGED <<threadAlone, ringVars, queue, miob, push, iob_offset, iob_datasz, target, written>>

\* A reader is waited for, and its queue emptied whenever the wait may not end;
\* on an aborted queue the wait fails and is tried again.
wait_for_completion ==
  /\ mpc = "completion" /\ TqFree
  /\ ~Flagged("ABORT")
  /\ IF tpc \in {"term", "exit"} THEN Goto("last_drain")
     ELSE DropOne /\ UNCHANGED mpc

last_drain ==
  /\ mpc = "last_drain"
  /\ IF queue # <<>> THEN DropOne /\ UNCHANGED mpc ELSE Goto("join")

\* ne_abort(): set ABORT and take HALT back, then the queue is emptied and
\* everything given back, while the thread may still be at work
ne_abort ==
  /\ AbortReads \/ Writing
  /\ mpc \in {"idle", "parked", "failed"} /\ TqFree
  /\ con_flags' = con_flags \cup {"ABORT"}
  /\ mpc' = "abort_unhalt"
  /\ UNCHANGED <<threadAlone, ringVars, queue, miob, push, iob_offset, iob_datasz, target, written>>

abort_unhalt ==
  /\ mpc = "abort_unhalt" /\ TqFree
  /\ con_flags' = con_flags \ {"HALT"}
  /\ mpc' = "abort_drain"
  /\ UNCHANGED <<threadAlone, ringVars, queue, miob, push, iob_offset, iob_datasz, target, written>>

abort_drain ==
  /\ mpc = "abort_drain" /\ TqFree
  /\ queue' = <<>>
  /\ miob' = NULL
  /\ mpc' = "abort_release"
  /\ UNCHANGED <<threadAlone, ringVars, con_flags, push, iob_offset, iob_datasz, target, written>>

abort_release ==
  /\ mpc = "abort_release"
  /\ IF depth = SuperBlockCnt THEN Goto("abort_join")
     ELSE /\ Released
          /\ UNCHANGED <<threadAlone, tqVars, masterVars>>

\* tq_next_thread_status() and tq_close(), then destroy_ioqueue(), which refuses
\* while a block is out
join ==
  /\ mpc \in {"join", "abort_join"} /\ tpc = "exit"
  /\ Goto(IF depth # SuperBlockCnt THEN "stuck" ELSE IF mpc = "join" THEN "closed" ELSE "aborted")

-----------------------------------------------------------------------------
Reader ==
  \/ read_produce_end \/ read_produce_fill \/ read_produce_push \/ read_produce_last
  \/ producer_post \/ producer_wake
  \/ read_resume_stay \/ read_resume_seek \/ read_resume_align \/ junk_block \/ read_term
Writer == consumer_take \/ consumer_quit \/ write_consume \/ write_term

\* what the master does only when it is called
PartStarts == {PartSz * k : k \in 0 .. (minfo.parts - 1)}
Call ==
  \/ read_stripes \/ park
  \/ \E off \in PartStarts : ne_seek(off) \/ unpark(off)
  \/ write_reserve \/ \E n \in 1 .. PartSz : ne_write(n)
  \/ ne_close \/ ne_abort

\* what it does to finish a call
InCall ==
  \/ start \/ dequeue
  \/ seek_release \/ seek_unblock \/ wait_for_pause \/ drain \/ seek_go
  \/ enqueue
  \/ terminate_split \/ terminate_last \/ terminate_thread
  \/ wait_for_completion \/ last_drain
  \/ abort_unhalt \/ abort_drain \/ abort_release
  \/ join

Next == Reader \/ Writer \/ Call \/ InCall
Spec == Init /\ [][Next]_vars

\* The thread and the master are scheduled.  Nothing obliges the caller to make
\* another call.
Fairness == WF_vars(Reader) /\ WF_vars(Writer) /\ WF_vars(InCall)
LiveSpec == Spec /\ Fairness

-----------------------------------------------------------------------------
ThreadPcs == {"halted", "work", "loop", "junked", "post", "term", "abort", "exit"}
MasterPcs == {"start", "idle", "dequeue", "null", "failed", "parked", "seek_release",
              "seek_unblock", "seek_wait", "seek_drain", "go", "restart_drain", "restart_wait",
              "enqueue", "close", "close_enqueue", "completion", "last_drain", "join",
              "abort_unhalt", "abort_drain", "abort_release", "abort_join",
              "closed", "aborted", "stuck"}

\* Every variable has its type.
TypeOK ==
  /\ dmode \in Modes
  /\ minfo \in [versz : Nat, partsz : Nat \ {0}, parts : Nat \ {0}] /\ minfo.versz > CrcBytes
  /\ head \in Blocks /\ depth \in 0 .. SuperBlockCnt
  /\ block \in [Blocks -> [buff : Seq(Int), error_end : Int]]
  /\ con_flags \subseteq {"HALT", "FINISHED", "ABORT"} /\ queue \in Seq(Blocks)
  /\ tpc \in ThreadPcs /\ first \in BOOLEAN /\ offset \in Nat /\ goffset \in Nat
  /\ {iob, cur_work, miob, push} \subseteq Blocks \cup {NULL}
  /\ junk \in Nat /\ res \in {0, 2}
  /\ mpc \in MasterPcs /\ target \in Nat /\ written \in Nat

\* The ThreadQueue never fills up: its QDEPTH is one more than SUPER_BLOCK_CNT.
QueueFits == Len(queue) <= SuperBlockCnt

Aborting == mpc \in {"abort_unhalt", "abort_drain", "abort_release", "abort_join", "aborted"}

\* The ioblocks in use, oldest first, as the ring hands them out.
InUse == SuperBlockCnt - depth
Window == [k \in 1 .. InUse |-> (head - InUse + k - 1 + SuperBlockCnt) % SuperBlockCnt]
Hold(b)  == IF b = NULL THEN <<>> ELSE <<b>>
Holders ==
  IF Reading THEN Hold(miob) \o queue \o Hold(cur_work) \o Hold(iob)
             ELSE Hold(cur_work) \o queue \o Hold(push) \o Hold(miob)

\* release_ioblock() gives back "a block" without naming it.  That is sound only
\* because the blocks held by the master, the queue and the thread are, in this
\* order, exactly the ones the ring has handed out, oldest first: no block is filled
\* while someone else uses it, and none is lost.  Once nobody reserves any more only
\* the number matters; ne_abort() gives everything back at once and is excluded.
NoMoreReserves ==
  IF Reading THEN tpc = "exit" ELSE mpc \in {"close", "join", "closed"} /\ miob = NULL
RingOrder ==
  \/ Aborting
  \/ NoMoreReserves /\ Len(Holders) = InUse
  \/ Holders = Window

\* What the master gets from read_stripes() continues where the previous block
\* ended, or begins at the seek target: every byte at or after error_end is the
\* right one, and the block is a whole number of parts.
DeliveredInOrder ==
  Reading /\ mpc = "idle" /\ miob # NULL =>
    /\ Fill(miob) > 0 /\ Fill(miob) % PartSz = 0
    /\ \A i \in (block[miob].error_end + 1) .. Fill(miob) : block[miob].buff[i] = iob_offset + i

\* While data remain, tq_dequeue() never returns NULL to read_stripes(), which uses
\* the block without a check.
NeverNull == mpc # "null"

\* No false alarm: a reader reports an error, in the block or for a part of its
\* data, only if the DAL failed it.  The sum of the CRCs survives every seek.
NoFalseAlarm ==
  Reading /\ ~faulted =>
    /\ ~data_error
    /\ mpc = "idle" /\ miob # NULL => block[miob].error_end = 0

\* No write into an ioblock goes beyond its buffer: there is always room for the
\* CRC behind the data.
BufferFits == \A b \in Blocks : Fill(b) + CrcBytes <= BlockSz

\* destroy_ioqueue() finds every block back after ne_close() and ne_abort().
BlocksComeBack == mpc # "stuck"

\* A block is committed only by ne_close(), only when everything written to the
\* handle is in it, in order and once, and in IOs that all but the last are full:
\* a reader finds IO k at k * versz.
CommittedIsComplete ==
  handle = "committed" =>
    /\ mpc \in {"join", "closed"}
    /\ written = IF ios = <<>> THEN 0 ELSE (Len(ios) - 1) * Payload + Len(ios[Len(ios)])
    /\ \A k \in 1 .. Len(ios) :
         /\ ios[k] = [i \in 1 .. Len(ios[k]) |-> (k - 1) * Payload + i]
         /\ Len(ios[k]) <= Payload /\ (k < Len(ios) => Len(ios[k]) = Payload)

\* Every call of the master comes to an end.
AtRest == mpc \in {"idle", "parked", "failed", "null", "closed", "aborted", "stuck"}
CallsReturn == ~AtRest ~> AtRest

\* What the IO threads hand on is what is stored: read in order, without a false alarm, never
\* NULL, and committed only when it is complete (iothreads.c, read_stripes() and ne_close()).
DataIsRight == DeliveredInOrder /\ NoFalseAlarm /\ NeverNull /\ CommittedIsComplete

\* No number of whole parts is just a CRC long.  read_resume() tells a seek from a position
\* that stands by comparing the offset, in which the CRCs count, less the data at hand with
\* the target (iothreads.c:448): with parts that divide a CRC the two can agree in a seek.
SeeksShow == \A g \in Geometries : CrcBytes % g[2] # 0

\* Every ioblock is with one holder, is never written beyond its buffer and comes back in the
\* end (ioqueue.c).
BlocksAreSafe == RingOrder /\ BufferFits /\ BlocksComeBack
=============================================================================

------------------------------ MODULE NeHandle ------------------------------
(***************************************************************************)
(* A handle of the erasure layer, src/ne/ne.c, open for reading or for     *)
(* rebuilding: ne_read(), ne_seek(), ne_rebuild() and read_stripes(),      *)
(* which gets one ioblock from each of the readers, starts more readers    *)
(* when parts are bad, and regenerates the bad parts.                      *)
(*                                                                         *)
(* A reader is what module BlockIO shows it to be: from its offset on it   *)
(* delivers the parts of its block in order, Split of them in an ioblock,  *)
(* and it pauses between two ioblocks.  A part is one unit of data, so a   *)
(* stripe is N units and offsets in a block count stripes.  The content of *)
(* a part is the number of its stripe, or JUNK.                            *)
(***************************************************************************)
EXTENDS Integers, Sequences, FiniteSets, FiniteSetsExt, SequencesExt

CONSTANTS
  N, E,             \* the erasure pattern: blocks 0 .. N+E-1, the last E for erasure
  TotSz,            \* totsz: size of the object, in parts
  Split,            \* split_threshold: parts in an ioblock
  SuperBlockCnt,    \* ioblocks in the ring of each reader
  Modes,            \* possible modes of the handle
  Damages,          \* possible damage: sets of <<block, stripe>>
  ReadSizes,        \* sizes ne_read() is called with
  SeekTargets,      \* offsets ne_seek() is called with
  Reuse             \* whether the handle is used again after a call has failed

ASSUME PatternAssumption ==
  /\ N \in Nat \ {0} /\ E \in Nat /\ TotSz \in Nat \ {0}
  /\ Split \in Nat \ {0} /\ SuperBlockCnt \in Nat \ {0, 1}
  /\ Modes \subseteq {"NE_RDONLY", "NE_RDALL", "NE_REBUILD"}
  /\ ReadSizes \subseteq Nat \ {0} /\ SeekTargets \subseteq Nat
  /\ Reuse \in BOOLEAN

VARIABLES
  mode, bad,                          \* handle->mode; the damage on storage
  src, pos, queue, halt, rstate,      \* readers: the file they have open, offset,
  hand, prog, depth, goffset,         \*   queue, HALT, a finished and a started
  data_error,                         \*   ioblock, free ioblocks, gthread_state
  iob, iob_offset, iob_datasz,        \* handle: ioblocks and position
  sub_offset, ethreads_running,
  prev_err_cnt, e_ready,              \* handle: how many errors, decode tables
  prev_in_err, tables,
  mpc, after, cur_block,              \* the call in progress, where read_stripes()
  nstripe_errors, cur_stripe,         \*   returns to, and its locals
  want, target, munch,                \* bytes to read; seek target; munch_stripes
  outq, outdata, rebuilt, result,     \* ne_rebuild(): writers, what they got
  got, failed                         \* history: the last part copied; a call failed

readerVars == <<src, pos, queue, halt, rstate, hand, prog, depth, goffset, data_error>>
posVars    == <<iob_offset, iob_datasz, sub_offset>>
tableVars  == <<e_ready, prev_in_err, tables>>
stripeVars == <<cur_block, nstripe_errors, cur_stripe>>
callVars   == <<want, target, munch>>
outVars    == <<outq, outdata, rebuilt, result>>
vars == <<mode, bad, readerVars, iob, posVars, ethreads_running, prev_err_cnt, tableVars, mpc,
          after, stripeVars, callVars, outVars, got, failed>>

JUNK    == -1
NULL    == [data |-> <<>>, error_end |-> -1]
NoPart  == [at |-> -1, part |-> -1]
Blocks  == 0 .. (N + E - 1)
Stripes == (TotSz + N - 1) \div N
BadIn(d, b)  == {s \in 0 .. (Stripes - 1) : <<b, s>> \in d}
Damaged(d)   == {b \in Blocks : BadIn(d, b) # {}}
Offset  == iob_offset * N + sub_offset

-----------------------------------------------------------------------------
(* ne_convert_handle()                                                     *)

Init ==
  /\ mode \in Modes
  /\ bad \in Damages
  /\ ethreads_running = IF mode = "NE_RDONLY" THEN 0 ELSE E
  /\ src = [b \in Blocks |-> BadIn(bad, b)]
  /\ pos = [b \in Blocks |-> 0] /\ queue = [b \in Blocks |-> <<>>]
  /\ halt = [b \in Blocks |-> b >= N + ethreads_running]
  /\ rstate = [b \in Blocks |-> IF halt[b] THEN "paused" ELSE "run"]
  /\ hand = [b \in Blocks |-> FALSE] /\ prog = [b \in Blocks |-> FALSE]
  /\ depth = [b \in Blocks |-> SuperBlockCnt] /\ goffset = [b \in Blocks |-> 0]
  /\ data_error = [b \in Blocks |-> FALSE]
  /\ iob = [b \in Blocks |-> NULL]
  /\ iob_offset = 0 /\ iob_datasz = 0 /\ sub_offset = 0
  /\ prev_err_cnt = 0 /\ e_ready = FALSE
  /\ prev_in_err = {} /\ tables = [errs |-> <<>>, index |-> <<>>]
  /\ mpc = "idle" /\ after = "idle" /\ cur_block = 0 /\ nstripe_errors = 0 /\ cur_stripe = 0
  /\ want = 0 /\ target = 0 /\ munch = 0
  /\ outq = {} /\ outdata = [b \in Blocks |-> <<>>] /\ rebuilt = 0 /\ result = -1
  /\ got = NoPart /\ failed = FALSE

-----------------------------------------------------------------------------
(* The readers                                                             *)

BlockLen(b) == IF Stripes - pos[b] < Split THEN Stripes - pos[b] ELSE Split
Produced(b) ==
  LET errs == {k \in 1 .. BlockLen(b) : pos[b] + k - 1 \in src[b]}
  IN  [data |-> [k \in 1 .. BlockLen(b) |-> IF k \in errs THEN JUNK ELSE pos[b] + k - 1],
       error_end |-> IF errs = {} THEN 0 ELSE Max(errs)]

\* read_produce(): a full ioblock is given away only for another one; a reader with
\* HALT set keeps its block and pauses
Needed(b) == (IF prog[b] THEN 0 ELSE 1) + (IF BlockLen(b) < Split THEN 0 ELSE 1)

read_produce(b) ==
  /\ rstate[b] = "run" /\ pos[b] < Stripes
  /\ depth[b] >= Needed(b)
  /\ depth' = [depth EXCEPT ![b] = @ - Needed(b)]
  /\ prog' = [prog EXCEPT ![b] = BlockLen(b) = Split]
  /\ pos' = [pos EXCEPT ![b] = @ + BlockLen(b)]
  /\ data_error' = [data_error EXCEPT ![b] = @ \/ Produced(b).error_end > 0]
  /\ IF halt[b]
     THEN /\ rstate' = [rstate EXCEPT ![b] = "paused"]
          /\ hand' = [hand EXCEPT ![b] = TRUE] /\ UNCHANGED queue
     ELSE /\ queue' = [queue EXCEPT ![b] = Append(@, Produced(b))]
          /\ UNCHANGED <<rstate, hand>>
  /\ UNCHANGED <<mode, bad, src, halt, goffset, iob, posVars, ethreads_running, prev_err_cnt,
                 tableVars, mpc, after, stripeVars, callVars, outVars, got, failed>>

\* at the end of its block a reader halts its own queue
read_end(b) ==
  /\ rstate[b] = "run" /\ pos[b] >= Stripes
  /\ halt' = [halt EXCEPT ![b] = TRUE]
  /\ rstate' = [rstate EXCEPT ![b] = "paused"]
  /\ UNCHANGED <<mode, bad, src, pos, queue, hand, prog, depth, goffset, data_error, iob, posVars,
                 ethreads_running, prev_err_cnt, tableVars, mpc, after, stripeVars, callVars,
                 outVars, got, failed>>

\* read_resume(): the finished block goes back, and the reader continues at the
\* offset it was given; between two IOs that takes a block to throw away
read_resume(b) ==
  /\ rstate[b] = "paused" /\ ~halt[b]
  /\ LET free == depth[b] + (IF hand[b] THEN 1 ELSE 0)
         align == goffset[b] # pos[b] /\ goffset[b] % Split # 0
     IN  /\ align => free + (IF prog[b] THEN 1 ELSE 0) >= 2
         /\ depth' = [depth EXCEPT ![b] = IF align /\ ~prog[b] THEN free - 1 ELSE free]
         /\ prog' = [prog EXCEPT ![b] = @ \/ align]
  /\ hand' = [hand EXCEPT ![b] = FALSE]
  /\ pos' = [pos EXCEPT ![b] = goffset[b]]
  /\ rstate' = [rstate EXCEPT ![b] = "run"]
  /\ UNCHANGED <<mode, bad, src, queue, halt, goffset, data_error, iob, posVars, ethreads_running,
                 prev_err_cnt, tableVars, mpc, after, stripeVars, callVars, outVars, got, failed>>

-----------------------------------------------------------------------------
(* read_stripes()                                                          *)

\* a call fails: the handle stays as it is
Fail ==
  /\ mpc' = "idle" /\ failed' = TRUE
Crash == mpc' = "crash" /\ UNCHANGED failed

\* The position moves past the ioblocks in hand.  They go back, up to the first
\* block that has none.
\* Mutant: the release loop ends with the data blocks.
LeadingData == {b \in 0 .. (N - 1) : \A c \in 0 .. b : iob[c] # NULL}
Leading == {b \in Blocks : \A c \in 0 .. b : iob[c] # NULL}
read_stripes ==
  /\ mpc = "stripes"
  /\ IF sub_offset % N # 0 \/ sub_offset # iob_datasz * N
     THEN Fail /\ UNCHANGED <<depth, iob, posVars, stripeVars>>
     ELSE /\ iob_offset' = iob_offset + iob_datasz
          /\ sub_offset' = 0 /\ iob_datasz' = 0
          /\ depth' = [b \in Blocks |-> IF b \in Leading THEN depth[b] + 1 ELSE depth[b]]
          /\ iob' = [b \in Blocks |-> IF b \in Leading THEN NULL ELSE iob[b]]
          /\ cur_block' = 0 /\ nstripe_errors' = 0 /\ UNCHANGED cur_stripe
          /\ mpc' = "block" /\ UNCHANGED failed
  /\ UNCHANGED <<mode, bad, src, pos, queue, halt, rstate, hand, prog, goffset, data_error,
                 ethreads_running, prev_err_cnt, tableVars, after, callVars, outVars, got>>

\* One more block is needed for every error so far, and those that run anyway
MoreBlocks ==
  /\ cur_block < N + nstripe_errors \/ cur_block < N + ethreads_running
  /\ cur_block < N + E
Running(b) == b < N + ethreads_running

\* what is left on a queue goes back
Drain(b) ==
  /\ depth' = [depth EXCEPT ![b] = @ + Len(queue[b])]
  /\ queue' = [queue EXCEPT ![b] = <<>>]

\* the reference to an ioblock that has been released is dropped
DropRef(b) == iob' = [iob EXCEPT ![b] = NULL]

\* a reader that does not run: empty its queue, wait for its pause, ...
start_reader ==
  /\ mpc = "block" /\ MoreBlocks /\ ~Running(cur_block)
  /\ DropRef(cur_block)
  /\ Drain(cur_block)
  /\ mpc' = "restart"
  /\ UNCHANGED <<mode, bad, src, pos, halt, rstate, hand, prog, goffset, data_error, posVars,
                 ethreads_running, prev_err_cnt, tableVars, after, stripeVars, callVars, outVars,
                 got, failed>>

\* ... and let it run from here
Restart(b, off) ==
  /\ rstate[b] = "paused"
  /\ goffset' = [goffset EXCEPT ![b] = off]
  /\ halt' = [halt EXCEPT ![b] = FALSE]

restart_reader ==
  /\ mpc = "restart"
  /\ Restart(cur_block, iob_offset)
  /\ ethreads_running' = ethreads_running + 1
  /\ mpc' = "block"
  /\ UNCHANGED <<mode, bad, src, pos, queue, rstate, hand, prog, depth, data_error, iob, posVars,
                 prev_err_cnt, tableVars, after, stripeVars, callVars, outVars, got, failed>>

\* tq_dequeue(): an empty queue with HALT set gives NULL, which is used
dequeue ==
  /\ mpc = "block" /\ MoreBlocks /\ Running(cur_block)
  /\ queue[cur_block] # <<>> \/ halt[cur_block]
  /\ IF queue[cur_block] = <<>>
     THEN Crash /\ UNCHANGED <<queue, iob, iob_datasz, cur_block, nstripe_errors>>
     ELSE LET blk  == Head(queue[cur_block])
              errs == nstripe_errors + (IF blk.error_end > 0 THEN 1 ELSE 0)
          IN  /\ queue' = [queue EXCEPT ![cur_block] = Tail(@)]
              /\ iob' = [iob EXCEPT ![cur_block] = blk]
              /\ nstripe_errors' = errs
              /\ IF errs > E \/ iob_datasz \notin {0, Len(blk.data)}
                 THEN Fail /\ UNCHANGED <<iob_datasz, cur_block>>
                 ELSE /\ iob_datasz' = Len(blk.data)
                      /\ cur_block' = cur_block + 1
                      /\ UNCHANGED <<mpc, failed>>
  /\ UNCHANGED <<mode, bad, src, pos, halt, rstate, hand, prog, depth, goffset, data_error,
                 iob_offset, sub_offset, ethreads_running, prev_err_cnt, tableVars, after,
                 cur_stripe, callVars, outVars, got>>

\* All blocks are there.  For NE_RDONLY the erasure readers that neither this nor
\* the previous batch needed are halted.
Excess == IF mode = "NE_RDONLY" THEN (N + nstripe_errors) .. (N + prev_err_cnt - 1) ELSE {}
all_blocks ==
  /\ mpc = "block" /\ ~MoreBlocks
  /\ halt' = [b \in Blocks |-> halt[b] \/ b \in Excess]
  /\ ethreads_running' = ethreads_running - Cardinality(Excess)
  /\ prev_err_cnt' = IF mode = "NE_RDONLY" THEN nstripe_errors ELSE prev_err_cnt
  /\ cur_stripe' = IF nstripe_errors > 0 THEN iob_datasz ELSE 0
  /\ mpc' = "regenerate"
  /\ UNCHANGED <<mode, bad, src, pos, queue, rstate, hand, prog, depth, goffset, data_error, iob,
                 posVars, tableVars, after, cur_block, nstripe_errors, callVars, outVars, got,
                 failed>>

\* The decode tables for a list of bad blocks: which N blocks to decode from
\* (the first ones that are good), and what comes out.
FirstGood(errs) == SetToSortSeq(Blocks \ errs, <)
Tables(errs) == [errs |-> SetToSortSeq(errs, <), index |-> SubSeq(FirstGood(errs), 1, N)]

\* ec_encode_data(): what the j-th output of the tables is for stripe k, if the
\* bad blocks are errs.  It is right if the tables are made for this block, and
\* what they are applied to is N good parts of one stripe.
PartOf(b, k) == iob[b].data[k]
Decoded(t, errs, b, k) ==
  LET j == CHOOSE i \in 1 .. Len(errs) : errs[i] = b
  IN  IF /\ j <= Len(t.errs) /\ t.errs[j] = b
         /\ \A i \in 1 .. N : PartOf(t.index[i], k) = PartOf(t.index[1], k)
      THEN PartOf(t.index[1], k) ELSE JUNK

\* the tables are kept while the pattern of errors stays the same
\* Mutant: they are kept for good.
FreshTablesOnce(errs) == e_ready
FreshTables(errs) == e_ready /\ \A b \in 0 .. (cur_block - 1) : (b \in prev_in_err) = (b \in errs)

\* one stripe, from the last to the first
regenerate ==
  /\ mpc = "regenerate" /\ cur_stripe > 0
  /\ LET errs == {b \in 0 .. (cur_block - 1) : cur_stripe - 1 < iob[b].error_end}
         list == SetToSortSeq(errs, <)
         t    == IF FreshTables(errs) THEN tables ELSE Tables(errs)
     IN  /\ prev_in_err' = {b \in prev_in_err : b >= cur_block} \cup errs
         /\ e_ready' = TRUE /\ tables' = t
         /\ IF \E i \in 1 .. N : iob[t.index[i]] = NULL
            THEN Crash /\ UNCHANGED <<iob, cur_stripe>>
            ELSE /\ iob' = [b \in Blocks |->
                       IF b \in errs
                       THEN [data |-> [iob[b].data EXCEPT ![cur_stripe] = Decoded(t, list, b, cur_stripe)],
                             error_end |-> cur_stripe - 1]
                       ELSE iob[b]]
                 /\ cur_stripe' = cur_stripe - 1
                 /\ UNCHANGED <<mpc, failed>>
  /\ UNCHANGED <<mode, bad, readerVars, posVars, ethreads_running, prev_err_cnt, after, cur_block,
                 nstripe_errors, callVars, outVars, got>>

stripes_done ==
  /\ mpc = "regenerate" /\ cur_stripe = 0
  /\ mpc' = after
  /\ UNCHANGED <<mode, bad, readerVars, iob, posVars, ethreads_running, prev_err_cnt, tableVars,
                 after, stripeVars, callVars, outVars, got, failed>>

\* the caller of read_stripes() goes on at pc
CallStripes(pc) == mpc' = "stripes" /\ after' = pc
handleVars == <<mode, bad, readerVars, iob, ethreads_running, prev_err_cnt, tableVars, stripeVars>>

-----------------------------------------------------------------------------
(* ne_read()                                                               *)

Usable == mpc = "idle" /\ (Reuse \/ ~failed)

ne_read(bytes) ==
  /\ Usable /\ mode \in {"NE_RDONLY", "NE_RDALL"}
  /\ Offset < TotSz
  /\ want' = IF Offset + bytes > TotSz THEN TotSz - Offset ELSE bytes
  /\ mpc' = "read"
  /\ UNCHANGED <<handleVars, posVars, after, target, munch, outVars, got, failed>>

\* one part is copied to the caller's buffer, from the block it is in; the next
\* block of the stripe is looked at even if nothing more is wanted
CurPart  == sub_offset \div N
CurBlock == sub_offset % N
read_part ==
  /\ mpc = "read"
  /\ IF want = 0 /\ CurBlock = 0
     THEN mpc' = "idle" /\ UNCHANGED <<after, sub_offset, want, got, failed>>
     ELSE IF want > 0 /\ sub_offset >= iob_datasz * N
     THEN CallStripes("read") /\ UNCHANGED <<sub_offset, want, got, failed>>
     ELSE IF iob[CurBlock] = NULL
     THEN Crash /\ UNCHANGED <<after, sub_offset, want, got>>
     ELSE IF Len(iob[CurBlock].data) <= CurPart \/ iob[CurBlock].error_end > CurPart
     THEN Fail /\ UNCHANGED <<after, sub_offset, want, got>>
     ELSE IF want = 0
     THEN mpc' = "idle" /\ UNCHANGED <<after, sub_offset, want, got, failed>>
     ELSE /\ got' = [at |-> Offset, part |-> PartOf(CurBlock, CurPart + 1)]
          /\ sub_offset' = sub_offset + 1
          /\ want' = want - 1
          /\ UNCHANGED <<mpc, after, failed>>
  /\ UNCHANGED <<handleVars, iob_offset, iob_datasz, target, munch, outVars>>

-----------------------------------------------------------------------------
(* ne_seek()                                                               *)

\* The target may still come if the readers go on; or they must be sent back or
\* far ahead.
TgtStripe(off) == off \div N
MaxData == SuperBlockCnt * Split                    \* ioqueue_maxdata()
NeedsReseek(off) == iob_offset > TgtStripe(off) \/ iob_offset + MaxData < TgtStripe(off)

Seek(off, pc) ==
  /\ target' = off
  /\ IF NeedsReseek(off)
     THEN /\ mpc' = "reseek" /\ cur_block' = 0
          /\ UNCHANGED <<sub_offset, munch, after>>
     ELSE /\ sub_offset' = 0
          /\ munch' = TgtStripe(off) - iob_offset
          /\ IF iob_datasz = 0 THEN CallStripes(pc) ELSE mpc' = pc /\ UNCHANGED after
          /\ UNCHANGED cur_block

ne_seek(off) ==
  /\ Usable /\ mode \in {"NE_RDONLY", "NE_RDALL"}
  /\ Seek(IF off > TotSz THEN TotSz ELSE off, "munch")
  /\ UNCHANGED <<mode, bad, readerVars, iob, ethreads_running, prev_err_cnt, tableVars,
                 nstripe_errors, cur_stripe, iob_offset, iob_datasz, want, outVars, got, failed>>

\* each reader that runs: HALT, its ioblock goes back, and one from its queue in
\* case it waits for one ...
reseek_halt ==
  /\ mpc = "reseek" /\ Running(cur_block)
  /\ halt' = [halt EXCEPT ![cur_block] = TRUE]
  /\ depth' = [depth EXCEPT ![cur_block] =
                 @ + (IF iob[cur_block] # NULL THEN 1 ELSE 0)
                   + (IF queue[cur_block] # <<>> THEN 1 ELSE 0)]
  /\ DropRef(cur_block)
  /\ queue' = [queue EXCEPT ![cur_block] = IF @ = <<>> THEN @ ELSE Tail(@)]
  /\ mpc' = "reseek_wait"
  /\ UNCHANGED <<mode, bad, src, pos, rstate, hand, prog, goffset, data_error, posVars,
                 ethreads_running, prev_err_cnt, tableVars, after, stripeVars, callVars, outVars,
                 got, failed>>

\* ... and when it has paused, the rest of the queue, and on it goes
reseek_go ==
  /\ mpc = "reseek_wait"
  /\ Restart(cur_block, TgtStripe(target))
  /\ Drain(cur_block)
  /\ cur_block' = cur_block + 1
  /\ mpc' = "reseek"
  /\ UNCHANGED <<mode, bad, src, pos, rstate, hand, prog, data_error, iob, posVars,
                 ethreads_running, prev_err_cnt, tableVars, after, nstripe_errors, cur_stripe,
                 callVars, outVars, got, failed>>

reseek_done ==
  /\ mpc = "reseek" /\ ~Running(cur_block)
  /\ sub_offset' = 0 /\ iob_datasz' = 0
  /\ iob_offset' = TgtStripe(target)
  /\ munch' = 0
  /\ CallStripes(IF mode = "NE_REBUILD" THEN "rebuild" ELSE "munch")
  /\ UNCHANGED <<handleVars, want, target, outVars, got, failed>>

\* stripes between here and the target are read and dropped
munch_stripe ==
  /\ mpc = "munch"
  /\ IF munch = 0
     THEN /\ sub_offset' = sub_offset + (target % N)
          /\ mpc' = "idle" /\ UNCHANGED <<after, munch>>
     ELSE /\ sub_offset' = sub_offset + N
          /\ munch' = munch - 1
          /\ IF sub_offset' >= iob_datasz * N
             THEN CallStripes("munch") ELSE UNCHANGED <<mpc, after>>
  /\ UNCHANGED <<handleVars, iob_offset, iob_datasz, want, target, outVars, got, failed>>

-----------------------------------------------------------------------------
(* ne_rebuild()                                                            *)

\* ne_seed_status(): the caller knows of bad blocks
ne_seed_status(s) ==
  /\ Usable /\ mode = "NE_REBUILD"
  /\ data_error' = [b \in Blocks |-> data_error[b] \/ b \in s]
  /\ UNCHANGED <<mode, bad, src, pos, queue, halt, rstate, hand, prog, depth, goffset, iob, posVars,
                 ethreads_running, prev_err_cnt, tableVars, mpc, after, stripeVars, callVars,
                 outVars, got, failed>>

ne_rebuild ==
  /\ Usable /\ mode = "NE_REBUILD"
  /\ result' = -1
  /\ IF iob_offset # 0 \/ sub_offset # 0
     THEN Seek(0, "rebuild")
     ELSE mpc' = "rebuild" /\ UNCHANGED <<target, cur_block, sub_offset, munch, after>>
  /\ UNCHANGED <<mode, bad, readerVars, iob, ethreads_running, prev_err_cnt, tableVars,
                 nstripe_errors, cur_stripe, iob_offset, iob_datasz, want, outq, outdata, rebuilt,
                 got, failed>>

\* a writer for each block known to be bad by now
start_writers ==
  /\ mpc = "rebuild"
  /\ outq' = {b \in Blocks : data_error[b]}
  /\ outdata' = [b \in Blocks |-> <<>>]
  /\ rebuilt' = 0
  /\ mpc' = "copy"
  /\ UNCHANGED <<handleVars, posVars, after, callVars, result, got, failed>>

\* the parts of a batch are given to the writers
copy_out ==
  /\ mpc = "copy" /\ rebuilt < TotSz
  /\ IF sub_offset >= iob_datasz * N
     THEN CallStripes("copy") /\ UNCHANGED <<sub_offset, outdata, rebuilt, failed>>
     ELSE IF \E b \in outq : iob[b] = NULL
     THEN Crash /\ UNCHANGED <<after, sub_offset, outdata, rebuilt>>
     ELSE /\ outdata' = [b \in Blocks |-> IF b \in outq THEN outdata[b] \o iob[b].data ELSE <<>>]
          /\ rebuilt' = rebuilt + iob_datasz * N
          /\ sub_offset' = sub_offset + iob_datasz * N
          /\ UNCHANGED <<mpc, after, failed>>
  /\ UNCHANGED <<handleVars, iob_offset, iob_datasz, callVars, outq, result, got>>

\* The writers end; some may have failed.  The reader of a block that has been
\* rewritten is ended, and a new one started on the new file, at its end.
NewBad(b) == {<<b, s>> : s \in {k \in 0 .. (Stripes - 1) : outdata[b][k + 1] # k}}
Holding(b) == (IF iob[b] # NULL THEN 1 ELSE 0) + (IF hand[b] THEN 1 ELSE 0)
                + (IF prog[b] THEN 1 ELSE 0)
\* errors in blocks that had no writer
\* Mutant: they are not counted.
newerrsNone == 0
newerrs == Cardinality({b \in Blocks \ outq : data_error[b]})
rebuild_done ==
  /\ mpc = "copy" /\ rebuilt >= TotSz
  /\ \E fails \in SUBSET outq :
       LET good == outq \ fails
           On(f, v) == [b \in Blocks |-> IF b \in good THEN v ELSE f[b]]
       IN  /\ bad' = {d \in bad : d[1] \notin good} \cup UNION {NewBad(b) : b \in good}
           /\ src' = [b \in Blocks |-> BadIn(bad', b)]
           /\ pos' = On(pos, Stripes)
           /\ halt' = On(halt, FALSE) /\ rstate' = On(rstate, "run")
           /\ depth' = [b \in Blocks |-> IF b \in good THEN depth[b] + Holding(b) ELSE depth[b]]
           /\ hand' = On(hand, FALSE) /\ prog' = On(prog, FALSE) /\ iob' = On(iob, NULL)
           /\ goffset' = On(goffset, Stripes)
           /\ data_error' = On(data_error, FALSE)
           /\ result' = IF fails # {} THEN -1 ELSE newerrs
           /\ failed' = (failed \/ fails # {})
  /\ outq' = {} /\ outdata' = [b \in Blocks |-> <<>>] /\ rebuilt' = 0
  /\ mpc' = "idle"
  /\ UNCHANGED <<mode, queue, posVars, ethreads_running, prev_err_cnt, tableVars, after, stripeVars,
                 callVars, got>>

-----------------------------------------------------------------------------
Reader(b) == read_produce(b) \/ read_end(b) \/ read_resume(b)
Call ==
  \/ \E n \in ReadSizes : ne_read(n)
  \/ \E off \in SeekTargets : ne_seek(off)
  \/ \E s \in SUBSET Blocks : ne_seed_status(s)
  \/ ne_rebuild
InCall ==
  \/ read_stripes \/ start_reader \/ restart_reader \/ dequeue \/ all_blocks
  \/ regenerate \/ stripes_done
  \/ read_part \/ reseek_halt \/ reseek_go \/ reseek_done \/ munch_stripe
  \/ start_writers \/ copy_out \/ rebuild_done

Next == (\E b \in Blocks : Reader(b)) \/ Call \/ InCall
Spec == Init /\ [][Next]_vars

\* Readers and the master inside a call are scheduled.  No one has to call.
Fairness == WF_vars(InCall) /\ \A b \in Blocks : WF_vars(Reader(b))
LiveSpec == Spec /\ Fairness

-----------------------------------------------------------------------------
\* Every byte ne_read() returns is the byte that was written at that offset,
\* whatever was damaged, wherever the handle was sent before, and whichever readers
\* had to be started in mid object.
ReadIsRight == got # NoPart => got.part = got.at \div N

\* As long as no more than E blocks are damaged, no call fails: every part can be
\* regenerated.  (The errors of one batch are counted by block, not by stripe.)
NeverGivesUp == Cardinality(Damaged(bad)) <= E /\ mode # "NE_REBUILD" => ~failed

\* No ioblock is used that is not there.
NeverNull == mpc # "crash"

\* ne_rebuild() returns 0 only if it has left no damage on storage: damage found
\* after the writers were started counts as remaining.
RebuildRepairs == result = 0 => bad = {}

\* The ioblocks of every reader are in its ring, with the reader, on its queue or
\* with the handle.
Accounted(b) == depth[b] + Len(queue[b]) + Holding(b) = SuperBlockCnt
NoIoblockLost == mode # "NE_RDONLY" => \A b \in Blocks : Accounted(b)

\* Every call returns.
AtRest == mpc \in {"idle", "crash"}
CallsReturn == mode # "NE_RDONLY" /\ ~AtRest ~> AtRest

\* A read delivers what was written or fails, damage in E blocks never fails it, and the
\* handle does not run out of ioblocks on its way (read_stripes(), ne_read(), ne_seek()).
ReadsAreRight == ReadIsRight /\ NeverGivesUp /\ NeverNull /\ NoIoblockLost

\* A rebuild replaces no good part by a bad one, and has repaired all when it says so.
RebuildIsSafe == [][bad' \subseteq bad /\ RebuildRepairs']_vars
=============================================================================

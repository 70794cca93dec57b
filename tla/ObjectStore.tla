---------------------------- MODULE ObjectStore ----------------------------
(***************************************************************************)
(* An erasure-coded object on a POSIX DAL: the files of its N+E blocks     *)
(* (src/dal/posix_dal.c, src/dal/metainfo.c) under the calls of            *)
(* src/ne/ne.c that create, commit, check, rebuild and delete the object.  *)
(*                                                                         *)
(* A block has a data file and a meta file, each written under a working   *)
(* name (.partial, or .rebuild by a rebuild) and renamed into place.  One  *)
(* process at a time changes the object; it may crash between any two      *)
(* system calls, any system call may fail, and a reader and an ne_stat()   *)
(* run beside it.  Position i of the pattern is stored in block            *)
(* (i + O) % (N + E).                                                      *)
(***************************************************************************)
EXTENDS Integers, Sequences, FiniteSets, FiniteSetsExt

CONSTANTS
  N, E, O,            \* the erasure pattern
  MIN_PROTECTION, MIN_MD_CONSENSUS,
  MaxMishaps          \* bound on failing system calls, crashes and damaged blocks

ASSUME ObjectAssumption ==
  /\ N \in Nat \ {0} /\ E \in Nat /\ O \in 0 .. (N + E - 1)
  /\ MIN_PROTECTION \in Nat /\ MIN_MD_CONSENSUS \in Nat
  /\ MaxMishaps \in Nat

VARIABLES
  fs,                        \* fs[b][f]: the content of file f of block b
  away, moved,               \* the files of the migrated block at its new place; the block
  op,                        \* the call that changes the object
  tpc, mfd, derr, merr,      \* its writer threads: step, open meta file, errors
  cur,                       \* ne_delete(), posix_migrate(): block and step
  ret,                       \* what the last such call returned
  rd, st,                    \* the reader and the ne_stat() beside it
  acked, deleted, damaged,   \* history: closed well; a delete began; damaged blocks
  mishaps                    \* system calls that failed, crashes, damage so far

threadVars == <<tpc, mfd, derr, merr>>
histVars   == <<moved, acked, deleted, damaged>>
vars == <<fs, away, op, threadVars, cur, ret, rd, st, histVars, mishaps>>

Blocks == 0 .. (N + E - 1)
Pos    == Blocks
\* allocate_handle(): where position i is stored
Loc(i) == (i + O) % (N + E)

Sfxs  == {"", ".partial", ".rebuild"}
Files == {"data", "meta"} \X Sfxs
DATA  == <<"data", "">>
META  == <<"meta", "">>

Size == 2
Minfo(c) == [N |-> N, E |-> E, O |-> O, totsz |-> IF c = "other" THEN Size - 1 ELSE Size]
\* dal_get_meta_helper(): 0 only for a complete meta file
Readable(c) == c \in {"full", "other"}

Exists(b, f) == fs[b][f] # "none"
Complete(b)  == fs[b][DATA] = "full" /\ fs[b][META] = "full"

Fault == mishaps < MaxMishaps /\ mishaps' = mishaps + 1
NoFault == UNCHANGED mishaps

-----------------------------------------------------------------------------
(* The consensus of check_matches(): for each field the value of most      *)
(* blocks; of values as frequent, N and E the larger, totsz the smaller,   *)
(* the others the first.  The result is as large as N and E have matches.  *)
(* Its argument has the meta files that could be read, at their positions. *)

Matches(s, f, v) == Cardinality({k \in DOMAIN s : s[k][f] = v})
Frequent(s, f) ==
  LET values == {s[k][f] : k \in DOMAIN s}
      most == Max({Matches(s, f, v) : v \in values})
  IN  {v \in values : Matches(s, f, v) = most}
FirstOf(s, f) == s[Min({k \in DOMAIN s : s[k][f] \in Frequent(s, f)})][f]

check_matches(s) ==
  IF DOMAIN s = {} THEN [count |-> 0, minfo |-> Minfo("none")]
  ELSE LET n == Max(Frequent(s, "N"))
           e == Max(Frequent(s, "E"))
       IN  [count |-> Min({Matches(s, "N", n), Matches(s, "E", e)}),
            minfo |-> [N |-> n, E |-> e, O |-> FirstOf(s, "O"), totsz |-> Min(Frequent(s, "totsz"))]]

-----------------------------------------------------------------------------
Empty == [f \in Files |-> "none"]
NoReader == [pc |-> "idle", step |-> [i \in Pos |-> "meta"], m |-> [i \in Pos |-> "none"],
             d |-> [i \in Pos |-> "none"], totsz |-> 0, res |-> "none", safe |-> FALSE]
NoMetas == [b \in {} |-> "none"]
NoStat == [pc |-> "idle", at |-> 0, metas |-> NoMetas, merr |-> {}, derr |-> {}, max |-> N + E,
           res |-> "none"]
NoBlock == N + E
Idle == [step |-> "none", b |-> 0, ret |-> 0]

NoErrs == [i \in Pos |-> FALSE]
NoThreads == tpc = [i \in Pos |-> "idle"] /\ mfd = NoErrs /\ derr = NoErrs /\ merr = NoErrs
FreeThreads == tpc' = [i \in Pos |-> "idle"] /\ mfd' = NoErrs /\ derr' = NoErrs /\ merr' = NoErrs

Init ==
  /\ fs = [b \in Blocks |-> Empty] /\ away = Empty /\ moved = NoBlock
  /\ op = "none" /\ ret = 0 /\ cur = Idle
  /\ NoThreads
  /\ rd = NoReader /\ st = NoStat
  /\ acked = FALSE /\ deleted = FALSE /\ damaged = {}
  /\ mishaps = 0

-----------------------------------------------------------------------------
(* The writer threads, of ne_open() for writing and of ne_rebuild()        *)

\* ne_stat() is for an object that no one is changing; a bound on the interleavings: no
\* change begins before a handle that has its result is closed
Free == op = "none" /\ st.pc = "idle" /\ rd.pc # "open"
Sfx == IF op = "rebuild" THEN ".rebuild" ELSE ".partial"
Step(i, s) == tpc' = [tpc EXCEPT ![i] = s]

\* ne_open(): one writer thread for each position; no object ID is used twice
ne_open_write ==
  /\ Free /\ ~acked /\ ~deleted /\ \A b \in Blocks : fs[b] = Empty
  /\ op' = "write"
  /\ tpc' = [i \in Pos |-> "open_meta"]
  /\ UNCHANGED <<fs, away, mfd, derr, merr, cur, ret, rd, st, histVars, mishaps>>

\* ne_rebuild(): a writer thread for each position that is found bad
Bad(i) == ~Complete(Loc(i))
ne_rebuild ==
  /\ Free /\ ~deleted
  /\ \E i \in Pos : Bad(i)
  /\ Cardinality({b \in Blocks : fs[b][DATA] = "full"}) >= N
  /\ \E b \in Blocks : fs[b][META] = "full"
  /\ op' = "rebuild"
  /\ tpc' = [i \in Pos |-> IF Bad(i) THEN "open_meta" ELSE "done"]
  /\ UNCHANGED <<fs, away, mfd, derr, merr, cur, ret, rd, st, histVars, mishaps>>

\* posix_open(), first half: a meta file left behind is removed and created anew; a
\* failure is noted and the open goes on
posix_open_meta(i) ==
  /\ tpc[i] = "open_meta"
  /\ Step(i, "open_data")
  /\ \/ /\ fs' = [fs EXCEPT ![Loc(i)][<<"meta", Sfx>>] = "part"]
        /\ mfd' = [mfd EXCEPT ![i] = TRUE] /\ NoFault
     \/ /\ Fault /\ UNCHANGED <<fs, mfd>>
  /\ UNCHANGED <<away, op, derr, merr, cur, ret, rd, st, histVars>>

\* posix_open(), second half, and write_init(): without a data file there is no handle
posix_open_data(i) ==
  /\ tpc[i] = "open_data"
  /\ \/ /\ fs' = [fs EXCEPT ![Loc(i)][<<"data", Sfx>>] = "part"]
        /\ Step(i, "put") /\ NoFault /\ UNCHANGED <<mfd, derr>>
     \/ /\ Fault /\ Step(i, "ready") /\ derr' = [derr EXCEPT ![i] = TRUE]
        /\ mfd' = [mfd EXCEPT ![i] = FALSE] /\ UNCHANGED fs
  /\ UNCHANGED <<away, op, merr, cur, ret, rd, st, histVars>>

\* posix_put() by write_consume(): all the data of the block, or an error
posix_put(i) ==
  /\ tpc[i] = "put"
  /\ Step(i, "ready")
  /\ \/ /\ fs' = [fs EXCEPT ![Loc(i)][<<"data", Sfx>>] = "full"]
        /\ NoFault /\ UNCHANGED derr
     \/ /\ Fault /\ derr' = [derr EXCEPT ![i] = TRUE] /\ UNCHANGED fs
  /\ UNCHANGED <<away, op, mfd, merr, cur, ret, rd, st, histVars>>

\* ne_close(), or the end of ne_rebuild(): the threads are told to finish; ne_abort():
\* they are told to abort
Finishing(i) == tpc[i] \in {"ready", "done"}
ne_finish ==
  /\ op \in {"write", "rebuild"} /\ \A i \in Pos : Finishing(i)
  /\ \E i \in Pos : tpc[i] = "ready"
  /\ tpc' = [i \in Pos |-> IF tpc[i] = "ready" THEN "set_meta" ELSE tpc[i]]
  /\ UNCHANGED <<fs, away, op, mfd, derr, merr, cur, ret, rd, st, histVars, mishaps>>

ne_abort ==
  /\ op = "write" /\ \A i \in Pos : tpc[i] = "ready"
  /\ op' = "none" /\ ret' = 0 /\ FreeThreads
  /\ fs' = [b \in Blocks |-> [fs[b] EXCEPT ![<<"meta", Sfx>>] =
              IF \E i \in Pos : Loc(i) = b /\ mfd[i] THEN "full" ELSE @]]
  /\ UNCHANGED <<away, cur, rd, st, histVars, mishaps>>

\* write_term(): the meta file is written in any case; data_error aborts the block and
\* leaves its working files where they are
posix_set_meta(i) ==
  /\ tpc[i] = "set_meta"
  /\ \/ /\ mfd[i] /\ NoFault /\ UNCHANGED merr
        /\ fs' = [fs EXCEPT ![Loc(i)][<<"meta", Sfx>>] = "full"]
     \/ /\ IF mfd[i] THEN Fault ELSE NoFault
        /\ merr' = [merr EXCEPT ![i] = TRUE] /\ UNCHANGED fs
  /\ Step(i, IF derr[i] THEN "done" ELSE "rename_data")
  /\ UNCHANGED <<away, op, mfd, derr, cur, ret, rd, st, histVars>>

\* posix_close(): the data file is renamed into place, then the meta file.  Mutant: the
\* error of a block that is not put into place is lost.
Rename(b, kind) == [fs EXCEPT ![b][<<kind, "">>] = fs[b][<<kind, Sfx>>], ![b][<<kind, Sfx>>] = "none"]
CloseFailedUnseen(i) == UNCHANGED derr
CloseFailed(i) == derr' = [derr EXCEPT ![i] = TRUE]

posix_close_data(i) ==
  /\ tpc[i] = "rename_data"
  /\ \/ /\ mfd[i] /\ fs' = Rename(Loc(i), "data")
        /\ Step(i, "rename_meta") /\ NoFault /\ UNCHANGED derr
     \/ /\ IF mfd[i] THEN Fault ELSE NoFault
        /\ CloseFailed(i) /\ Step(i, "done") /\ UNCHANGED fs
  /\ UNCHANGED <<away, op, mfd, merr, cur, ret, rd, st, histVars>>

posix_close_meta(i) ==
  /\ tpc[i] = "rename_meta"
  /\ \/ /\ fs' = Rename(Loc(i), "meta") /\ NoFault /\ UNCHANGED derr
        /\ damaged' = IF merr[i] THEN damaged ELSE damaged \ {Loc(i)}
     \/ /\ Fault /\ CloseFailed(i) /\ UNCHANGED <<fs, damaged>>
  /\ Step(i, "done")
  /\ UNCHANGED <<away, op, mfd, merr, cur, ret, rd, st, moved, acked, deleted>>

\* ne_close(): with fewer than N + MIN_PROTECTION good blocks the object is deleted and
\* the close fails.  Mutant: it fails only when more than E blocks are bad.
numerrs == Cardinality({i \in Pos : derr[i] \/ merr[i]})
TooManyErrors == numerrs > 0 /\ numerrs > E - MIN_PROTECTION

AllDone == op \in {"write", "rebuild"} /\ \A i \in Pos : tpc[i] = "done"
ne_close_ok ==
  /\ AllDone /\ op = "write" /\ ~TooManyErrors
  /\ op' = "none" /\ ret' = numerrs /\ acked' = TRUE /\ FreeThreads
  /\ UNCHANGED <<fs, away, cur, rd, st, moved, deleted, damaged, mishaps>>
ne_close_unsafe ==
  /\ AllDone /\ op = "write" /\ TooManyErrors
  /\ op' = "delete" /\ deleted' = TRUE /\ FreeThreads
  /\ cur' = [step |-> "meta.sfx", b |-> 0, ret |-> -1]
  /\ UNCHANGED <<fs, away, ret, rd, st, moved, acked, damaged, mishaps>>
ne_rebuild_done ==
  /\ AllDone /\ op = "rebuild"
  /\ op' = "none" /\ ret' = numerrs /\ FreeThreads
  /\ UNCHANGED <<fs, away, cur, rd, st, histVars, mishaps>>

-----------------------------------------------------------------------------
(* ne_delete(): posix_del() of one block after the other.  block_delete()  *)
(* removes the working meta file, the meta file, the working data file and *)
(* the data file, and gives up the block at the first failure.             *)

DelOrder == <<"meta.sfx", "meta", "data.sfx", "data">>
DelFile  == [s \in {"meta.sfx", "meta", "data.sfx", "data"} |->
               CASE s = "meta.sfx" -> <<"meta", ".partial">> [] s = "meta" -> META
                 [] s = "data.sfx" -> <<"data", ".partial">> [] s = "data" -> DATA]
NextDel(s) ==
  LET k == CHOOSE j \in 1 .. 4 : DelOrder[j] = s IN IF k = 4 THEN "end" ELSE DelOrder[k + 1]
LastBlock == N + E - 1

ne_delete ==
  /\ Free /\ rd.pc = "idle" /\ (IF deleted THEN ret # 0 ELSE acked \/ ret # 0)
  /\ op' = "delete" /\ deleted' = TRUE
  /\ cur' = [step |-> "meta.sfx", b |-> 0, ret |-> 0]
  /\ UNCHANGED <<fs, away, threadVars, ret, rd, st, moved, acked, damaged, mishaps>>

block_delete ==
  /\ op = "delete" /\ cur.step # "end"
  /\ \/ /\ fs' = [fs EXCEPT ![cur.b][DelFile[cur.step]] = "none"]
        /\ cur' = [cur EXCEPT !.step = NextDel(cur.step)] /\ NoFault
     \/ /\ Exists(cur.b, DelFile[cur.step]) /\ Fault
        /\ cur' = [cur EXCEPT !.step = "end", !.ret = -1] /\ UNCHANGED fs
  /\ UNCHANGED <<away, op, threadVars, ret, rd, st, histVars>>

delete_next ==
  /\ op = "delete" /\ cur.step = "end"
  /\ IF cur.b < LastBlock
     THEN /\ cur' = [cur EXCEPT !.step = "meta.sfx", !.b = @ + 1] /\ UNCHANGED <<op, ret>>
     ELSE /\ op' = "none" /\ ret' = cur.ret /\ cur' = Idle
  /\ UNCHANGED <<fs, away, threadVars, rd, st, histVars, mishaps>>

-----------------------------------------------------------------------------
(* posix_migrate() of one block to another place                           *)

Mig(s) == cur' = [cur EXCEPT !.step = s]
MigDone(r) == op' = "none" /\ ret' = r /\ cur' = Idle
mVars == <<threadVars, rd, st, histVars>>

posix_migrate ==
  /\ Free /\ rd.pc = "idle" /\ moved = NoBlock /\ acked /\ ~deleted
  /\ \E b \in Blocks, step \in {"link_data", "symlink_data"} :
       /\ Complete(b)
       /\ op' = "migrate" /\ cur' = [step |-> step, b |-> b, ret |-> 0] /\ moved' = b
  /\ UNCHANGED <<fs, away, ret, threadVars, rd, st, acked, deleted, damaged, mishaps>>

\* offline: the data file, then the meta file get a second name; what cannot be linked is
\* copied
link_data ==
  /\ op = "migrate" /\ cur.step = "link_data"
  /\ \/ away' = [away EXCEPT ![DATA] = fs[cur.b][DATA]] /\ Mig("link_meta") /\ NoFault
     \/ Fault /\ Mig("copy_open") /\ UNCHANGED away
  /\ UNCHANGED <<fs, op, ret, mVars>>
link_meta ==
  /\ op = "migrate" /\ cur.step = "link_meta"
  /\ \/ away' = [away EXCEPT ![META] = fs[cur.b][META]] /\ Mig("unlink_data") /\ NoFault
     \/ Fault /\ Mig("unlink_dest") /\ UNCHANGED away
  /\ UNCHANGED <<fs, op, ret, mVars>>
unlink_dest ==
  /\ op = "migrate" /\ cur.step = "unlink_dest"
  /\ \/ away' = [away EXCEPT ![DATA] = "none"] /\ Mig("copy_open") /\ NoFault /\ UNCHANGED <<op, ret>>
     \/ Fault /\ MigDone(-2) /\ UNCHANGED away
  /\ UNCHANGED <<fs, mVars>>

\* then the old names go; a failure makes the result 1
Unlink(f, next) ==
  \/ fs' = [fs EXCEPT ![cur.b][f] = "none"] /\ cur' = [cur EXCEPT !.step = next] /\ NoFault
  \/ Fault /\ cur' = [cur EXCEPT !.step = next, !.ret = 1] /\ UNCHANGED fs
unlink_data ==
  /\ op = "migrate" /\ cur.step = "unlink_data" /\ Unlink(DATA, "unlink_meta")
  /\ UNCHANGED <<away, op, ret, mVars>>
unlink_meta ==
  /\ op = "migrate" /\ cur.step = "unlink_meta" /\ Unlink(META, "migrated")
  /\ UNCHANGED <<away, op, ret, mVars>>
migrated ==
  /\ op = "migrate" /\ cur.step = "migrated" /\ MigDone(cur.ret)
  /\ UNCHANGED <<fs, away, mishaps, mVars>>

\* manual_migrate(): both files are written under their working names; an error before the
\* close removes them
copy_open ==
  /\ op = "migrate" /\ cur.step = "copy_open"
  /\ \/ /\ away' = [away EXCEPT ![<<"meta", ".partial">>] = "part", ![<<"data", ".partial">>] = "part"]
        /\ Mig("copy_data") /\ NoFault /\ UNCHANGED <<op, ret>>
     \/ Fault /\ MigDone(-1) /\ UNCHANGED away
  /\ UNCHANGED <<fs, mVars>>
\* copied in full or removed.
Copied(kind) ==
  \/ /\ away' = [away EXCEPT ![<<kind, ".partial">>] = fs[cur.b][<<kind, "">>]]
     /\ Mig(IF kind = "data" THEN "copy_meta" ELSE "copy_close_data") /\ NoFault /\ UNCHANGED <<op, ret>>
  \/ /\ Fault /\ MigDone(-1)
     /\ away' = [away EXCEPT ![<<"meta", ".partial">>] = "none", ![<<"data", ".partial">>] = "none"]
copy_data ==
  /\ op = "migrate" /\ cur.step = "copy_data" /\ Copied("data") /\ UNCHANGED <<fs, mVars>>
copy_meta ==
  /\ op = "migrate" /\ cur.step = "copy_meta" /\ Copied("meta") /\ UNCHANGED <<fs, mVars>>
\* posix_close() of the copy, then posix_del() of the original
copy_close(kind, next) ==
  \/ /\ away' = [away EXCEPT ![<<kind, "">>] = away[<<kind, ".partial">>], ![<<kind, ".partial">>] = "none"]
     /\ Mig(next) /\ NoFault /\ UNCHANGED <<op, ret>>
  \/ Fault /\ MigDone(-1) /\ UNCHANGED away
copy_close_data ==
  /\ op = "migrate" /\ cur.step = "copy_close_data" /\ copy_close("data", "copy_close_meta")
  /\ UNCHANGED <<fs, mVars>>
copy_close_meta ==
  /\ op = "migrate" /\ cur.step = "copy_close_meta" /\ copy_close("meta", "meta.sfx")
  /\ UNCHANGED <<fs, mVars>>
copy_delete ==
  /\ op = "migrate" /\ cur.step \in DOMAIN DelFile
  /\ \/ /\ fs' = [fs EXCEPT ![cur.b][DelFile[cur.step]] = "none"] /\ NoFault
        /\ IF NextDel(cur.step) = "end" THEN MigDone(0)
           ELSE Mig(NextDel(cur.step)) /\ UNCHANGED <<op, ret>>
     \/ Exists(cur.b, DelFile[cur.step]) /\ Fault /\ MigDone(1) /\ UNCHANGED fs
  /\ UNCHANGED <<away, mVars>>

\* online: symbolic links to the old place, which stays as it is
symlink(step, kind, next) ==
  /\ op = "migrate" /\ cur.step = step
  /\ \/ /\ away' = [away EXCEPT ![<<kind, "">>] = fs[cur.b][<<kind, "">>]] /\ NoFault
        /\ IF next = "end" THEN MigDone(0) ELSE Mig(next) /\ UNCHANGED <<op, ret>>
     \/ Fault /\ MigDone(-1) /\ UNCHANGED away
  /\ UNCHANGED <<fs, mVars>>

-----------------------------------------------------------------------------
(* ne_open() for reading, and the reads that follow                        *)

\* the object was closed well, is still there where it was written, and no more blocks are
\* damaged than it has to spare
Spare == Cardinality(damaged) <= Min({E, MIN_PROTECTION})
Safe == acked /\ ~deleted /\ moved = NoBlock /\ Spare

\* ne_open(): the files of a position are opened by read_init() of a thread of its own.
\* There is no reader while an object is first written, moved or removed.
ne_open_read ==
  /\ rd.pc = "idle" /\ st.pc = "idle" /\ op \in {"none", "rebuild"} /\ (acked \/ ret # 0)
  /\ rd' = [NoReader EXCEPT !.pc = "init", !.safe = Safe]
  /\ UNCHANGED <<fs, away, op, threadVars, cur, ret, st, histVars, mishaps>>

RdSet(i, s, m, d) == rd' = [rd EXCEPT !.step[i] = s, !.m[i] = m, !.d[i] = d]
\* read_init(): posix_open() takes the meta file, then the data file; without the data
\* file the meta file is opened once more.  The threads are taken in the order in which
\* they are started.
read_init(i) ==
  /\ rd.pc = "init" /\ \A j \in 0 .. (i - 1) : rd.step[j] = "ready"
  /\ \/ rd.step[i] = "meta" /\ RdSet(i, "data", fs[Loc(i)][META], "none")
     \/ /\ rd.step[i] = "data"
        /\ RdSet(i, IF Exists(Loc(i), DATA) THEN "ready" ELSE "metaread", rd.m[i], fs[Loc(i)][DATA])
     \/ rd.step[i] = "metaread" /\ RdSet(i, "ready", fs[Loc(i)][META], "none")
  /\ UNCHANGED <<fs, away, op, threadVars, cur, ret, st, histVars, mishaps>>

Minfos(metas) == [k \in DOMAIN metas |-> Minfo(metas[k])]
\* ne_convert_handle(): the consensus of the blocks with a readable meta file; blocks that
\* differ are in error.  Mutant: the first readable meta file is believed.
ReadableMetas(m) == [i \in {j \in DOMAIN m : Readable(m[j])} |-> m[i]]
ConsensusFirst(m) ==
  LET r == ReadableMetas(m)
  IN  check_matches([i \in {j \in DOMAIN r : \A k \in DOMAIN r : j <= k} |-> Minfo(r[i])])
Consensus(m) == check_matches(Minfos(ReadableMetas(m)))
\* any agreement will do.
Enough(c) == c.count > 0
\* ne_read(): the parts of N good blocks make a stripe, whatever their meta files say
ne_convert_handle ==
  /\ rd.pc = "init" /\ \A i \in Pos : rd.step[i] = "ready"
  /\ LET c == Consensus(rd.m)
         good == {i \in Pos : rd.d[i] = "full"}
     IN  rd' = [NoReader EXCEPT !.pc = "open", !.totsz = c.minfo.totsz, !.safe = rd.safe,
                  !.res = IF Enough(c) /\ Cardinality(good) >= N THEN "ok" ELSE "error"]
  /\ UNCHANGED <<fs, away, op, threadVars, cur, ret, st, histVars, mishaps>>

-----------------------------------------------------------------------------
(* ne_stat(): one block after the other, in the order of the blocks        *)

ne_stat ==
  /\ Free /\ rd.pc = "idle"
  /\ st' = [NoStat EXCEPT !.pc = "scan"]
  /\ UNCHANGED <<fs, away, op, threadVars, cur, ret, rd, histVars, mishaps>>

stat_block ==
  /\ st.pc = "scan" /\ st.at < st.max
  /\ LET m == fs[st.at][META]
         metas == IF Readable(m)
                  THEN [b \in DOMAIN st.metas \cup {st.at} |-> IF b = st.at THEN m ELSE st.metas[b]]
                  ELSE st.metas
         c == check_matches(Minfos(metas))
     IN  st' = [st EXCEPT !.at = @ + 1, !.metas = metas,
                  !.merr = IF Readable(m) THEN @ ELSE @ \cup {st.at},
                  !.derr = IF Exists(st.at, DATA) THEN @ ELSE @ \cup {st.at},
                  !.max = IF c.count > MIN_MD_CONSENSUS THEN c.minfo.N + c.minfo.E ELSE @]
  /\ UNCHANGED <<fs, away, op, threadVars, cur, ret, rd, histVars, mishaps>>

\* the errors of block (i + O) % (N + E) are reported for position i.
Translate(errs) == {i \in Pos : Loc(i) \in errs}
stat_done ==
  /\ st.pc = "scan" /\ st.at >= st.max
  /\ LET c == check_matches(Minfos(st.metas))
         other == {b \in Blocks : Readable(fs[b][META]) /\ Minfo(fs[b][META]) # c.minfo}
     IN  st' = [NoStat EXCEPT !.pc = "open",
                  !.res = IF DOMAIN st.metas # {} /\ c.count >= c.minfo.N THEN "ok" ELSE "error",
                  !.merr = Translate(st.merr \cup other), !.derr = Translate(st.derr)]
  /\ UNCHANGED <<fs, away, op, threadVars, cur, ret, rd, histVars, mishaps>>

\* ne_close() of a handle that was not written
ne_close_read ==
  /\ rd.pc = "open" \/ st.pc = "open"
  /\ rd' = NoReader /\ st' = NoStat
  /\ UNCHANGED <<fs, away, op, threadVars, cur, ret, histVars, mishaps>>

-----------------------------------------------------------------------------
(* Faults: the process that changes the object dies; the storage loses or  *)
(* damages a file of a block                                               *)

Crash ==
  /\ op # "none" /\ Fault
  /\ op' = "none" /\ cur' = Idle /\ ret' = -1
  /\ FreeThreads
  /\ UNCHANGED <<fs, away, rd, st, histVars>>

Votes(c) == Cardinality({b \in Blocks : fs[b][META] = c})
Damage(b, f, c) ==
  /\ acked /\ ~deleted /\ op = "none" /\ rd.pc = "idle" /\ st.pc = "idle" /\ moved = NoBlock
  /\ b \notin damaged /\ Fault
  /\ Exists(b, f)
  /\ c = "other" => f = META
  /\ c = "junk" => f = DATA
  /\ fs' = [fs EXCEPT ![b][f] = c]
  /\ damaged' = damaged \cup {b}
  /\ UNCHANGED <<away, op, threadVars, cur, ret, rd, st, moved, acked, deleted>>

-----------------------------------------------------------------------------
WriterThread(i) ==
  \/ posix_open_meta(i) \/ posix_open_data(i) \/ posix_put(i)
  \/ posix_set_meta(i) \/ posix_close_data(i) \/ posix_close_meta(i)
Migrate ==
  \/ posix_migrate \/ link_data \/ link_meta \/ unlink_dest \/ unlink_data \/ unlink_meta \/ migrated
  \/ copy_open \/ copy_data \/ copy_meta \/ copy_close_data \/ copy_close_meta \/ copy_delete
  \/ symlink("symlink_data", "data", "symlink_meta") \/ symlink("symlink_meta", "meta", "end")

Next ==
  \/ ne_open_write \/ ne_rebuild \/ ne_finish \/ ne_abort
  \/ \E i \in Pos : WriterThread(i)
  \/ ne_close_ok \/ ne_close_unsafe \/ ne_rebuild_done
  \/ ne_delete \/ block_delete \/ delete_next
  \/ Migrate
  \/ ne_open_read \/ (\E i \in Pos : read_init(i)) \/ ne_convert_handle \/ ne_close_read
  \/ ne_stat \/ stat_block \/ stat_done
  \/ Crash \/ (\E b \in Blocks, f \in {DATA, META}, c \in {"none", "junk", "other"} : Damage(b, f, c))

Spec == Init /\ [][Next]_vars
-----------------------------------------------------------------------------
(* Properties                                                              *)

\* Once ne_close() has returned success, at least N + MIN_PROTECTION blocks (all, if that
\* is fewer) have both files in place, but for those the storage damaged: no crash and no
\* failure in a rebuild, and no abandoned migration, costs a block.
Stored(b) == Complete(b) \/ (b = moved /\ away[DATA] = "full" /\ away[META] = "full")
AckedIsProtected ==
  acked /\ ~deleted =>
    Cardinality({b \in Blocks : Stored(b) \/ b \in damaged}) >= Min({N + E, N + MIN_PROTECTION})

\* An open and a read that succeed give the object with the size it was written with, at
\* whatever point the writer, a rebuild or a delete is or was cut off, unless as many
\* meta files name another size as name the right one.
Saw(c) == Cardinality({i \in Pos : rd.m[i] = c})
ReadIsSound ==
  rd.pc = "init" /\ rd'.res = "ok" /\ Saw("full") > Saw("other") => rd'.totsz = Size

\* An object that was closed well and not deleted or moved, with at most as many blocks
\* damaged as it has to spare, can be opened and read at any moment, whatever rebuilds
\* begin, go on or die while it is being opened.
ReadSucceeds == rd.safe => rd.res # "error"

\* When ne_delete() returns 0, no file of the object is left but those of a rebuild that
\* was cut off.
DeleteLeavesNothing ==
  op = "delete" /\ op' = "none" /\ ret' = 0
    => \A b \in Blocks, f \in Files : f[2] # ".rebuild" => fs'[b][f] = "none"

\* A block that is migrated is complete at its old or at its new place at every moment,
\* and a result of 0 or 1 means that it is complete at the new one.
MigrateKeepsBlock ==
  /\ moved # NoBlock /\ ~deleted' => Stored(moved)'
  /\ op = "migrate" /\ op' = "none" /\ ret' \in {0, 1} => away'[DATA] = "full" /\ away'[META] = "full"

\* ne_stat() reports a position as bad exactly if its block lacks a file or holds a meta
\* file that is not like most others.
StatTellsTruth ==
  st.pc = "scan" /\ Votes("full") > Votes("other") /\ st'.res = "ok" =>
    /\ st'.derr = {i \in Pos : ~Exists(Loc(i), DATA)}
    /\ st'.merr = {i \in Pos : fs[Loc(i)][META] # "full"}

\* An object whose close succeeded is protected and can be read, whatever failed or died in a
\* write, a rebuild or a migration.
ObjectIsSafe == AckedIsProtected /\ ReadSucceeds

\* What ne_read(), ne_delete(), posix_migrate() and ne_stat() answer is what is on storage.
AnswersAreTrue == [][ReadIsSound /\ DeleteLeavesNothing /\ MigrateKeepsBlock /\ StatTellsTruth]_vars
=============================================================================

---------------------------- MODULE ResourceLog ----------------------------
(* The resource logs of the resource manager: what the ranks of a run start *)
(* and complete, what the manager keeps of it, and what a later run makes   *)
(* of the logs it finds (resourcelog.c, its callers in resourcemanager.c    *)
(* and resourcethreads.c).  One namespace; a chain of operations belongs to *)
(* the stream a walk of its rank comes to.                                  *)
EXTENDS Naturals, Sequences, FiniteSets, SequencesExt

CONSTANTS
  Ranks,      \* the ranks, each with a log of its own
  Ops,        \* the operations of the chains, [chain -> Seq([type, cnt])]
  Owner,      \* the rank whose walk comes to the stream of a chain
  Mixes,      \* the sets of chains that may be found in a run
  MaxFaults   \* how many operations fail, in all

VARIABLES
  mix,        \* the chains there are to be found
  run,        \* a "dry" or "first" run, the "exec" or "second" one after it; "refused", "off"
  dirs,       \* which of the directories of the iteration exist
  disk,       \* the log files of this iteration
  errlog,     \* the error logs of this iteration
  old,        \* the logs an earlier iteration left, and how far they were read
  rank,       \* the state of the ranks: the log in memory, and where they are
  work,       \* the parts of operations that the threads of a rank have to do
  failures,   \* history: the ends of operations that failed, in the order of the log
  faults

lvars == <<mix, run, dirs, disk, errlog, old, rank, work, failures, faults>>

Chains == DOMAIN Ops
OpIds  == UNION {{<<c, i>> : i \in DOMAIN Ops[c]} : c \in Chains}
Type(o) == Ops[o[1]][o[2]].type
Cnt(o)  == Ops[o[1]][o[2]].cnt
NoFile == <<[op |-> <<>>, start |-> FALSE, cnt |-> 0, err |-> FALSE, more |-> TRUE, whole |-> TRUE]>>

-----------------------------------------------------------------------------
(* Lines.  A line holds an operation that starts or ended; one that others  *)
(* of its chain follow says so; the last line of a file may be torn.        *)

\* printlogline(): a line for each operation of a chain
Lines(ops) == [i \in DOMAIN ops |-> ops[i] @@ [more |-> i < Len(ops), whole |-> TRUE]]
\* the first n lines were written when the process died or the disk was full, and perhaps
\* a part of the next one
Cut(ops, n, torn) ==
  [i \in 1 .. IF torn THEN n + 1 ELSE n |-> [Lines(ops)[i] EXCEPT !.whole = i <= n]]
StartOps(c) ==
  [i \in DOMAIN Ops[c] |-> [op |-> <<c, i>>, start |-> TRUE, cnt |-> Ops[c][i].cnt, err |-> FALSE]]
EndOp(o, n, err) == <<[op |-> o, start |-> FALSE, cnt |-> n, err |-> err]>>

\* parselogline(): what is read from line p on.  eof: 1 the end, 2 (-1 in the code) a torn line, 0 neither.  A
\* chain that is cut short is the end, and no part of it is returned.
ChainEnd(f, p) == SelectInSubSeq(f, p, Len(f), LAMBDA l : ~l.whole \/ ~l.more)
Parse(f, p) ==
  LET q == ChainEnd(f, p)
  IN  IF q = 0 THEN [ops |-> <<>>, next |-> Len(f) + 1, eof |-> 1]
      ELSE IF ~f[q].whole THEN [ops |-> <<>>, next |-> q + 1, eof |-> 2]
      ELSE [ops |-> SubSeq(f, p, q), next |-> q + 1, eof |-> 0]
\* all a reader gets, one chain after the other, and how the file ends
Ends(f)    == {q \in DOMAIN f : f[q].whole /\ ~f[q].more}
NthEnd(f, k) == CHOOSE q \in Ends(f) : Cardinality({e \in Ends(f) : e <= q}) = k
ReadAll(f) ==
  [k \in 1 .. Cardinality(Ends(f)) |-> SubSeq(f, IF k = 1 THEN 1 ELSE NthEnd(f, k - 1) + 1, NthEnd(f, k))]
Torn(f) == f # <<>> /\ ~f[Len(f)].whole

-----------------------------------------------------------------------------
(* The log in memory: the chains in progress, with what is left of each    *)
(* operation, the number of operations that are outstanding, and how many   *)
(* targets were done and failed                                             *)

NewLog(type) == [type |-> type, prog |-> <<>>, out |-> 0, done |-> 0, failed |-> 0]
Entries(ops) == [i \in DOMAIN ops |-> [op |-> ops[i].op, left |-> ops[i].cnt, err |-> FALSE]]
Position(ch, o) == SelectInSeq(ch, LAMBDA e : e.op = o)
Find(m, o) == SelectInSeq(m.prog, LAMBDA ch : Position(ch, o) # 0)
Total(ops) == FoldLeft(LAMBDA n, l : n + l.cnt, 0, ops)

\* processopinfo() of a chain that starts.  Only a log of modifications keeps it; one that is
\* known is started again, and so are those behind it.
StartNew(m, ops) ==
  IF m.type = "modify"
  THEN [m EXCEPT !.prog = Append(@, Entries(ops)), !.out = @ + Len(ops)]
  ELSE [m EXCEPT !.done = @ + Total(ops)]
Restarted(ch, i, ops) ==
  [j \in DOMAIN ch |-> IF j \in i .. i + Len(ops) - 1 /\ ops[j + 1 - i].cnt > ch[j].left
                       THEN [ch[j] EXCEPT !.left = ops[j + 1 - i].cnt] ELSE ch[j]]
StartAgain(m, ops) ==
  LET n    == Find(m, ops[1].op)
      ch   == m.prog[n]
      re   == Restarted(ch, Position(ch, ops[1].op), ops)
      idle == {j \in DOMAIN ch : ch[j].left = 0 /\ re[j].left > 0}
  IN  [m EXCEPT !.prog[n] = re, !.out = @ + Cardinality(idle)]
Started(m, ops) == IF Find(m, ops[1].op) = 0 THEN StartNew(m, ops) ELSE StartAgain(m, ops)

\* processopinfo() of an operation that ends.  progress: 0 others of its kind are under way, 1
\* the chain may go on, 2 it may not.  An end the log did not expect is an error.
Alike(ch, i, j) == j # i /\ ch[j].left > 0
  /\ \A k \in IF i < j THEN i .. j ELSE j .. i : Type(ch[k].op) = Type(ch[i].op)
Known(m, l) == Find(m, l.op) # 0
  /\ l.cnt <= m.prog[Find(m, l.op)][Position(m.prog[Find(m, l.op)], l.op)].left
\* the chain is dropped with its last operation
Dropped(ch, i) == i = Len(ch) /\ \A j \in 1 .. i - 1 : ch[j].left = 0
\* Mutant: what is left of the operation itself is not looked at.
ProgressEarly(ch, i) == IF \E j \in DOMAIN ch : Alike(ch, i, j) THEN 0 ELSE IF ch[i].err THEN 2 ELSE 1
Progress(ch, i) ==
  IF ch[i].left > 0 \/ \E j \in DOMAIN ch : Alike(ch, i, j) THEN 0 ELSE IF ch[i].err THEN 2 ELSE 1
CountedOut(m, ch, i) == IF ch[i].left > 0 THEN m.out ELSE m.out - 1
Ended(m, l) ==
  LET n  == Find(m, l.op)
      i  == Position(m.prog[n], l.op)
      ch == [m.prog[n] EXCEPT ![i].left = @ - l.cnt, ![i].err = @ \/ l.err]
  IN  [log |-> [m EXCEPT !.prog = IF ch[i].left = 0 /\ Dropped(ch, i) THEN RemoveAt(@, n) ELSE [@ EXCEPT ![n] = ch],
                         !.out = CountedOut(m, ch, i), !.done = @ + l.cnt,
                         !.failed = IF l.err THEN @ + l.cnt ELSE @],
       progress |-> Progress(ch, i)]

-----------------------------------------------------------------------------
(* A rank: it makes the directories and the log, its producers start the   *)
(* chains of a walk or of a recorded log, its consumers do the parts of     *)
(* them, and the log is terminated when all are through                     *)

RankAt(r, s) == rank[r].at = s
RankTo(r, s) == rank' = [rank EXCEPT ![r].at = s]
LogType == IF run = "dry" THEN "record" ELSE "modify"
OffRank == [at |-> "off", log |-> NewLog("record"), begun |-> {}, errors |-> FALSE]
NoWork  == [parts |-> [o \in OpIds |-> 0], giveup |-> {}]

\* the manager makes the directory of the iteration with the summary in it before all else
NewIteration == {"iteration", "summary"}
\* setranktgt(): resourcelog_genlogpath() makes the directory of the namespace in it
MakeNamespace(r) ==
  /\ RankAt(r, "off") /\ dirs' = dirs \cup {"iteration", "namespace"} /\ RankTo(r, "open")
  /\ UNCHANGED <<mix, run, disk, errlog, old, work, failures, faults>>
\* resourcelog_init()
OpenLog(r) ==
  /\ RankAt(r, "open")
  /\ IF "namespace" \in dirs
     THEN /\ disk' = [disk EXCEPT ![r] = <<>>]
          /\ rank' = [rank EXCEPT ![r] = [@ EXCEPT !.at = "work", !.log = NewLog(LogType)]]
     ELSE UNCHANGED disk /\ RankTo(r, "fatal")
  /\ UNCHANGED <<mix, run, dirs, errlog, old, work, failures, faults>>

\* what the producer hands out: objects to delete one by one, each with the deletion of the
\* references behind it, other operations whole, each of a chain of rebuilds for itself
HandedOut(c) ==
  [o \in OpIds |-> IF o[1] # c THEN 0
                   ELSE IF Type(o) = "obj" THEN Cnt(o)
                   ELSE IF Type(o) = "ref" /\ o[2] > 1 THEN 0 ELSE 1]
\* resourcelog_processop() of a chain that starts: first memory, then the file
LogStart(r, c, ops) ==
  /\ rank' = [rank EXCEPT ![r] = [@ EXCEPT !.log = Started(@, ops), !.begun = @ \cup {c}]]
  /\ disk' = [disk EXCEPT ![r] = @ \o Lines(ops)]
  /\ work' = IF run = "dry" THEN work
             ELSE [work EXCEPT ![r].parts = [o \in OpIds |-> @[o] + HandedOut(c)[o]]]
\* a walk comes to the stream of a chain
Walk(r, c) ==
  /\ RankAt(r, "work") /\ run # "exec" /\ c \in mix /\ Owner[c] = r /\ c \notin rank[r].begun
  /\ LogStart(r, c, StartOps(c))
  /\ UNCHANGED <<mix, run, dirs, errlog, old, failures, faults>>

\* process_executeoperation(): a part is done, with an error or without one, and its end is
\* logged.  Whoever ends the last of its kind goes on with the deletion of the references, or
\* logs that it was given up.  An end the log does not know ends the run.
Behind(o) == {p \in OpIds : p[1] = o[1] /\ p[2] = Len(Ops[o[1]]) /\ Type(p) = "ref" /\ Type(o) = "obj"}
PartSize(o) == IF Type(o) = "obj" THEN 1 ELSE Cnt(o)
LogEnd(r, o, err, left) ==
  \E l \in {EndOp(o, PartSize(o), err)} :
      IF ~Known(rank[r].log, l[1]) THEN RankTo(r, "fatal") /\ UNCHANGED <<disk, work, failures>>
      ELSE \E e \in {Ended(rank[r].log, l[1])} :
           /\ rank' = [rank EXCEPT ![r].log = e.log]
           /\ disk' = [disk EXCEPT ![r] = @ \o Lines(l)]
           /\ failures' = IF err THEN [failures EXCEPT ![r] = @ \o Lines(l)] ELSE failures
           /\ work' = [work EXCEPT ![r] =
                [parts  |-> [p \in OpIds |-> IF p \in Behind(o) /\ e.progress = 1 THEN 1 ELSE left.parts[p]],
                 giveup |-> left.giveup \cup IF e.progress = 2 THEN Behind(o) ELSE {}]]
Execute(r, o) ==
  /\ RankAt(r, "work") /\ work[r].parts[o] > 0
  /\ \E err \in BOOLEAN :
       /\ err => faults < MaxFaults
       /\ faults' = IF err THEN faults + 1 ELSE faults
       /\ LogEnd(r, o, err, [work[r] EXCEPT !.parts[o] = @ - 1])
  /\ UNCHANGED <<mix, run, dirs, errlog, old>>
GiveUp(r, o) ==
  /\ RankAt(r, "work") /\ o \in work[r].giveup
  /\ LogEnd(r, o, TRUE, [work[r] EXCEPT !.giveup = @ \ {o}])
  /\ UNCHANGED <<mix, run, dirs, errlog, old, faults>>
\* nothing left to do: resourcelog_term() refuses while operations are outstanding, and says
\* if some failed
NothingToDo(r) == work[r] = NoWork
NoInput(r) == run = "exec" => ~old[r].wanted
Terminate(r) ==
  /\ RankAt(r, "work") /\ NothingToDo(r) /\ NoInput(r)
  /\ IF rank[r].log.out # 0 THEN RankTo(r, "fatal")
     ELSE rank' = [rank EXCEPT ![r] = [@ EXCEPT !.at = "done", !.errors = rank[r].log.failed > 0]]
  /\ UNCHANGED <<mix, run, dirs, disk, errlog, old, work, failures, faults>>

-----------------------------------------------------------------------------
(* The manager, when a rank reports that it is through                      *)

\* resourcelog_replay() into an error log, of what error_only_filter() lets through: chains
\* whose first operation failed.  The log goes when all of it was read.  Mutant: the operations
\* that did not fail.
FilteredOut(f) == SelectSeq(ReadAll(f), LAMBDA ops : ~ops[1].err)
Filtered(f) == SelectSeq(ReadAll(f), LAMBDA ops : ops[1].err)
\* a dry run is given to preserve its logs (a link to the file)
Preserved(r) == IF run = "dry" THEN [old EXCEPT ![r].file = disk[r]] ELSE old
\* resourcelog_term() deletes the log
WithoutLog(r) == [disk EXCEPT ![r] = NoFile]
Gather(r) ==
  /\ RankAt(r, "done")
  /\ old' = Preserved(r)
  /\ errlog' = IF rank[r].errors THEN [errlog EXCEPT ![r] = FlattenSeq(Filtered(disk[r]))] ELSE errlog
  /\ disk' = WithoutLog(r)
  /\ RankTo(r, "unlinked")
  /\ UNCHANGED <<mix, run, dirs, work, failures, faults>>
\* resourcelog_term(): the directory above, unless something is left in it.  (That of the
\* iteration, which it tries next, holds the summary.)
RemoveNamespace(r) ==
  /\ RankAt(r, "unlinked") /\ RankTo(r, "over")
  /\ dirs' = IF \A q \in Ranks : disk[q] = NoFile /\ errlog[q] = NoFile THEN dirs \ {"namespace"} ELSE dirs
  /\ UNCHANGED <<mix, run, disk, errlog, old, work, failures, faults>>
\* the end of managerbehavior(): when no rank met a fatal error the summary goes, and the
\* directory of the iteration, unless something is left in it.
Finished == IF "namespace" \in dirs THEN dirs \ {"summary"} ELSE {}
FinishRun ==
  /\ "summary" \in dirs /\ \A r \in Ranks : RankAt(r, "over")
  /\ dirs' = Finished
  /\ UNCHANGED <<mix, run, disk, errlog, old, rank, work, failures, faults>>

-----------------------------------------------------------------------------
(* The run dies, or cannot write, and another one finds its logs            *)

Ending == {"over", "fatal", "dead"}
Resting == \A r \in Ranks : rank[r].at \in Ending
\* the run is gone, with all its ranks, when one of them was about to write the lines ops
Die(r, ops) ==
  /\ RankAt(r, "work") /\ run \in {"dry", "first"}
  /\ \E n \in 0 .. Len(ops) - 1, torn \in BOOLEAN : disk' = [disk EXCEPT ![r] = @ \o Cut(ops, n, torn)]
  /\ rank' = [q \in Ranks |-> IF rank[q].at \in Ending THEN rank[q] ELSE [rank[q] EXCEPT !.at = "dead"]]
  /\ UNCHANGED <<mix, run, dirs, errlog, old, work, failures, faults>>
DieStarting(r, c) == c \in mix /\ Owner[c] = r /\ c \notin rank[r].begun /\ Die(r, StartOps(c))
DieEnding(r, o)   == work[r].parts[o] > 0 /\ Die(r, EndOp(o, PartSize(o), FALSE))

\* findoldlogs(): an iteration is left alone when its summary is missing or it ran with other
\* thresholds; it is an error when it is too young, or its summary makes no sense; else each
\* log found is to be read.  A run of recorded operations does not look at the summary.
Wanted(how) ==
  CASE run = "dry" \/ how = "same"      -> {q \in Ranks : old[q].file # NoFile \/ disk[q] # NoFile}
    [] how \in {"missing", "different"} -> {}
Refused(how) == run = "first" /\ how \in {"young", "senseless"}
Summaries == {"same", "missing", "different", "young", "senseless"}
Kept(q) == IF disk[q] # NoFile THEN disk[q] ELSE old[q].file
NextRun(how) ==
  /\ Resting /\ run \in {"dry", "first"} /\ (run = "dry" => how = "same")
  /\ run' = IF Refused(how) THEN "refused" ELSE IF run = "dry" THEN "exec" ELSE "second"
  /\ old' = [q \in Ranks |-> [file |-> Kept(q), wanted |-> ~Refused(how) /\ q \in Wanted(how), next |-> 1, gone |-> FALSE]]
  /\ disk' = [r \in Ranks |-> NoFile] /\ errlog' = [r \in Ranks |-> NoFile]
  /\ failures' = [r \in Ranks |-> <<>>]
  /\ rank' = [r \in Ranks |-> OffRank] /\ work' = [r \in Ranks |-> NoWork] /\ dirs' = NewIteration
  /\ UNCHANGED <<mix, faults>>

\* handlerequest() of RLOG_WORK: rank r is to take on the log q, by reading it in a run of
\* recorded operations, and else by replaying it into its own log
Requested(r, q, how) == RankAt(r, "work") /\ run = how /\ old[q].wanted
\* resourcelog_replay(), line by line; a torn line is an error, and the log stays.  Old logs
\* are handed out first.
ReplayOne(s, ops) ==
  IF ~s.ok THEN s
  ELSE IF ops[1].start THEN [s EXCEPT !.log = Started(@, ops), !.file = @ \o ops]
  ELSE IF Known(s.log, ops[1]) THEN [s EXCEPT !.log = Ended(@, ops[1]).log, !.file = @ \o ops]
  ELSE [s EXCEPT !.ok = FALSE]
Failed(f) == SelectSeq(f, LAMBDA l : l.err)
Replay(r, q) ==
  /\ Requested(r, q, "second") /\ rank[r].begun = {}
  /\ \E s \in {FoldLeft(ReplayOne, [log |-> rank[r].log, file |-> disk[r], ok |-> TRUE], ReadAll(old[q].file))} :
       /\ disk' = [disk EXCEPT ![r] = s.file]
       /\ failures' = [failures EXCEPT ![r] = Failed(s.file)]
       /\ IF s.ok /\ ~Torn(old[q].file)
          THEN /\ rank' = [rank EXCEPT ![r].log = s.log]
               /\ old' = [old EXCEPT ![q] = [@ EXCEPT !.gone = TRUE, !.wanted = FALSE]]
          ELSE RankTo(r, "fatal") /\ UNCHANGED old
  /\ UNCHANGED <<mix, run, dirs, errlog, work, faults>>

\* resourceinput_getnext() in a run of recorded operations: resourcelog_readop() of the next
\* chain, which the producer logs and hands out.  The recorded log goes with its end.  (Here
\* a rank reads the log of its own number.)
\* the operation a line tells of
ParsedOp(l) == [k \in {"op", "start", "cnt", "err"} |-> l[k]]
StartRead(r, ops) == LogStart(r, ops[1].op[1], [i \in DOMAIN ops |-> ParsedOp(ops[i])])
ReadOp(r) == \E q \in {r} :
  /\ Requested(r, q, "exec")
  /\ \E p \in {Parse(old[q].file, old[q].next)} :
       CASE p.eof = 0 ->
              /\ old' = [old EXCEPT ![q].next = p.next]
              /\ StartRead(r, p.ops)
         [] p.eof = 1 ->
              /\ old' = [old EXCEPT ![q] = [@ EXCEPT !.gone = TRUE, !.wanted = FALSE]]
              /\ UNCHANGED <<rank, disk, work>>
         [] p.eof = 2 ->
              /\ old' = [old EXCEPT ![q].wanted = FALSE]
              /\ RankTo(r, "fatal") /\ UNCHANGED <<disk, work>>
  /\ UNCHANGED <<mix, run, dirs, errlog, failures, faults>>

-----------------------------------------------------------------------------
LogAtRest ==
  /\ disk = [r \in Ranks |-> NoFile] /\ errlog = [r \in Ranks |-> NoFile]
  /\ old = [r \in Ranks |-> [file |-> NoFile, wanted |-> FALSE, next |-> 1, gone |-> FALSE]]
  /\ rank = [r \in Ranks |-> OffRank] /\ work = [r \in Ranks |-> NoWork]
  /\ failures = [r \in Ranks |-> <<>>] /\ faults = 0
InitLog == mix \in Mixes /\ run \in {"dry", "first"} /\ dirs = NewIteration /\ LogAtRest
NoRuns  == mix = {} /\ run = "off" /\ dirs = {} /\ LogAtRest

Running == run \notin {"refused", "off"}
RankStep(r) ==
  \/ MakeNamespace(r) \/ OpenLog(r) \/ ReadOp(r)
  \/ \E c \in Chains : Walk(r, c)
  \/ \E o \in OpIds : Execute(r, o) \/ GiveUp(r, o)
  \/ Terminate(r) \/ Gather(r) \/ RemoveNamespace(r)
LogNext ==
  \/ Running /\ FinishRun
  \/ \E r \in Ranks : Running /\ RankStep(r)
  \/ \E r \in Ranks, q \in Ranks : Replay(r, q)
  \/ \E r \in Ranks, c \in Chains : DieStarting(r, c)
  \/ \E r \in Ranks, o \in OpIds : DieEnding(r, o)
  \/ \E how \in Summaries : NextRun(how)

-----------------------------------------------------------------------------
(* Properties *)

\* what the lines of a file say of an operation
AfterLine(s, l) ==
  IF l.start THEN [left |-> IF l.cnt > s.left THEN l.cnt ELSE s.left, pending |-> TRUE]
  ELSE [left |-> s.left - l.cnt, pending |-> s.left > l.cnt]
OpLines(f, o) == SelectSeq(f, LAMBDA l : l.op = o)
InFile(f, o)  == FoldLeft(AfterLine, [left |-> 0, pending |-> FALSE], OpLines(f, o))
InMemory(m, o) ==
  IF Find(m, o) = 0 THEN 0 ELSE m.prog[Find(m, o)][Position(m.prog[Find(m, o)], o)].left

\* The file and the memory of a log of modifications agree at every moment between two
\* operations: what is left of each, how many are outstanding, and how many targets failed,
\* whatever ends in whatever order, is started again or was replayed (resourcelog_processop,
\* resourcelog_replay).  What a later run would make of the file is where this one stands.
FileTellsTheTruth ==
  \A r \in Ranks : rank[r].at = "work" /\ rank[r].log.type = "modify" =>
    LET m == rank[r].log
        f == disk[r]
    IN  /\ \A o \in OpIds : InFile(f, o).left = InMemory(m, o)
        /\ m.out = Cardinality({o \in OpIds : InFile(f, o).pending})
        /\ m.failed = Total(Failed(f))
\* The log of a rank that reported success to the manager shows the deletion of references as
\* done only where that of all objects of its chain was done before it, none with an error; and
\* nothing in it is left undone (process_executeoperation, resourcelog_term).
RefsComeLast ==
  \A r \in Ranks : disk[r] # NoFile /\ rank[r].log.type = "modify" => \A k \in DOMAIN disk[r] :
    LET l == disk[r][k]
        before(o) == OpLines(SubSeq(disk[r], 1, k), o)
    IN  /\ l.whole /\ ~l.start /\ ~l.err /\ Type(l.op) = "ref"
             => \A o \in OpIds : o[1] = l.op[1] /\ Type(o) = "obj" /\ before(o) # <<>>
                                 => ~InFile(before(o), o).pending
        /\ rank[r].at = "done" => ~InFile(disk[r], l.op).pending
\* When the log of a rank is gone, the ends that failed are all in its error log, and there is
\* one only if some did (managerbehavior, error_only_filter).  An operation without a target, a
\* deletion of no reference that only marks the file, is not counted when it fails.
Counted(f) == SelectSeq(f, LAMBDA l : l.cnt > 0)
ErrorsAreKept ==
  \A r \in Ranks : rank[r].at \in {"unlinked", "over"} =>
    errlog[r] = IF Counted(failures[r]) = <<>> THEN NoFile ELSE failures[r]
\* When a run is through, the directories of its iteration are there if and only if error logs
\* are in them, though each rank and the manager remove them bit by bit (resourcelog_term,
\* managerbehavior).
NothingLeftBehind ==
  Running /\ "summary" \notin dirs => (dirs # {}) = (\E r \in Ranks : errlog[r] # NoFile)
\* A recorded log goes only when each chain in it, but one that was cut short, was started, and
\* a run of it that succeeds did all of them (resourceinput_getnext).
RecordedIsDone ==
  run = "exec" => \A r \in Ranks : old[r].gone =>
    \A ops \in Range(ReadAll(old[r].file)) :
      /\ ops[1].op[1] \in rank[r].begun
      /\ rank[r].at = "done" => \A i \in DOMAIN ops :
           ~InFile(disk[r], ops[i].op).pending /\ OpLines(disk[r], ops[i].op) # <<>>

\* The log on disk says what is done and what is left, in an order from which a later run can
\* go on: references after their objects, nothing done that was not recorded.
LogIsTrue == FileTellsTheTruth /\ RefsComeLast /\ RecordedIsDone

\* The failures outlive the logs they were in, and nothing else does.
OnlyErrorsStay == ErrorsAreKept /\ NothingLeftBehind
=============================================================================

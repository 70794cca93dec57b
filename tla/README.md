# A TLA+ verification of MarFS

MarFS stores files as erasure-coded objects spread over many file systems and
keeps their metadata in another one. This directory models its code in TLA+,
checks the models with TLC and proves theorems about them with TLAPS. Paths
such as `thread_queue/thread_queue.c` are relative to `src/src/`.

`PROJECT.json` lists every component, run, mutant, hazard and theorem, and maps
every definition that models code to the lines it models.

## 1. The system and its hazards

| Component | State it keeps | What is hard | What makes it correct | Module |
|---|---|---|---|---|
| **ThreadQueue** `thread_queue/` | a mutex, three condition variables, flags, a ring of packages, two pools of threads | lost wake-ups, flags racing with start and exit, joining under a lock, failing creation | nothing lost, duplicated or reordered; a pause is a pause; waiters are woken; a freed queue is quiet | `ThreadQueue`, `WorkFifo` |
| **IOQueue and IO threads** `io/` | a ring of ioblocks with fill and error marks; per block an offset, a checksum, a DAL handle | blocks given back by count and not by name; parts that straddle two IOs; a seek while the reader is ahead | no block is filled while another thread uses it; bytes come in order, once, and bad ones are marked | `BlockIO` |
| **Erasure layer** `ne/` | N+E queues, the stripe, the readers in use, error counts | starting readers in mid stripe; consensus over damaged meta files; the write threshold | a read returns what was written or fails; a rebuild makes blocks good; a close that succeeds is protected | `NeHandle`, `ObjectStore` |
| **DAL, POSIX** `dal/posix_dal.c` | data and meta file of a block under working and final names | a crash or a failure between two system calls | a block counts only when it is complete; a migration has it complete at one place at least | `ObjectStore` |
| **Datastream** `datastream/` | position in the stream, files at hand, FTAGs | files sharing objects, files over many objects, parallel chunks, deaths between data, recovery info and FTAG | a readable file reads as written; every object can be taken apart by itself | `Datastream`, `Repack` |
| **Resource processing** `rman/resourceprocessing.c` | walks over streams, operations in chains, rebuild markers | users unlinking during a walk, failing deletions, deaths, markers outliving their files | no data in use is deleted, nothing becomes unreachable garbage, what was reported is rebuilt | `GarbageCollection`, `RebuildMarkers` |
| **Resource log** `rman/resourcelog.c` | operations in flight, in memory and in a file | completions in any order, replay of a torn file, one rank's failure in another's log | the file says what is left to do; failures outlive the log | `ResourceLog` |
| **Resource manager** `rman/resourcemanager.c`, `resourcethreads.c` | ranges handed to ranks, a shared input per rank, reports | termination of ranks and threads, fatal errors at any moment | everything is scanned once; no error is lost; the iteration ends | `ResourceManager` |
| **Paths** `config/config.c` | positions in the tree of namespaces | `..`, links, ghosts, private directories, abandoned positions | a path leads where it says or is refused | `PathTraversal` |
| **Configuration** `config/config.c` | the tree of namespaces | remote namespaces change owners; ghosts; failing half way | what loads is a sound tree; what does not is freed once | `ConfigLoad` |
| **Hash ring** `hash/hash.c` | sorted virtual nodes | collisions, wrap-around, nodes without weight | every process finds the same node | `HashRing` |
| **Metadata** `mdal/posix_mdal.c`, `api/marfs.c` | inodes with a reference and paths, quotas, namespaces | creation in several steps against users, rman and administrators | a path leads to a whole file; orphans go | `MetadataOps` |
| **API and FUSE** `api/marfs.c`, `fuse/` | file and directory handles, credentials of threads | streams that are lost inside a call, locks, credentials that are taken on and given back | descriptors belong to their handles; requests act as their callers | `ApiHandles` |

The API resolves a path, opens a datastream, which places objects by hash rings
and opens the erasure layer; that starts one ThreadQueue with one IO thread for
each of its N+E blocks and exchanges ioblocks with it; each IO thread works on
one block of the DAL. The resource manager runs stream walkers as producers and
resource processing as consumers of one ThreadQueue per rank. So every
concurrent part of MarFS runs on ThreadQueue; it is modelled and proved in most
detail. The modules above it use what the ones below establish, as their
headers say: `BlockIO` takes from `ThreadQueue` a FIFO and a quiescent pause,
`NeHandle` takes from `BlockIO` readers that deliver parts in order,
`Datastream` takes from `ObjectStore` that an object is closed, lost, or
degraded, `GarbageCollection` takes from `ResourceLog` which consumer goes on.

The hazards of the code, each at its line, are in `PROJECT.json`.

## 2. The models

Everywhere, one action is the code between two points at which another process
can intervene or a process can die: a lock is taken or released, a thread goes
to sleep, a system call or a call of the layer below returns. Names follow the
source. Failing allocation, failing mutexes and NULL arguments are left out.

**ThreadQueue.** Variables have the names of the fields of `struct
thread_queue_struct`; `sleeping[p]` is the condition variable `p` sleeps on,
`pc` and `mpc` say where threads and masters are. A thread that leaves
`general_thread_init_behavior()` or `general_thread_post_work_behavior()` still
holds `qlock`, as in the code; `tq_next_thread_status()` calls `pthread_join()`
with it. The results of the client's callbacks are constants. A signal wakes
any sleeper; wake-ups may be spurious (`Spurious`); threads may fail to be
created (`CreateMayFail`). `made`, `done`, `checked`, `createfail` are history.
`ClientAssumption` is what the clients in the repository keep to: only HALT is
taken back, one master collects thread states, who waits for a pause ends it.
`WorkFifo` is its abstract specification: a bounded queue, and processes that
make packages, put them, take them and finish them.

**BlockIO.** One block of an object: the ring (`head`, `depth`, `block`), the
thread (`tpc`, `offset`, `iob`, `crcsumchk`, `continuous`) and the part of
`ne.c` that deals with this block (`mpc`, `miob`, `iob_offset`). Every turn of
the loop of `read_produce()` is an action, and so is every block that
`read_resume()` throws away. A byte is the position it was written at, so
misplaced and stale data differ; the sum of the CRCs counts how often that of each IO is
in it, so a sum that misses an IO or counts one twice is wrong.

**NeHandle.** A handle open for reading or rebuilding over N+E readers, each the
abstraction of a `BlockIO` reader. `ne_read`, `ne_seek` (within the read-ahead,
or by halting every reader), `read_stripes` reader by reader, `regenerate` with
the tables made for the erasures it last saw, `ne_rebuild` with its writers. A
part is one unit whose content is the number of its stripe; decoding yields the
right part exactly if the tables fit and N good parts of one stripe are used.

**ObjectStore.** The files of the N+E blocks of an object on POSIX: `.partial`,
`.rebuild` and final names of data and meta file. Every system call of
`ne_open`, `ne_close`, `ne_abort`, `ne_rebuild`, `ne_delete` and
`posix_migrate` is a step, may fail, and may be the last before a crash;
`ne_open` for reading with its consensus over meta files, and `ne_stat`, run
beside it. The write threshold of `ne_close()` is in `TooManyErrors`.

**Datastream.** A CREATE stream packs files into objects (`todo` is what is left
of its call, one change of storage each), EDIT streams write the chunks of an
extended file and truncate, READ streams are evaluated in every quiet state. An
object may be lost or degraded when it is closed, and a process may die between
any two steps. Unit k of file f is `Data(f, k)`, so misplaced data shows.

**Repack.** A file is copied to another stream and changes over to it, over five
xattrs and two names; a process dies between any two calls and
`datastream_repack_cleanup()` completes or reverts, and dies as well.

**RebuildMarkers.** Readers that close a damaged object link a marker and tag it;
runs of the resource manager come upon markers in the order of the directory
while it changes, rebuild the object (twice, if the first pass finds more),
remove the tag, unlink the marker; users unlink files and collection follows.

**GarbageCollection.** The stream walker as a function of its state (`Visit`,
`Unused`, `InUse`, ...), the producer that hands out chains of operations, the
progress of a chain, and consumers that delete objects and references over
several steps (GCTAG, unlink, tag again). Users unlink at any moment; a run dies
and another follows.

**ResourceLog.** Two runs over one namespace: ranks log operations, complete
them in parts and in any order, fail some; the manager gathers, filters and
removes logs; a run dies at any line, with the line torn, and a later one
replays what it finds, or reads a recorded log and executes it.

**ResourceManager.** The manager, the main thread of every rank, its producer
threads and the `RESOURCEINPUT` they share with its conditions and counts,
messages in flight, and fatal errors anywhere.

**PathTraversal.** `config_traverse()` element by element with
`config_shiftns()` and `config_enterns()` on positions whose MDAL contexts are
carried along, against a reference definition of what a path means (`Meaning`).

**MetadataOps.** Inodes with a reference and paths. A creation is seven steps
that race with others; calls on paths are atomic once resolved, each with the
permission and quota checks of `marfs.c` and the rewriting of names in `fuse.c`;
rman scans, collects, records usage and removes empty reference directories; an
administrator creates, removes and reconfigures namespaces.

**ApiHandles.** Handles with lock, stream and descriptor; every FUSE request
takes on its caller's credentials and gives them back; the calls of a program
that uses the API itself; listing a directory in pieces. `defects` notes which
of the errors listed in section 5 have struck, so that the properties can set
aside what follows from them and nothing else.

**ConfigLoad** reads a configuration file element by element, links remote
namespaces and ghosts with the iteration of the code, frees it on any error, and
walks it with `config_verify()`. **HashRing** is `hash_init()` and the binary
search of `hash_lookup()` step by step, over identifiers that collide.

## 3. Runs

Each run is one question about one instance. Two modules that share no state
are checked in one run: a variable `scene`, or disjoint initial states, chooses
which of the two moves, and both specifications keep their own fairness.

| Run | Instance | What it shows |
|---|---|---|
| `tq_all` | 1 producer, 1 consumer, ring of 2, 3 packages, all flags, all calls but the two that only wait, failing creation | `WorkIsSafe`, `ActThrdsExact`, `HaltedThreadsStayPut`, `PauseIsQuiescent`, refinement of `WorkFifo` (`ImplementsFifo`) |
| `tq_pool` | the queue as `rman/` uses it: 1 producer, 2 consumers, ring of 1, failing callbacks, spurious wake-ups | completion is complete and consumers outlive producers (`EndIsReached`); FINISHED and ABORT drain, a blocked `tq_enqueue()` returns (`Drains`) |
| `io_block` | a ring of 3, three geometries, failing DAL, reads, seeks, parking, closing | `DataIsRight`: in order, once, no false alarm, no NULL while data remain, commits are complete. `BlocksAreSafe`: blocks are shared by no one and come back. `CallsReturn` |
| `ne_handle` | 2+1 blocks, 4 stripes in ioblocks of 2, three modes, any damage to two parts | `ReadsAreRight`, `RebuildIsSafe`, `CallsReturn` |
| `objects_logs` | an object of 1+2 blocks with any two mishaps; apart from it, two ranks' logs with four mixes of chains, one failure, a death and another run | `ObjectIsSafe`, `AnswersAreTrue`; `LogIsTrue`, `OnlyErrorsStay` |
| `ds_stream` | 3 files of up to 2 units, objects of 4 units or 2 files, one editor, one degraded object | `StreamIsSafe`, `CloseCompletes` |
| `gc_collect` | three layouts, all tails but a last file without FTAG, 2 consumers, one death, one failure, two unlinks | `DataIsKept`, `StreamHoldsTogether`, `UsageIsRight`, `GarbageGoes` |
| `rm_manager` | 2 ranks with 2 producers, ranges that cannot be shared evenly, one fatal error | `ScannedOnce`, `NoneForgotten`, `IterationEnds` |
| `repack_rebuild` | 3 repacks and 4 deaths; apart from it, 2 files sharing an object of 2+2 blocks, one reader, one rebuilder, 2 damaged blocks, one mishap | `ContentIsKept`, `RefsAgree`, `CleanupTellsTheTruth`; `MarkersAreSound`; `MaintenanceEnds` |
| `config_paths` | all paths of up to 2 elements, those of 3 out of 6 elements, and chosen longer ones over 5 namespaces; 3 namespaces, 2 files, 2 creators, 3 calls; some 2,000 configuration files; rings of up to 3 nodes, each apart from the others | `PathsAreRight`; `FilesAreSound`; `TraversalsAndOrphansEnd`; `ConfigIsSound`, `VerifyIsRight`; `LookupIsRight` |
| `api_handles` | 2 threads, 2 users, 2 handles; a directory of 3 subspaces and 4 entries | `HandlesAreSound`, `RequestsAreRight` |

One more run, `gc_interrupted`, ends in a counterexample to a property that the code, by
its own comments, is meant to have. `PROJECT.json` lists it under "findings". Two more such
counterexamples come from passing runs by a change of one line of their configuration.

| Run, or change of one | Instance | What TLC finds |
|---|---|---|
| `ds_stream.cfg` | with `LongPaths = TRUE` | `StreamIsSafe` violated, in its part `ObjectsFit` (`config.h:56`, "maximum data object size"): a packed file is given a longer recovery path than the object has room for |
| `gc_interrupted` | the layouts of `gc_collect`, the tail "eos", one death, three unlinks, no failure | `RefsThere` violated: a run dies in a deletion of references, the next resumes it at the file that has the GCTAG and deletes the reference of a file in use |
| `repack_rebuild.cfg` | with `ContentStays` as its invariant | violated, by a behaviour of 20 states: the cleanup of one repack takes the TREPACK of a later, unfinished one and makes it the FTAG of the file |

**What counts as past an error.** `GarbageCollection` and `Repack` have a history
variable each (`astray`, `mistaken`), set by the very step in which the code takes
one file's number or tag for another's. Nothing in the behaviour depends on
it. Deaths, failures and orders of calls that lead there are in the passing runs and in the
theorems like all others; the properties say what holds up to that step, and the table
above what happens after it. In `Datastream` the constant `LongPaths` excludes from
`ds_stream` the new recovery paths for which there is no room where they are set; longer
ones that do fit are in it (`NewInfoLens`).

Every property has a mutant in `PROJECT.json`: a change of one definition, such
as a plausible bug would make, under which TLC finds the property violated.

**Bounds.** Two or three threads suffice for each pair of roles to race and for a
signal to reach the wrong of two sleepers; rings of 1 and 2 are full, empty and
wrapped. `UintMod` is 16 and not 2^32: only the wrap at zero matters. The
geometries of `io_block` have parts smaller and larger than an IO, neither
dividing the other (else nothing is ever spilled), and blocks shorter and longer
than the ring. Two batches of two stripes in `ne_handle` let errors appear, move to
another block and go, within a batch and between batches. Two mishaps in
`objects_logs` are enough for a crash in the cleanup of a failure. In `ds_stream`
files with and without room left in an object, empty files and a file over several
objects occur; recovery infos of length 1 and 2 make the last unit fit or not; the second
file may get a longer recovery path, the third a shorter one.
The layouts of `gc_collect` have files that share objects, a file with objects of
its own, and an object per file. In `rm_manager` a range of three directories
for two ranks and one that only one of them gets. Four deaths in `repack_rebuild`
let the repacker and then the cleanup die at two places each. `MaxCalls` counts the
calls, deaths and changes of configuration in `config_paths`; an interplay of a
creator, a user and rman fits in three.

**Deadlock** is checked in `api_handles`, whose threads can always serve
another request. Everywhere else the system really stops: a closed queue or
handle, a run that is over, a call nobody makes. There the liveness properties
say what must end.

**Fairness.** `ThreadQueue`: strong fairness of thread creation, of each thread
and of each master inside a call. Every step needs `qlock`, which is free again
and again while others hold it in between: the mutex starves no one who keeps
asking. Nothing obliges a master to make a call. `BlockIO`, `NeHandle`: weak
fairness of each thread and of the call in progress; no step that waits for an
ioblock can be disabled again by the other side. `GarbageCollection`,
`RebuildMarkers`: a run at work goes on (weak), runs are started again and again
and files age past their threshold though other steps come in between (strong).
`Repack`: who is at work goes on, and what is left behind is cleaned up.
`ResourceManager`: some thread that can move moves. `PathTraversal`,
`MetadataOps`: a traversal goes on; rman visits every reference.

## 4. Proofs

`tlapm` checks these theorems for all values of the constants that satisfy the
named assumptions.

| Theorem | Module | Says |
|---|---|---|
| `TypeCorrect` | `ThreadQueueProofs` | `Spec => []TypeOK` |
| `HaltedStayPut`, `PauseCorrect` | `ThreadQueueProofs` | `Spec => []HaltedThreadsStayPut`, `Spec => []PauseIsQuiescent` |
| `FifoCorrect` | `ThreadQueueProofs` | `Spec => ImplementsFifo` |
| `CountsAreExact`, `WorkCorrect` | `ThreadQueueProofs` | `Spec => []ActThrdsExact`, `Spec => []WorkIsSafe` |
| `EndCorrect` | `ThreadQueueProofs` | `OrderlyStart => (Spec => []EndIsReached)` |
| `MarkersCorrect` | `RepackRebuildProofs` | `MarkSpec => []MarkersAreSound` |
| `ContentSafe`, `RefsCorrect`, `CleanupTruthful` | `RepackRebuildProofs` | `Spec => []ContentIsKept`, `Spec => []RefsAgree`, `Spec => CleanupTellsTheTruth` |
| `ObjectInvariant`, `ObjectSafe`, `AnswersTrue` | `ObjectStoreProofs` | `Spec => []ObjectInv`, `Spec => []ObjectIsSafe`, `Spec => AnswersAreTrue` |
| `ScanCorrect`, `ErrorsCorrect` | `ResourceManagerProofs` | `Spec => []ScannedOnce`, `Spec => []NoneForgotten` |
| `RingCorrect`, `QueueNeverFull` | `BlockIOProofs` | `Spec => []BlocksAreSafe`, `Spec => [](TypeOK /\ QueueFits)` |
| `DataCorrect` | `BlockIOProofs` | `SeeksShow => (Spec => []DataIsRight)` |
| `MetadataInvariant`, `FilesSound` | `MetadataOpsProofs` | `MetaSpec => []MetaInv`, `MetaSpec => []FilesAreSound` |
| `CollectCorrect`, `DataKept`, `RefKept`, `UsageRight` | `GarbageCollectionProofs` | `Spec => [](astray \/ CollectInv)`, `Spec => []DataIsKept`, `Spec => []RefIsKept`, `Spec => UsageIsRight` |
| `ApiInvariant`, `HandlesSound`, `RequestsRight` | `ApiHandlesProofs` | `Spec => []ApiInv`, `Spec => []HandlesAreSound`, `Spec => []RequestsAreRight` |

Every safety property of `tq_all`, `tq_pool`, `io_block`, `repack_rebuild`, `rm_manager`
and `api_handles` has a theorem, and so has each of `objects_logs` that is about objects.

**ThreadQueue.** The assumptions are `SizeAssumption` (a ring of at least one
slot, fewer threads than an unsigned counter can count), `ClientAssumption` (see
section 2) and `ProcessAssumption` (threads and masters are finite and differ).
`TypeCorrect` rests on `Inv`: besides the types, the ring holds packages exactly in
the `qdepth` slots from `head` (`RingInv`, without which a dequeue could read an
empty slot), who is past a dequeue holds a package (`HeldInv`), and a thread is
collected once (`CollectInv`, without which `uncoll_thrds` could go below zero).
The lemmas `SlotPut` and `SlotTake` do the arithmetic of the ring once.

`PauseInv` adds who may be at which place while who holds `qlock` (`LockInv`),
that a thread which reported HALTED sleeps or has been told to go on (`HaltInv`),
that a master in `tq_wait_for_pause()` has seen every thread below its index
(`PauseIdxInv`), and that a thread not yet created has no state (`UnbornInv`).
`PauseIsQuiescent` is not inductive, since the threads are inspected one at a
time and the lock is given up between two of them.

`FifoCorrect` maps the ring to a sequence and shows that each step is a step of
`WorkFifo` or a stutter; `HoldInv` says who holds which package. `CountsAreExact`
needs the place of each thread to say whether it is counted (`RoleInv`), and
then that both counters are cardinalities (`CountsOf`); that they never wrap
follows, as one does not have to assume it. In `WorkCorrect` the half about
packages is proved of `WorkFifo` (`OnePlaceInv`) and carried over by
the refinement; the half about a freed queue needs `EndInv`: `tq_close()` is passed only
after every thread was collected, a collected thread never moves again, and no
call can be in progress beside it.

`EndCorrect` is about queues with an `OrderlyStart`: `tq_check_init()` comes first,
every thread is created, FINISHED is not set from the start, and no thread's
result 1 can finish the queue before every producer has initialised, because there is
one producer at most (the queues of `ne/ne.c`), the threads start halted
(`rman/rsrc_mgr.c:1209`), or none returns 1. Without the last condition TLC
finds, with two producers, that FINISHED is set before the second has
initialised and that the consumers all leave: to `tq_threads_terminated()`
it looks like a thread that has terminated. The resource manager starts several
producers without HALT (`rsrc_mgr/work.c:94`); they return 1 only when they are
told to terminate (`rsrc_mgr/resourcethreads.c:564`), after `tq_check_init()` is back,
which is no fact of the queue, so the theorem does not cover it. `FinishInv` says what READY tells about a thread
(`ReadyInv`), what the two masters that go through the threads one by one have
seen so far (`CheckInv`, `CompletionInv`), that nothing finishes before the
producers are ready (`OrderInv`), and that the first consumer to leave finds the queue
empty and every producer gone (`OutliveInv`). `FinishThreadEffect` and
`FinishMasterEffect` say once what a step of a thread or a master does to all
that. TLC checked `FinishInv` on five instances before it was proved, the largest with
1,030,570 states.

**BlockIO.** The assumption is `GeometryAssumption`: positive sizes, and an IO
that is larger than its CRC. `RingOrder` equates two sequences: the row of those who
hold a block (`Held`, with lemmas for a block that enters it, moves along it or
leaves it) and the window of the ring (`Win`, with lemmas for a window that grows
and shrinks around the end of the ring). `RingInv` adds that the number of
blocks held is right even where their order no longer matters, and `CtlInv` says which
places of thread and master go with which flags; its core is `ResumeInv`, that
a reader which resumes or throws junk blocks away finds the queue empty and the master
without a block, since only then the block it gives back is the oldest. `BufferFits` needs, for a
writer, that what it has enqueued is no larger than an IO (`FullInv`), which in turn
needs `RingOrder`, as a block that was still in use when it is handed out again
could change in the queue. After an abort blocks are given back once too often;
`BackInv` says that a reader takes no more than it gives from then on. That the model's
queues never fill up, which `enqueue` and the reader's loop take for granted, is
`QueueNeverFull`. TLC checked `BlockInv` on four instances (rings of 1 to 3
blocks, with and without aborts of readers, at most 495,486 states) before it was proved.

`DataIsRight` needs to know what the blocks of that row hold. For a reader, `Placed`
relates the thread's offset, in which the CRCs count, to a position `d` of the data, and
the sum of the CRCs to the IOs passed. `Flow` says that the data of the row follow each
other up to `d` (`Row`), that what the master gets is made of whole parts and not
marked bad without a cause (`Deliverable`), and how much junk is still to be
thrown away so that the next byte is the one sought (`JunkDue`). `Synced` says where the row
begins: where the master reads, or, when the thread is about to resume, at a place that
`read_resume()` will leave. The lemmas follow each turn of `read_produce()`, each kind of
resumption (stay, seek, align, junk) and each step of `ne_seek()` and `read_stripes()`.
For a writer, `WriteFlow` says that the IOs put and the blocks on their way are together
what was written, and that only the last may be short. `MarkInv` bounds the marks. The
hypothesis `SeeksShow`, that no number of whole parts is as long as a CRC, is needed: section
5 has the counterexample. TLC checked the invariant, its witnesses given as
functions of the state, on the geometries of `io_block` and on six others with CRCs of
two bytes before it was proved.

**ObjectStore.** `ObjectIsSafe` counts blocks, so what its proof needs is that none
is lost on the way. A block is `Kept` when the storage damaged it, when it is whole and
no rebuild is writing it (`Busy`), or when it is whole at the place it was migrated to;
no step but a deletion takes a block out of `KeptSet`. That holds because a rebuild
takes up only blocks that are not complete, because a thread that met no
error has put both files into place when it is done (`ThreadOK`), and because a migration
unlinks the old names only when both new ones are there (`MigrateOK`). A close that
succeeds has at most `E - MIN_PROTECTION` blocks with an error, and every position has
a block of its own (`Places`, the arithmetic of `Loc`), so `KeptSet` starts large enough.
For the reader, the positions it has seen well, or will, do not become fewer
(`Seen`): a whole block stays whole although other blocks of the object are renamed
under its eyes, and `EnoughWhole` says that at the open they were N at least. That is
why `Safe` is taken at the open: blocks repaired, or damaged, later count for later
readers. For `AnswersAreTrue`, `DeleteOK` says what a deletion without an error has
gone through, `StatOK` what `ne_stat()` has found in the blocks it has passed, and
`PatternAgreed` and `SizeAgreed` what `check_matches()` makes of meta files that all
have the pattern of the object and mostly its size. The assumption is
`ObjectAssumption`: a pattern with at least one data block, an offset within it. TLC
checked `ObjectInv` before it was proved, with 1+1 blocks and four mishaps (922,972
states) and with two data blocks and three mishaps (3,319,569 states).

**RebuildMarkers.** `MarkersAreSound` is strengthened by what each reader has seen
of the object it reports, by what a rebuilder between two of its calls knows of
the marker it holds, and by the fact that collection waits for markers. The
assumptions are `MarkAssumption` and `StreamAssumption`: sizes are natural
numbers, and files lead to objects.

**Repack.** `RepackInv` says in which of its places the protocol is: at rest, in
a repack, in the cleanup of the last attempt or in that of an earlier one (`Rests`,
`Repacks`, `CleansUp`, `CleansLeft`), and what then is true of names, tags and data
together. Markers may stand side by side: an attempt that died after it had changed
the file over leaves one, and the next attempt starts from the new stream. So the
invariant speaks of every stream's reference and marker (`Absent`, `Former`,
`Left`), and of the last attempt apart: names, tags and data alone, which is all a cleanup
can see after a death, tell a change that must be completed (`Changing`), one under way
(`Forward`) and one that must be undone (`Reverting`). The theorems have no
hypothesis: an attempt may begin before what others left is cleaned up, and markers are
cleaned up in any order. What ends their reach is one step, a cleanup that reads the TREPACK
of another attempt and takes it for its own (`mistaken`); `RepackCorrect` shows that up
to it `RepackInv` holds.

**ResourceManager.** `RManInv` follows each reference directory from the
manager, which has it to hand out (`ToDo`), into a request, the range and the hand of a
thread of one rank, its report, its answer, and back into the usage; it is in one
of these places at most, and, while nobody met an error, in one of them
(`PlaceInv`). `Ranges` is the lemma about `getNSrange()` on which this rests: the
ranges of a namespace lie one behind the other and end with its last directory,
also when they cannot be shared evenly. `RankInv` says which message and which
threads a rank has where (`MessageOK`, `Within`, `Unset`), that only a rank that
scans has a range left (`EmptyUnlessScanning`), and what the counters of the
handshake count (`Handshake`: those who said that they came to the end, then
those who left). `Handshake` holds only until the first error, since a purge leaves
the counters as they are. `MgrInv` says that an error is known to the manager or on
its way, and that ranks are let go only when everything is handed out. The
assumption, `RManAssumption`, asks for finite sets that are not empty and for
sizes that are natural numbers. TLC checked `RManInv` on the instance of
`rm_manager` (986,515 states) before it was proved. Least elements are found by
well-founded induction on `<` over the numbers (`LeastIsLeast`).

**MetadataOps.** `MetaInv` says what is true of an inode that is being made: from
`openref` on it is in the tree of the namespace of one creator (`OneCreator`,
`CreatorsOwn`), nothing leads to it, it is not old enough for rman and rman does
not have it on its list; it has its tag before it gets a path. What rman
has on its list is an orphan and stays one (`PendingIsOrphan`), which is the hazard of
`resourceprocessing.c:517`: the reference is found in one scan and unlinked much
later. References are in directories that are there (`InDirectories`). Calls of
users move entries only between namespaces that share a reference tree (`SharedTree`,
`Sourced`), so `FilesAreWhole` survives renames and links across namespaces. Besides
`MetaAssumption` the proof needs `EntriesAssumption`: finitely many paths, and
starts in which every name of a file is in a namespace with the file's references.
TLC checked `MetaInv` before it was proved.

**ApiHandles.** Calls of the API change one handle each, in one of three ways
(`Kept`, `Freed`, `Made`), and what they may do to its descriptor are four
(`Moves`). `Place` says what a thread between two calls may know of its handle:
the one that opens, closes or writes is alone with it, readers may be many.
Descriptors are `Known` to the handle they were opened for in every state; the
converse, `Matched`, holds until `marfs_read()` closes a descriptor and keeps it,
and no other defect. That there is always a descriptor to give out is a
pigeonhole argument (`FreshIsFree`). `Identities` relates credentials, the user
that is served, and the saved ids. For listings, `Right` says that the names
given so far are in order, each at its own place, and none left out in between, and
`InPlace` that the place of the directory is that of the last name given, also
after the kernel has sought back for a name that did not fit; that every name was
given once in the end is then a bijection (`ListingComplete`). The assumptions are
`ApiAssumption`, `HolderAssumption` (finitely many handles; a thread is not one of
the other holders) and `MaskAssumption` (fewer subspaces than
`MARFS_DIR_NS_OFFSET_MASK`). TLC checked `ApiInv` on the instance of `api_handles`
(678,452 states) before it was proved.

**GarbageCollection.** The assumption is `GCAssumption`: the files of a stream lie one
behind the other in its objects, and how a stream may end. There is no other hypothesis:
runs die between any two steps, within one `process_deleteref()` too, any deletion of
objects may fail, whatever `SplitMayFail` says, and the last file may be without an
FTAG. What ends the reach of the theorems is one step of a walk, that which resumes a
deletion of references or takes the GCTAG of a file without an FTAG for that of the file before
it (`Strays`, which sets `astray`); section 3 has what happens then.
The proof is about files that must be kept (`Alive`):
they only become fewer, so what a walk has found about garbage stays true while users
go on unlinking (`Fades`, `Calm`). `CollectInv` says that deletions of objects in
flight concern objects nobody needs (`ObjsRight`), that a walk has
counted at most the files in use when it began and at least those in use now
(`Counted`), and, while there is a file to be kept, `Deep`: a GCTAG tells of no
reference that exists unless that one is about to go (`TagsTight`), it is true of
those that are gone (`TagsTrue`), and past it there is a reference again
(`NextThere`); the deletions of references in flight are right, and each
concerns a part of the stream of its own, in their order (`RefsRight`, `Ordered`); and a walk accounts
for everything it has passed (`GoodWalk`). The long lemmas are one for each way in which a walk
goes on: over a file in use, garbage, a hole that a tag bridges, a missing
reference after which it goes back. TLC checked `CollectInv` on a small instance
before it was proved. `RefIsKept` is one of the three
parts of `StreamHoldsTogether`; the other two, `NoOrphans` and `WalkGoesThrough`, also need that
the progress counted in the resource log is right, and stay model-checked.

**Only model-checked.** Liveness under fairness (`Drains`, `CallsReturn`,
`GarbageGoes`, `IterationEnds`, `MaintenanceEnds`, `TraversalsAndOrphansEnd`) is
beyond this prover. So are theorems about every input of `PathTraversal` and
`ConfigLoad`, which are recursive, and of `HashRing`, whose table is
the outcome of a fold. `StreamHoldsTogether` of `GarbageCollection` (but for `RefIsKept`), and the
safety properties of `NeHandle`, `Datastream` and `ResourceLog` have no proof.


## 5. Conditions

The properties hold under conditions that TLC refutes when they are taken away.
Some are kept by the callers in the repository, others name a place where the
code does not do what it seems to be meant to do. The constants in brackets
exclude the case from the runs; set otherwise, TLC shows it.

*ThreadQueue.* `tq_check_init()` waits for ever for a thread that has already
terminated, since termination takes READY away (`thread_queue.c:807`).
Collecting a thread that has not initialised joins it under the lock it needs;
callers have to check first (`CheckFirst`), and the error path of
`ne_convert_handle()` (`ne/ne.c:1335`) does not. Without the check, a thread that
has not started looks like one that has terminated: with two producers, the first may
set FINISHED and consumers leave before the second has started; `EndIsReached`
is therefore about a checked queue. A producer that cannot be created is replaced
by a consumer, `tq_init()` succeeds, and the counter of producers wraps: draining
then may hang, and `ActThrdsExact` sets the case aside (`createfail`). A consumer
holds for HALT although the header says that FINISHED takes precedence.

*BlockIO, NeHandle.* `read_resume()` takes a seek for a position that stands when
the offset, less the data at hand, is the target (`iothreads.c:448`). The offset
counts the CRC of an IO that is read, the target does not. With parts of 1, 2 or 4
bytes, whose multiples reach a CRC, a thread that is a CRC further than the target
may therefore stay where it is, and hand on bytes of another place: with CRCs of two
bytes and a ring of 3 over the geometry `<<7,2,9>>`, TLC finds `DataIsRight`
violated after 24 steps. The default is 1024 (`config.c:2329`), but no check of the
configuration excludes such sizes. The theorem and the instance exclude them
(`SeeksShow`). `ne_abort()` on a read handle may never return: it ends the pause
while blocks are still queued, and `read_resume()` waits for a block with the lock
held (`ne/ne.c:1734`; `AbortReads`). A handle used again after a failed read may
return wrong data, since the blocks before the failing one are a batch further than
the others (`ne/ne.c:685`; `Reuse`). A seek to the end of an object that fills its
last stripe asks for a stripe that does not exist (`ne/ne.c:677`); the instance has
a last stripe that is not full. In mode `NE_RDONLY` ioblocks of an erasure reader
that was halted are not given back (`ne/ne.c:620`), so `CallsReturn` of `NeHandle`
excludes it. `read_stripes()` counts bad blocks per batch, not per stripe;
`ReadsAreRight` speaks of damaged blocks.

*ObjectStore.* One process at a time changes an object, object names are written
once, `ne_stat()` is given N+E as `max_block`. `ne_delete()` leaves the
`.rebuild` files of a rebuild that died. `posix_migrate()` returns -1 where
`dal.h` says -2.

*Datastream.* A create that fails after an extend packs the next file into an object
of the extended one (`datastream.c:1708`; `CreateAfterExtend`). A failing
`ne_write()` loses the stream. Editors write whole chunks.
`datastream_setrecoverypath()` lets a packed file have a recovery path longer than the
object has room for (`datastream.c:3698`; for EDIT streams, line 3687 refuses it): the
subtraction of `datastream.c:3540` wraps and the object outgrows its size. `LongPaths`
is FALSE in `ds_stream`; section 3 has the other case.

*Repack.* When a repack dies after the file has changed over, and another begins from
the new stream before the first marker is cleaned up and dies too, the cleanup of the first
takes the TREPACK of the second for its own (`datastream.c:2966`; `mistaken`, and
section 3). Nothing in `rman/` calls `datastream_repack_cleanup()` yet, so nothing
sees to the order. One repacker at a time works on a file, since a reference
directory is handed to one thread.

*GarbageCollection.* A run that stops within one deletion of references makes the
next resume at the wrong file (`resourceprocessing.c:1950`; `astray`, and the run
`gc_interrupted`). A file without an FTAG (line 1984) is walked with the GCTAG of
that file and the number of the one before it, and when it is old ends the run: `astray`
too. The theorems have it; the instances have not (the tail "tagless"), since
such a walk hands out the same deletion again and again and its states do not come to an
end. When one of two deletions of objects in a chain fails, the chain goes on
(`resourcelog.c:897`; `SplitMayFail`). A stream whose last file is finished and
followed by nothing keeps its last object for ever (the tail "fin" in `NoOrphans`
and `GarbageGoes`).

*ResourceLog.* A rank reads the log of its own number; a crash ends the whole
job. A failed deletion of no references is not counted as an error
(`Counted`). Dry-run logs go unless they are to be preserved.

*ResourceManager.* When an error is reported after a rank was told to terminate and
before its answer was read, the manager waits for ever (`resourcemanager.c:1292`);
`TooLate` names this state. After a fatal error quotas are set from partial reports.

*RebuildMarkers.* A reader needs less time between its link and its tag than the
threshold of a run. A marker keeps its file "in use". A failing `fsetxattr()` is only
logged, and the marker then is rebuilt without a hint.

*PathTraversal.* A working directory other than the root makes later relative
paths go wrong in several ways (`marfs.c:1894`, `posix_mdal.c:1994`,
`config.c:3733`; `ChdirsAway`). Cycles of links are followed for ever; the
instance has one link. Directories that do not exist are passed as if they did (the
`stat` at `config.c:3635` then fails with ENOENT, and the path stays lexical); ENOTDIR and
EACCES (to line 3640) are not modelled.

*ApiHandles.* `marfs_read()` closes the descriptor of another handle when its
stream is lost (`marfs.c:2759`); a failing `marfs_readlink()` leaves a thread with
its caller's credentials (`fuse.c:705`); a failing truncation by path leaves its
handle behind (`fuse.c:1028`). The properties set these aside by name
(`defects`). The kernel serialises writes to an inode and reads of a directory. The model
closes the descriptor of the previous file of a packed create stream at once; the stream
keeps it until the object is closed. An open whose position cannot be duplicated
(`marfs.c:2363`), and the references to ghost namespaces that a handle holds, are not modelled.

*MetadataOps.* `marfs_rename()` checks the permissions of the destination only;
`posixmdal_destroynamespace()` removes the reference tree before it knows that it
can remove the rest.

*ConfigLoad.* Ghosts whose repository is not that of their target get their
directory on the wrong MDAL, and `config_verify()` without repair does not look at
ghosts; `VerifiedIsUsable` says what remains. A lookup in an empty table reads out of
bounds; the tables of the instance have a virtual node (the copy of a ghost without subspaces,
`config.c:2865`, has such a table, and `config_shiftns()` looks names up in it). `config_verify()` is modelled with recursion
into subspaces; a namespace that cannot be created (`config.c:3341`) and a reference
directory without permission are not modelled.

## 6. Not modelled

The arithmetic of erasure coding, the codecs of tags, recovery information and meta
files, the S3 DAL and the wrappers for timing, recording and fuzzing, the scanner
of XML, `statvfs`, `access` and xattr listing, the choice of files to repack, command
lines and output, logging, the predecessors of the resource manager and the
`rsrc_mgr/` refactoring that the build does not make, and `marchive/`.

----------------------------- MODULE ApiHandles -----------------------------
(***************************************************************************)
(* The file and directory handles of the MarFS API (marfs.c), as used by   *)
(* the threads of the FUSE daemon (fuse.c, change_user.c) and by a program *)
(* that calls the API itself.  A handle joins a datastream, the descriptor *)
(* of the stream's current file (metahandle) and a reference to a          *)
(* namespace; every call works on them under the lock of the handle, and a *)
(* failure inside the datastream may take the stream away.  A FUSE request *)
(* runs with the credentials of its caller, which the thread takes on      *)
(* before and gives back after it.                                         *)
(*                                                                         *)
(* Where the path leads, what a stream holds and the tree of the metadata  *)
(* are the business of other modules: here every such call succeeds, fails *)
(* or, where it can, loses its stream.                                     *)
(***************************************************************************)
EXTENDS Naturals, Sequences, FiniteSets

CONSTANTS
  Threads,    \* of the FUSE daemon
  Users,      \* the callers, other than the user of the daemon
  Handles,    \* the file handles there may be at once
  MaxOffset,  \* bound on the offsets of writes
  Subspaces,  \* the subspaces of the directory that is listed: is each of them there?
  Entries,    \* the entries of its MDAL directory: is each of them private?
  AtRoot,     \* is the directory the root of a namespace?
  BufSize     \* the names that fit the answer of one readdir

ASSUME ApiAssumption ==
  /\ MaxOffset \in Nat /\ BufSize \in Nat \ {0} /\ AtRoot \in BOOLEAN
  /\ Subspaces \in Seq(BOOLEAN) /\ Entries \in Seq(BOOLEAN)
\* Finitely many handles; a thread is none of the others that hold handles.
ASSUME HolderAssumption ==
  /\ IsFiniteSet(Handles) /\ "no one" \notin Handles
  /\ Threads \cap {"kernel", "client", "dropped", "no one"} = {}

VARIABLES
  thr,      \* the threads: what they are at, for whom, and their credentials
  fh,       \* the file handles
  fdown,    \* the descriptors of the process, and the handle each was opened for
  scene,    \* what the kernel uses in this behaviour: files or a directory
  dh,       \* the directory handle and what the kernel has got through it
  defects   \* history: which of the known defects of the code have struck

vars == <<thr, fh, fdown, scene, dh, defects>>

Daemon == "daemon"
NoOne == "no one"
Fds == 1 .. Cardinality(Handles) + 1
Offsets == 0 .. MaxOffset

\* a handle that is not allocated, and one just made by new_marfs_fhandle()
Free == [live |-> FALSE, ds |-> "none", meta |-> 0, async |-> FALSE, locked |-> FALSE,
         off |-> 0, mode |-> "none", holder |-> NoOne]
new_marfs_fhandle(who) == [Free EXCEPT !.live = TRUE, !.holder = who]

-----------------------------------------------------------------------------
(* Credentials: the real ids are those of the daemon, which is privileged; *)
(* every user has a group of the same name                                 *)

DaemonCred == [euid |-> Daemon, suid |-> Daemon, egid |-> Daemon, sgid |-> Daemon, groups |-> Daemon]
Privileged(cred) == cred.euid = Daemon
\* the user may be unknown; without privilege the groups cannot be set
enter_groups(cred, u) == IF Privileged(cred) THEN [cred EXCEPT !.groups = u] ELSE cred
SetGid(cred, u) == [cred EXCEPT !.egid = u, !.sgid = cred.egid]
SetUid(cred, u) == [cred EXCEPT !.euid = u, !.suid = cred.euid]
\* Mutant: the result of setresuid() is not looked at
enter_userUnchecked(cred, u, groups) ==
  LET c == IF groups THEN enter_groups(cred, u) ELSE cred
  IN  IF ~Privileged(c) /\ u \notin {Daemon, c.euid, c.suid} THEN {[cred |-> c, ok |-> TRUE]}
      ELSE {[cred |-> SetUid(SetGid(c, u), u), ok |-> TRUE]}
\* The outcomes of enter_user().  What fails leaves the groups as they have become.
enter_user(cred, u, groups) ==
  LET c == IF groups THEN enter_groups(cred, u) ELSE cred
      Failed(x) == [cred |-> x, ok |-> FALSE]
  IN  (IF groups THEN {Failed(cred)} ELSE {})
      \cup (IF groups /\ ~Privileged(cred) THEN {}
            ELSE IF ~Privileged(c) /\ u \notin {Daemon, c.egid, c.sgid} THEN {Failed(c)}
            ELSE IF ~Privileged(c) /\ u \notin {Daemon, c.euid, c.suid}
            THEN {Failed([SetGid(c, u) EXCEPT !.egid = c.egid])}
            ELSE {[cred |-> SetUid(SetGid(c, u), u), ok |-> TRUE]})
exit_groups(cred, saved) == [cred EXCEPT !.groups = saved]
exit_user(cred, saved) == exit_groups([cred EXCEPT !.euid = cred.suid, !.egid = cred.sgid], saved)

\* A thread takes a request: of a user, about a handle, with or without the user's groups.
Idle(t) == thr[t].at = "idle"
IdleThread(cred) == [at |-> "idle", cred |-> cred, user |-> NoOne, h |-> NoOne, saved |-> NoOne, off |-> 0]
Enter(t, kind, u, h, groups, off) ==
  /\ Idle(t)
  /\ \E res \in enter_user(thr[t].cred, u, groups) :
       thr' = [thr EXCEPT ![t] =
                 IF res.ok THEN [at |-> kind, cred |-> res.cred, user |-> u, h |-> h,
                                 saved |-> thr[t].cred.groups, off |-> off]
                 ELSE IdleThread(res.cred)]
\* the request returns, through exit_user() ...
Return(t) == thr' = [thr EXCEPT ![t] = IdleThread(exit_user(@.cred, @.saved))]
\* ... or without it
ReturnAs(t) == thr' = [thr EXCEPT ![t] = IdleThread(@.cred)]
Goto(t, kind, h) == thr' = [thr EXCEPT ![t].at = kind, ![t].h = h]

-----------------------------------------------------------------------------
(* Descriptors: the kernel gives out the lowest that is free *)

FreshFd(own) == CHOOSE f \in Fds : own[f] = NoOne /\ \A g \in 1 .. f - 1 : own[g] # NoOne
Opened(own, h) == [own EXCEPT ![FreshFd(own)] = h]
posixmdal_close(own, fd) == IF fd = 0 THEN own ELSE [own EXCEPT ![fd] = NoOne]

\* the handle after its stream was freed, and after a call on the stream that may free it
Lost(r) == [r EXCEPT !.ds = "none", !.meta = 0, !.off = 0]
AfterCall(h, res) ==
  IF res = "lost"
  THEN /\ fh' = [fh EXCEPT ![h] = Lost(@)] /\ fdown' = posixmdal_close(fdown, fh[h].meta)
       /\ UNCHANGED defects
  ELSE UNCHANGED <<fh, fdown, defects>>
Unlocked(h) == fh[h].live /\ ~fh[h].locked

-----------------------------------------------------------------------------
(* Opening.  `who' gets a new handle, or a handle he has is used again:    *)
(* what it had is then closed, unless the stream goes on.                  *)

IsNew(h) == ~fh[h].live
\* a handle without a stream gives up the file it was on
Base(h, who) == IF IsNew(h) THEN new_marfs_fhandle(who)
                ELSE IF fh[h].ds = "none" THEN [fh[h] EXCEPT !.meta = 0] ELSE fh[h]
BaseFds(h) == IF ~IsNew(h) /\ fh[h].ds = "none" THEN posixmdal_close(fdown, fh[h].meta) ELSE fdown
Defunct(h) == ~IsNew(h) /\ fh[h].ds = "none" /\ fh[h].meta = 0
\* the failures of an open: the handle is freed if it is new
Unopened(h, who) == IF IsNew(h) THEN Free ELSE Base(h, who)
StreamGone(h, who) == IF IsNew(h) THEN Free ELSE Lost(Base(h, who))
OnStream(h, who, type) ==
  [Base(h, who) EXCEPT !.ds = type, !.async = FALSE, !.off = 0, !.mode = type,
                       !.meta = FreshFd(posixmdal_close(BaseFds(h), Base(h, who).meta))]

\* Where datastream_create() and datastream_open() may leave the stream of a handle
datastream_create(r) == (IF r.ds \in {"none", "create"} THEN {"ok"} ELSE {}) \cup {"kept"}
                        \cup (IF r.ds = "create" THEN {"lost"} ELSE {})
datastream_open(r, type) ==
  (IF r.ds \in {"none", type} THEN {"ok"} ELSE {}) \cup {"kept"}
  \cup (IF r.ds = type THEN {"lost"} ELSE {})
  \cup (IF type = "read" /\ r.ds \in {"none", type} THEN {"direct"} ELSE {})

Put(h, r, own) == fh' = [fh EXCEPT ![h] = r] /\ fdown' = own
\* a copy of the reference to the namespace cannot be made: the lock is not released
CreatNoRef(h, who) ==
  Put(h, IF IsNew(h) THEN Free ELSE [Base(h, who) EXCEPT !.locked = TRUE], BaseFds(h)) /\ UNCHANGED defects
marfs_creat(h, who) ==
  /\ IsNew(h) \/ Unlocked(h)
  /\ IF Defunct(h) THEN UNCHANGED <<fh, fdown, defects>>
     ELSE \/ CreatNoRef(h, who)
          \/ \E res \in datastream_create(Base(h, who)) :
               /\ CASE res = "ok" -> Put(h, OnStream(h, who, "create"),
                                         Opened(posixmdal_close(BaseFds(h), Base(h, who).meta), h))
                    [] res = "kept" -> Put(h, Unopened(h, who), BaseFds(h))
                    [] res = "lost" -> Put(h, StreamGone(h, who), posixmdal_close(BaseFds(h), Base(h, who).meta))
               /\ UNCHANGED defects

\* O_ASYNC: the file of the MDAL alone.  A stream the handle has is released, which may fail.
\* `ok' says whether the file could be opened.
OpenAsync(h, who, ok) ==
  LET own == posixmdal_close(BaseFds(h), Base(h, who).meta)
  IN  /\ IF ok THEN Put(h, [Base(h, who) EXCEPT !.ds = "none", !.async = TRUE, !.meta = FreshFd(own), !.mode = "async"],
                        Opened(own, h))
         ELSE Put(h, StreamGone(h, who), own)
      /\ UNCHANGED defects
\* Through a datastream; a file without one (its data is in the MDAL file) leaves "direct"
\* access to it, for which any stream of the handle is released.
OpenStream(h, who, type, ok) ==
  LET own == posixmdal_close(BaseFds(h), Base(h, who).meta)
  IN  /\ UNCHANGED defects
      /\ \E res \in datastream_open(Base(h, who), type) :
           /\ ok <=> res \in {"ok", "direct"}
           /\ CASE res = "ok" -> Put(h, OnStream(h, who, type), Opened(own, h))
                [] res = "direct" -> Put(h, [OnStream(h, who, type) EXCEPT !.ds = "none", !.async = TRUE], Opened(own, h))
                [] res = "kept" -> Put(h, Unopened(h, who), BaseFds(h))
                [] res = "lost" -> Put(h, StreamGone(h, who), own)
marfs_open(h, who, type, ok) ==
  /\ IsNew(h) \/ Unlocked(h)
  /\ IF Defunct(h) THEN ~ok /\ UNCHANGED <<fh, fdown, defects>>
     ELSE IF type = "async" THEN OpenAsync(h, who, ok)
     ELSE OpenStream(h, who, type, ok)

-----------------------------------------------------------------------------
(* Calls on a handle.  With a datastream they go through it; without, to   *)
(* the file of the MDAL if the handle is an asynchronous one.              *)

Gone(h) == Put(h, Free, posixmdal_close(fdown, fh[h].meta)) /\ UNCHANGED defects
\* stream or file are closed, whatever comes of it, and the handle is freed
marfs_close(h) == Unlocked(h) /\ Gone(h)
marfs_release(h) == Unlocked(h) /\ Gone(h)
\* Mutant: the stream is closed, its descriptor kept in the handle
marfs_flushKeeps(h) ==
  /\ Unlocked(h)
  /\ Put(h, [fh[h] EXCEPT !.ds = "none"], posixmdal_close(fdown, fh[h].meta)) /\ UNCHANGED defects
marfs_flush(h) ==
  /\ Unlocked(h)
  /\ Put(h, Lost(fh[h]), posixmdal_close(fdown, fh[h].meta)) /\ UNCHANGED defects

\* what a call on a stream of this type may do: succeed, fail or lose the stream
datastream_read(type) == IF type = "read" THEN {"ok", "fail", "lost"} ELSE {"fail"}
datastream_write(type) == IF type \in {"create", "edit"} THEN {"ok", "fail", "lost"} ELSE {"fail"}
datastream_seek(type) == {"ok", "fail", "lost"}
datastream_extend(type) == IF type = "create" THEN {"ok", "fail", "lost"} ELSE {"fail"}
datastream_truncate(type) == IF type = "edit" THEN {"ok", "fail"} ELSE {"fail"}

\* the place of the next write; reads come with theirs
Moved(h, res, to) ==
  IF res = "ok" /\ fh[h].ds # "read" THEN fh' = [fh EXCEPT ![h].off = to] /\ UNCHANGED <<fdown, defects>>
  ELSE AfterCall(h, res)
\* marfs_read() leaves the descriptor of a stream that is gone in the handle.
marfs_read(h) ==
  /\ Unlocked(h)
  /\ IF fh[h].ds = "none" THEN UNCHANGED <<fh, fdown, defects>>
     ELSE \E res \in datastream_read(fh[h].ds) :
            IF res = "lost"
            THEN /\ Put(h, [fh[h] EXCEPT !.ds = "none"], posixmdal_close(fdown, fh[h].meta))
                 /\ defects' = defects \cup {"read"}
            ELSE UNCHANGED <<fh, fdown, defects>>
marfs_write(h) ==
  /\ Unlocked(h)
  /\ IF fh[h].ds = "none" THEN UNCHANGED <<fh, fdown, defects>>
     ELSE \E res \in datastream_write(fh[h].ds) :
            Moved(h, res, IF fh[h].off < MaxOffset THEN fh[h].off + 1 ELSE MaxOffset)
\* `ok' says whether the position asked for was reached; short of it the stream has moved, too
marfs_seek(h, to, ok) ==
  /\ Unlocked(h)
  /\ IF fh[h].ds = "none" THEN ~ok /\ UNCHANGED <<fh, fdown, defects>>
     ELSE \E res \in datastream_seek(fh[h].ds) :
            \/ ok = (res = "ok") /\ Moved(h, res, to)
            \/ ~ok /\ fh[h].ds = "create" /\ \E short \in 0 .. to :
                 fh' = [fh EXCEPT ![h].off = short] /\ UNCHANGED <<fdown, defects>>
\* seek and read under one lock
marfs_read_at_offset(h) ==
  /\ Unlocked(h)
  /\ IF fh[h].ds = "none" THEN UNCHANGED <<fh, fdown, defects>>
     ELSE \E sres \in datastream_seek(fh[h].ds), rres \in datastream_read(fh[h].ds) :
            AfterCall(h, IF sres = "ok" THEN rres ELSE sres)
\* the calls that leave the handle as it is, whatever they return
marfs_chunkbounds(h) == Unlocked(h) /\ UNCHANGED <<fh, fdown, defects>>
marfs_setrecoverypath(h) == Unlocked(h) /\ UNCHANGED <<fh, fdown, defects>>
marfs_futimens(h) == Unlocked(h) /\ UNCHANGED <<fh, fdown, defects>>
marfs_ftruncate(h, ok) ==
  /\ Unlocked(h)
  /\ ok => IF fh[h].ds = "none" THEN fh[h].async /\ fh[h].meta # 0 ELSE "ok" \in datastream_truncate(fh[h].ds)
  /\ UNCHANGED <<fh, fdown, defects>>
marfs_extend(h) ==
  /\ Unlocked(h)
  /\ IF fh[h].ds = "none" THEN UNCHANGED <<fh, fdown, defects>>
     ELSE \E res \in datastream_extend(fh[h].ds) : AfterCall(h, res)

-----------------------------------------------------------------------------
(* FUSE requests.  The kernel opens and releases a file once, sends        *)
(* requests in between, and one at a time of those that write.             *)

Busy(h) == \E t \in Threads : thr[t].h = h
Writing(h) == \E t \in Threads : thr[t].h = h /\ thr[t].at \in {"seek", "write", "ftruncate"}
KernelHas(h) == fh[h].live /\ fh[h].holder = "kernel"
Callers == Users \cup {Daemon}

\* a request about a path: one call of the API (see the module of the metadata)
FusePath(t, u) == Enter(t, "path", u, NoOne, TRUE, 0) /\ UNCHANGED <<fh, fdown, scene, dh, defects>>
FusePathDone(t) == thr[t].at = "path" /\ Return(t) /\ UNCHANGED <<fh, fdown, scene, dh, defects>>
\* a failure of marfs_readlink() returns without exit_user()
fuse_readlink(t, u) == Enter(t, "readlink", u, NoOne, TRUE, 0) /\ UNCHANGED <<fh, fdown, scene, dh, defects>>
Readlink(t) ==
  /\ thr[t].at = "readlink"
  /\ \/ Return(t) /\ UNCHANGED defects
     \/ ReturnAs(t) /\ defects' = defects \cup {"readlink"}
  /\ UNCHANGED <<fh, fdown, scene, dh>>

FuseEnter(t, kind, u, h, groups, off) ==
  Enter(t, kind, u, h, groups, off) /\ UNCHANGED <<fh, fdown, scene, dh, defects>>
\* a handle the request is to make: reserved for the thread while the call runs
Unused(h) == IsNew(h) /\ ~Busy(h)
fuse_create(t, u, h) == Unused(h) /\ FuseEnter(t, "create", u, h, TRUE, 0)
Create(t) == thr[t].at = "create" /\ marfs_creat(thr[t].h, "kernel") /\ Return(t) /\ UNCHANGED <<scene, dh>>
fuse_open(t, u, h, type) == Unused(h) /\ FuseEnter(t, type, u, h, TRUE, 0)
Open(t) ==
  /\ thr[t].at \in {"read", "edit"}
  /\ \E ok \in BOOLEAN : marfs_open(thr[t].h, "kernel", thr[t].at, ok)
  /\ Return(t) /\ UNCHANGED <<scene, dh>>
fuse_read(t, u, h) ==
  KernelHas(h) /\ fh[h].mode = "read" /\ FuseEnter(t, "fetch", u, h, FALSE, 0)
Read(t) ==
  /\ thr[t].at = "fetch" /\ marfs_read_at_offset(thr[t].h)
  /\ Return(t) /\ UNCHANGED <<scene, dh>>
\* two calls, each with the lock to itself
fuse_write(t, u, h, off) ==
  /\ KernelHas(h) /\ fh[h].mode \in {"create", "edit"} /\ ~Writing(h)
  /\ FuseEnter(t, "seek", u, h, FALSE, off)
Seek(t) ==
  /\ thr[t].at = "seek"
  /\ \E ok \in BOOLEAN : /\ marfs_seek(thr[t].h, thr[t].off, ok)
                         /\ IF ok THEN Goto(t, "write", thr[t].h) ELSE Return(t)
  /\ UNCHANGED <<scene, dh>>
Write(t) == thr[t].at = "write" /\ marfs_write(thr[t].h) /\ Return(t) /\ UNCHANGED <<scene, dh>>
fuse_ftruncate(t, u, h) ==
  KernelHas(h) /\ fh[h].mode \in {"create", "edit"} /\ ~Writing(h) /\ FuseEnter(t, "ftruncate", u, h, TRUE, 0)
Ftruncate(t) ==
  /\ thr[t].at = "ftruncate" /\ \E ok \in BOOLEAN : marfs_ftruncate(thr[t].h, ok)
  /\ Return(t) /\ UNCHANGED <<scene, dh>>
\* the kernel sends it once; if the daemon cannot take on the identity, the handle stays
fuse_release(t, u, h) ==
  /\ KernelHas(h) /\ ~Busy(h) /\ Enter(t, "close", u, h, FALSE, 0)
  /\ fh' = [fh EXCEPT ![h].holder = IF Idle(t)' THEN "dropped" ELSE t]
  /\ UNCHANGED <<fdown, scene, dh, defects>>
Release(t) == thr[t].at = "close" /\ marfs_close(thr[t].h) /\ Return(t) /\ UNCHANGED <<scene, dh>>

\* Extended attributes by path: an asynchronous handle for the one call
FuseXattr(t, u, h) == Unused(h) /\ FuseEnter(t, "xopen", u, h, TRUE, 0)
XattrOpen(t) ==
  /\ thr[t].at = "xopen"
  /\ \E ok \in BOOLEAN : /\ marfs_open(thr[t].h, t, "async", ok)
                         /\ IF ok THEN Goto(t, "xattr", thr[t].h) ELSE Return(t)
  /\ UNCHANGED <<scene, dh>>
XattrCall(t) == thr[t].at = "xattr" /\ Goto(t, "xrelease", thr[t].h) /\ UNCHANGED <<fh, fdown, scene, dh, defects>>
XattrRelease(t) == thr[t].at = "xrelease" /\ marfs_release(thr[t].h) /\ Return(t) /\ UNCHANGED <<scene, dh>>
\* Truncation by path; the handle stays behind if the truncation fails.
fuse_truncate(t, u, h) == Unused(h) /\ FuseEnter(t, "topen", u, h, TRUE, 0)
TruncateOpen(t) ==
  /\ thr[t].at = "topen"
  /\ \E ok \in BOOLEAN : /\ marfs_open(thr[t].h, t, "edit", ok)
                         /\ IF ok THEN Goto(t, "truncate", thr[t].h) ELSE Return(t)
  /\ UNCHANGED <<scene, dh>>
Truncate(t) ==
  /\ thr[t].at = "truncate"
  /\ \/ marfs_ftruncate(thr[t].h, TRUE) /\ Goto(t, "tclose", thr[t].h)
     \/ /\ Unlocked(thr[t].h) /\ fh' = [fh EXCEPT ![thr[t].h].holder = "dropped"]
        /\ Return(t) /\ defects' = defects \cup {"truncate"} /\ UNCHANGED fdown
  /\ UNCHANGED <<scene, dh>>
TruncateClose(t) == thr[t].at = "tclose" /\ marfs_close(thr[t].h) /\ Return(t) /\ UNCHANGED <<scene, dh>>

-----------------------------------------------------------------------------
(* A program that calls the API itself, one call after the other: it may   *)
(* create and open on a handle it has, and makes calls FUSE does not.      *)

Own(h) == fh[h].live /\ fh[h].holder = "client"
ClientCall(h) ==
  /\ UNCHANGED <<thr, scene, dh>>
  /\ \/ Unused(h) /\ marfs_creat(h, "client")
     \/ Unused(h) /\ \E type \in {"read", "edit", "async"}, ok \in BOOLEAN : marfs_open(h, "client", type, ok)
     \/ Own(h) /\ marfs_creat(h, "client")
     \/ Own(h) /\ \E type \in {"read", "edit", "async"}, ok \in BOOLEAN : marfs_open(h, "client", type, ok)
     \/ Own(h) /\ marfs_read(h)
     \/ Own(h) /\ marfs_write(h)
     \/ Own(h) /\ \E to \in Offsets, ok \in BOOLEAN : marfs_seek(h, to, ok)
     \/ Own(h) /\ marfs_chunkbounds(h)
     \/ Own(h) /\ marfs_setrecoverypath(h)
     \/ Own(h) /\ marfs_futimens(h)
     \/ Own(h) /\ marfs_extend(h)
     \/ Own(h) /\ marfs_flush(h)
     \/ Own(h) /\ marfs_release(h)

-----------------------------------------------------------------------------
(* Directories.  A location counts the subspaces that are behind; from     *)
(* Mask on it is one in the directory of the MDAL.                         *)

Mask == 1000
ASSUME MaskAssumption == Len(Subspaces) < Mask
HasSub == AtRoot /\ Subspaces # <<>>
InMdal(loc) == loc >= Mask
marfs_telldir(d) == IF ~HasSub THEN d.pos ELSE IF InMdal(d.loc) THEN Mask + d.pos ELSE d.loc
marfs_seekdir(d, loc) ==
  IF ~HasSub THEN [d EXCEPT !.pos = loc]
  ELSE IF InMdal(loc) THEN [d EXCEPT !.loc = Mask, !.pos = loc - Mask]
  ELSE [d EXCEPT !.loc = loc, !.pos = IF InMdal(d.loc) THEN 0 ELSE @]
marfs_rewinddir(d) == [d EXCEPT !.loc = 0, !.pos = IF ~HasSub \/ InMdal(d.loc) THEN 0 ELSE @]
Least(set) == CHOOSE i \in set : \A j \in set : i <= j
\* subspaces that have no directory of their own (yet) are passed over, private entries too
NextSub(d) == {i \in d.loc + 1 .. Len(Subspaces) : Subspaces[i]}
NextEntry(d) == {j \in d.pos + 1 .. Len(Entries) : ~(AtRoot /\ Entries[j])}
NoName == <<"none", 0>>
ReadMdal(d) ==
  IF NextEntry(d) = {} THEN [d |-> [d EXCEPT !.pos = Len(Entries)], name |-> NoName]
  ELSE [d |-> [d EXCEPT !.pos = Least(NextEntry(d))], name |-> <<"entry", Least(NextEntry(d))>>]
marfs_readdir(d) ==
  IF HasSub /\ ~InMdal(d.loc)
  THEN IF NextSub(d) # {}
       THEN [d |-> [d EXCEPT !.loc = Least(NextSub(d))], name |-> <<"subspace", Least(NextSub(d))>>]
       ELSE ReadMdal([d EXCEPT !.loc = Mask])
  ELSE ReadMdal(d)

\* The kernel asks for names from an offset it got with one (0 at first) and takes an answer
\* without any for the end of the directory.
NoDir == [open |-> FALSE, loc |-> 0, pos |-> 0, got |-> <<>>, answer |-> 0, ended |-> FALSE]
Koff == IF dh.got = <<>> THEN 0 ELSE dh.got[Len(dh.got)].off
Listing == \E t \in Threads : thr[t].at \in {"opendir", "list", "closedir"}
fuse_opendir(t, u) == ~dh.open /\ ~Listing /\ FuseEnter(t, "opendir", u, NoOne, TRUE, 0)
Opendir(t) ==
  /\ thr[t].at = "opendir" /\ \E ok \in BOOLEAN : dh' = [NoDir EXCEPT !.open = ok]
  /\ Return(t) /\ UNCHANGED <<fh, fdown, scene, defects>>
\* back to the place of a name the kernel has (rewinddir, seekdir of the user)
KernelSeeks ==
  /\ dh.open /\ ~Listing
  /\ \E n \in 0 .. Len(dh.got) : dh' = [dh EXCEPT !.got = SubSeq(dh.got, 1, n), !.ended = FALSE]
  /\ UNCHANGED <<thr, fh, fdown, scene, defects>>
fuse_readdir(t, u) ==
  /\ dh.open /\ ~dh.ended /\ ~Listing
  /\ Enter(t, "list", u, NoOne, TRUE, 0)
  /\ dh' = IF Idle(t)' THEN dh
           ELSE [(IF Koff = marfs_telldir(dh) THEN dh
                  ELSE IF Koff # 0 THEN marfs_seekdir(dh, Koff) ELSE marfs_rewinddir(dh)) EXCEPT !.answer = 0]
  /\ UNCHANGED <<fh, fdown, scene, defects>>
\* one name: it goes into the answer, does not fit any more, or there is none
ReaddirStep(t) ==
  /\ thr[t].at = "list"
  /\ LET r == marfs_readdir(dh)
     IN  CASE r.name = NoName -> dh' = [r.d EXCEPT !.ended = (dh.answer = 0)] /\ Return(t)
           [] r.name # NoName /\ dh.answer = BufSize -> dh' = r.d /\ Return(t)
           [] r.name # NoName /\ dh.answer < BufSize ->
                /\ dh' = [r.d EXCEPT !.got = Append(@, [name |-> r.name, off |-> marfs_telldir(r.d)]), !.answer = @ + 1]
                /\ UNCHANGED thr
  /\ UNCHANGED <<fh, fdown, scene, defects>>
fuse_releasedir(t, u) ==
  dh.open /\ ~Listing /\ FuseEnter(t, "closedir", u, NoOne, FALSE, 0)
marfs_closedir(t) ==
  /\ thr[t].at = "closedir" /\ dh' = NoDir /\ Return(t) /\ UNCHANGED <<fh, fdown, scene, defects>>

-----------------------------------------------------------------------------
Init ==
  /\ thr = [t \in Threads |-> IdleThread(DaemonCred)]
  /\ fh = [h \in Handles |-> Free] /\ fdown = [f \in Fds |-> NoOne]
  /\ scene \in {"files", "directory"} /\ dh = NoDir /\ defects = {}

Request(t, u) ==
  \/ FusePath(t, u)
  \/ fuse_readlink(t, u)
  \/ scene = "files" /\ \E h \in Handles :
       \/ fuse_create(t, u, h)
       \/ \E type \in {"read", "edit"} : fuse_open(t, u, h, type)
       \/ fuse_read(t, u, h)
       \/ \E off \in Offsets : fuse_write(t, u, h, off)
       \/ fuse_ftruncate(t, u, h)
       \/ fuse_release(t, u, h)
       \/ FuseXattr(t, u, h)
       \/ fuse_truncate(t, u, h)
  \/ scene = "directory" /\ fuse_opendir(t, u)
  \/ scene = "directory" /\ fuse_readdir(t, u)
  \/ scene = "directory" /\ fuse_releasedir(t, u)
ThreadStep(t) ==
  \/ FusePathDone(t) \/ Readlink(t) \/ Create(t) \/ Open(t) \/ Read(t) \/ Seek(t) \/ Write(t)
  \/ Ftruncate(t) \/ Release(t) \/ XattrOpen(t) \/ XattrCall(t) \/ XattrRelease(t)
  \/ TruncateOpen(t) \/ Truncate(t) \/ TruncateClose(t) \/ Opendir(t) \/ ReaddirStep(t) \/ marfs_closedir(t)
Next ==
  \/ \E t \in Threads, u \in Callers : Request(t, u)
  \/ \E t \in Threads : ThreadStep(t)
  \/ scene = "files" /\ \E h \in Handles : ClientCall(h)
  \/ KernelSeeks

Spec == Init /\ [][Next]_vars

-----------------------------------------------------------------------------
(* Properties *)

\* The descriptor a handle holds is open and was opened for it, whatever failed before, so no
\* call reads, changes or closes the file of another handle; and no descriptor is left open
\* that no handle holds.  marfs_read() breaks this when the stream is lost in it
\* (marfs.c:2759), which is why that case is set aside.
DescriptorsMatchHandles ==
  "read" \notin defects => \A f \in Fds, h \in Handles : fh[h].meta = f <=> fdown[f] = h
\* A request acts with the user and group of its caller, on every path through enter_user()
\* (even on a thread that did not get back to the identity of the daemon).
ActsAsCaller ==
  \A t \in Threads : ~Idle(t) => thr[t].cred.euid = thr[t].user /\ thr[t].cred.egid = thr[t].user
\* Between requests a thread has the credentials of the daemon, saved ids and groups included.
\* A failure of marfs_readlink() breaks this (fuse.c:707).
IdleIsDaemon ==
  "readlink" \notin defects => \A t \in Threads : Idle(t) => thr[t].cred = DaemonCred
\* Handles do not pile up: a live one belongs to the kernel, to a request under way or to the
\* program.  A failed truncation by path (fuse.c:1028) and a release on a thread that has lost
\* its privilege break this.
HandlesHaveHolders ==
  \A h \in Handles : fh[h].live => \/ fh[h].holder \in {"kernel", "client"}
                                   \/ fh[h].holder \in Threads /\ thr[fh[h].holder].h = h
                                   \/ {"truncate", "readlink"} \cap defects # {}
\* What fuse_write() writes goes where the kernel asked: nothing moves the stream between its
\* marfs_seek() and its marfs_write().
WritesLandRight ==
  \A t \in Threads : thr[t].at = "write" /\ fh[thr[t].h].ds # "none" => fh[thr[t].h].off = thr[t].off
\* A listing that has ended gave every subspace that exists and every entry of the directory
\* that is not private once, in order, wherever the answers were cut and the kernel went back.
Expected ==
  LET sub == IF HasSub THEN {i \in DOMAIN Subspaces : Subspaces[i]} ELSE {}
      ent == {j \in DOMAIN Entries : ~(AtRoot /\ Entries[j])}
  IN  [sub |-> sub, ent |-> ent]
ListingComplete ==
  dh.ended =>
    LET names == [i \in DOMAIN dh.got |-> dh.got[i].name]
    IN  /\ {names[i] : i \in DOMAIN names} =
             {<<"subspace", i>> : i \in Expected.sub} \cup {<<"entry", j>> : j \in Expected.ent}
        /\ Len(names) = Cardinality(Expected.sub) + Cardinality(Expected.ent)

\* Descriptors, handles and their holders correspond, whatever fails on the way.
HandlesAreSound == DescriptorsMatchHandles /\ HandlesHaveHolders

\* A request is served as its caller, where the kernel asked, and leaves the daemon behind.
RequestsAreRight == ActsAsCaller /\ IdleIsDaemon /\ WritesLandRight /\ ListingComplete
=============================================================================

----------------------------- MODULE MetadataOps -----------------------------
(***************************************************************************)
(* The metadata of MarFS, as the POSIX MDAL keeps it (posix_mdal.c) and as *)
(* the calls of the API on paths change it (marfs.c, behind fuse.c).  A    *)
(* file is one inode with a reference in the tree of references of its     *)
(* namespace (MDAL_reference) and with the paths the users have given it;  *)
(* a ghost namespace has paths of its own but shares the references of its *)
(* target.  Creating a file takes several steps (datastream.c), which race *)
(* with other creators, with the calls of users, with rman's collection of *)
(* references without a path and of empty reference directories, and with  *)
(* the removal of the namespace itself.                                    *)
(*                                                                         *)
(* The other calls are taken as atomic once their path is resolved         *)
(* (PathTraversal is about that): each ends in one system call.            *)
(***************************************************************************)
EXTENDS Naturals, Sequences, SequencesExt, FiniteSets

CONSTANTS
  Namespaces, \* as the configuration names them
  TargetOf,   \* the target of a ghost namespace, or NoSpace
  NsParent,   \* the namespace another is a subspace of, or NoSpace
  PathsIn,    \* the paths of each namespace that are looked at (sequences of names)
  FQuota,     \* the quota of inodes of each namespace, 0 for none
  Files,      \* the inodes, each with the name of its reference
  Creators,   \* the processes that create files
  ConfigVer,  \* the path at which the FUSE daemon shows the version of the configuration
  Starts,     \* which entries there may be at the start
  Configs,    \* what the administrator may configure: an interface and permissions
  Watched,    \* bound: the namespaces that may be removed and whose usage is recorded
  MaxCalls,   \* bound on the calls, crashes and changes by the administrator
  NoSpace, NoFile

Perms == {"readmeta", "writemeta", "readdata", "writedata"}
\* the namespace whose tree has the references of another
RefTree(n) == IF TargetOf[n] = NoSpace THEN n ELSE TargetOf[n]
Cells == UNION {{n} \X PathsIn[n] : n \in Namespaces}
ASSUME MetaAssumption ==
  /\ TargetOf \in [Namespaces -> Namespaces \cup {NoSpace}] /\ NoSpace \notin Namespaces
  /\ NsParent \in [Namespaces -> Namespaces \cup {NoSpace}]
  /\ FQuota \in [Namespaces -> Nat] /\ MaxCalls \in Nat
  /\ \A n \in Namespaces : TargetOf[n] # NoSpace => TargetOf[TargetOf[n]] = NoSpace
  /\ \A cf \in Configs : /\ cf.itype \in {"interactive", "batch"}
                         /\ cf.iperms \in [Namespaces -> SUBSET Perms]
                         /\ cf.bperms \in [Namespaces -> SUBSET Perms]
\* Finitely many paths are looked at; a file is not another kind of entry.  At the start the
\* paths of a file are in namespaces that share its reference.
ASSUME EntriesAssumption ==
  /\ IsFiniteSet(Cells)
  /\ {NoFile, "none", "dir", "symlink"} \cap Files = {}
  /\ \A start \in Starts :
       /\ DOMAIN start \subseteq Cells
       /\ \A np \in DOMAIN start : start[np] \in Files \cup {"dir", "symlink"}
       /\ \A np, mq \in DOMAIN start : start[np] = start[mq] /\ start[np] \in Files =>
            RefTree(np[1]) = RefTree(mq[1])

VARIABLES
  conf,    \* the configuration the programs run with
  nsd,     \* the directory of each namespace: is it there, and its MDAL_reference?
  ent,     \* the entry of each path
  ref,     \* each file's reference, rebuild marker, tag, and whether its ctime is old
  refdir,  \* the reference directory of each namespace ("p/q"): how much of it is there
  usage,   \* the inode usage rman has recorded for each namespace
  cr,      \* the creators
  pending, \* the references rman has found to be collected
  calls    \* how many calls there have been

metavars == <<conf, nsd, ent, ref, refdir, usage, cr, pending, calls>>

-----------------------------------------------------------------------------
(* Namespaces and permissions *)

\* a context for a namespace needs its directory and the references
Usable(n) == nsd[n].dir /\ nsd[RefTree(n)].ref
\* the check of permissions, by the interface of the context
PermsOf(n) == IF conf.itype = "interactive" THEN conf.iperms[n] ELSE conf.bperms[n]
Permits(n, needed) == needed \subseteq PermsOf(n)

\* the file system under the MDAL
NoEnt == "none"
Directory == "dir"
Symlink == "symlink"
Children(n, p) == {q \in PathsIn[n] : Len(q) > Len(p) /\ IsPrefix(p, q)}
Empty(n, p) == \A q \in Children(n, p) : ent[n][q] = NoEnt
\* a path can be given an entry: the directory it is in exists
InDir(n, p) == Len(p) > 1 => ent[n][Front(p)] = Directory
IsFile(e) == e \in Files
PathsOf(f) == {np \in Cells : ent[np[1]][np[2]] = f}
Nlink(f) == Cardinality(PathsOf(f)) + (IF ref[f].tree = NoSpace THEN 0 ELSE 1) + (IF ref[f].marker THEN 1 ELSE 0)
Count == calls < MaxCalls /\ calls' = calls + 1
Put(n, p, e) == [ent EXCEPT ![n][p] = e]
\* linking and unlinking an inode changes its ctime
Young(e, r) == IF IsFile(e) THEN [r EXCEPT ![e].old = FALSE] ELSE r

NoRef == [tree |-> NoSpace, marker |-> FALSE, tag |-> FALSE, old |-> FALSE]
\* the inode is gone with its last link: its tag and its age go with it
Settled(e, r) ==
  [f \in Files |-> IF r[f].tree = NoSpace /\ ~r[f].marker /\ \A np \in Cells : e[np[1]][np[2]] # f
                   THEN NoRef ELSE r[f]]
Change(e, r) == ent' = e /\ ref' = Settled(e, r)

-----------------------------------------------------------------------------
(* Creating a file: marfs_creat(), then create_new_file() of the stream,   *)
(* whose steps are calls of the MDAL with a context opened before          *)

NoCreation == [at |-> "idle", ns |-> NoSpace, path |-> <<>>, file |-> NoFile, refd |-> TRUE, pathd |-> TRUE]
Creating(f) == \E c \in Creators : cr[c].file = f
\* ... and has got as far as the inode
Owned(f) == \E c \in Creators : cr[c].file = f /\ cr[c].at \notin {"refdir1", "refdir2", "openref"}
Goto(c, at) == cr' = [cr EXCEPT ![c].at = at]
End(c) == cr' = [cr EXCEPT ![c] = NoCreation]
CrTree(c) == RefTree(cr[c].ns)

\* the usage is that of the references, the quota that of the namespace itself
posixmdal_getinodeusage(n) == usage[RefTree(n)]
WithinQuota(n) == FQuota[n] # 0 => posixmdal_getinodeusage(n) < FQuota[n]
\* a stream has unique names for its files: one never used, or (EEXIST) one in this tree
Eligible(n, f) == ref[f] = NoRef \/ ref[f].tree = RefTree(n)
marfs_creat(c, n, p, f) ==
  /\ cr[c] = NoCreation /\ Usable(n) /\ ~Creating(f) /\ Eligible(n, f)
  /\ Permits(n, {"readmeta", "writemeta", "writedata"}) /\ WithinQuota(n)
  /\ cr' = [cr EXCEPT ![c] = [NoCreation EXCEPT !.at = "refdir1", !.ns = n, !.path = p, !.file = f]]
  /\ Count /\ UNCHANGED <<conf, nsd, ent, ref, refdir, usage, pending>>

\* datastream_genrpath() makes the directories of the reference, unless they are there
GenRpath(c) ==
  LET have == refdir[CrTree(c)]
  IN  /\ cr[c].at \in {"refdir1", "refdir2"}
      /\ IF ~cr[c].refd \/ (cr[c].at = "refdir2" /\ have = "none")
         THEN End(c) /\ UNCHANGED refdir
         ELSE /\ Goto(c, IF cr[c].at = "refdir1" THEN "refdir2" ELSE "openref")
              /\ refdir' = [refdir EXCEPT ![CrTree(c)] =
                              IF cr[c].at = "refdir1" /\ have = "none" THEN "p"
                              ELSE IF cr[c].at = "refdir2" /\ have = "p" THEN "new" ELSE have]
      /\ UNCHANGED <<conf, nsd, ent, ref, usage, pending, calls>>

posixmdal_openref(c) ==
  LET f == cr[c].file
  IN  /\ cr[c].at = "openref"
      /\ IF cr[c].refd /\ refdir[CrTree(c)] \in {"new", "old"} /\ ref[f].tree = NoSpace
         THEN /\ ref' = [ref EXCEPT ![f].tree = CrTree(c)] /\ refdir' = [refdir EXCEPT ![CrTree(c)] = "new"]
              /\ Goto(c, "putftag")
         ELSE End(c) /\ UNCHANGED <<ref, refdir>>
      /\ UNCHANGED <<conf, nsd, ent, usage, pending, calls>>
\* the tag (a hidden xattr) is set before the file gets its path; this, or the recovery
\* information made before it, may fail
putftag(c) ==
  /\ cr[c].at = "putftag"
  /\ \/ ref' = [ref EXCEPT ![cr[c].file].tag = TRUE] /\ Goto(c, "linkref")
     \/ Goto(c, "unlinkref") /\ UNCHANGED ref
  /\ UNCHANGED <<conf, nsd, ent, refdir, usage, pending, calls>>

\* linkfile(): what is in the way is unlinked, once
posixmdal_linkref(c) ==
  LET n == cr[c].ns  p == cr[c].path  f == cr[c].file
      able == cr[c].pathd /\ InDir(n, p)
  IN  /\ cr[c].at \in {"linkref", "linkagain"}
      /\ IF able /\ ent[n][p] = NoEnt
         THEN Change(Put(n, p, f), Young(f, ref)) /\ End(c)
         ELSE /\ Goto(c, IF able /\ cr[c].at = "linkref" THEN "unlink" ELSE "unlinkref")
              /\ UNCHANGED <<ent, ref>>
      /\ UNCHANGED <<conf, nsd, refdir, usage, pending, calls>>
UnlinkExisting(c) ==
  LET n == cr[c].ns  p == cr[c].path  able == cr[c].pathd /\ InDir(n, p)
      e == IF able THEN ent[n][p] ELSE NoEnt
  IN  /\ cr[c].at = "unlink"
      /\ IF e \in {NoEnt, Directory} THEN UNCHANGED <<ent, ref>> ELSE Change(Put(n, p, NoEnt), Young(e, ref))
      /\ Goto(c, IF e = Directory THEN "unlinkref" ELSE "linkagain")
      /\ UNCHANGED <<conf, nsd, refdir, usage, pending, calls>>
\* a creation that fails takes its reference away
posixmdal_unlinkref(c) ==
  /\ cr[c].at = "unlinkref"
  /\ Change(ent, [ref EXCEPT ![cr[c].file].tree = NoSpace]) /\ End(c)
  /\ UNCHANGED <<conf, nsd, refdir, usage, pending, calls>>
\* the creator dies, or the administrator starts everything again with another configuration
Crash(c) ==
  /\ cr[c] # NoCreation /\ End(c)
  /\ Count /\ UNCHANGED <<conf, nsd, ent, ref, refdir, usage, pending>>
Reconfigure(cf) ==
  /\ \A c \in Creators : cr[c] = NoCreation
  /\ conf' = cf
  /\ Count /\ UNCHANGED <<nsd, ent, ref, refdir, usage, cr, pending>>

-----------------------------------------------------------------------------
(* The MDAL's calls on paths, each a system call *)

\* a directory is moved with what is in it
Moved(n, p, m, q) ==
  [k \in Namespaces |-> [x \in PathsIn[k] |->
     IF k = m /\ IsPrefix(q, x) THEN
       LET src == p \o SubSeq(x, Len(q) + 1, Len(x))
       IN  IF src \in PathsIn[n] THEN ent[n][src] ELSE NoEnt
     ELSE IF k = n /\ IsPrefix(p, x) THEN NoEnt ELSE ent[k][x]]]
\* what renameat() asks, within the paths that are looked at
Renamable(n, p, m, q) ==
  /\ ent[n][p] # NoEnt /\ InDir(m, q)
  /\ IF ent[n][p] = Directory
     THEN /\ ent[m][q] \in {NoEnt, Directory} /\ Empty(m, q) /\ ~(n = m /\ IsPrefix(p, q))
          /\ \A x \in Children(n, p) : ent[n][x] # NoEnt => q \o SubSeq(x, Len(p) + 1, Len(x)) \in PathsIn[m]
     ELSE ent[m][q] # Directory
posixmdal_rename(n, p, m, q) ==
  /\ Renamable(n, p, m, q)
  /\ IF IsFile(ent[n][p]) /\ ent[n][p] = ent[m][q] THEN UNCHANGED <<ent, ref>>
     ELSE Change(Moved(n, p, m, q), Young(ent[n][p], Young(ent[m][q], ref)))
posixmdal_link(n, p, m, q) ==
  /\ IsFile(ent[n][p]) /\ InDir(m, q) /\ ent[m][q] = NoEnt
  /\ Change(Put(m, q, ent[n][p]), Young(ent[n][p], ref))
posixmdal_symlink(n, p) == InDir(n, p) /\ ent[n][p] = NoEnt /\ Change(Put(n, p, Symlink), ref)
posixmdal_unlink(n, p) ==
  /\ InDir(n, p) /\ ent[n][p] \notin {NoEnt, Directory}
  /\ Change(Put(n, p, NoEnt), Young(ent[n][p], ref))
posixmdal_mkdir(n, p) == InDir(n, p) /\ ent[n][p] = NoEnt /\ Change(Put(n, p, Directory), ref)
posixmdal_rmdir(n, p) ==
  /\ InDir(n, p) /\ ent[n][p] = Directory /\ Empty(n, p)
  /\ Change(Put(n, p, NoEnt), ref)
\* what changes of an attribute matters here is the ctime
Touch(n, p) == IsFile(ent[n][p]) /\ ref' = Young(ent[n][p], ref) /\ UNCHANGED ent
posixmdal_chmod(n, p) == Touch(n, p)
posixmdal_chown(n, p) == Touch(n, p)
posixmdal_utimens(n, p) == Touch(n, p)

\* which names of xattrs pass: the reserved ones are for MarFS alone
xattrfilter(name) == name # "reserved"
XattrNames == {"plain", "reserved"}
Xattr(n, p, name) ==
  /\ IsFile(ent[n][p]) /\ xattrfilter(name)
  /\ ref' = Young(ent[n][p], IF name = "reserved" THEN [ref EXCEPT ![ent[n][p]].tag = FALSE] ELSE ref)
  /\ UNCHANGED ent
posixmdal_fsetxattr(n, p, name) == Xattr(n, p, name)
posixmdal_fremovexattr(n, p, name) == Xattr(n, p, name)

-----------------------------------------------------------------------------
(* The calls of the API: the permissions of the namespace come first *)

Untouched == Count /\ UNCHANGED <<conf, nsd, refdir, usage, cr, pending>>
MayWrite(n) == Usable(n) /\ Permits(n, {"writemeta"})
\* two namespaces share their references: they are one, or one is the ghost of the other
MayShare(n, m) == \/ n = m
                  \/ TargetOf[n] = m /\ TargetOf[m] = NoSpace
                  \/ TargetOf[m] = n /\ TargetOf[n] = NoSpace
marfs_rename(n, p, m, q) ==
  Usable(n) /\ MayShare(n, m) /\ MayWrite(m) /\ posixmdal_rename(n, p, m, q) /\ Untouched
marfs_link(n, p, m, q) ==
  Usable(n) /\ MayShare(n, m) /\ MayWrite(m) /\ posixmdal_link(n, p, m, q) /\ Untouched
marfs_symlink(n, p) == MayWrite(n) /\ posixmdal_symlink(n, p) /\ Untouched
marfs_unlink(n, p) == MayWrite(n) /\ posixmdal_unlink(n, p) /\ Untouched
marfs_mkdir(n, p) == MayWrite(n) /\ posixmdal_mkdir(n, p) /\ Untouched
marfs_rmdir(n, p) == MayWrite(n) /\ posixmdal_rmdir(n, p) /\ Untouched
marfs_chmod(n, p) == MayWrite(n) /\ posixmdal_chmod(n, p) /\ Untouched
marfs_chown(n, p) == MayWrite(n) /\ posixmdal_chown(n, p) /\ Untouched
marfs_utimens(n, p) == MayWrite(n) /\ posixmdal_utimens(n, p) /\ Untouched
\* on a handle, which marfs_open() gives to those who may read
MayOpen(n) == Usable(n) /\ Permits(n, {"readmeta"})
marfs_fsetxattr(n, p, name) == MayOpen(n) /\ MayWrite(n) /\ posixmdal_fsetxattr(n, p, name) /\ Untouched
marfs_fremovexattr(n, p, name) == MayOpen(n) /\ MayWrite(n) /\ posixmdal_fremovexattr(n, p, name) /\ Untouched
\* the links a user is told a file has
marfs_stat(n, p) == LET nl == Nlink(ent[n][p]) IN IF nl > 1 THEN nl - 1 ELSE nl

\* The FUSE daemon is a program with the interactive interface.  It shows the version of the
\* configuration as a file, and lets nothing else be put there.  Its hard links all fail: the
\* flag it passes (AT_SYMLINK_NOFOLLOW) is not one that linkat() takes.
Interactive == conf.itype = "interactive"
fuse_create(c, n, p, f) == Interactive /\ <<n, p>> # ConfigVer /\ marfs_creat(c, n, p, f)
fuse_rename(n, p, m, q) ==
  Interactive /\ ConfigVer \notin {<<n, p>>, <<m, q>>} /\ marfs_rename(n, p, m, q)
fuse_symlink(n, p) == Interactive /\ <<n, p>> # ConfigVer /\ marfs_symlink(n, p)
fuse_unlink(n, p) == Interactive /\ marfs_unlink(n, p)
fuse_mkdir(n, p) == Interactive /\ marfs_mkdir(n, p)
fuse_rmdir(n, p) == Interactive /\ marfs_rmdir(n, p)
fuse_chmod(n, p) == Interactive /\ marfs_chmod(n, p)
fuse_chown(n, p) == Interactive /\ marfs_chown(n, p)
fuse_utimens(n, p) == Interactive /\ marfs_utimens(n, p)
\* only names with the prefix user. reach the API; all names looked at have it
fuse_setxattr(n, p, name) == Interactive /\ marfs_fsetxattr(n, p, name)
fuse_removexattr(n, p, name) == Interactive /\ marfs_fremovexattr(n, p, name)

-----------------------------------------------------------------------------
(* Namespaces are made and removed *)

Ancestors(n) == {k \in Namespaces : NsParent[n] = k}
\* the directories on the way are made too, without references; an existing MDAL_reference fails it
posixmdal_createnamespace(n) ==
  /\ ~nsd[n].ref
  /\ nsd' = [k \in Namespaces |-> IF k = n THEN [dir |-> TRUE, ref |-> TRUE]
                                  ELSE IF k \in Ancestors(n) THEN [nsd[k] EXCEPT !.dir = TRUE] ELSE nsd[k]]
  /\ Count /\ UNCHANGED <<conf, ent, ref, refdir, usage, cr, pending>>
RefsRemovable(n) == nsd[n].ref /\ refdir[n] = "none"
Bare(n) == (\A p \in PathsIn[n] : ent[n][p] = NoEnt) /\ usage[n] = 0
\* The references go first; what else is in the directory then keeps it, as it has become.
\* Creators find the directories of their contexts gone.
posixmdal_destroynamespace(n) ==
  /\ n \in Watched /\ nsd[n].dir /\ Permits(n, {"writemeta"})
  /\ \A k \in Namespaces : n \in Ancestors(k) => ~nsd[k].dir
  /\ RefsRemovable(n)
  /\ nsd' = [nsd EXCEPT ![n] = [dir |-> ~Bare(n), ref |-> FALSE]]
  /\ cr' = [c \in Creators |-> IF cr[c] = NoCreation THEN NoCreation
                               ELSE [cr[c] EXCEPT !.refd = @ /\ CrTree(c) # n,
                                                  !.pathd = @ /\ (cr[c].ns # n \/ ~Bare(n))]]
  /\ ref' = Settled(ent, [f \in Files |-> IF ref[f].tree = n THEN [ref[f] EXCEPT !.tree = NoSpace] ELSE ref[f]])
  /\ Count /\ UNCHANGED <<conf, ent, refdir, usage, pending>>

-----------------------------------------------------------------------------
(* What readers leave for rman, and rman *)

\* A reader that finds a file damaged links its reference to a rebuild marker; some time later
\* rman rebuilds the object and unlinks the marker.
MarkForRebuild(f) ==
  /\ PathsOf(f) # {} /\ ref[f].tree # NoSpace /\ ~ref[f].marker
  /\ ref' = [ref EXCEPT ![f].marker = TRUE, ![f].old = FALSE]
  /\ UNCHANGED <<ent>> /\ Untouched
\* Mutant: the object is rebuilt, the marker stays
process_rebuildForgets(f) ==
  /\ ref[f].marker /\ Change(ent, [ref EXCEPT ![f].old = FALSE])
  /\ UNCHANGED <<conf, nsd, refdir, usage, cr, pending, calls>>
process_rebuild(f) ==
  /\ ref[f].marker
  /\ Change(ent, [ref EXCEPT ![f].marker = FALSE, ![f].old = FALSE])
  /\ UNCHANGED <<conf, nsd, refdir, usage, cr, pending, calls>>
\* Time passes, which matters for what has nothing left in it; a creation takes less than the
\* threshold of rman.
Age(f) ==
  /\ ref[f].tree # NoSpace /\ PathsOf(f) = {} /\ ~ref[f].marker /\ ~ref[f].old /\ ~Owned(f)
  /\ ref' = [ref EXCEPT ![f].old = TRUE]
  /\ UNCHANGED <<conf, nsd, ent, refdir, usage, cr, pending, calls>>
AgeDir(n) ==
  /\ refdir[n] = "new" /\ (\A f \in Files : ref[f].tree # n) /\ refdir' = [refdir EXCEPT ![n] = "old"]
  /\ UNCHANGED <<conf, nsd, ent, ref, usage, cr, pending, calls>>
\* Mutant: the age of a reference is not looked at
CollectableAtOnce(f) == ref[f].tree # NoSpace /\ Nlink(f) < 2
\* a reference whose inode has no other link, for long enough, is found ...
Collectable(f) == ref[f].tree # NoSpace /\ Nlink(f) < 2 /\ ref[f].old
Scan(f) ==
  /\ Collectable(f) /\ f \notin pending /\ pending' = pending \cup {f}
  /\ UNCHANGED <<conf, nsd, ent, ref, refdir, usage, cr, calls>>
\* ... and deleted, later
DeleteRef(f) ==
  /\ f \in pending /\ pending' = pending \ {f}
  /\ Change(ent, [ref EXCEPT ![f].tree = NoSpace])
  /\ UNCHANGED <<conf, nsd, refdir, usage, cr, calls>>
\* an old reference directory with nothing in it is removed, and those above it
cleanup_refdir(n) ==
  /\ refdir[n] = "old" /\ \A f \in Files : ref[f].tree # n
  /\ refdir' = [refdir EXCEPT ![n] = "none"]
  /\ UNCHANGED <<conf, nsd, ent, ref, usage, cr, pending, calls>>
posixmdal_setinodeusage(n) ==
  /\ n \in Watched /\ TargetOf[n] = NoSpace /\ nsd[n].ref
  /\ usage' = [usage EXCEPT ![n] = Cardinality({f \in Files : ref[f].tree = n /\ PathsOf(f) # {}})]
  /\ UNCHANGED <<conf, nsd, ent, ref, refdir, cr, pending, calls>>

-----------------------------------------------------------------------------
MetaInit ==
  /\ conf \in Configs
  /\ nsd = [n \in Namespaces |-> [dir |-> TRUE, ref |-> TRUE]]
  /\ \E start \in Starts :
       /\ ent = [n \in Namespaces |-> [p \in PathsIn[n] |-> IF <<n, p>> \in DOMAIN start THEN start[<<n, p>>] ELSE NoEnt]]
       /\ ref = [f \in Files |-> IF \E np \in DOMAIN start : start[np] = f
                                 THEN [NoRef EXCEPT !.tag = TRUE, !.tree = RefTree((CHOOSE np \in DOMAIN start : start[np] = f)[1])]
                                 ELSE NoRef]
       /\ refdir = [n \in Namespaces |-> IF \E f \in Files : ref[f].tree = n THEN "new" ELSE "none"]
  /\ usage = [n \in Namespaces |-> 0]
  /\ cr = [c \in Creators |-> NoCreation]
  /\ pending = {} /\ calls = 0

\* a program with the batch interface calls the API itself
Batch == conf.itype = "batch"
Creation == \E c \in Creators :
  \/ \E np \in Cells, f \in Files : fuse_create(c, np[1], np[2], f) \/ (Batch /\ marfs_creat(c, np[1], np[2], f))
  \/ GenRpath(c) \/ posixmdal_openref(c) \/ putftag(c) \/ posixmdal_linkref(c)
  \/ UnlinkExisting(c) \/ posixmdal_unlinkref(c) \/ Crash(c)
FuseCalls == \E np \in Cells : LET n == np[1]  p == np[2] IN
  \/ \E mq \in Cells : fuse_rename(n, p, mq[1], mq[2])
  \/ fuse_symlink(n, p) \/ fuse_unlink(n, p) \/ fuse_mkdir(n, p) \/ fuse_rmdir(n, p)
  \/ fuse_chmod(n, p) \/ fuse_chown(n, p) \/ fuse_utimens(n, p)
  \/ \E name \in XattrNames : fuse_setxattr(n, p, name) \/ fuse_removexattr(n, p, name)
BatchCalls == Batch /\ \E np \in Cells : LET n == np[1]  p == np[2] IN
  \/ \E mq \in Cells : marfs_rename(n, p, mq[1], mq[2]) \/ marfs_link(n, p, mq[1], mq[2])
  \/ marfs_symlink(n, p) \/ marfs_unlink(n, p) \/ marfs_mkdir(n, p) \/ marfs_rmdir(n, p)
  \/ marfs_chmod(n, p) \/ marfs_chown(n, p) \/ marfs_utimens(n, p)
  \/ \E name \in XattrNames : marfs_fsetxattr(n, p, name) \/ marfs_fremovexattr(n, p, name)
Administration ==
  \/ \E cf \in Configs : Reconfigure(cf)
  \/ \E n \in Namespaces : posixmdal_createnamespace(n) \/ posixmdal_destroynamespace(n)
Rman ==
  \/ \E f \in Files : MarkForRebuild(f) \/ process_rebuild(f) \/ Age(f) \/ Scan(f) \/ DeleteRef(f)
  \/ \E n \in Namespaces : AgeDir(n) \/ cleanup_refdir(n) \/ posixmdal_setinodeusage(n)
MetaNext == Creation \/ FuseCalls \/ BatchCalls \/ Administration \/ Rman

MetaSpec == MetaInit /\ [][MetaNext]_metavars

\* rman runs again and again, and time passes
MetaFairness == \A f \in Files :
  WF_metavars(process_rebuild(f)) /\ WF_metavars(Age(f)) /\ WF_metavars(Scan(f)) /\ WF_metavars(DeleteRef(f))

-----------------------------------------------------------------------------
(* Properties *)

\* Every path of a file leads to an inode that has its tag, and its reference in the tree of the
\* namespace it is seen in: whatever creators, users, rman and the administrator do in between,
\* the file can be read, and rman finds it where it looks for it.
FilesAreWhole ==
  \A n \in Namespaces : \A p \in PathsIn[n] :
    IsFile(ent[n][p]) => ref[ent[n][p]].tree = RefTree(n) /\ ref[ent[n][p]].tag

\* The reference is not counted: a user is told of as many links as there are paths,
\* but for a file that waits to be rebuilt.
StatCountsPaths ==
  \A n \in Namespaces : \A p \in PathsIn[n] :
    IsFile(ent[n][p]) /\ ~ref[ent[n][p]].marker => marfs_stat(n, p) = Cardinality(PathsOf(ent[n][p]))

Orphan(f) == ref[f].tree # NoSpace /\ PathsOf(f) = {} /\ ~Owned(f)
\* A reference left without a path (by its users, by a creator that died) goes away, though
\* rebuild markers, creators and users come in between.
OrphansGo == \A f \in Files : Orphan(f) ~> ref[f].tree = NoSpace

\* A path that leads to a file leads to a whole one, and stat tells how many there are.
FilesAreSound == FilesAreWhole /\ StatCountsPaths
=============================================================================

-------------------------- MODULE MetadataOpsProofs --------------------------
(***************************************************************************)
(* Proofs about MetadataOps, for any namespaces and paths, any creators    *)
(* and files, and everything that may be there at the start: no path leads *)
(* to a file that is not wholly there.  What makes it so is that an inode  *)
(* that is being made belongs to one creator: nothing leads to it, it lies *)
(* in the tree of that creator's namespace, and it is too young for the    *)
(* resource manager; while the others take away references only of files   *)
(* no path leads to.                                                       *)
(***************************************************************************)
EXTENDS MetadataOps, FiniteSetTheorems, TLAPS

-----------------------------------------------------------------------------
(* The invariant *)

Entries == Files \cup {"none", "dir", "symlink"}
RefSet == [tree : Namespaces \cup {NoSpace}, marker : BOOLEAN, tag : BOOLEAN, old : BOOLEAN]
Early == {"refdir1", "refdir2", "openref"}
Linking == {"linkref", "linkagain", "unlink"}
Late == Linking \cup {"putftag", "unlinkref"}

EntTyped(e) ==
  /\ e = [n \in Namespaces |-> [p \in PathsIn[n] |-> e[n][p]]]
  /\ \A n \in Namespaces : \A p \in PathsIn[n] : e[n][p] \in Entries
AnyPath == {NoCreation.path} \cup UNION {PathsIn[n] : n \in Namespaces}
CrSet == [at : Early \cup Late \cup {"idle"}, ns : Namespaces \cup {NoSpace},
          path : AnyPath, file : Files \cup {NoFile},
          refd : BOOLEAN, pathd : BOOLEAN]
\* What a creator at work is at, and where.
Placed(x) ==
  /\ x.at \in Early \cup Late /\ x.ns \in Namespaces /\ x.path \in PathsIn[x.ns] /\ x.file \in Files
Typed ==
  /\ EntTyped(ent)
  /\ ref \in [Files -> RefSet]
  /\ refdir \in [Namespaces -> {"none", "p", "new", "old"}]
  /\ cr \in [Creators -> CrSet]
  /\ \A c \in Creators : cr[c] = NoCreation \/ Placed(cr[c])
  /\ pending \subseteq Files

Pathless(f) == \A n \in Namespaces : \A p \in PathsIn[n] : ent[n][p] # f
\* Without a reference there is nothing of a file.
Unreferenced == \A f \in Files : ref[f].tree = NoSpace => ref[f] = NoRef
\* References are in directories that are there.
InDirectories == \A f \in Files, n \in Namespaces : ref[f].tree = n => refdir[n] \in {"new", "old"}
\* A file has one creator at most.
OneCreator ==
  \A c, d \in Creators : cr[c] # NoCreation /\ cr[d] # NoCreation /\ cr[c].file = cr[d].file => c = d
\* From openref on the inode is the creator's alone: it is in the tree of the creator's
\* namespace, nothing leads to it, and neither rman nor time has got hold of it.
CreatorsOwn ==
  \A c \in Creators : cr[c].at \in Late =>
    /\ ref[cr[c].file].tree = CrTree(c) /\ ~ref[cr[c].file].marker /\ ~ref[cr[c].file].old
    /\ cr[c].at \in Linking => ref[cr[c].file].tag
    /\ Pathless(cr[c].file)
    /\ cr[c].file \notin pending
\* What rman is to collect has its reference, nothing else, and never gets anything else.
PendingIsOrphan ==
  \A f \in pending : ref[f].tree # NoSpace /\ ~ref[f].marker /\ Pathless(f)

MetaInv ==
  Typed /\ FilesAreWhole /\ Unreferenced /\ InDirectories /\ OneCreator /\ CreatorsOwn /\ PendingIsOrphan
-----------------------------------------------------------------------------
(* Lemmas about the operators *)

\* A namespace's references are in a namespace (marfs_ns's ghtarget).
LEMMA RefTreeIsNamespace == NoSpace \notin Namespaces /\ \A n \in Namespaces : RefTree(n) \in Namespaces
BY MetaAssumption DEF RefTree

\* Namespaces between which renames and links are let through share their references.
LEMMA SharedTree ==
  ASSUME NEW n \in Namespaces, NEW m \in Namespaces, MayShare(n, m)
  PROVE  RefTree(n) = RefTree(m)
BY MetaAssumption DEF RefTree, MayShare

\* The cells are the pairs of a namespace and a path in it.
LEMMA CellsArePairs ==
  /\ \A n \in Namespaces : \A p \in PathsIn[n] : <<n, p>> \in Cells /\ <<n, p>>[1] = n /\ <<n, p>>[2] = p
  /\ \A np \in Cells : np[1] \in Namespaces /\ np[2] \in PathsIn[np[1]] /\ np = <<np[1], np[2]>>
<1>1. ASSUME NEW np \in Cells PROVE np[1] \in Namespaces /\ np[2] \in PathsIn[np[1]] /\ np = <<np[1], np[2]>>
  <2>1. PICK n \in Namespaces : np \in {n} \X PathsIn[n]
    BY <1>1 DEF Cells
  <2> QED BY <2>1
<1>2. ASSUME NEW n \in Namespaces, NEW p \in PathsIn[n] PROVE <<n, p>> \in Cells
  <2>1. <<n, p>> \in {n} \X PathsIn[n]
    OBVIOUS
  <2> QED BY <2>1 DEF Cells
<1> QED BY <1>1, <1>2

\* The set of a file's paths is empty exactly if no entry leads to it.
LEMMA NoPaths == \A f : PathsOf(f) = {} <=> Pathless(f)
<1> TAKE f
<1>1. ASSUME NEW n \in Namespaces, NEW p \in PathsIn[n], ent[n][p] = f PROVE PathsOf(f) # {}
  <2> DEFINE np == <<n, p>>
  <2>1. np \in Cells /\ np[1] = n /\ np[2] = p
    BY CellsArePairs
  <2> HIDE DEF np
  <2>2. np \in PathsOf(f)
    BY <1>1, <2>1 DEF PathsOf
  <2> QED BY <2>2
<1>2. ASSUME NEW np \in PathsOf(f) PROVE ~Pathless(f)
  BY <1>2, CellsArePairs DEF PathsOf, Pathless
<1> QED BY <1>1, <1>2 DEF Pathless

\* A file that has a path at all has finitely many.
LEMMA PathsFinite == \A f : IsFiniteSet(PathsOf(f)) /\ Cardinality(PathsOf(f)) \in Nat
<1> TAKE f
<1>1. PathsOf(f) \subseteq Cells
  BY DEF PathsOf
<1> QED BY <1>1, EntriesAssumption, FS_Subset, FS_CardinalityType

\* Settling changes nothing while what has no reference has nothing.
LEMMA SettledSame ==
  ASSUME NEW e, NEW r \in [Files -> RefSet], \A f \in Files : r[f].tree = NoSpace => r[f] = NoRef
  PROVE  Settled(e, r) = r
BY DEF Settled, RefSet

\* What a step may do to the references without taking anything away: some get younger, some
\* their tags.
Milder(r) ==
  /\ r \in [Files -> RefSet]
  /\ \A f \in Files : /\ r[f].tree = ref[f].tree /\ r[f].marker = ref[f].marker
                      /\ ref[f].tag => r[f].tag
                      /\ r[f].old => ref[f].old
                      /\ ref[f] = NoRef => r[f] = NoRef
\* ... and to the entries: those of files come from namespaces that share the references.
Sourced(e) ==
  /\ EntTyped(e)
  /\ \A n \in Namespaces : \A p \in PathsIn[n] : e[n][p] \in Files =>
       \E m \in Namespaces : \E q \in PathsIn[m] : ent[m][q] = e[n][p] /\ RefTree(m) = RefTree(n)

\* Young() is such a change.
LEMMA YoungIsMilder ==
  ASSUME NEW e, NEW r, Milder(r)
  PROVE  Milder(Young(e, r))
<1>1. CASE e \notin Files
  BY <1>1 DEF Young, IsFile
<1>2. CASE e \in Files
  <2> DEFINE y == [r EXCEPT ![e].old = FALSE]
  <2>1. \A x \in RefSet : /\ [x EXCEPT !.old = FALSE] \in RefSet
                          /\ [x EXCEPT !.old = FALSE].tree = x.tree /\ [x EXCEPT !.old = FALSE].marker = x.marker
                          /\ [x EXCEPT !.old = FALSE].tag = x.tag /\ ~[x EXCEPT !.old = FALSE].old
                          /\ x.old = FALSE => [x EXCEPT !.old = FALSE] = x
    BY DEF RefSet
  <2>2. NoRef.old = FALSE
    BY DEF NoRef
  <2>3. r \in [Files -> RefSet]
    BY DEF Milder
  <2>4. y \in [Files -> RefSet] /\ y[e] = [r[e] EXCEPT !.old = FALSE] /\ \A f \in Files \ {e} : y[f] = r[f]
    BY <1>2, <2>1, <2>3
  <2> HIDE DEF y
  <2>5. Milder(y)
    <3>1. r[e] \in RefSet
      BY <1>2, <2>3
    <3>2. /\ y[e].tree = r[e].tree /\ y[e].marker = r[e].marker /\ y[e].tag = r[e].tag /\ ~y[e].old
          /\ r[e] = NoRef => y[e] = NoRef
      BY <2>1, <2>2, <2>4, <3>1
    <3> QED BY <2>4, <3>2 DEF Milder
  <2>6. Young(e, r) = y
    BY <1>2 DEF Young, IsFile, y
  <2> QED BY <2>5, <2>6
<1> QED BY <1>1, <1>2

\* Changing one entry: to another kind, or to a file seen in the same tree.
LEMMA PutIsSourced ==
  ASSUME Typed, NEW n \in Namespaces, NEW p \in PathsIn[n], NEW x \in Entries,
         x \in Files => \E m \in Namespaces : \E q \in PathsIn[m] : ent[m][q] = x /\ RefTree(m) = RefTree(n)
  PROVE  Sourced(Put(n, p, x))
<1> DEFINE e == Put(n, p, x)
<1>1. e = [k \in Namespaces |-> [y \in PathsIn[k] |-> IF k = n /\ y = p THEN x ELSE ent[k][y]]]
  BY DEF Put, Typed, EntTyped
<1>2. \A k \in Namespaces : \A y \in PathsIn[k] : e[k][y] = IF k = n /\ y = p THEN x ELSE ent[k][y]
  BY <1>1
<1>3. EntTyped(e)
  BY <1>1, <1>2 DEF Typed, EntTyped
<1> HIDE DEF e
<1>4. ASSUME NEW k \in Namespaces, NEW y \in PathsIn[k], e[k][y] \in Files
      PROVE  \E l \in Namespaces : \E q \in PathsIn[l] : ent[l][q] = e[k][y] /\ RefTree(l) = RefTree(k)
  <2>1. CASE k = n /\ y = p
    <3>1. e[k][y] = x
      BY <1>2, <2>1
    <3> QED BY <1>4, <2>1, <3>1
  <2>2. CASE ~(k = n /\ y = p)
    <3>1. e[k][y] = ent[k][y]
      BY <1>2, <2>2
    <3> QED BY <3>1
  <2> QED BY <2>1, <2>2
<1>5. Sourced(e)
  BY <1>3, <1>4 DEF Sourced
<1> QED BY <1>5 DEF e

\* The entries themselves are a source of themselves.
LEMMA SameIsSourced == Typed => Sourced(ent) /\ Milder(ref)
BY DEF Typed, Sourced, Milder, EntTyped

\* A rename moves entries from a namespace to one with the same references.
LEMMA MovedIsSourced ==
  ASSUME Typed, NEW n \in Namespaces, NEW m \in Namespaces, RefTree(n) = RefTree(m), NEW p, NEW q
  PROVE  Sourced(Moved(n, p, m, q))
<1> DEFINE e == Moved(n, p, m, q)
<1>1. e = [k \in Namespaces |-> [x \in PathsIn[k] |-> e[k][x]]]
  BY DEF Moved
<1>2. \A k \in Namespaces : \A x \in PathsIn[k] :
        e[k][x] \in {"none", ent[k][x]} \/ (k = m /\ \E y \in PathsIn[n] : e[k][x] = ent[n][y])
  BY DEF Moved, NoEnt
<1> HIDE DEF e
<1>3. EntTyped(e)
  <2>1. ASSUME NEW k \in Namespaces, NEW x \in PathsIn[k] PROVE e[k][x] \in Entries
    <3>1. ent[k][x] \in Entries /\ \A y \in PathsIn[n] : ent[n][y] \in Entries
      BY DEF Typed, EntTyped
    <3>2. "none" \in Entries
      BY DEF Entries
    <3> QED BY <1>2, <3>1, <3>2
  <2> QED BY <1>1, <2>1 DEF EntTyped
<1>4. ASSUME NEW k \in Namespaces, NEW x \in PathsIn[k], e[k][x] \in Files
      PROVE  \E l \in Namespaces : \E y \in PathsIn[l] : ent[l][y] = e[k][x] /\ RefTree(l) = RefTree(k)
  <2>1. e[k][x] # "none"
    BY <1>4, EntriesAssumption
  <2>2. CASE e[k][x] = ent[k][x]
    BY <2>2
  <2>3. CASE k = m /\ \E y \in PathsIn[n] : e[k][x] = ent[n][y]
    BY <2>3
  <2> QED BY <1>2, <2>1, <2>2, <2>3
<1>5. Sourced(e)
  BY <1>3, <1>4 DEF Sourced
<1> QED BY <1>5 DEF e
-----------------------------------------------------------------------------
(* What the steps do to the store of entries and references *)

\* The parts of the invariant that are about the store, and what does not get lost in a step.
StoreKept ==
  /\ EntTyped(ent)' /\ Milder(ref')
  /\ FilesAreWhole' /\ Unreferenced'
  /\ \A f \in Files : Pathless(f) => Pathless(f)'

\* A call on a path: entries from the same trees, references at most younger.
LEMMA CallKeepsStore ==
  ASSUME Typed, FilesAreWhole, Unreferenced, NEW e, NEW r, Sourced(e), Milder(r),
         ent' = e, ref' = r \/ ref' = Settled(e, r)
  PROVE  StoreKept
<1>1. \A f \in Files : r[f].tree = NoSpace => r[f] = NoRef
  BY DEF Unreferenced, Milder
<1>2. ref' = r
  BY <1>1, SettledSame DEF Milder
<1>3. EntTyped(ent') /\ Milder(ref')
  BY <1>2 DEF Sourced
<1>4. FilesAreWhole'
  <2> SUFFICES ASSUME NEW n \in Namespaces, NEW p \in PathsIn[n], e[n][p] \in Files
               PROVE  r[e[n][p]].tree = RefTree(n) /\ r[e[n][p]].tag
    BY <1>2 DEF FilesAreWhole, IsFile
  <2>1. PICK m \in Namespaces : \E q \in PathsIn[m] : ent[m][q] = e[n][p] /\ RefTree(m) = RefTree(n)
    BY DEF Sourced
  <2>2. ref[e[n][p]].tree = RefTree(m) /\ ref[e[n][p]].tag
    BY <2>1 DEF FilesAreWhole, IsFile
  <2> QED BY <2>1, <2>2 DEF Milder
<1>5. Unreferenced'
  BY <1>1, <1>2 DEF Unreferenced
<1>6. \A f \in Files : Pathless(f) => Pathless(f)'
  BY DEF Pathless, Sourced
<1> QED BY <1>3, <1>4, <1>5, <1>6 DEF StoreKept

\* What a creator may do without getting hold of anything.
Continues(c) ==
  \/ cr'[c] = NoCreation
  \/ /\ Placed(cr'[c]) /\ cr[c] # NoCreation
     /\ cr'[c].file = cr[c].file /\ cr'[c].ns = cr[c].ns
     /\ cr'[c].at \in Late => cr[c].at \in Late
     /\ cr'[c].at \in Linking => ref'[cr[c].file].tag

\* With the store kept, creators that go on or end, and nothing new to collect, the invariant
\* goes on holding.
LEMMA RestKept ==
  ASSUME MetaInv, StoreKept, pending' \subseteq pending,
         refdir' \in [Namespaces -> {"none", "p", "new", "old"}], InDirectories',
         cr' \in [Creators -> CrSet], \A c \in Creators : Continues(c)
  PROVE  MetaInv'
<1>0. \A c \in Creators : cr[c] = NoCreation \/ Placed(cr[c])
  BY DEF MetaInv, Typed
<1>a. NoCreation.at \notin Late
  BY DEF NoCreation, Late, Linking
<1>1. Typed'
  BY DEF Typed, MetaInv, StoreKept, Milder, Continues
<1>2. OneCreator'
  BY <1>0 DEF OneCreator, MetaInv, Continues
<1>3. CreatorsOwn'
  <2> SUFFICES ASSUME NEW c \in Creators, cr'[c].at \in Late
               PROVE  /\ ref'[cr'[c].file].tree = CrTree(c)' /\ ~ref'[cr'[c].file].marker /\ ~ref'[cr'[c].file].old
                      /\ cr'[c].at \in Linking => ref'[cr'[c].file].tag
                      /\ \A n \in Namespaces : \A p \in PathsIn[n] : ent'[n][p] # cr'[c].file
                      /\ cr'[c].file \notin pending'
    BY DEF CreatorsOwn, Pathless
  <2>1. /\ Placed(cr[c]) /\ cr[c].at \in Late /\ cr'[c].file = cr[c].file /\ cr'[c].ns = cr[c].ns
        /\ cr'[c].at \in Linking => ref'[cr[c].file].tag
    BY <1>0, <1>a DEF Continues
  <2>2. cr[c].file \in Files
    BY <2>1 DEF Placed
  <2>3. /\ ref[cr[c].file].tree = CrTree(c) /\ ~ref[cr[c].file].marker /\ ~ref[cr[c].file].old
        /\ Pathless(cr[c].file) /\ cr[c].file \notin pending
    BY <2>1 DEF MetaInv, CreatorsOwn
  <2>4. /\ ref'[cr[c].file].tree = ref[cr[c].file].tree /\ ref'[cr[c].file].marker = ref[cr[c].file].marker
        /\ ref'[cr[c].file].old => ref[cr[c].file].old
    BY <2>2 DEF StoreKept, Milder
  <2>5. \A n \in Namespaces : \A p \in PathsIn[n] : ent'[n][p] # cr[c].file
    <3>1. \A f \in Files : Pathless(f) => \A n \in Namespaces : \A p \in PathsIn[n] : ent'[n][p] # f
      BY DEF StoreKept, Pathless
    <3> QED BY <2>1, <2>2, <2>3, <3>1 DEF Pathless
  <2> QED BY <2>1, <2>3, <2>4, <2>5 DEF CrTree
<1>4. PendingIsOrphan'
  BY DEF PendingIsOrphan, MetaInv, StoreKept, Milder, Typed, Pathless
<1> QED BY <1>1, <1>2, <1>3, <1>4 DEF MetaInv, StoreKept
-----------------------------------------------------------------------------
(* The calls on paths *)

\* A call that keeps the store and touches nothing else keeps the invariant.
LEMMA StoreStep ==
  ASSUME MetaInv, StoreKept, UNCHANGED <<refdir, cr, pending>>
  PROVE  MetaInv'
<1>1. refdir' \in [Namespaces -> {"none", "p", "new", "old"}] /\ InDirectories'
  BY DEF MetaInv, Typed, InDirectories, StoreKept, Milder
<1>2. cr' \in [Creators -> CrSet]
  BY DEF MetaInv, Typed
<1>3. \A c \in Creators : Continues(c)
  <2> SUFFICES ASSUME NEW c \in Creators PROVE Continues(c)
    OBVIOUS
  <2>1. CASE cr[c] = NoCreation
    BY <2>1 DEF Continues
  <2>2. CASE Placed(cr[c])
    <3>1. cr[c] # NoCreation
      BY <2>2 DEF Placed, NoCreation, Early, Late, Linking
    <3>2. cr[c].at \in Linking => ref'[cr[c].file].tag
      BY <2>2 DEF MetaInv, CreatorsOwn, StoreKept, Milder, Placed, Late
    <3> QED BY <2>2, <3>1, <3>2 DEF Continues
  <2> QED BY <2>1, <2>2 DEF MetaInv, Typed
<1> QED BY <1>1, <1>2, <1>3, RestKept

\* The entry of a path is removed or replaced by one that is not a file, and what was there
\* has become younger.
LEMMA PutStep ==
  ASSUME Typed, FilesAreWhole, Unreferenced, NEW n \in Namespaces, NEW p \in PathsIn[n], NEW x \in {"none", "dir", "symlink"},
         NEW y, Change(Put(n, p, x), Young(y, ref)) \/ Change(Put(n, p, x), ref)
  PROVE  StoreKept
<1> DEFINE e == Put(n, p, x)
<1>1. x \in Entries /\ x \notin Files
  BY EntriesAssumption DEF Entries
<1>2. Sourced(e)
  BY <1>1, PutIsSourced
<1>3. Milder(ref) /\ Milder(Young(y, ref))
  BY SameIsSourced, YoungIsMilder
<1> HIDE DEF e
<1>4. ASSUME NEW r, Milder(r), Change(e, r) PROVE StoreKept
  BY <1>2, <1>4, CallKeepsStore DEF Change
<1> QED BY <1>3, <1>4 DEF e

\* rename() keeps the store: files stay with their references.
LEMMA RenameStep ==
  ASSUME Typed, FilesAreWhole, Unreferenced, NEW n \in Namespaces, NEW m \in Namespaces, NEW p, NEW q,
         RefTree(n) = RefTree(m), posixmdal_rename(n, p, m, q)
  PROVE  StoreKept
<1> DEFINE e == Moved(n, p, m, q)  r == Young(ent[n][p], Young(ent[m][q], ref))
<1>1. Sourced(e)
  BY MovedIsSourced
<1>2. Milder(ref) /\ Milder(r) /\ Sourced(ent)
  BY SameIsSourced, YoungIsMilder
<1>3. (ent' = ent /\ ref' = ref) \/ Change(e, r)
  BY DEF posixmdal_rename
<1> HIDE DEF e, r
<1>4. CASE ent' = ent /\ ref' = ref
  BY <1>2, <1>4, CallKeepsStore
<1>5. CASE Change(e, r)
  BY <1>1, <1>2, <1>5, CallKeepsStore DEF Change
<1> QED BY <1>3, <1>4, <1>5

\* link() gives a file another path in the same tree of references.
LEMMA LinkStep ==
  ASSUME Typed, FilesAreWhole, Unreferenced, NEW n \in Namespaces, NEW m \in Namespaces,
         NEW p \in PathsIn[n], NEW q \in PathsIn[m],
         RefTree(n) = RefTree(m), posixmdal_link(n, p, m, q)
  PROVE  StoreKept
<1> DEFINE x == ent[n][p]  e == Put(m, q, x)  r == Young(x, ref)
<1>1. x \in Entries /\ \E k \in Namespaces : \E y \in PathsIn[k] : ent[k][y] = x /\ RefTree(k) = RefTree(m)
  BY DEF Typed, EntTyped
<1>2. Milder(r)
  BY SameIsSourced, YoungIsMilder
<1>3. Change(e, r)
  BY DEF posixmdal_link
<1> HIDE DEF x
<1>4. Sourced(e)
  BY <1>1, PutIsSourced
<1> HIDE DEF e, r
<1> QED BY <1>2, <1>3, <1>4, CallKeepsStore DEF Change

\* A change of an attribute: the ctime is new, the tag stays out of reach.
LEMMA AttributeStep ==
  ASSUME Typed, FilesAreWhole, Unreferenced, NEW n \in Namespaces, NEW p \in PathsIn[n], NEW name,
         Touch(n, p) \/ Xattr(n, p, name)
  PROVE  StoreKept
<1> DEFINE r == Young(ent[n][p], ref)
<1>1. Milder(r) /\ Sourced(ent)
  BY SameIsSourced, YoungIsMilder
<1>2. ent' = ent /\ ref' = r
  BY DEF Touch, Xattr, xattrfilter
<1> HIDE DEF r
<1> QED BY <1>1, <1>2, CallKeepsStore

\* Every call on a path keeps the invariant, whoever makes it.
LEMMA MarfsCalls ==
  ASSUME MetaInv, NEW n \in Namespaces, NEW p \in PathsIn[n], NEW m \in Namespaces, NEW q \in PathsIn[m], NEW name,
         \/ marfs_rename(n, p, m, q) \/ marfs_link(n, p, m, q)
         \/ marfs_symlink(n, p) \/ marfs_unlink(n, p) \/ marfs_mkdir(n, p) \/ marfs_rmdir(n, p)
         \/ marfs_chmod(n, p) \/ marfs_chown(n, p) \/ marfs_utimens(n, p)
         \/ marfs_fsetxattr(n, p, name) \/ marfs_fremovexattr(n, p, name)
  PROVE  MetaInv'
<1>0. Typed /\ FilesAreWhole /\ Unreferenced
  BY DEF MetaInv
<1>1. Untouched
  BY DEF marfs_rename, marfs_link, marfs_symlink, marfs_unlink, marfs_mkdir, marfs_rmdir, marfs_chmod, marfs_chown,
     marfs_utimens, marfs_fsetxattr, marfs_fremovexattr
<1>2. CASE marfs_rename(n, p, m, q) \/ marfs_link(n, p, m, q)
  <2>1. RefTree(n) = RefTree(m)
    BY <1>2, SharedTree DEF marfs_rename, marfs_link
  <2>2. ASSUME marfs_rename(n, p, m, q) PROVE StoreKept
    <3>1. posixmdal_rename(n, p, m, q)
      BY <2>2 DEF marfs_rename
    <3> QED BY <1>0, <2>1, <3>1, RenameStep
  <2>3. ASSUME marfs_link(n, p, m, q) PROVE StoreKept
    <3>1. posixmdal_link(n, p, m, q)
      BY <2>3 DEF marfs_link
    <3> QED BY <1>0, <2>1, <3>1, LinkStep
  <2>4. StoreKept
    BY <1>2, <2>2, <2>3
  <2> QED BY <1>1, <2>4, StoreStep DEF Untouched
<1>3. CASE marfs_symlink(n, p) \/ marfs_mkdir(n, p)
  <2>1. Change(Put(n, p, "symlink"), ref) \/ Change(Put(n, p, "dir"), ref)
    BY <1>3 DEF marfs_symlink, marfs_mkdir, posixmdal_symlink, posixmdal_mkdir, Symlink, Directory
  <2>2. StoreKept
    BY <1>0, <2>1, PutStep
  <2> QED BY <1>1, <2>2, StoreStep DEF Untouched
<1>4. CASE marfs_unlink(n, p) \/ marfs_rmdir(n, p)
  <2>1. Change(Put(n, p, "none"), Young(ent[n][p], ref)) \/ Change(Put(n, p, "none"), ref)
    BY <1>4 DEF marfs_unlink, marfs_rmdir, posixmdal_unlink, posixmdal_rmdir, NoEnt
  <2>2. StoreKept
    BY <1>0, <2>1, PutStep
  <2> QED BY <1>1, <2>2, StoreStep DEF Untouched
<1>5. CASE \/ marfs_chmod(n, p) \/ marfs_chown(n, p) \/ marfs_utimens(n, p)
           \/ marfs_fsetxattr(n, p, name) \/ marfs_fremovexattr(n, p, name)
  <2>1. Touch(n, p) \/ Xattr(n, p, name)
    BY <1>5 DEF marfs_chmod, marfs_chown, marfs_utimens, marfs_fsetxattr, marfs_fremovexattr, posixmdal_chmod,
       posixmdal_chown, posixmdal_utimens, posixmdal_fsetxattr, posixmdal_fremovexattr
  <2>2. StoreKept
    BY <1>0, <2>1, AttributeStep
  <2> QED BY <1>1, <2>2, StoreStep DEF Untouched
<1> QED BY <1>2, <1>3, <1>4, <1>5
-----------------------------------------------------------------------------
(* The steps of the creators *)

\* A step that leaves entries and references alone keeps the store.
LEMMA SameStore == MetaInv /\ UNCHANGED <<ent, ref>> => StoreKept
BY SameIsSourced DEF MetaInv, StoreKept, Typed, EntTyped, Milder, FilesAreWhole, Unreferenced, Pathless

\* The state of a creator that is not at work is one.
LEMMA NoCreationTyped ==
  NoCreation \in CrSet /\ NoCreation.at = "idle" /\ NoCreation.file = NoFile
<1>1. NoCreation.path \in AnyPath
  BY DEF AnyPath
<1>2. /\ NoCreation.at = "idle" /\ NoCreation.ns = NoSpace /\ NoCreation.file = NoFile
      /\ NoCreation.refd = TRUE /\ NoCreation.pathd = TRUE
  BY DEF NoCreation
<1>3. NoCreation = [at |-> NoCreation.at, ns |-> NoCreation.ns, path |-> NoCreation.path,
                    file |-> NoCreation.file, refd |-> NoCreation.refd, pathd |-> NoCreation.pathd]
  BY DEF NoCreation
<1> QED BY <1>1, <1>2, <1>3 DEF CrSet

\* Facts about creators that are at work.
LEMMA CreatorFacts ==
  ASSUME MetaInv, NEW c \in Creators, cr[c].at # "idle"
  PROVE  /\ Placed(cr[c]) /\ cr[c] # NoCreation /\ CrTree(c) \in Namespaces
         /\ \A d \in Creators \ {c} : cr[d] = NoCreation \/ cr[d].file # cr[c].file
<1>1. Placed(cr[c]) /\ cr[c] # NoCreation
  BY DEF MetaInv, Typed, NoCreation
<1> QED BY <1>1, RefTreeIsNamespace DEF MetaInv, OneCreator, Placed, CrTree

\* What going on does to the state of a creator.
LEMMA GotoFacts ==
  ASSUME NEW c \in Creators, NEW at \in Early \cup Late, cr \in [Creators -> CrSet], Goto(c, at)
  PROVE  /\ cr' \in [Creators -> CrSet] /\ \A d \in Creators \ {c} : cr'[d] = cr[d]
         /\ cr'[c].at = at /\ cr'[c].ns = cr[c].ns /\ cr'[c].path = cr[c].path /\ cr'[c].file = cr[c].file
<1>1. \A x \in CrSet : \A y : y = [x EXCEPT !.at = at] =>
        y \in CrSet /\ y.at = at /\ y.ns = x.ns /\ y.path = x.path /\ y.file = x.file
  BY DEF CrSet
<1> QED BY <1>1 DEF Goto

\* One creator goes on or ends, with the store and what rman has found kept.
LEMMA CreatorStep ==
  ASSUME MetaInv, StoreKept, UNCHANGED pending, NEW c \in Creators,
         refdir' \in [Namespaces -> {"none", "p", "new", "old"}], InDirectories',
         \/ End(c)
         \/ \E at \in Early \cup Late : /\ Goto(c, at) /\ cr[c].at # "idle" /\ (at \in Late => cr[c].at \in Late)
                                        /\ (at \in Linking => ref'[cr[c].file].tag)
  PROVE  MetaInv'
<1>0. cr \in [Creators -> CrSet] /\ \A d \in Creators : cr[d] = NoCreation \/ Placed(cr[d])
  BY DEF MetaInv, Typed
<1>1. cr' \in [Creators -> CrSet]
  <2>1. NoCreation \in CrSet
    BY NoCreationTyped
  <2> QED BY <1>0, <2>1, GotoFacts DEF End
<1>2. \A d \in Creators \ {c} : cr'[d] = cr[d]
  BY <1>0, GotoFacts DEF End
<1>3. Continues(c)
  <2>1. CASE End(c)
    BY <1>0, <2>1 DEF End, Continues
  <2>2. CASE ~End(c)
    <3>1. PICK at \in Early \cup Late :
             /\ Goto(c, at) /\ cr[c].at # "idle" /\ (at \in Late => cr[c].at \in Late)
             /\ (at \in Linking => ref'[cr[c].file].tag)
      BY <2>2
    <3>2. Placed(cr[c]) /\ cr[c] # NoCreation
      BY <3>1, CreatorFacts
    <3>4. cr'[c].at = at /\ cr'[c].ns = cr[c].ns /\ cr'[c].path = cr[c].path /\ cr'[c].file = cr[c].file
      BY <1>0, <3>1, GotoFacts
    <3> QED BY <3>1, <3>2, <3>4 DEF Placed, Continues
  <2> QED BY <2>1, <2>2
<1>4. ASSUME NEW d \in Creators \ {c} PROVE Continues(d)
  <2>1. CASE cr[d] = NoCreation
    BY <1>2, <2>1 DEF Continues
  <2>2. CASE Placed(cr[d])
    <3>1. cr[d] # NoCreation
      BY <2>2 DEF Placed, NoCreation, Early, Late, Linking
    <3>2. cr[d].at \in Linking => ref'[cr[d].file].tag
      BY <2>2 DEF MetaInv, CreatorsOwn, StoreKept, Milder, Placed, Late
    <3> QED BY <1>2, <2>2, <3>1, <3>2 DEF Continues
  <2> QED BY <1>0, <2>1, <2>2
<1> QED BY <1>1, <1>3, <1>4, RestKept

\* A creation begins, with a file that has no creator.
LEMMA CreatStep ==
  ASSUME MetaInv, NEW c \in Creators, NEW n \in Namespaces, NEW p \in PathsIn[n], NEW f \in Files,
         marfs_creat(c, n, p, f)
  PROVE  MetaInv'
<1> DEFINE x == [NoCreation EXCEPT !.at = "refdir1", !.ns = n, !.path = p, !.file = f]
<1>0. cr \in [Creators -> CrSet] /\ \A d \in Creators : cr[d] = NoCreation \/ Placed(cr[d])
  BY DEF MetaInv, Typed
<1>1. cr' = [cr EXCEPT ![c] = x] /\ UNCHANGED <<ent, ref, refdir, pending>> /\ cr[c] = NoCreation
  BY DEF marfs_creat
<1>2. \A d \in Creators : cr[d].file # f
  BY DEF marfs_creat, Creating
<1>a. x \in CrSet /\ x.at = "refdir1" /\ x.ns = n /\ x.path = p /\ x.file = f
  <2>1. p \in AnyPath /\ "refdir1" \in Early \cup Late \cup {"idle"}
    BY DEF AnyPath, Early
  <2> HIDE DEF x
  <2>2. x = [NoCreation EXCEPT !.at = "refdir1", !.ns = n, !.path = p, !.file = f] /\ NoCreation \in CrSet
    BY NoCreationTyped DEF x
  <2> QED BY <2>1, <2>2 DEF CrSet
<1>3. cr' \in [Creators -> CrSet] /\ cr'[c] = x /\ \A d \in Creators \ {c} : cr'[d] = cr[d]
  BY <1>0, <1>1, <1>a
<1>4. Placed(x) /\ x.file = f /\ x.at \notin Late
  BY <1>a DEF Placed, Early, Late, Linking
<1> HIDE DEF x
<1>5. Typed'
  BY <1>0, <1>1, <1>3, <1>4 DEF MetaInv, Typed, EntTyped
<1>6. OneCreator'
  BY <1>2, <1>3, <1>4 DEF MetaInv, OneCreator
<1>7. CreatorsOwn'
  <2> SUFFICES ASSUME NEW d \in Creators, cr'[d].at \in Late
               PROVE  /\ ref[cr'[d].file].tree = RefTree(cr'[d].ns) /\ ~ref[cr'[d].file].marker /\ ~ref[cr'[d].file].old
                      /\ cr'[d].at \in Linking => ref[cr'[d].file].tag
                      /\ Pathless(cr'[d].file)
                      /\ cr'[d].file \notin pending
    BY <1>1 DEF CreatorsOwn, Pathless, CrTree
  <2>1. cr'[d] = cr[d]
    BY <1>3, <1>4
  <2> QED BY <2>1 DEF MetaInv, CreatorsOwn, CrTree
<1>8. FilesAreWhole' /\ Unreferenced' /\ InDirectories' /\ PendingIsOrphan'
  BY <1>1 DEF MetaInv, FilesAreWhole, Unreferenced, InDirectories, PendingIsOrphan, Pathless
<1> QED BY <1>5, <1>6, <1>7, <1>8 DEF MetaInv

\* The directories of the reference are made.
LEMMA GenRpathStep ==
  ASSUME MetaInv, NEW c \in Creators, GenRpath(c)
  PROVE  MetaInv'
<1>1. StoreKept
  BY SameStore DEF GenRpath
<1>2. cr[c].at # "idle" /\ CrTree(c) \in Namespaces
  BY CreatorFacts DEF GenRpath
<1>3. refdir \in [Namespaces -> {"none", "p", "new", "old"}] /\ InDirectories
  BY DEF MetaInv, Typed
<1>4. refdir' \in [Namespaces -> {"none", "p", "new", "old"}]
      /\ \A n \in Namespaces : refdir[n] \in {"new", "old"} => refdir'[n] = refdir[n]
  BY <1>2, <1>3 DEF GenRpath
<1>5. InDirectories'
  BY <1>3, <1>4 DEF InDirectories, GenRpath
<1>6. End(c) \/ \E at \in Early : Goto(c, at)
  BY DEF GenRpath, Early
<1>7. \A at \in Early : at \notin Late /\ at \notin Linking
  BY DEF Early, Late, Linking
<1>8. \/ End(c)
      \/ \E at \in Early \cup Late : /\ Goto(c, at) /\ cr[c].at # "idle" /\ (at \in Late => cr[c].at \in Late)
                                     /\ (at \in Linking => ref'[cr[c].file].tag)
  BY <1>2, <1>6, <1>7
<1> QED BY <1>1, <1>4, <1>5, <1>8, CreatorStep DEF GenRpath

\* openref makes the inode: it has its reference from here on, and nothing else.
LEMMA OpenrefStep ==
  ASSUME MetaInv, NEW c \in Creators, posixmdal_openref(c)
  PROVE  MetaInv'
<1> DEFINE f == cr[c].file  T == CrTree(c)
<1>0. /\ Placed(cr[c]) /\ cr[c] # NoCreation /\ T \in Namespaces /\ f \in Files
      /\ \A d \in Creators \ {c} : cr[d] = NoCreation \/ cr[d].file # f
  BY CreatorFacts DEF posixmdal_openref, Placed
<1>1. refdir \in [Namespaces -> {"none", "p", "new", "old"}] /\ InDirectories
  BY DEF MetaInv, Typed
<1>2. CASE ~(cr[c].refd /\ refdir[T] \in {"new", "old"} /\ ref[f].tree = NoSpace)
  <2>1. End(c) /\ UNCHANGED <<ent, ref, refdir, pending>>
    BY <1>2 DEF posixmdal_openref
  <2>2. StoreKept
    BY <2>1, SameStore
  <2>3. refdir' \in [Namespaces -> {"none", "p", "new", "old"}] /\ InDirectories'
    BY <1>1, <2>1 DEF InDirectories
  <2> QED BY <2>1, <2>2, <2>3, CreatorStep
<1>3. CASE refdir[T] \in {"new", "old"} /\ ref[f].tree = NoSpace /\ cr[c].refd
  <2>1. /\ ref' = [ref EXCEPT ![f].tree = T] /\ refdir' = [refdir EXCEPT ![T] = "new"]
        /\ Goto(c, "putftag") /\ UNCHANGED <<ent, pending>>
    BY <1>3 DEF posixmdal_openref
  <2>2. ref[f] = NoRef /\ ref \in [Files -> RefSet]
    BY <1>0, <1>3 DEF MetaInv, Unreferenced, Typed
  <2>3. f \notin pending /\ Pathless(f)
    BY <1>0, <1>3, RefTreeIsNamespace DEF MetaInv, PendingIsOrphan, Pathless, FilesAreWhole, IsFile
  <2>4. /\ ref' \in [Files -> RefSet] /\ \A g \in Files \ {f} : ref'[g] = ref[g]
        /\ ref'[f].tree = T /\ ref'[f].marker = FALSE /\ ref'[f].old = FALSE
    <3>1. \A x \in RefSet : \A y : y = [x EXCEPT !.tree = T] =>
            y \in RefSet /\ y.tree = T /\ y.marker = x.marker /\ y.old = x.old
      BY <1>0 DEF RefSet
    <3>2. NoRef \in RefSet /\ NoRef.marker = FALSE /\ NoRef.old = FALSE
      BY DEF NoRef, RefSet
    <3>3. /\ ref'[f] = [ref[f] EXCEPT !.tree = T] /\ \A g \in Files \ {f} : ref'[g] = ref[g]
          /\ DOMAIN ref' = Files /\ ref' = [g \in Files |-> ref'[g]]
      BY <1>0, <2>1, <2>2
    <3> HIDE DEF f, T
    <3> QED BY <2>2, <3>1, <3>2, <3>3
  <2>5. /\ refdir' \in [Namespaces -> {"none", "p", "new", "old"}] /\ refdir'[T] = "new"
        /\ \A n \in Namespaces : refdir[n] \in {"new", "old"} => refdir'[n] \in {"new", "old"}
    BY <1>0, <1>1, <2>1
  <2>6. cr \in [Creators -> CrSet] /\ \A d \in Creators : cr[d] = NoCreation \/ Placed(cr[d])
    BY DEF MetaInv, Typed
  <2>7. /\ cr' \in [Creators -> CrSet] /\ \A d \in Creators \ {c} : cr'[d] = cr[d]
        /\ cr'[c].at = "putftag" /\ cr'[c].ns = cr[c].ns /\ cr'[c].path = cr[c].path /\ cr'[c].file = f
    <3>1. "putftag" \in Early \cup Late
      BY DEF Late
    <3> QED BY <2>1, <2>6, <3>1, GotoFacts
  <2>8. Placed(cr'[c]) /\ cr'[c] # NoCreation
    BY <1>0, <2>7, NoCreationTyped DEF Placed, Late
  <2>9. Typed'
    BY <1>0, <2>1, <2>3, <2>4, <2>5, <2>6, <2>7, <2>8 DEF MetaInv, Typed, EntTyped
  <2>10. OneCreator'
    BY <1>0, <2>7, <2>8 DEF MetaInv, OneCreator
  <2>11. CreatorsOwn'
    <3> SUFFICES ASSUME NEW d \in Creators, cr'[d].at \in Late
                 PROVE  /\ ref'[cr'[d].file].tree = RefTree(cr'[d].ns) /\ ~ref'[cr'[d].file].marker /\ ~ref'[cr'[d].file].old
                        /\ cr'[d].at \in Linking => ref'[cr'[d].file].tag
                        /\ Pathless(cr'[d].file)
                        /\ cr'[d].file \notin pending
      BY <2>1 DEF CreatorsOwn, Pathless, CrTree
    <3>1. CASE d = c
      <4>1. T = RefTree(cr'[d].ns) /\ "putftag" \notin Linking
        BY <2>7, <3>1 DEF CrTree, Linking
      <4> QED BY <2>3, <2>4, <2>7, <3>1, <4>1
    <3>2. CASE d # c
      <4>1. cr'[d] = cr[d] /\ cr[d] # NoCreation
        BY <2>7, <3>2, NoCreationTyped DEF Late, Linking
      <4>2. cr[d].file # f /\ cr[d].file \in Files
        BY <1>0, <2>6, <3>2, <4>1 DEF Placed
      <4>3. ref'[cr[d].file] = ref[cr[d].file]
        BY <2>4, <4>2
      <4> QED BY <4>1, <4>3 DEF MetaInv, CreatorsOwn, CrTree
    <3> QED BY <3>1, <3>2
  <2>12. FilesAreWhole'
    BY <2>1, <2>3, <2>4 DEF MetaInv, FilesAreWhole, IsFile, Pathless
  <2>13. Unreferenced'
    BY <1>0, <2>4, RefTreeIsNamespace DEF MetaInv, Unreferenced
  <2>14. InDirectories'
    BY <1>1, <2>4, <2>5 DEF InDirectories
  <2>15. PendingIsOrphan'
    BY <2>1, <2>3, <2>4, <2>6 DEF MetaInv, Typed, PendingIsOrphan, Pathless
  <2> QED BY <2>9, <2>10, <2>11, <2>12, <2>13, <2>14, <2>15 DEF MetaInv
<1> QED BY <1>2, <1>3

\* The tag is set, before there is a path; or the creation fails.
LEMMA PutftagStep ==
  ASSUME MetaInv, NEW c \in Creators, putftag(c)
  PROVE  MetaInv'
<1> DEFINE f == cr[c].file
<1>0. Placed(cr[c]) /\ CrTree(c) \in Namespaces /\ f \in Files /\ cr[c].at = "putftag" /\ cr[c].at \in Late
  BY CreatorFacts DEF putftag, Placed, Late
<1>1. UNCHANGED <<ent, refdir, pending>>
  BY DEF putftag
<1>2. refdir' \in [Namespaces -> {"none", "p", "new", "old"}]
  BY <1>1 DEF MetaInv, Typed
<1>3. "linkref" \in Linking /\ "linkref" \in Early \cup Late /\ "unlinkref" \in Early \cup Late /\ "unlinkref" \notin Linking
  BY DEF Linking, Late
<1>4. CASE ref' = [ref EXCEPT ![f].tag = TRUE] /\ Goto(c, "linkref")
  <2>1. ref[f].tree = CrTree(c) /\ ref \in [Files -> RefSet] /\ ref[f] # NoRef
    BY <1>0, RefTreeIsNamespace DEF MetaInv, CreatorsOwn, Typed, NoRef
  <2>2. /\ ref' \in [Files -> RefSet] /\ \A g \in Files \ {f} : ref'[g] = ref[g]
        /\ ref'[f].tree = ref[f].tree /\ ref'[f].marker = ref[f].marker /\ ref'[f].old = ref[f].old /\ ref'[f].tag = TRUE
    <3>1. \A x \in RefSet : \A y : y = [x EXCEPT !.tag = TRUE] =>
            y \in RefSet /\ y.tree = x.tree /\ y.marker = x.marker /\ y.old = x.old /\ y.tag = TRUE
      BY DEF RefSet
    <3>2. /\ ref'[f] = [ref[f] EXCEPT !.tag = TRUE] /\ \A g \in Files \ {f} : ref'[g] = ref[g]
          /\ DOMAIN ref' = Files /\ ref' = [g \in Files |-> ref'[g]]
      BY <1>0, <1>4, <2>1
    <3>3. ref[f] \in RefSet
      BY <1>0, <2>1
    <3> HIDE DEF f
    <3> QED BY <2>1, <3>1, <3>2, <3>3
  <2> HIDE DEF f
  <2>3. Milder(ref')
    BY <2>1, <2>2 DEF Milder
  <2>4. Sourced(ent) /\ ent' = ent /\ Typed /\ FilesAreWhole /\ Unreferenced
    BY <1>1, SameIsSourced DEF MetaInv
  <2>5. StoreKept
    BY <2>3, <2>4, CallKeepsStore
  <2>6. InDirectories'
    BY <1>1, <2>2 DEF MetaInv, InDirectories
  <2>7. ref'[cr[c].file].tag
    BY <2>2 DEF f
  <2> QED BY <1>0, <1>1, <1>2, <1>3, <1>4, <2>5, <2>6, <2>7, CreatorStep
<1>5. CASE ref' = ref /\ Goto(c, "unlinkref")
  <2>1. StoreKept
    BY <1>1, <1>5, SameStore
  <2>2. InDirectories'
    BY <1>1, <1>5 DEF MetaInv, InDirectories
  <2> QED BY <1>0, <1>1, <1>2, <1>3, <1>5, <2>1, <2>2, CreatorStep
<1> QED BY <1>4, <1>5 DEF putftag

\* The link gives the file its path: it has been the creator's alone, and is whole.
LEMMA LinkrefStep ==
  ASSUME MetaInv, NEW c \in Creators, posixmdal_linkref(c)
  PROVE  MetaInv'
<1> DEFINE f == cr[c].file  n == cr[c].ns  p == cr[c].path
           able == cr[c].pathd /\ InDir(n, p)
<1>0. /\ Placed(cr[c]) /\ cr[c] # NoCreation /\ f \in Files /\ n \in Namespaces /\ p \in PathsIn[n]
      /\ \A d \in Creators \ {c} : cr[d] = NoCreation \/ cr[d].file # f
  BY CreatorFacts DEF posixmdal_linkref, Placed
<1>1. UNCHANGED <<refdir, pending>>
  BY DEF posixmdal_linkref
<1>2. cr[c].at \in Late /\ cr[c].at \in Linking /\ cr[c].at # "idle"
  BY DEF posixmdal_linkref, Late, Linking
<1>3. /\ ref[f].tree = RefTree(n) /\ ~ref[f].marker /\ ~ref[f].old /\ ref[f].tag /\ Pathless(f) /\ f \notin pending
  BY <1>2 DEF MetaInv, CreatorsOwn, CrTree
<1>4. refdir' \in [Namespaces -> {"none", "p", "new", "old"}]
  BY <1>1 DEF MetaInv, Typed
<1>5. CASE Change(Put(n, p, f), Young(f, ref)) /\ End(c)
  <2> DEFINE e == Put(n, p, f)  r == Young(f, ref)
  <2>1. e = [k \in Namespaces |-> [y \in PathsIn[k] |-> IF k = n /\ y = p THEN f ELSE ent[k][y]]]
    BY DEF Put, MetaInv, Typed, EntTyped
  <2>2. \A k \in Namespaces : \A y \in PathsIn[k] : e[k][y] = IF k = n /\ y = p THEN f ELSE ent[k][y]
    BY <2>1
  <2>3. EntTyped(e)
    <3>1. f \in Entries
      BY <1>0 DEF Entries
    <3> HIDE DEF f, n, p
    <3>2. \A k \in Namespaces : \A y \in PathsIn[k] : e[k][y] \in Entries
      BY <2>2, <3>1 DEF MetaInv, Typed, EntTyped
    <3>3. e = [k \in Namespaces |-> [y \in PathsIn[k] |-> e[k][y]]]
      BY <2>1
    <3> QED BY <3>2, <3>3 DEF EntTyped
  <2>4. Milder(r)
    BY SameIsSourced, YoungIsMilder DEF MetaInv
  <2>5. \A g \in Files : r[g].tree = NoSpace => r[g] = NoRef
    BY <2>4 DEF Milder, MetaInv, Unreferenced
  <2>6. ent' = e /\ ref' = r
    BY <1>5, <2>4, <2>5, SettledSame DEF Change, Milder
  <2> HIDE DEF e, r
  <2>7. \A d \in Creators \ {c} : cr'[d] = cr[d]
    BY <1>5 DEF End, MetaInv, Typed
  <2>8. cr'[c] = NoCreation /\ cr' \in [Creators -> CrSet]
    BY <1>5, NoCreationTyped DEF End, MetaInv, Typed
  <2>9. \A g \in Files : g # f /\ Pathless(g) => Pathless(g)'
    BY <2>2, <2>6 DEF Pathless
  <2>10. Typed'
    BY <1>1, <1>4, <2>3, <2>4, <2>6, <2>7, <2>8 DEF MetaInv, Typed, Milder
  <2>11. FilesAreWhole'
    <3> SUFFICES ASSUME NEW k \in Namespaces, NEW y \in PathsIn[k], e[k][y] \in Files
                 PROVE  r[e[k][y]].tree = RefTree(k) /\ r[e[k][y]].tag
      BY <2>6 DEF FilesAreWhole, IsFile
    <3>1. CASE k = n /\ y = p
      <4>1. e[k][y] = f
        BY <2>2, <3>1
      <4>2. r[f].tree = RefTree(n) /\ r[f].tag
        BY <1>0, <1>3, <2>4 DEF Milder
      <4> QED BY <3>1, <4>1, <4>2
    <3>2. CASE ~(k = n /\ y = p)
      <4>1. e[k][y] = ent[k][y]
        BY <2>2, <3>2
      <4>2. ref[ent[k][y]].tree = RefTree(k) /\ ref[ent[k][y]].tag
        BY <4>1 DEF MetaInv, FilesAreWhole, IsFile
      <4> QED BY <2>4, <4>1, <4>2 DEF Milder
    <3> QED BY <3>1, <3>2
  <2>12. Unreferenced'
    BY <2>5, <2>6 DEF Unreferenced
  <2>13. InDirectories'
    BY <1>1, <2>4, <2>6 DEF MetaInv, InDirectories, Milder
  <2>14. OneCreator'
    BY <2>7, <2>8 DEF MetaInv, OneCreator
  <2>15. CreatorsOwn'
    <3> SUFFICES ASSUME NEW d \in Creators, cr'[d].at \in Late
                 PROVE  /\ ref'[cr'[d].file].tree = RefTree(cr'[d].ns) /\ ~ref'[cr'[d].file].marker /\ ~ref'[cr'[d].file].old
                        /\ cr'[d].at \in Linking => ref'[cr'[d].file].tag
                        /\ \A k \in Namespaces : \A y \in PathsIn[k] : ent'[k][y] # cr'[d].file
                        /\ cr'[d].file \notin pending'
      BY DEF CreatorsOwn, Pathless, CrTree
    <3>1. d # c /\ cr'[d] = cr[d] /\ cr[d] # NoCreation
      BY <2>7, <2>8, NoCreationTyped DEF Late, Linking
    <3>2. cr[d].file # f /\ cr[d].file \in Files
      BY <1>0, <3>1 DEF MetaInv, Typed, Placed
    <3>3. /\ ref[cr[d].file].tree = RefTree(cr[d].ns) /\ ~ref[cr[d].file].marker /\ ~ref[cr[d].file].old
          /\ cr[d].at \in Linking => ref[cr[d].file].tag
          /\ \A k \in Namespaces : \A y \in PathsIn[k] : ent[k][y] # cr[d].file
          /\ cr[d].file \notin pending
      BY <3>1 DEF MetaInv, CreatorsOwn, CrTree, Pathless
    <3>4. \A k \in Namespaces : \A y \in PathsIn[k] : ent'[k][y] # cr[d].file
      BY <2>2, <2>6, <3>2, <3>3
    <3>5. /\ ref'[cr[d].file].tree = RefTree(cr[d].ns) /\ ~ref'[cr[d].file].marker /\ ~ref'[cr[d].file].old
          /\ cr[d].at \in Linking => ref'[cr[d].file].tag
      BY <2>4, <2>6, <3>2, <3>3 DEF Milder
    <3> QED BY <1>1, <3>1, <3>3, <3>4, <3>5
  <2>16. PendingIsOrphan'
    <3> SUFFICES ASSUME NEW g \in pending
                 PROVE  ref'[g].tree # NoSpace /\ ~ref'[g].marker /\ \A k \in Namespaces : \A y \in PathsIn[k] : ent'[k][y] # g
      BY <1>1 DEF PendingIsOrphan, Pathless
    <3>1. g # f /\ g \in Files /\ ref[g].tree # NoSpace /\ ~ref[g].marker /\ Pathless(g)
      BY <1>3 DEF MetaInv, Typed, PendingIsOrphan
    <3>2. \A k \in Namespaces : \A y \in PathsIn[k] : ent'[k][y] # g
      BY <2>2, <2>6, <3>1 DEF Pathless
    <3> QED BY <2>4, <2>6, <3>1, <3>2 DEF Milder
  <2> QED BY <2>10, <2>11, <2>12, <2>13, <2>14, <2>15, <2>16 DEF MetaInv
<1>6. CASE (Goto(c, "unlink") \/ Goto(c, "unlinkref")) /\ UNCHANGED <<ent, ref>>
  <2>1. StoreKept
    BY <1>6, SameStore
  <2>2. InDirectories'
    BY <1>1, <1>6 DEF MetaInv, InDirectories
  <2>3. ref'[cr[c].file].tag
    BY <1>3, <1>6
  <2>4. "unlink" \in Early \cup Late /\ "unlinkref" \in Early \cup Late
    BY DEF Late, Linking
  <2> HIDE DEF f, n, p, able
  <2> QED BY <1>1, <1>2, <1>4, <1>6, <2>1, <2>2, <2>3, <2>4, CreatorStep
<1> QED BY <1>5, <1>6 DEF posixmdal_linkref

\* What is in the way of the new file is unlinked.
LEMMA UnlinkExistingStep ==
  ASSUME MetaInv, NEW c \in Creators, UnlinkExisting(c)
  PROVE  MetaInv'
<1> DEFINE n == cr[c].ns  p == cr[c].path
<1>0. Placed(cr[c]) /\ n \in Namespaces /\ p \in PathsIn[n]
  BY CreatorFacts DEF UnlinkExisting, Placed
<1>1. UNCHANGED <<refdir, pending>>
  BY DEF UnlinkExisting
<1>2. cr[c].at \in Late /\ cr[c].at \in Linking /\ cr[c].at # "idle"
  BY DEF UnlinkExisting, Late, Linking
<1>3. Goto(c, "unlinkref") \/ Goto(c, "linkagain")
  BY DEF UnlinkExisting
<1>4. UNCHANGED <<ent, ref>> \/ \E y : Change(Put(n, p, "none"), Young(y, ref))
  BY DEF UnlinkExisting, NoEnt
<1>5. StoreKept
  <2>1. CASE UNCHANGED <<ent, ref>>
    BY <2>1, SameStore
  <2>2. CASE \E y : Change(Put(n, p, "none"), Young(y, ref))
    <3>1. PICK y : Change(Put(n, p, "none"), Young(y, ref))
      BY <2>2
    <3> QED BY <1>0, <3>1, PutStep DEF MetaInv
  <2> QED BY <1>4, <2>1, <2>2
<1>6. InDirectories' /\ refdir' \in [Namespaces -> {"none", "p", "new", "old"}]
  BY <1>1, <1>5 DEF MetaInv, InDirectories, StoreKept, Milder, Typed
<1>7. ref'[cr[c].file].tag
  BY <1>0, <1>2, <1>5 DEF MetaInv, CreatorsOwn, StoreKept, Milder, Placed
<1>8. "linkagain" \in Early \cup Late /\ "unlinkref" \in Early \cup Late
  BY DEF Late, Linking
<1> HIDE DEF n, p
<1> QED BY <1>1, <1>2, <1>3, <1>5, <1>6, <1>7, <1>8, CreatorStep

-----------------------------------------------------------------------------
(* References are taken away *)

\* A reference that is all there is of a file is taken away: the file is gone, others are as
\* they were.
LEMMA ReferenceTaken ==
  ASSUME MetaInv, NEW f \in Files, Pathless(f), ~ref[f].marker, Change(ent, [ref EXCEPT ![f].tree = NoSpace])
  PROVE  /\ ent' = ent /\ ref' \in [Files -> RefSet] /\ ref'[f] = NoRef
         /\ \A g \in Files \ {f} : ref'[g] = ref[g]
<1> DEFINE r == [ref EXCEPT ![f].tree = NoSpace]
<1>0. ref \in [Files -> RefSet] /\ Unreferenced
  BY DEF MetaInv, Typed
<1>1. /\ r \in [Files -> RefSet] /\ r[f].tree = NoSpace /\ r[f].marker = ref[f].marker
      /\ \A g \in Files \ {f} : r[g] = ref[g]
  BY <1>0 DEF RefSet
<1>2. ent' = ent /\ ref' = Settled(ent, r)
  BY DEF Change
<1> HIDE DEF r
<1>3. \A np \in Cells : ent[np[1]][np[2]] # f
  BY CellsArePairs DEF Pathless
<1>4. ref' = [g \in Files |-> ref'[g]] /\ ref'[f] = NoRef
  BY <1>1, <1>2, <1>3 DEF Settled
<1>5. \A g \in Files \ {f} : ref'[g] = ref[g]
  BY <1>0, <1>1, <1>2 DEF Settled, Unreferenced
<1>6. NoRef \in RefSet
  BY DEF NoRef, RefSet
<1> QED BY <1>0, <1>2, <1>4, <1>5, <1>6

\* What that leaves of the invariant, when the file's creator, if there is one, ends.
LEMMA TakenKeeps ==
  ASSUME MetaInv, NEW f \in Files, Pathless(f),
         ent' = ent, ref' \in [Files -> RefSet], ref'[f] = NoRef, \A g \in Files \ {f} : ref'[g] = ref[g],
         UNCHANGED refdir, pending' \subseteq pending, f \notin pending',
         cr' \in [Creators -> CrSet],
         \A d \in Creators : cr'[d] = NoCreation \/ (cr'[d] = cr[d] /\ (cr[d].at \in Late => cr[d].file # f))
  PROVE  MetaInv'
<1>1. Typed'
  BY DEF MetaInv, Typed, EntTyped
<1>2. FilesAreWhole'
  BY DEF MetaInv, FilesAreWhole, IsFile, Pathless
<1>3. Unreferenced'
  BY DEF MetaInv, Unreferenced
<1>4. InDirectories'
  <2>1. NoRef.tree = NoSpace
    BY DEF NoRef
  <2> QED BY <2>1, RefTreeIsNamespace DEF MetaInv, InDirectories
<1>5. OneCreator'
  BY DEF MetaInv, OneCreator
<1>6. CreatorsOwn'
  <2> SUFFICES ASSUME NEW d \in Creators, cr'[d].at \in Late
               PROVE  /\ ref'[cr'[d].file].tree = RefTree(cr'[d].ns) /\ ~ref'[cr'[d].file].marker /\ ~ref'[cr'[d].file].old
                      /\ cr'[d].at \in Linking => ref'[cr'[d].file].tag
                      /\ Pathless(cr'[d].file)
                      /\ cr'[d].file \notin pending'
    BY DEF CreatorsOwn, Pathless, CrTree
  <2>1. cr'[d] = cr[d] /\ cr[d].file # f /\ cr[d] # NoCreation
    BY NoCreationTyped DEF Late, Linking
  <2>2. cr[d].file \in Files
    BY <2>1 DEF MetaInv, Typed, Placed
  <2> QED BY <2>1, <2>2 DEF MetaInv, CreatorsOwn, CrTree
<1>7. PendingIsOrphan'
  BY DEF MetaInv, Typed, PendingIsOrphan, Pathless
<1> QED BY <1>1, <1>2, <1>3, <1>4, <1>5, <1>6, <1>7 DEF MetaInv

\* A creation that fails.
LEMMA UnlinkrefStep ==
  ASSUME MetaInv, NEW c \in Creators, posixmdal_unlinkref(c)
  PROVE  MetaInv'
<1> DEFINE f == cr[c].file
<1>0. /\ Placed(cr[c]) /\ f \in Files /\ cr[c].at \in Late
      /\ \A d \in Creators \ {c} : cr[d] = NoCreation \/ cr[d].file # f
  BY CreatorFacts DEF posixmdal_unlinkref, Placed, Late
<1>1. Pathless(f) /\ ~ref[f].marker /\ f \notin pending
  BY <1>0 DEF MetaInv, CreatorsOwn
<1>2. Change(ent, [ref EXCEPT ![f].tree = NoSpace]) /\ End(c) /\ UNCHANGED <<refdir, pending>>
  BY DEF posixmdal_unlinkref
<1>3. cr' \in [Creators -> CrSet] /\ cr'[c] = NoCreation /\ \A d \in Creators \ {c} : cr'[d] = cr[d]
  BY <1>2, NoCreationTyped DEF End, MetaInv, Typed
<1>4. \A d \in Creators : cr'[d] = NoCreation \/ (cr'[d] = cr[d] /\ (cr[d].at \in Late => cr[d].file # f))
  BY <1>0, <1>3, NoCreationTyped DEF Late, Linking
<1> HIDE DEF f
<1>5. ent' = ent /\ ref' \in [Files -> RefSet] /\ ref'[f] = NoRef /\ \A g \in Files \ {f} : ref'[g] = ref[g]
  BY <1>0, <1>1, <1>2, ReferenceTaken
<1> QED BY <1>0, <1>1, <1>2, <1>3, <1>4, <1>5, TakenKeeps

\* rman deletes a reference it has found before: nothing has got hold of it since.
LEMMA DeleteRefStep ==
  ASSUME MetaInv, NEW f \in Files, DeleteRef(f)
  PROVE  MetaInv'
<1>1. f \in pending /\ Pathless(f) /\ ~ref[f].marker
  BY DEF DeleteRef, MetaInv, PendingIsOrphan
<1>2. /\ Change(ent, [ref EXCEPT ![f].tree = NoSpace]) /\ UNCHANGED <<refdir, cr>>
      /\ pending' \subseteq pending /\ f \notin pending'
  BY DEF DeleteRef
<1>3. ent' = ent /\ ref' \in [Files -> RefSet] /\ ref'[f] = NoRef /\ \A g \in Files \ {f} : ref'[g] = ref[g]
  BY <1>1, <1>2, ReferenceTaken
<1>4. cr' \in [Creators -> CrSet] /\ \A d \in Creators : cr'[d] = cr[d] /\ (cr[d].at \in Late => cr[d].file # f)
  BY <1>1, <1>2 DEF MetaInv, Typed, CreatorsOwn
<1> QED BY <1>1, <1>2, <1>3, <1>4, TakenKeeps

-----------------------------------------------------------------------------
(* The other steps of readers, rman and time *)

\* The marker or the age of a file that has its reference changes.
LEMMA RefStep ==
  ASSUME MetaInv, NEW f \in Files, ref[f].tree # NoSpace,
         ent' = ent, ref' \in [Files -> RefSet], \A g \in Files \ {f} : ref'[g] = ref[g],
         ref'[f].tree = ref[f].tree, ref'[f].tag = ref[f].tag,
         Pathless(f) => ~ref'[f].marker \/ ref[f].marker, ref'[f].old => ref[f].old \/ ~Owned(f),
         UNCHANGED <<refdir, cr, pending>>
  PROVE  MetaInv'
<1>1. Typed'
  BY DEF MetaInv, Typed, EntTyped
<1>2. FilesAreWhole' /\ Unreferenced' /\ InDirectories' /\ OneCreator'
  BY DEF MetaInv, FilesAreWhole, IsFile, Unreferenced, InDirectories, OneCreator
<1>3. CreatorsOwn'
  <2> SUFFICES ASSUME NEW d \in Creators, cr[d].at \in Late
               PROVE  /\ ref'[cr[d].file].tree = RefTree(cr[d].ns) /\ ~ref'[cr[d].file].marker /\ ~ref'[cr[d].file].old
                      /\ cr[d].at \in Linking => ref'[cr[d].file].tag
                      /\ Pathless(cr[d].file)
                      /\ cr[d].file \notin pending
    BY DEF CreatorsOwn, Pathless, CrTree
  <2>1. cr[d].file \in Files
    BY NoCreationTyped DEF MetaInv, Typed, Placed, Late, Linking
  <2>2. /\ ref[cr[d].file].tree = RefTree(cr[d].ns) /\ ~ref[cr[d].file].marker /\ ~ref[cr[d].file].old
        /\ cr[d].at \in Linking => ref[cr[d].file].tag
        /\ Pathless(cr[d].file) /\ cr[d].file \notin pending
    BY DEF MetaInv, CreatorsOwn, CrTree
  <2>3. CASE cr[d].file = f
    <3>1. Owned(f)
      BY <2>3 DEF Owned, Late, Linking
    <3> QED BY <2>2, <2>3, <3>1
  <2>4. CASE cr[d].file # f
    BY <2>1, <2>2, <2>4
  <2> QED BY <2>3, <2>4
<1>4. PendingIsOrphan'
  BY DEF MetaInv, Typed, PendingIsOrphan, Pathless
<1> QED BY <1>1, <1>2, <1>3, <1>4 DEF MetaInv

\* A reader marks a file that has a path.
LEMMA MarkStep ==
  ASSUME MetaInv, NEW f \in Files, MarkForRebuild(f)
  PROVE  MetaInv'
<1>0. ref \in [Files -> RefSet]
  BY DEF MetaInv, Typed
<1>1. /\ ref' \in [Files -> RefSet] /\ \A g \in Files \ {f} : ref'[g] = ref[g]
      /\ ref'[f].tree = ref[f].tree /\ ref'[f].tag = ref[f].tag /\ ref'[f].old = FALSE
  BY <1>0 DEF MarkForRebuild, RefSet
<1>2. ref[f].tree # NoSpace /\ ~Pathless(f) /\ ent' = ent /\ UNCHANGED <<refdir, cr, pending>>
  BY NoPaths DEF MarkForRebuild, Untouched
<1> QED BY <1>1, <1>2, RefStep

\* rman rebuilds and unlinks the marker.
LEMMA RebuildStep ==
  ASSUME MetaInv, NEW f \in Files, process_rebuild(f)
  PROVE  MetaInv'
<1> DEFINE r == [ref EXCEPT ![f].marker = FALSE, ![f].old = FALSE]
<1>0. ref \in [Files -> RefSet] /\ Unreferenced
  BY DEF MetaInv, Typed
<1>1. ref[f].tree # NoSpace
  <2>1. NoRef.marker = FALSE
    BY DEF NoRef
  <2> QED BY <1>0, <2>1 DEF process_rebuild, Unreferenced
<1>2. /\ r \in [Files -> RefSet] /\ \A g \in Files \ {f} : r[g] = ref[g]
      /\ r[f].tree = ref[f].tree /\ r[f].tag = ref[f].tag /\ r[f].old = FALSE /\ r[f].marker = FALSE
  BY <1>0 DEF RefSet
<1>3. ent' = ent /\ ref' = Settled(ent, r) /\ UNCHANGED <<refdir, cr, pending>>
  BY DEF process_rebuild, Change
<1> HIDE DEF r
<1>4. \A g \in Files : r[g].tree = NoSpace => r[g] = NoRef
  BY <1>0, <1>1, <1>2 DEF Unreferenced
<1>5. ref' = r
  BY <1>2, <1>3, <1>4, SettledSame
<1> QED BY <1>1, <1>2, <1>3, <1>5, RefStep

\* Time passes for a file that no creator is at.
LEMMA AgeStep ==
  ASSUME MetaInv, NEW f \in Files, Age(f)
  PROVE  MetaInv'
<1>0. ref \in [Files -> RefSet]
  BY DEF MetaInv, Typed
<1>1. /\ ref' \in [Files -> RefSet] /\ \A g \in Files \ {f} : ref'[g] = ref[g]
      /\ ref'[f].tree = ref[f].tree /\ ref'[f].tag = ref[f].tag /\ ref'[f].marker = ref[f].marker
  BY <1>0 DEF Age, RefSet
<1>2. ref[f].tree # NoSpace /\ ~Owned(f) /\ ent' = ent /\ UNCHANGED <<refdir, cr, pending>>
  BY DEF Age
<1>3. ref[f].marker \in BOOLEAN /\ ref'[f].marker \in BOOLEAN
  BY <1>0, <1>1 DEF RefSet
<1> QED BY <1>1, <1>2, <1>3, RefStep

\* rman finds a reference with an old inode that has no other link.
LEMMA ScanStep ==
  ASSUME MetaInv, NEW f \in Files, Scan(f)
  PROVE  MetaInv'
<1>0. ref[f].tree # NoSpace /\ ref[f].old /\ Nlink(f) < 2 /\ pending' = pending \cup {f}
      /\ UNCHANGED <<ent, ref, refdir, cr>>
  BY DEF Scan, Collectable
<1>1. Pathless(f) /\ ~ref[f].marker
  <2>1. Cardinality(PathsOf(f)) + 1 + (IF ref[f].marker THEN 1 ELSE 0) < 2 /\ Cardinality(PathsOf(f)) \in Nat
    BY <1>0, PathsFinite DEF Nlink
  <2>2. Cardinality(PathsOf(f)) = 0 /\ ~ref[f].marker
    BY <2>1
  <2> QED BY <2>2, PathsFinite, FS_EmptySet, NoPaths
<1>2. \A d \in Creators : cr[d].at \in Late => cr[d].file # f
  BY <1>0 DEF MetaInv, CreatorsOwn
<1>3. Typed' /\ FilesAreWhole' /\ Unreferenced' /\ InDirectories' /\ OneCreator'
  BY <1>0 DEF MetaInv, Typed, EntTyped, FilesAreWhole, Unreferenced, InDirectories, OneCreator
<1>4. CreatorsOwn'
  BY <1>0, <1>2 DEF MetaInv, CreatorsOwn, Pathless, CrTree
<1>5. PendingIsOrphan'
  BY <1>0, <1>1 DEF MetaInv, PendingIsOrphan, Pathless
<1> QED BY <1>3, <1>4, <1>5 DEF MetaInv

\* Reference directories get old or are removed when no reference is in them.
LEMMA DirectoryStep ==
  ASSUME MetaInv, NEW n \in Namespaces, AgeDir(n) \/ cleanup_refdir(n)
  PROVE  MetaInv'
<1>1. UNCHANGED <<ent, ref, cr, pending>> /\ \A f \in Files : ref[f].tree # n
  BY DEF AgeDir, cleanup_refdir
<1>2. refdir' \in [Namespaces -> {"none", "p", "new", "old"}] /\ \A m \in Namespaces \ {n} : refdir'[m] = refdir[m]
  BY DEF AgeDir, cleanup_refdir, MetaInv, Typed
<1>3. InDirectories'
  BY <1>1, <1>2 DEF MetaInv, InDirectories
<1>4. Typed'
  BY <1>1, <1>2 DEF MetaInv, Typed, EntTyped
<1>5. FilesAreWhole' /\ Unreferenced' /\ OneCreator' /\ PendingIsOrphan'
  BY <1>1 DEF MetaInv, FilesAreWhole, Unreferenced, OneCreator, PendingIsOrphan, Pathless
<1>6. CreatorsOwn'
  BY <1>1 DEF MetaInv, CreatorsOwn, Pathless, CrTree
<1> QED BY <1>3, <1>4, <1>5, <1>6 DEF MetaInv

\* What leaves files, references and creators alone.
LEMMA NothingMoves == MetaInv /\ UNCHANGED <<ent, ref, refdir, cr, pending>> => MetaInv'
<1> SUFFICES ASSUME MetaInv, UNCHANGED <<ent, ref, refdir, cr, pending>> PROVE MetaInv'
  OBVIOUS
<1>1. Typed' /\ FilesAreWhole' /\ Unreferenced' /\ InDirectories' /\ OneCreator' /\ PendingIsOrphan'
  BY DEF MetaInv, Typed, EntTyped, FilesAreWhole, Unreferenced, InDirectories, OneCreator, PendingIsOrphan, Pathless
<1>2. CreatorsOwn'
  BY DEF MetaInv, CreatorsOwn, Pathless, CrTree
<1> QED BY <1>1, <1>2 DEF MetaInv

\* A namespace is removed: no reference is in its tree, and its creators find out.
LEMMA DestroyStep ==
  ASSUME MetaInv, NEW n \in Namespaces, posixmdal_destroynamespace(n)
  PROVE  MetaInv'
<1>1. refdir[n] = "none" /\ UNCHANGED <<ent, refdir, pending>>
  BY DEF posixmdal_destroynamespace, RefsRemovable
<1>2. ref \in [Files -> RefSet] /\ Unreferenced
  BY DEF MetaInv, Typed
<1>3. \A f \in Files : ref[f].tree # n
  BY <1>1 DEF MetaInv, InDirectories
<1>4. [f \in Files |-> IF ref[f].tree = n THEN [ref[f] EXCEPT !.tree = NoSpace] ELSE ref[f]] = ref
  BY <1>2, <1>3
<1>5. ref' = ref
  BY <1>2, <1>4, SettledSame DEF posixmdal_destroynamespace, Unreferenced
<1>6. StoreKept
  BY <1>1, <1>5, SameStore
<1>7. \A c \in Creators : /\ cr'[c] \in CrSet /\ cr'[c].at = cr[c].at /\ cr'[c].ns = cr[c].ns
                          /\ cr'[c].path = cr[c].path /\ cr'[c].file = cr[c].file
                          /\ cr[c] = NoCreation => cr'[c] = NoCreation
  <2> SUFFICES ASSUME NEW c \in Creators
               PROVE  /\ cr'[c] \in CrSet /\ cr'[c].at = cr[c].at /\ cr'[c].ns = cr[c].ns
                      /\ cr'[c].path = cr[c].path /\ cr'[c].file = cr[c].file
                      /\ cr[c] = NoCreation => cr'[c] = NoCreation
    OBVIOUS
  <2>1. cr[c] \in CrSet
    BY DEF MetaInv, Typed
  <2>2. CASE cr[c] = NoCreation
    BY <2>1, <2>2 DEF posixmdal_destroynamespace
  <2>3. CASE cr[c] # NoCreation
    <3>1. cr'[c] = [cr[c] EXCEPT !.refd = (cr[c].refd /\ CrTree(c) # n),
                                 !.pathd = (cr[c].pathd /\ (cr[c].ns # n \/ ~Bare(n)))]
      BY <2>3 DEF posixmdal_destroynamespace
    <3>3. (cr[c].refd /\ CrTree(c) # n) \in BOOLEAN /\ (cr[c].pathd /\ (cr[c].ns # n \/ ~Bare(n))) \in BOOLEAN
      OBVIOUS
    <3> DEFINE a == cr[c].refd /\ CrTree(c) # n  b == cr[c].pathd /\ (cr[c].ns # n \/ ~Bare(n))
    <3>4. a \in BOOLEAN /\ b \in BOOLEAN /\ cr'[c] = [cr[c] EXCEPT !.refd = a, !.pathd = b]
      BY <3>1, <3>3
    <3> HIDE DEF a, b
    <3>5. /\ cr'[c] \in CrSet /\ cr'[c].at = cr[c].at /\ cr'[c].ns = cr[c].ns
          /\ cr'[c].path = cr[c].path /\ cr'[c].file = cr[c].file
      BY <2>1, <3>4 DEF CrSet
    <3> QED BY <2>3, <3>5
  <2> QED BY <2>2, <2>3
<1>8. cr' \in [Creators -> CrSet]
  <2>1. cr' = [c \in Creators |-> cr'[c]]
    BY DEF posixmdal_destroynamespace
  <2> QED BY <1>7, <2>1
<1>9. \A c \in Creators : Continues(c)
  <2> SUFFICES ASSUME NEW c \in Creators PROVE Continues(c)
    OBVIOUS
  <2>1. CASE cr[c] = NoCreation
    BY <1>7, <2>1 DEF Continues
  <2>2. CASE Placed(cr[c])
    <3>1. cr[c] # NoCreation
      BY <2>2, NoCreationTyped DEF Placed, Early, Late, Linking
    <3>2. cr[c].at \in Linking => ref'[cr[c].file].tag
      BY <1>5 DEF MetaInv, CreatorsOwn, Late
    <3>3. Placed(cr'[c])
      BY <1>7, <2>2 DEF Placed
    <3> QED BY <1>7, <3>1, <3>2, <3>3 DEF Continues
  <2> QED BY <2>1, <2>2 DEF MetaInv, Typed
<1>10. InDirectories' /\ refdir' \in [Namespaces -> {"none", "p", "new", "old"}]
  BY <1>1, <1>5 DEF MetaInv, InDirectories, Typed
<1> QED BY <1>1, <1>6, <1>8, <1>9, <1>10, RestKept

-----------------------------------------------------------------------------
(* The invariant of the specification *)

\* The start: no creators, and files with references and tags.
LEMMA MetaInitInv == MetaInit => MetaInv
<1> SUFFICES ASSUME MetaInit PROVE MetaInv
  OBVIOUS
<1>1. PICK start \in Starts :
       /\ ent = [n \in Namespaces |-> [p \in PathsIn[n] |-> IF <<n, p>> \in DOMAIN start THEN start[<<n, p>>] ELSE NoEnt]]
       /\ ref = [f \in Files |-> IF \E np \in DOMAIN start : start[np] = f
                                 THEN [NoRef EXCEPT !.tag = TRUE, !.tree = RefTree((CHOOSE np \in DOMAIN start : start[np] = f)[1])]
                                 ELSE NoRef]
       /\ refdir = [n \in Namespaces |-> IF \E f \in Files : ref[f].tree = n THEN "new" ELSE "none"]
  BY DEF MetaInit
<1>2. /\ cr = [c \in Creators |-> NoCreation] /\ pending = {}
  BY DEF MetaInit
<1>3. /\ DOMAIN start \subseteq Cells
      /\ \A np \in DOMAIN start : start[np] \in Files \cup {"dir", "symlink"}
      /\ \A np, mq \in DOMAIN start : start[np] = start[mq] /\ start[np] \in Files => RefTree(np[1]) = RefTree(mq[1])
  BY EntriesAssumption
<1>4. \A n \in Namespaces : \A p \in PathsIn[n] :
        ent[n][p] = IF <<n, p>> \in DOMAIN start THEN start[<<n, p>>] ELSE "none"
  BY <1>1 DEF NoEnt
<1>5. EntTyped(ent)
  <2>1. \A n \in Namespaces : \A p \in PathsIn[n] : ent[n][p] \in Entries
    BY <1>3, <1>4 DEF Entries
  <2>2. ent = [n \in Namespaces |-> [p \in PathsIn[n] |-> ent[n][p]]]
    BY <1>1
  <2> QED BY <2>1, <2>2 DEF EntTyped
<1>6. /\ NoRef \in RefSet /\ NoRef.tree = NoSpace /\ NoRef.marker = FALSE
      /\ \A T \in Namespaces : \A y : y = [NoRef EXCEPT !.tag = TRUE, !.tree = T] => y \in RefSet /\ y.tree = T /\ y.tag = TRUE
  BY DEF NoRef, RefSet
<1>7. ASSUME NEW f \in Files, \E np \in DOMAIN start : start[np] = f
      PROVE  /\ ref[f] \in RefSet /\ ref[f].tag = TRUE /\ ref[f].tree \in Namespaces
             /\ \A np \in DOMAIN start : start[np] = f => ref[f].tree = RefTree(np[1])
  <2> DEFINE mq == CHOOSE np \in DOMAIN start : start[np] = f
  <2>1. mq \in DOMAIN start /\ start[mq] = f
    BY <1>7
  <2>2. mq[1] \in Namespaces
    BY <1>3, <2>1, CellsArePairs
  <2>3. ref[f] = [NoRef EXCEPT !.tag = TRUE, !.tree = RefTree(mq[1])]
    BY <1>1, <1>7
  <2> HIDE DEF mq
  <2>4. RefTree(mq[1]) \in Namespaces
    BY <2>2, RefTreeIsNamespace
  <2>5. ref[f] \in RefSet /\ ref[f].tree = RefTree(mq[1]) /\ ref[f].tag = TRUE
    BY <1>6, <2>3, <2>4
  <2> QED BY <1>3, <1>7, <2>1, <2>4, <2>5
<1>8. ASSUME NEW f \in Files, ~\E np \in DOMAIN start : start[np] = f PROVE ref[f] = NoRef
  BY <1>1, <1>8
<1>9. ref \in [Files -> RefSet]
  <2>1. ref = [f \in Files |-> ref[f]]
    BY <1>1
  <2> QED BY <1>6, <1>7, <1>8, <2>1
<1>10. refdir \in [Namespaces -> {"none", "p", "new", "old"}] /\ InDirectories
  BY <1>1 DEF InDirectories
<1>11. Typed
  BY <1>2, <1>5, <1>9, <1>10, NoCreationTyped DEF Typed
<1>12. FilesAreWhole
  <2> SUFFICES ASSUME NEW n \in Namespaces, NEW p \in PathsIn[n], ent[n][p] \in Files
               PROVE  ref[ent[n][p]].tree = RefTree(n) /\ ref[ent[n][p]].tag
    BY DEF FilesAreWhole, IsFile
  <2> DEFINE np == <<n, p>>
  <2>1. np[1] = n
    OBVIOUS
  <2>2. np \in DOMAIN start /\ start[np] = ent[n][p]
    BY <1>4, EntriesAssumption
  <2> HIDE DEF np
  <2> QED BY <1>7, <2>1, <2>2
<1>13. Unreferenced
  BY <1>7, <1>8, RefTreeIsNamespace DEF Unreferenced
<1>14. OneCreator /\ CreatorsOwn /\ PendingIsOrphan
  BY <1>2, NoCreationTyped DEF OneCreator, CreatorsOwn, PendingIsOrphan, Late, Linking
<1> QED BY <1>10, <1>11, <1>12, <1>13, <1>14 DEF MetaInv

\* Every step keeps the invariant.
LEMMA MetaStep == MetaInv /\ [MetaNext]_metavars => MetaInv'
<1> SUFFICES ASSUME MetaInv, [MetaNext]_metavars PROVE MetaInv'
  OBVIOUS
<1>1. CASE UNCHANGED metavars
  BY <1>1, NothingMoves DEF metavars
<1>2. CASE Creation
  <2>1. PICK c \in Creators :
          \/ \E np \in Cells, f \in Files : fuse_create(c, np[1], np[2], f) \/ (Batch /\ marfs_creat(c, np[1], np[2], f))
          \/ GenRpath(c) \/ posixmdal_openref(c) \/ putftag(c) \/ posixmdal_linkref(c)
          \/ UnlinkExisting(c) \/ posixmdal_unlinkref(c) \/ Crash(c)
    BY <1>2 DEF Creation
  <2>2. CASE \E np \in Cells, f \in Files : fuse_create(c, np[1], np[2], f) \/ (Batch /\ marfs_creat(c, np[1], np[2], f))
    <3>1. PICK np \in Cells, f \in Files : marfs_creat(c, np[1], np[2], f)
      BY <2>2 DEF fuse_create
    <3>2. np[1] \in Namespaces /\ np[2] \in PathsIn[np[1]]
      BY CellsArePairs
    <3> QED BY <3>1, <3>2, CreatStep
  <2>3. CASE Crash(c)
    <3>1. End(c) /\ UNCHANGED <<ent, ref, refdir, pending>>
      BY <2>3 DEF Crash
    <3>2. StoreKept
      BY <3>1, SameStore
    <3>3. InDirectories' /\ refdir' \in [Namespaces -> {"none", "p", "new", "old"}]
      BY <3>1 DEF MetaInv, InDirectories, Typed
    <3> QED BY <3>1, <3>2, <3>3, CreatorStep
  <2> QED BY <2>1, <2>2, <2>3, GenRpathStep, OpenrefStep, PutftagStep, LinkrefStep, UnlinkExistingStep, UnlinkrefStep
<1>3. CASE FuseCalls \/ BatchCalls
  <2>1. PICK np \in Cells :
          \/ \E mq \in Cells : marfs_rename(np[1], np[2], mq[1], mq[2]) \/ marfs_link(np[1], np[2], mq[1], mq[2])
          \/ marfs_symlink(np[1], np[2]) \/ marfs_unlink(np[1], np[2]) \/ marfs_mkdir(np[1], np[2]) \/ marfs_rmdir(np[1], np[2])
          \/ marfs_chmod(np[1], np[2]) \/ marfs_chown(np[1], np[2]) \/ marfs_utimens(np[1], np[2])
          \/ \E name \in XattrNames : marfs_fsetxattr(np[1], np[2], name) \/ marfs_fremovexattr(np[1], np[2], name)
    <3>1. CASE FuseCalls
      BY <3>1 DEF FuseCalls, fuse_rename, fuse_symlink, fuse_unlink, fuse_mkdir, fuse_rmdir, fuse_chmod, fuse_chown,
         fuse_utimens, fuse_setxattr, fuse_removexattr
    <3>2. CASE BatchCalls
      BY <3>2 DEF BatchCalls
    <3> QED BY <1>3, <3>1, <3>2
  <2>2. np[1] \in Namespaces /\ np[2] \in PathsIn[np[1]]
    BY CellsArePairs
  <2>3. ASSUME NEW mq \in Cells,
               marfs_rename(np[1], np[2], mq[1], mq[2]) \/ marfs_link(np[1], np[2], mq[1], mq[2])
        PROVE  MetaInv'
    <3>1. mq[1] \in Namespaces /\ mq[2] \in PathsIn[mq[1]]
      BY CellsArePairs
    <3> QED BY <2>2, <2>3, <3>1, MarfsCalls
  <2>4. ASSUME NEW name, marfs_fsetxattr(np[1], np[2], name) \/ marfs_fremovexattr(np[1], np[2], name)
        PROVE  MetaInv'
    BY <2>2, <2>4, MarfsCalls
  <2> QED BY <2>1, <2>2, <2>3, <2>4, MarfsCalls
<1>4. CASE Administration
  <2>1. CASE \E cf \in Configs : Reconfigure(cf)
    BY <2>1, NothingMoves DEF Reconfigure
  <2>2. CASE \E n \in Namespaces : posixmdal_createnamespace(n)
    BY <2>2, NothingMoves DEF posixmdal_createnamespace
  <2> QED BY <1>4, <2>1, <2>2, DestroyStep DEF Administration
<1>5. CASE Rman
  <2>1. CASE \E n \in Namespaces : posixmdal_setinodeusage(n)
    BY <2>1, NothingMoves DEF posixmdal_setinodeusage
  <2> QED BY <1>5, <2>1, MarkStep, RebuildStep, AgeStep, ScanStep, DeleteRefStep, DirectoryStep DEF Rman
<1> QED BY <1>1, <1>2, <1>3, <1>4, <1>5 DEF MetaNext

\* stat takes the reference off the links of a file, and nothing else is among them.
LEMMA StatIsRight == MetaInv => StatCountsPaths
<1> SUFFICES ASSUME MetaInv, NEW n \in Namespaces, NEW p \in PathsIn[n],
                    ent[n][p] \in Files, ~ref[ent[n][p]].marker
             PROVE  marfs_stat(n, p) = Cardinality(PathsOf(ent[n][p]))
  BY DEF StatCountsPaths, IsFile
<1> DEFINE f == ent[n][p]  k == Cardinality(PathsOf(f))
<1>1. ref[f].tree # NoSpace
  BY RefTreeIsNamespace DEF MetaInv, FilesAreWhole, IsFile
<1>2. k \in Nat /\ IsFiniteSet(PathsOf(f))
  BY PathsFinite
<1>3. PathsOf(f) # {}
  BY NoPaths DEF Pathless
<1>4. k # 0
  BY <1>2, <1>3, FS_EmptySet
<1>5. Nlink(f) = k + 1 + 0
  BY <1>1 DEF Nlink
<1>6. marfs_stat(n, p) = IF Nlink(f) > 1 THEN Nlink(f) - 1 ELSE Nlink(f)
  BY DEF marfs_stat
<1> HIDE DEF f, k
<1>7. marfs_stat(n, p) = k
  BY <1>2, <1>4, <1>5, <1>6
<1> QED BY <1>7 DEF f, k

\* The references, creators and what rman has found are always as the invariant says, for any
\* namespaces, files, creators and number of calls (posix_mdal.c, marfs.c, resourceprocessing.c).
THEOREM MetadataInvariant == MetaSpec => []MetaInv
BY MetaInitInv, MetaStep, PTL DEF MetaSpec

\* Whatever creators, users, rman and the administrator do in between, a path that leads to a
\* file leads to one with its tag and its reference, and stat tells how many paths there are
\* (create_new_file, linkfile, posixmdal_linkref, posixmdal_unlinkref, marfs_stat).
THEOREM FilesSound == MetaSpec => []FilesAreSound
<1>1. MetaInv => FilesAreSound
  BY StatIsRight DEF MetaInv, FilesAreSound
<1> QED BY <1>1, MetadataInvariant, PTL
=============================================================================

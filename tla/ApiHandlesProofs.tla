---------------------------- MODULE ApiHandlesProofs ----------------------------
(***************************************************************************)
(* Proofs about ApiHandles, for any threads, users and handles, and any    *)
(* directory: descriptors and handles correspond, handles have holders,    *)
(* requests act as their callers and leave the daemon behind, writes land  *)
(* where the kernel asked, and listings are complete.  Every call of the   *)
(* API changes one handle, in one of a few ways (Kept, Freed, Made), and   *)
(* what makes the rest hold is who may be about a handle at a time         *)
(* (Place): none but its thread, or any number of readers.                 *)
(***************************************************************************)
EXTENDS ApiHandles, FiniteSetTheorems, TLAPS

-----------------------------------------------------------------------------
(* The invariant *)

People == Users \cup {Daemon}
CredSet == [euid : People, suid : People, egid : People, sgid : People, groups : People \cup {NoOne}]
OpenAts == {"create", "read", "edit", "xopen", "topen"}
OwnAts == {"xattr", "xrelease", "truncate", "tclose", "close"}
WriteAts == {"seek", "write", "ftruncate"}
ListAts == {"opendir", "list", "closedir"}
PlainAts == {"idle", "path", "readlink"} \cup ListAts
Ats == OpenAts \cup OwnAts \cup WriteAts \cup PlainAts \cup {"fetch"}
ThreadSet == [at : Ats, cred : CredSet,
              user : People \cup {NoOne}, h : Handles \cup {NoOne}, saved : People \cup {NoOne}, off : Offsets]
Streams == {"none", "create", "read", "edit"}
HandleSet == [live : BOOLEAN, ds : Streams, meta : Fds \cup {0}, async : BOOLEAN, locked : BOOLEAN,
              off : Offsets, mode : Streams \cup {"async"},
              holder : Threads \cup {"kernel", "client", "dropped", NoOne}]

Typed ==
  /\ thr \in [Threads -> ThreadSet]
  /\ fh \in [Handles -> HandleSet]
  /\ fdown \in [Fds -> Handles \cup {NoOne}]
  /\ \A h \in Handles : (~fh[h].live => fh[h] = Free) /\ fh[h].ds \in {"none", fh[h].mode}

\* A descriptor is known to the handle it was opened for, whatever has struck.
Known == \A f \in Fds, h \in Handles : fdown[f] = h => fh[h].meta = f
Matched == "read" \notin defects => \A f \in Fds, h \in Handles : fh[h].meta = f => fdown[f] = h

\* Nobody but t is about the handle.
Alone(t, h) == \A s \in Threads : thr[s].h = h => s = t
\* What a thread at work knows of its handle.
Place(t) ==
  /\ thr[t].at \in OpenAts => thr[t].h \in Handles /\ IsNew(thr[t].h) /\ Alone(t, thr[t].h)
  /\ thr[t].at \in OwnAts =>
       thr[t].h \in Handles /\ fh[thr[t].h].live /\ fh[thr[t].h].holder = t /\ Alone(t, thr[t].h)
  /\ thr[t].at \in WriteAts =>
       thr[t].h \in Handles /\ KernelHas(thr[t].h) /\ fh[thr[t].h].mode \in {"create", "edit"} /\ Alone(t, thr[t].h)
  /\ thr[t].at = "fetch" => thr[t].h \in Handles /\ KernelHas(thr[t].h) /\ fh[thr[t].h].mode = "read"
  /\ thr[t].at \in PlainAts => thr[t].h = NoOne
  /\ thr[t].at = "write" /\ fh[thr[t].h].ds # "none" => fh[thr[t].h].off = thr[t].off
Places == \A t \in Threads : Place(t)

\* Credentials: those of the caller while there is one; the saved ids are the daemon's as long
\* as no thread has failed to get back.
Caller(t) == ~Idle(t) => thr[t].cred.euid = thr[t].user /\ thr[t].cred.egid = thr[t].user
Returns(t) ==
  /\ Idle(t) => thr[t].cred = DaemonCred
  /\ ~Idle(t) => thr[t].cred.suid = Daemon /\ thr[t].cred.sgid = Daemon /\ thr[t].saved = Daemon
Identities ==
  /\ \A t \in Threads : Caller(t)
  /\ "readlink" \notin defects => \A t \in Threads : Returns(t)

FilesInv == Typed /\ Known /\ Matched /\ Places /\ Identities /\ HandlesHaveHolders

\* The offsets of the names a listing is to give, and the name at an offset.
SubOffs == IF HasSub THEN {i \in DOMAIN Subspaces : Subspaces[i]} ELSE {}
Shift == IF HasSub THEN Mask ELSE 0
EntOffs == {Shift + j : j \in Expected.ent}
Offs == SubOffs \cup EntOffs
NameAt(o) == IF o \in SubOffs THEN <<"subspace", o>> ELSE <<"entry", o - Shift>>
Given == [name : {"subspace", "entry"} \X Nat, off : Nat]
DirSet == [open : BOOLEAN, loc : Nat, pos : Nat, got : Seq(Given), answer : 0 .. BufSize, ended : BOOLEAN]

\* Before the directory of the MDAL the place in it is its beginning.
AtStart(d) == HasSub /\ ~InMdal(d.loc) => d.pos = 0
\* The names that were given: in order, each its own, and none left out in between.
LastOff(got) == IF got = <<>> THEN 0 ELSE got[Len(got)].off
InOrder(got) == \A i, j \in 1 .. Len(got) : i < j => got[i].off < got[j].off
OwnNames(got) == \A i \in 1 .. Len(got) : got[i].off \in Offs /\ got[i].name = NameAt(got[i].off)
NoneLeftOut(got) == \A o \in Offs : o <= LastOff(got) => \E i \in 1 .. Len(got) : got[i].off = o
Right(got) == InOrder(got) /\ OwnNames(got) /\ NoneLeftOut(got)

OneLists == \A s, t \in Threads : thr[s].at \in ListAts /\ thr[t].at \in ListAts => s = t
InPlace == (\E t \in Threads : thr[t].at = "list") => marfs_telldir(dh) = LastOff(dh.got)
AllGiven == dh.ended => \A o \in Offs : o <= LastOff(dh.got)
ListInv == dh \in DirSet /\ OneLists /\ AtStart(dh) /\ InPlace /\ Right(dh.got) /\ AllGiven
ApiInv == FilesInv /\ ListInv

-----------------------------------------------------------------------------
(* Least elements and descriptors *)

Before == {ss \in Nat \X Nat : ss[1] < ss[2]}
\* the order of the natural numbers, as a relation
LEMMA BeforeWellFounded == IsWellFoundedOn(Before, Nat)
BY NatLessThanWellFounded DEF OpToRel, Before

\* a set of natural numbers has a least element
LEMMA HasLeast ==
  ASSUME NEW S \in SUBSET Nat, S # {}
  PROVE  \E x \in S : \A y \in S : x <= y
<1>1. PICK x \in S : \A y \in S : ~ (<<y, x>> \in Before)
  BY BeforeWellFounded, WFMin
<1>2. \A y \in S : x <= y
  <2> TAKE y \in S
  <2>1. <<y, x>> \in Nat \X Nat
    OBVIOUS
  <2>2. ~ (<<y, x>>[1] < <<y, x>>[2])
    BY <1>1, <2>1 DEF Before
  <2> QED BY <2>2
<1> QED BY <1>2

\* Least finds it
LEMMA LeastIsLeast ==
  ASSUME NEW S \in SUBSET Nat, S # {}
  PROVE  Least(S) \in S /\ \A y \in S : Least(S) <= y
BY HasLeast DEF Least

\* the handles, and the descriptors, of which there is one more
LEMMA SizesOfHandles ==
  /\ NoOne \notin Handles /\ IsFiniteSet(Handles) /\ Cardinality(Handles) \in Nat
  /\ Fds \subseteq Nat /\ 0 \notin Fds /\ IsFiniteSet(Fds) /\ Cardinality(Handles) < Cardinality(Fds)
  /\ \A f \in Fds : 1 .. f - 1 \subseteq Fds
<1>1. NoOne \notin Handles /\ IsFiniteSet(Handles) /\ Cardinality(Handles) \in Nat
  BY HolderAssumption, FS_CardinalityType DEF NoOne
<1> DEFINE n == Cardinality(Handles) + 1
<1>2. n \in Int /\ 1 \in Int /\ ~(1 > n)
  BY <1>1
<1> HIDE DEF n
<1>3. IsFiniteSet(1 .. n) /\ Cardinality(1 .. n) = n - 1 + 1
  BY <1>2, FS_Interval
<1> QED BY <1>1, <1>2, <1>3 DEF n, Fds

\* as long as no handle has two descriptors there is one to give out
LEMMA FreshIsFree ==
  ASSUME NEW own \in [Fds -> Handles \cup {NoOne}],
         \A f, g \in Fds : own[f] = own[g] /\ own[f] # NoOne => f = g
  PROVE  FreshFd(own) \in Fds /\ own[FreshFd(own)] = NoOne
<1> DEFINE F == {f \in Fds : own[f] = NoOne}
<1>1. ASSUME F = {} PROVE FALSE
  <2>1. own \in [Fds -> Handles]
    BY <1>1
  <2>2. own \in Injection(Fds, Handles)
    BY <2>1, SizesOfHandles DEF Injection, IsInjective
  <2>3. Cardinality(Fds) <= Cardinality(Handles)
    BY <2>2, SizesOfHandles, FS_Injection
  <2>4. Cardinality(Fds) \in Nat
    BY SizesOfHandles, FS_CardinalityType
  <2> QED BY <2>3, <2>4, SizesOfHandles
<1>2. F \in SUBSET Nat
  BY SizesOfHandles
<1>3. PICK f \in F : \A g \in F : f <= g
  BY <1>1, <1>2, HasLeast
<1>4. \A g \in 1 .. f - 1 : g \in Fds /\ g \notin F
  <2> TAKE g \in 1 .. f - 1
  <2>1. g \in Fds
    BY SizesOfHandles
  <2>2. ~(f <= g)
    BY <1>2
  <2> QED BY <1>3, <2>1, <2>2
<1> QED BY <1>3, <1>4 DEF FreshFd

\* What a step may do to the descriptor of handle h: nothing, close it, give it up for another,
\* or, in marfs_read(), close it and keep it.
Moves(h) ==
  \/ fh'[h].meta = fh[h].meta /\ fdown' = fdown
  \/ fh'[h].meta = 0 /\ fdown' = posixmdal_close(fdown, fh[h].meta)
  \/ /\ fh'[h].meta = FreshFd(posixmdal_close(fdown, fh[h].meta))
     /\ fdown' = Opened(posixmdal_close(fdown, fh[h].meta), h)
  \/ /\ fh'[h].meta = fh[h].meta /\ fdown' = posixmdal_close(fdown, fh[h].meta) /\ "read" \in defects'

\* descriptors after that of a handle was closed
LEMMA ClosedOwn ==
  ASSUME Typed, Known, NEW h \in Handles,
         NEW own, own = posixmdal_close(fdown, fh[h].meta)
  PROVE  /\ own \in [Fds -> Handles \cup {NoOne}]
         /\ \A f \in Fds : own[f] = IF f = fh[h].meta THEN NoOne ELSE fdown[f]
         /\ \A f \in Fds : own[f] # h
         /\ FreshFd(own) \in Fds /\ own[FreshFd(own)] = NoOne
<1>1. fh[h].meta \in Fds \cup {0} /\ fdown \in [Fds -> Handles \cup {NoOne}]
  BY DEF Typed, HandleSet
<1>2. /\ own \in [Fds -> Handles \cup {NoOne}]
      /\ \A f \in Fds : own[f] = IF f = fh[h].meta THEN NoOne ELSE fdown[f]
  BY <1>1, SizesOfHandles DEF posixmdal_close
<1>3. \A f \in Fds : own[f] # h
  BY <1>2, SizesOfHandles DEF Known
<1>4. ASSUME NEW f \in Fds, NEW g \in Fds, own[f] = own[g], own[f] # NoOne PROVE f = g
  <2>1. own[f] \in Handles /\ fdown[f] = own[f] /\ fdown[g] = own[f]
    BY <1>2, <1>4
  <2> QED BY <2>1 DEF Known
<1> QED BY <1>2, <1>3, <1>4, FreshIsFree

\* the books are kept by all of these
LEMMA DescriptorsStep ==
  ASSUME Typed, Known, Matched, NEW h \in Handles, Moves(h),
         \A k \in Handles : k # h => fh'[k].meta = fh[k].meta,
         defects \subseteq defects'
  PROVE  fdown' \in [Fds -> Handles \cup {NoOne}] /\ fh'[h].meta \in Fds \cup {0} /\ Known' /\ Matched'
<1> DEFINE own == posixmdal_close(fdown, fh[h].meta)
<1>1. /\ own \in [Fds -> Handles \cup {NoOne}]
      /\ \A f \in Fds : own[f] = IF f = fh[h].meta THEN NoOne ELSE fdown[f]
      /\ \A f \in Fds : own[f] # h
      /\ FreshFd(own) \in Fds /\ own[FreshFd(own)] = NoOne
  BY ClosedOwn
<1>2. fh[h].meta \in Fds \cup {0} /\ fdown \in [Fds -> Handles \cup {NoOne}]
  BY DEF Typed, HandleSet
<1>3. CASE fh'[h].meta = fh[h].meta /\ fdown' = fdown
  BY <1>2, <1>3 DEF Known, Matched
<1>4. CASE fh'[h].meta = 0 /\ fdown' = own
  <2>1. fdown' \in [Fds -> Handles \cup {NoOne}] /\ fh'[h].meta \in Fds \cup {0}
    BY <1>1, <1>4
  <2>2. Known'
    BY <1>1, <1>4, SizesOfHandles DEF Known
  <2>3. ASSUME "read" \notin defects', NEW f \in Fds, NEW k \in Handles, fh'[k].meta = f PROVE fdown'[f] = k
    <3>1. k # h /\ fh[k].meta = f /\ "read" \notin defects
      BY <1>4, <2>3, SizesOfHandles
    <3>2. fdown[f] = k
      BY <3>1 DEF Matched
    <3>3. f # fh[h].meta
      BY <3>1, <3>2 DEF Matched
    <3> QED BY <1>1, <1>4, <3>2, <3>3
  <2> QED BY <2>1, <2>2, <2>3 DEF Matched
<1>5. CASE fh'[h].meta = FreshFd(own) /\ fdown' = Opened(own, h)
  <2>1. fdown' = [own EXCEPT ![FreshFd(own)] = h]
    BY <1>5 DEF Opened
  <2>2. fdown' \in [Fds -> Handles \cup {NoOne}] /\ fh'[h].meta \in Fds \cup {0}
    BY <1>1, <1>5, <2>1
  <2>3. \A f \in Fds : fdown'[f] = IF f = fh'[h].meta THEN h ELSE own[f]
    BY <1>1, <1>5, <2>1
  <2>4. Known'
    BY <1>1, <1>5, <2>3, SizesOfHandles DEF Known
  <2>5. ASSUME "read" \notin defects', NEW f \in Fds, NEW k \in Handles, fh'[k].meta = f PROVE fdown'[f] = k
    <3>1. CASE k = h
      BY <2>3, <2>5, <3>1
    <3>2. CASE k # h
      <4>1. fh[k].meta = f /\ "read" \notin defects
        BY <2>5, <3>2
      <4>2. fdown[f] = k
        BY <4>1 DEF Matched
      <4>3. f # fh[h].meta
        BY <3>2, <4>1, <4>2 DEF Matched
      <4>4. own[f] = k
        BY <1>1, <4>2, <4>3
      <4>5. f # FreshFd(own)
        BY <1>1, <4>4, SizesOfHandles
      <4> QED BY <1>5, <2>3, <4>4, <4>5
    <3> QED BY <3>1, <3>2
  <2> QED BY <2>2, <2>4, <2>5 DEF Matched
<1>6. CASE fh'[h].meta = fh[h].meta /\ fdown' = own /\ "read" \in defects'
  <2>1. fdown' \in [Fds -> Handles \cup {NoOne}] /\ fh'[h].meta \in Fds \cup {0}
    BY <1>1, <1>2, <1>6
  <2>2. Known'
    BY <1>1, <1>6, SizesOfHandles DEF Known
  <2> QED BY <1>6, <2>1, <2>2 DEF Matched
<1> HIDE DEF own
<1> QED BY <1>3, <1>4, <1>5, <1>6 DEF Moves, own

-----------------------------------------------------------------------------
(* What the calls of the API do to a handle *)

Holders == Threads \cup {"kernel", "client"}
\* a change of handle h alone
Changes(h) ==
  /\ fh' \in [Handles -> HandleSet] /\ \A k \in Handles : k # h => fh'[k] = fh[k]
  /\ (~fh'[h].live => fh'[h] = Free) /\ fh'[h].ds \in {"none", fh'[h].mode}
  /\ Moves(h)
  /\ defects' \in {defects, defects \cup {"read"}}
\* it stays what it was, but for its stream and descriptor; it is given up; it is opened
Kept(h) ==
  /\ Changes(h) /\ fh'[h].live /\ fh'[h].holder = fh[h].holder /\ fh'[h].mode = fh[h].mode
  /\ fh'[h].ds \in {fh[h].ds, "none"}
Freed(h) == Changes(h) /\ fh'[h] = Free
Made(h, who) ==
  /\ Changes(h) /\ fh'[h].live
  /\ fh'[h].holder = IF IsNew(h) THEN who ELSE fh[h].holder

\* the record of a handle
LEMMA HandleFields ==
  /\ Free \in HandleSet /\ ~Free.live /\ Free.meta = 0 /\ Free.ds = "none" /\ Free.mode = "none" /\ Free.holder = NoOne
  /\ \A who \in Holders :
       /\ new_marfs_fhandle(who) \in HandleSet /\ new_marfs_fhandle(who).live
       /\ new_marfs_fhandle(who).holder = who /\ new_marfs_fhandle(who).meta = 0
       /\ new_marfs_fhandle(who).ds = "none"
  /\ \A r \in HandleSet : \A x : x = Lost(r) =>
       x \in HandleSet /\ x.live = r.live /\ x.meta = 0 /\ x.ds = "none" /\ x.holder = r.holder /\ x.mode = r.mode
  /\ \A r \in HandleSet : \A off \in Offsets : \A x : x = [r EXCEPT !.off = off] =>
       /\ x \in HandleSet /\ x.live = r.live /\ x.meta = r.meta /\ x.ds = r.ds /\ x.holder = r.holder /\ x.mode = r.mode
       /\ x.off = off
  /\ \A r \in HandleSet : \A x : x = [r EXCEPT !.ds = "none"] =>
       x \in HandleSet /\ x.live = r.live /\ x.meta = r.meta /\ x.ds = "none" /\ x.holder = r.holder /\ x.mode = r.mode
  /\ \A r \in HandleSet : \A x : x = [r EXCEPT !.meta = 0] =>
       x \in HandleSet /\ x.live = r.live /\ x.meta = 0 /\ x.ds = r.ds /\ x.holder = r.holder /\ x.mode = r.mode
  /\ \A r \in HandleSet : \A x : x = [r EXCEPT !.locked = TRUE] =>
       x \in HandleSet /\ x.live = r.live /\ x.meta = r.meta /\ x.ds = r.ds /\ x.holder = r.holder /\ x.mode = r.mode
<1>1. 0 \in Offsets
  BY ApiAssumption DEF Offsets
<1>2. /\ Free \in HandleSet /\ ~Free.live /\ Free.meta = 0 /\ Free.ds = "none" /\ Free.mode = "none" /\ Free.holder = NoOne
  BY <1>1 DEF Free, HandleSet, Streams
<1>3. ASSUME NEW who \in Holders
      PROVE  /\ new_marfs_fhandle(who) \in HandleSet /\ new_marfs_fhandle(who).live
             /\ new_marfs_fhandle(who).holder = who /\ new_marfs_fhandle(who).meta = 0
             /\ new_marfs_fhandle(who).ds = "none"
  BY <1>1 DEF Free, HandleSet, Streams, Holders, new_marfs_fhandle
<1>4. \A r \in HandleSet : \A x : x = Lost(r) =>
       x \in HandleSet /\ x.live = r.live /\ x.meta = 0 /\ x.ds = "none" /\ x.holder = r.holder /\ x.mode = r.mode
  BY <1>1 DEF HandleSet, Lost, Streams
<1>5. \A r \in HandleSet : \A off \in Offsets : \A x : x = [r EXCEPT !.off = off] =>
       /\ x \in HandleSet /\ x.live = r.live /\ x.meta = r.meta /\ x.ds = r.ds /\ x.holder = r.holder /\ x.mode = r.mode
       /\ x.off = off
  BY DEF HandleSet
<1>6. \A r \in HandleSet : \A x : x = [r EXCEPT !.ds = "none"] =>
       x \in HandleSet /\ x.live = r.live /\ x.meta = r.meta /\ x.ds = "none" /\ x.holder = r.holder /\ x.mode = r.mode
  BY DEF HandleSet, Streams
<1>7. \A r \in HandleSet : \A x : x = [r EXCEPT !.meta = 0] =>
       x \in HandleSet /\ x.live = r.live /\ x.meta = 0 /\ x.ds = r.ds /\ x.holder = r.holder /\ x.mode = r.mode
  BY DEF HandleSet
<1>8. \A r \in HandleSet : \A x : x = [r EXCEPT !.locked = TRUE] =>
       x \in HandleSet /\ x.live = r.live /\ x.meta = r.meta /\ x.ds = r.ds /\ x.holder = r.holder /\ x.mode = r.mode
  BY DEF HandleSet
<1> QED BY <1>2, <1>3, <1>4, <1>5, <1>6, <1>7, <1>8

\* a handle as an open begins with it
LEMMA BaseFields ==
  ASSUME Typed, NEW h \in Handles, NEW who \in Holders
  PROVE  /\ Base(h, who) \in HandleSet /\ Base(h, who).live
         /\ Base(h, who).holder = IF IsNew(h) THEN who ELSE fh[h].holder
         /\ Base(h, who).ds \in {"none", Base(h, who).mode}
         /\ \/ Base(h, who).meta = fh[h].meta /\ BaseFds(h) = fdown
            \/ Base(h, who).meta = 0 /\ BaseFds(h) = posixmdal_close(fdown, fh[h].meta)
         /\ posixmdal_close(BaseFds(h), Base(h, who).meta) = posixmdal_close(fdown, fh[h].meta)
         /\ IsNew(h) => fh[h] = Free
<1>1. fh[h] \in HandleSet /\ (IsNew(h) => fh[h] = Free) /\ fh[h].ds \in {"none", fh[h].mode}
  BY DEF Typed, IsNew
<1>2. CASE IsNew(h)
  <2>1. Base(h, who) = new_marfs_fhandle(who) /\ BaseFds(h) = fdown /\ fh[h].meta = 0
    BY <1>1, <1>2, HandleFields DEF Base, BaseFds
  <2> QED BY <1>1, <1>2, <2>1, HandleFields
<1>3. CASE ~IsNew(h) /\ fh[h].ds = "none"
  <2> DEFINE x == [fh[h] EXCEPT !.meta = 0]
  <2>1. Base(h, who) = x /\ BaseFds(h) = posixmdal_close(fdown, fh[h].meta)
    BY <1>3 DEF Base, BaseFds
  <2>2. x \in HandleSet /\ x.live = fh[h].live /\ x.meta = 0 /\ x.ds = fh[h].ds /\ x.holder = fh[h].holder /\ x.mode = fh[h].mode
    BY <1>1, HandleFields
  <2> HIDE DEF x
  <2>3. posixmdal_close(BaseFds(h), 0) = BaseFds(h)
    BY DEF posixmdal_close
  <2> QED BY <1>1, <1>3, <2>1, <2>2, <2>3 DEF IsNew
<1>4. CASE ~IsNew(h) /\ fh[h].ds # "none"
  <2>1. Base(h, who) = fh[h] /\ BaseFds(h) = fdown
    BY <1>4 DEF Base, BaseFds
  <2> QED BY <1>1, <1>4, <2>1 DEF IsNew
<1> QED BY <1>2, <1>3, <1>4

\* a handle is given a record: that is a change of it, if the descriptors go with it
LEMMA PutChanges ==
  ASSUME Typed, NEW h \in Handles, NEW r \in HandleSet, fh' = [fh EXCEPT ![h] = r],
         ~r.live => r = Free, r.ds \in {"none", r.mode},
         Moves(h), defects' \in {defects, defects \cup {"read"}}
  PROVE  Changes(h) /\ fh'[h] = r
BY DEF Changes, Typed

\* the same of a handle that stays as it is
LEMMA SameChanges ==
  ASSUME Typed, NEW h \in Handles, UNCHANGED <<fh, fdown, defects>>
  PROVE  Changes(h) /\ fh'[h] = fh[h]
BY DEF Changes, Typed, Moves

\* marfs_creat() and marfs_open() fail: a new handle is freed
LEMMA UnopenedStep ==
  ASSUME Typed, NEW h \in Handles, NEW who \in Holders, UNCHANGED defects,
         Put(h, Unopened(h, who), BaseFds(h))
  PROVE  IF IsNew(h) THEN Freed(h) ELSE Made(h, who)
<1> DEFINE r == Unopened(h, who)
<1>1. r = IF IsNew(h) THEN Free ELSE Base(h, who)
  BY DEF Unopened
<1>2. r \in HandleSet /\ (~r.live => r = Free) /\ r.ds \in {"none", r.mode}
  BY <1>1, BaseFields, HandleFields
<1>3. fh' = [fh EXCEPT ![h] = r] /\ fdown' = BaseFds(h) /\ fh'[h] = r
  BY DEF Put, Typed
<1> HIDE DEF r
<1>4. IsNew(h) => r.meta = fh[h].meta /\ BaseFds(h) = fdown
  BY <1>1, BaseFields DEF BaseFds
<1>5. Moves(h)
  BY <1>1, <1>3, <1>4, BaseFields DEF Moves
<1>6. Changes(h)
  BY <1>2, <1>3, <1>5, PutChanges
<1> QED BY <1>1, <1>3, <1>6, BaseFields DEF Freed, Made

\* the same with the stream, and its descriptor, lost
LEMMA StreamGoneStep ==
  ASSUME Typed, NEW h \in Handles, NEW who \in Holders, UNCHANGED defects,
         Put(h, StreamGone(h, who), posixmdal_close(BaseFds(h), Base(h, who).meta))
  PROVE  IF IsNew(h) THEN Freed(h) ELSE Made(h, who)
<1> DEFINE r == StreamGone(h, who)
           b == Base(h, who)
           l == Lost(b)
<1>1. r = IF IsNew(h) THEN Free ELSE l
  BY DEF StreamGone
<1>2. l \in HandleSet /\ l.live = b.live /\ l.meta = 0 /\ l.ds = "none" /\ l.holder = b.holder /\ l.mode = b.mode
  BY BaseFields, HandleFields
<1>3. fh' = [fh EXCEPT ![h] = r] /\ fdown' = posixmdal_close(fdown, fh[h].meta) /\ fh'[h] = r
  BY BaseFields DEF Put, Typed
<1>4. b.live /\ b.holder = IF IsNew(h) THEN who ELSE fh[h].holder
  BY BaseFields
<1> HIDE DEF r, b, l
<1>5. r \in HandleSet /\ (~r.live => r = Free) /\ r.ds \in {"none", r.mode} /\ r.meta = 0
  BY <1>1, <1>2, <1>4, HandleFields
<1>6. Moves(h)
  BY <1>3, <1>5 DEF Moves
<1>7. Changes(h)
  BY <1>3, <1>5, <1>6, PutChanges
<1> QED BY <1>1, <1>2, <1>3, <1>4, <1>7 DEF Freed, Made

\* a file is opened on the descriptor that is free when that of the handle has been closed
LEMMA OpenedStep ==
  ASSUME Typed, Known, NEW h \in Handles, NEW who \in Holders, UNCHANGED defects,
         NEW r \in HandleSet, r.live, r.holder = Base(h, who).holder, r.ds \in {"none", r.mode},
         r.meta = FreshFd(posixmdal_close(BaseFds(h), Base(h, who).meta)),
         Put(h, r, Opened(posixmdal_close(BaseFds(h), Base(h, who).meta), h))
  PROVE  Made(h, who)
<1>1. fh' = [fh EXCEPT ![h] = r] /\ fh'[h] = r
  BY DEF Put, Typed
<1>2. /\ r.meta = FreshFd(posixmdal_close(fdown, fh[h].meta))
      /\ fdown' = Opened(posixmdal_close(fdown, fh[h].meta), h)
  BY BaseFields DEF Put
<1>3. Moves(h)
  BY <1>1, <1>2 DEF Moves
<1>4. Changes(h)
  BY <1>1, <1>3, PutChanges
<1> QED BY <1>1, <1>4, BaseFields DEF Made

\* a stream begins at its beginning
LEMMA ZeroOffset == 0 \in Offsets
BY ApiAssumption DEF Offsets

\* the descriptor that is free when that of the handle has been closed
LEMMA FreshDescriptor ==
  ASSUME Typed, Known, NEW h \in Handles, NEW who \in Holders
  PROVE  FreshFd(posixmdal_close(BaseFds(h), Base(h, who).meta)) \in Fds
BY ClosedOwn, BaseFields

\* a stream of the handle is made or opened
LEMMA OnStreamStep ==
  ASSUME Typed, Known, NEW h \in Handles, NEW who \in Holders, UNCHANGED defects,
         NEW type \in {"create", "read", "edit"},
         Put(h, OnStream(h, who, type), Opened(posixmdal_close(BaseFds(h), Base(h, who).meta), h))
  PROVE  Made(h, who)
<1> DEFINE b == Base(h, who)
           fd == FreshFd(posixmdal_close(BaseFds(h), b.meta))
           r == OnStream(h, who, type)
<1>1. fd \in Fds /\ b \in HandleSet /\ b.live
  BY FreshDescriptor, BaseFields
<1>2. r = [b EXCEPT !.ds = type, !.async = FALSE, !.off = 0, !.mode = type, !.meta = fd]
  BY DEF OnStream
<1>3. r.meta = fd
  BY <1>2, <1>1 DEF HandleSet
<1>4. r \in HandleSet /\ r.live /\ r.holder = b.holder /\ r.mode = type /\ r.ds = type
  <2> HIDE DEF b, fd, r
  <2> QED BY <1>1, <1>2, ZeroOffset DEF HandleSet, Streams
<1> HIDE DEF r
<1>5. Put(h, r, Opened(posixmdal_close(BaseFds(h), Base(h, who).meta), h))
  BY DEF r
<1> QED BY <1>3, <1>4, <1>5, OpenedStep

\* marfs_creat()
LEMMA CreatStep ==
  ASSUME Typed, Known, NEW h \in Handles, NEW who \in Holders, marfs_creat(h, who)
  PROVE  /\ IsNew(h) => Made(h, who) \/ Freed(h)
         /\ ~IsNew(h) => Made(h, who)
<1> USE DEF marfs_creat
<1>1. CASE Defunct(h)
  <2>1. UNCHANGED <<fh, fdown, defects>>
    BY <1>1
  <2> QED BY <1>1, <2>1, SameChanges DEF Defunct, IsNew, Made
<1>2. CASE ~Defunct(h) /\ CreatNoRef(h, who)
  <2> DEFINE b == Base(h, who)
             x == [b EXCEPT !.locked = TRUE]
             r == IF IsNew(h) THEN Free ELSE x
  <2>1. b \in HandleSet /\ b.live /\ b.ds \in {"none", b.mode} /\ b.holder = IF IsNew(h) THEN who ELSE fh[h].holder
    BY BaseFields
  <2>2. x \in HandleSet /\ x.live = b.live /\ x.meta = b.meta /\ x.ds = b.ds /\ x.holder = b.holder /\ x.mode = b.mode
    <3> HIDE DEF b
    <3> QED BY <2>1, HandleFields
  <2>3. fh' = [fh EXCEPT ![h] = r] /\ fdown' = BaseFds(h) /\ UNCHANGED defects
    BY <1>2 DEF CreatNoRef, Put
  <2>4. fh'[h] = r
    BY <2>3 DEF Typed
  <2>5. IsNew(h) => BaseFds(h) = fdown /\ fh[h].meta = 0
    BY BaseFields, HandleFields DEF BaseFds
  <2>6. \/ b.meta = fh[h].meta /\ BaseFds(h) = fdown
        \/ b.meta = 0 /\ BaseFds(h) = posixmdal_close(fdown, fh[h].meta)
    BY BaseFields
  <2> HIDE DEF b, x
  <2>7. r \in HandleSet /\ (~r.live => r = Free) /\ r.ds \in {"none", r.mode}
    BY <2>1, <2>2, HandleFields
  <2>8. Moves(h)
    BY <2>2, <2>3, <2>4, <2>5, <2>6, HandleFields DEF Moves
  <2> HIDE DEF r
  <2>9. Changes(h)
    BY <2>3, <2>7, <2>8, PutChanges
  <2> QED BY <2>1, <2>2, <2>4, <2>9 DEF Made, Freed, r
<1>3. CASE ~Defunct(h) /\ ~CreatNoRef(h, who)
  <2>1. PICK res \in datastream_create(Base(h, who)) :
          /\ CASE res = "ok" -> Put(h, OnStream(h, who, "create"),
                                    Opened(posixmdal_close(BaseFds(h), Base(h, who).meta), h))
               [] res = "kept" -> Put(h, Unopened(h, who), BaseFds(h))
               [] res = "lost" -> Put(h, StreamGone(h, who), posixmdal_close(BaseFds(h), Base(h, who).meta))
          /\ UNCHANGED defects
    BY <1>3
  <2>2. res \in {"ok", "kept", "lost"}
    BY <2>1 DEF datastream_create
  <2>3. CASE res = "ok"
    <3>1. Put(h, OnStream(h, who, "create"), Opened(posixmdal_close(BaseFds(h), Base(h, who).meta), h))
      BY <2>1, <2>3
    <3> QED BY <2>1, <3>1, OnStreamStep
  <2>4. CASE res = "kept"
    <3>1. Put(h, Unopened(h, who), BaseFds(h))
      BY <2>1, <2>4
    <3> QED BY <2>1, <3>1, UnopenedStep
  <2>5. CASE res = "lost"
    <3>1. Put(h, StreamGone(h, who), posixmdal_close(BaseFds(h), Base(h, who).meta))
      BY <2>1, <2>5
    <3> QED BY <2>1, <3>1, StreamGoneStep
  <2> QED BY <2>2, <2>3, <2>4, <2>5
<1> QED BY <1>1, <1>2, <1>3

\* marfs_open(); with success a new handle is live, without it it is free
LEMMA OpenStep ==
  ASSUME Typed, Known, NEW h \in Handles, NEW who \in Holders,
         NEW type \in {"read", "edit", "async"}, NEW ok \in BOOLEAN, marfs_open(h, who, type, ok)
  PROVE  /\ IsNew(h) => IF ok THEN Made(h, who) ELSE Freed(h)
         /\ ~IsNew(h) => Made(h, who)
<1> DEFINE b == Base(h, who)
           own == posixmdal_close(BaseFds(h), b.meta)
           fd == FreshFd(own)
<1>1. fd \in Fds /\ b \in HandleSet /\ b.live
  BY FreshDescriptor, BaseFields
<1>2. CASE Defunct(h)
  <2>1. UNCHANGED <<fh, fdown, defects>>
    BY <1>2 DEF marfs_open
  <2> QED BY <1>2, <2>1, SameChanges DEF Defunct, IsNew, Made
<1>3. CASE ~Defunct(h) /\ type = "async"
  <2>1. OpenAsync(h, who, ok)
    BY <1>3 DEF marfs_open
  <2>2. CASE ok
    <3> DEFINE r == [b EXCEPT !.ds = "none", !.async = TRUE, !.meta = fd, !.mode = "async"]
    <3>1. r \in HandleSet /\ r.live = b.live /\ r.meta = fd /\ r.holder = b.holder /\ r.ds = "none"
      <4> HIDE DEF b, fd, r
      <4>1. r = [b EXCEPT !.ds = "none", !.async = TRUE, !.meta = fd, !.mode = "async"]
        BY DEF r
      <4> QED BY <1>1, <4>1 DEF HandleSet, Streams
    <3>2. Put(h, r, Opened(own, h)) /\ UNCHANGED defects
      BY <2>1, <2>2 DEF OpenAsync
    <3> HIDE DEF r
    <3> QED BY <1>1, <2>2, <3>1, <3>2, OpenedStep
  <2>3. CASE ~ok
    <3>1. Put(h, StreamGone(h, who), own) /\ UNCHANGED defects
      BY <2>1, <2>3 DEF OpenAsync
    <3> QED BY <2>3, <3>1, StreamGoneStep
  <2> QED BY <2>2, <2>3
<1>4. CASE ~Defunct(h) /\ type # "async"
  <2>1. OpenStream(h, who, type, ok)
    BY <1>4 DEF marfs_open
  <2>2. PICK res \in datastream_open(b, type) :
          /\ ok <=> res \in {"ok", "direct"}
          /\ CASE res = "ok" -> Put(h, OnStream(h, who, type), Opened(own, h))
               [] res = "direct" -> Put(h, [OnStream(h, who, type) EXCEPT !.ds = "none", !.async = TRUE], Opened(own, h))
               [] res = "kept" -> Put(h, Unopened(h, who), BaseFds(h))
               [] res = "lost" -> Put(h, StreamGone(h, who), own)
    BY <2>1 DEF OpenStream
  <2>3. UNCHANGED defects
    BY <2>1 DEF OpenStream
  <2>4. res \in {"ok", "direct", "kept", "lost"}
    BY <2>2 DEF datastream_open
  <2>5. CASE res = "ok"
    <3>1. Put(h, OnStream(h, who, type), Opened(own, h)) /\ ok
      BY <2>2, <2>5
    <3> QED BY <1>4, <2>3, <3>1, OnStreamStep
  <2>6. CASE res = "direct"
    <3> DEFINE o == OnStream(h, who, type)
               r == [o EXCEPT !.ds = "none", !.async = TRUE]
    <3>1. Put(h, r, Opened(own, h)) /\ ok
      BY <2>2, <2>6
    <3>2. o = [b EXCEPT !.ds = type, !.async = FALSE, !.off = 0, !.mode = type, !.meta = fd]
      BY DEF OnStream
    <3>3. o \in HandleSet /\ o.live = b.live /\ o.holder = b.holder /\ o.meta = fd
      <4> HIDE DEF b, fd, o
      <4>1. type \in {"create", "read", "edit"}
        BY <1>4
      <4> QED BY <1>1, <3>2, <4>1, ZeroOffset DEF HandleSet, Streams
    <3>4. r \in HandleSet /\ r.live = o.live /\ r.meta = o.meta /\ r.holder = o.holder /\ r.ds = "none"
      <4> HIDE DEF o, r
      <4>1. r = [o EXCEPT !.ds = "none", !.async = TRUE]
        BY DEF r
      <4> QED BY <3>3, <4>1 DEF HandleSet, Streams
    <3> HIDE DEF o, r
    <3> QED BY <1>1, <2>3, <3>1, <3>3, <3>4, OpenedStep
  <2>7. CASE res = "kept"
    <3>1. Put(h, Unopened(h, who), BaseFds(h)) /\ ~ok
      BY <2>2, <2>7
    <3> QED BY <2>3, <3>1, UnopenedStep
  <2>8. CASE res = "lost"
    <3>1. Put(h, StreamGone(h, who), own) /\ ~ok
      BY <2>2, <2>8
    <3> QED BY <2>3, <3>1, StreamGoneStep
  <2> QED BY <2>4, <2>5, <2>6, <2>7, <2>8
<1> QED BY <1>2, <1>3, <1>4

\* marfs_close() and marfs_release()
LEMMA GoneStep ==
  ASSUME Typed, NEW h \in Handles, Gone(h)
  PROVE  Freed(h)
<1>1. fh' = [fh EXCEPT ![h] = Free] /\ fdown' = posixmdal_close(fdown, fh[h].meta) /\ fh'[h] = Free /\ UNCHANGED defects
  BY DEF Gone, Put, Typed
<1>2. Moves(h)
  BY <1>1, HandleFields DEF Moves
<1>3. Changes(h)
  BY <1>1, <1>2, HandleFields, PutChanges
<1> QED BY <1>1, <1>3 DEF Freed

\* the stream of a live handle is lost
LEMMA LostStep ==
  ASSUME Typed, NEW h \in Handles, fh[h].live, UNCHANGED defects,
         fh' = [fh EXCEPT ![h] = Lost(fh[h])], fdown' = posixmdal_close(fdown, fh[h].meta)
  PROVE  Kept(h)
<1> DEFINE r == Lost(fh[h])
<1>1. fh[h] \in HandleSet
  BY DEF Typed
<1>2. r \in HandleSet /\ r.live /\ r.meta = 0 /\ r.ds = "none" /\ r.holder = fh[h].holder /\ r.mode = fh[h].mode
  BY <1>1, HandleFields
<1>3. fh' = [fh EXCEPT ![h] = r] /\ fh'[h] = r
  BY DEF Typed
<1> HIDE DEF r
<1>4. Moves(h)
  BY <1>2, <1>3 DEF Moves
<1>5. Changes(h)
  BY <1>2, <1>3, <1>4, PutChanges
<1> QED BY <1>2, <1>3, <1>5 DEF Kept

\* nothing happens to a live handle
LEMMA SameStep ==
  ASSUME Typed, NEW h \in Handles, fh[h].live, UNCHANGED <<fh, fdown, defects>>
  PROVE  Kept(h)
BY SameChanges DEF Kept, Typed

\* its stream moves
LEMMA MovedTo ==
  ASSUME Typed, NEW h \in Handles, fh[h].live, UNCHANGED <<fdown, defects>>, NEW off \in Offsets,
         fh' = [fh EXCEPT ![h].off = off]
  PROVE  Kept(h) /\ fh'[h].off = off
<1> DEFINE r == [fh[h] EXCEPT !.off = off]
<1>1. fh[h] \in HandleSet /\ fh[h].ds \in {"none", fh[h].mode}
  BY DEF Typed
<1>2. /\ r \in HandleSet /\ r.live = fh[h].live /\ r.meta = fh[h].meta /\ r.ds = fh[h].ds /\ r.holder = fh[h].holder
      /\ r.mode = fh[h].mode /\ r.off = off
  BY <1>1 DEF HandleSet
<1>3. fh' = [fh EXCEPT ![h] = r] /\ fh'[h] = r
  BY DEF Typed
<1> HIDE DEF r
<1>4. Moves(h)
  BY <1>2, <1>3 DEF Moves
<1>5. Changes(h)
  BY <1>1, <1>2, <1>3, <1>4, PutChanges
<1> QED BY <1>2, <1>3, <1>5 DEF Kept

\* a call on a stream that may lose it, or move it
LEMMA AfterCallStep ==
  ASSUME Typed, NEW h \in Handles, fh[h].live, NEW res, AfterCall(h, res)
  PROVE  Kept(h)
<1>1. CASE res = "lost"
  <2>1. /\ fh' = [fh EXCEPT ![h] = Lost(@)] /\ fdown' = posixmdal_close(fdown, fh[h].meta)
        /\ UNCHANGED defects
    BY <1>1 DEF AfterCall
  <2> QED BY <2>1, LostStep
<1>2. CASE res # "lost"
  BY <1>2, SameStep DEF AfterCall
<1> QED BY <1>1, <1>2

\* the same for the calls that come to a place in the stream
LEMMA MovedStep ==
  ASSUME Typed, NEW h \in Handles, fh[h].live, NEW res, NEW to \in Offsets, Moved(h, res, to)
  PROVE  Kept(h) /\ (res = "ok" /\ fh[h].ds # "read" => fh'[h].off = to)
<1>1. CASE res = "ok" /\ fh[h].ds # "read"
  <2>1. fh' = [fh EXCEPT ![h].off = to] /\ UNCHANGED <<fdown, defects>>
    BY <1>1 DEF Moved
  <2> QED BY <1>1, <2>1, MovedTo
<1>2. CASE ~(res = "ok" /\ fh[h].ds # "read")
  <2>1. AfterCall(h, res)
    BY <1>2 DEF Moved
  <2> QED BY <1>2, <2>1, AfterCallStep
<1> QED BY <1>1, <1>2

\* marfs_read()
LEMMA ReadStep ==
  ASSUME Typed, NEW h \in Handles, marfs_read(h)
  PROVE  Kept(h)
<1>1. fh[h].live
  BY DEF marfs_read, Unlocked
<1>2. CASE UNCHANGED <<fh, fdown, defects>>
  BY <1>1, <1>2, SameStep
<1>3. CASE /\ Put(h, [fh[h] EXCEPT !.ds = "none"], posixmdal_close(fdown, fh[h].meta))
           /\ defects' = defects \cup {"read"}
  <2> DEFINE r == [fh[h] EXCEPT !.ds = "none"]
  <2>1. fh[h] \in HandleSet
    BY DEF Typed
  <2>2. r \in HandleSet /\ r.live = fh[h].live /\ r.meta = fh[h].meta /\ r.ds = "none" /\ r.holder = fh[h].holder /\ r.mode = fh[h].mode
    BY <2>1, HandleFields
  <2>3. fh' = [fh EXCEPT ![h] = r] /\ fh'[h] = r /\ fdown' = posixmdal_close(fdown, fh[h].meta)
    BY <1>3 DEF Put, Typed
  <2> HIDE DEF r
  <2>4. Moves(h)
    BY <1>3, <2>2, <2>3 DEF Moves
  <2>5. Changes(h)
    BY <1>1, <1>3, <2>2, <2>3, <2>4, PutChanges
  <2> QED BY <1>1, <2>2, <2>3, <2>5 DEF Kept
<1> QED BY <1>2, <1>3 DEF marfs_read

\* marfs_seek(); with success the stream of a writer is where it was sent
LEMMA SeekStep ==
  ASSUME Typed, NEW h \in Handles, NEW to \in Offsets, NEW ok \in BOOLEAN, marfs_seek(h, to, ok)
  PROVE  Kept(h) /\ (ok /\ fh[h].mode # "read" => fh'[h].off = to)
<1>1. fh[h].live /\ fh[h].ds \in {"none", fh[h].mode}
  BY DEF marfs_seek, Unlocked, Typed
<1>2. CASE fh[h].ds = "none"
  <2>1. ~ok /\ UNCHANGED <<fh, fdown, defects>>
    BY <1>2 DEF marfs_seek
  <2> QED BY <1>1, <2>1, SameStep
<1>3. ASSUME NEW res, ok = (res = "ok"), Moved(h, res, to), fh[h].ds # "none"
      PROVE  Kept(h) /\ (ok /\ fh[h].mode # "read" => fh'[h].off = to)
  BY <1>1, <1>3, MovedStep
<1>4. ASSUME ~ok, NEW short \in 0 .. to, fh' = [fh EXCEPT ![h].off = short], UNCHANGED <<fdown, defects>>
      PROVE  Kept(h) /\ (ok /\ fh[h].mode # "read" => fh'[h].off = to)
  <2>1. short \in Offsets
    BY ApiAssumption DEF Offsets
  <2> QED BY <1>1, <1>4, <2>1, MovedTo
<1>5. CASE fh[h].ds # "none"
  <2>1. \/ \E res \in datastream_seek(fh[h].ds) : ok = (res = "ok") /\ Moved(h, res, to)
        \/ ~ok /\ \E short \in 0 .. to : fh' = [fh EXCEPT ![h].off = short] /\ UNCHANGED <<fdown, defects>>
    BY <1>5 DEF marfs_seek
  <2> QED BY <1>3, <1>4, <1>5, <2>1
<1> QED BY <1>2, <1>5

\* the other calls on a live handle
LEMMA CallStep ==
  ASSUME Typed, NEW h \in Handles,
         \/ marfs_flush(h) \/ marfs_write(h) \/ marfs_read_at_offset(h) \/ marfs_extend(h)
         \/ marfs_chunkbounds(h) \/ marfs_setrecoverypath(h) \/ marfs_futimens(h)
         \/ \E ok \in BOOLEAN : marfs_ftruncate(h, ok)
  PROVE  fh[h].live /\ Kept(h)
<1>1. fh[h].live
  BY DEF Unlocked, marfs_flush, marfs_write, marfs_read_at_offset, marfs_extend, marfs_chunkbounds,
         marfs_setrecoverypath, marfs_futimens, marfs_ftruncate
<1>2. CASE UNCHANGED <<fh, fdown, defects>>
  BY <1>1, <1>2, SameStep
<1>3. CASE marfs_flush(h)
  BY <1>1, <1>3, LostStep DEF marfs_flush, Put
<1>4. CASE marfs_write(h)
  <2>1. ASSUME NEW res, Moved(h, res, IF fh[h].off < MaxOffset THEN fh[h].off + 1 ELSE MaxOffset) PROVE Kept(h)
    <3> DEFINE to == IF fh[h].off < MaxOffset THEN fh[h].off + 1 ELSE MaxOffset
    <3>1. fh[h].off \in Offsets
      BY DEF Typed, HandleSet
    <3>2. to \in Offsets
      BY <3>1, ApiAssumption DEF Offsets
    <3> HIDE DEF to
    <3>3. Moved(h, res, to)
      BY <2>1 DEF to
    <3> QED BY <1>1, <3>2, <3>3, MovedStep
  <2>2. CASE fh[h].ds # "none"
    <3>1. PICK res \in datastream_write(fh[h].ds) :
            Moved(h, res, IF fh[h].off < MaxOffset THEN fh[h].off + 1 ELSE MaxOffset)
      BY <1>4, <2>2 DEF marfs_write
    <3> QED BY <1>1, <2>1, <3>1
  <2> QED BY <1>1, <1>2, <1>4, <2>2 DEF marfs_write
<1>5. CASE marfs_read_at_offset(h)
  <2>1. ASSUME NEW res, AfterCall(h, res) PROVE Kept(h)
    BY <1>1, <2>1, AfterCallStep
  <2>2. CASE fh[h].ds # "none"
    <3>1. PICK sres \in datastream_seek(fh[h].ds), rres \in datastream_read(fh[h].ds) :
            AfterCall(h, IF sres = "ok" THEN rres ELSE sres)
      BY <1>5, <2>2 DEF marfs_read_at_offset
    <3> QED BY <1>1, <2>1, <3>1
  <2> QED BY <1>1, <1>2, <1>5, <2>2 DEF marfs_read_at_offset
<1>6. CASE marfs_extend(h)
  <2>1. ASSUME NEW res, AfterCall(h, res) PROVE Kept(h)
    BY <1>1, <2>1, AfterCallStep
  <2>2. CASE fh[h].ds # "none"
    <3>1. PICK res \in datastream_extend(fh[h].ds) : AfterCall(h, res)
      BY <1>6, <2>2 DEF marfs_extend
    <3> QED BY <1>1, <2>1, <3>1
  <2> QED BY <1>1, <1>2, <1>6, <2>2 DEF marfs_extend
<1>7. CASE marfs_chunkbounds(h) \/ marfs_setrecoverypath(h) \/ marfs_futimens(h)
           \/ \E ok \in BOOLEAN : marfs_ftruncate(h, ok)
  BY <1>2, <1>7 DEF marfs_chunkbounds, marfs_setrecoverypath, marfs_futimens, marfs_ftruncate
<1> QED BY <1>1, <1>3, <1>4, <1>5, <1>6, <1>7

-----------------------------------------------------------------------------
(* What the steps of a thread do to its credentials *)

\* A step of thread t alone, that acts as its caller and gets back to the daemon.
ThreadMoves(t) ==
  /\ thr' \in [Threads -> ThreadSet] /\ \A s \in Threads : s # t => thr'[s] = thr[s]
  /\ Caller(t)'
  /\ "readlink" \notin defects' => Returns(t)'

\* enter_user(): who gets through is the caller; the daemon gets through or stays the daemon
LEMMA EnterUserIsRight ==
  ASSUME NEW cred \in CredSet, NEW u \in People, NEW groups \in BOOLEAN, NEW res \in enter_user(cred, u, groups)
  PROVE  /\ res.cred \in CredSet /\ res.ok \in BOOLEAN
         /\ res.ok => res.cred.euid = u /\ res.cred.egid = u
         /\ cred = DaemonCred => IF res.ok THEN res.cred.suid = Daemon /\ res.cred.sgid = Daemon
                                 ELSE groups /\ res.cred = DaemonCred
<1> DEFINE c == IF groups THEN enter_groups(cred, u) ELSE cred
           gid == SetGid(c, u)
           part == [gid EXCEPT !.egid = c.egid]
           done == SetUid(gid, u)
<1>1. c \in CredSet /\ c.euid = cred.euid /\ c.suid = cred.suid /\ c.egid = cred.egid /\ c.sgid = cred.sgid
  BY DEF CredSet, enter_groups
<1>2. gid \in CredSet /\ gid.egid = u /\ gid.sgid = c.egid /\ gid.euid = c.euid /\ gid.suid = c.suid
  <2> HIDE DEF c
  <2> QED BY <1>1 DEF CredSet, SetGid
<1>3. part \in CredSet
  <2> HIDE DEF c, gid
  <2> QED BY <1>1, <1>2 DEF CredSet
<1>4. done \in CredSet /\ done.egid = u /\ done.sgid = c.egid /\ done.euid = u /\ done.suid = c.euid
  <2> HIDE DEF c, gid
  <2> QED BY <1>1, <1>2 DEF CredSet, SetUid
<1>5. \/ res = [cred |-> cred, ok |-> FALSE] /\ groups
      \/ res = [cred |-> c, ok |-> FALSE] /\ ~Privileged(c)
      \/ res = [cred |-> part, ok |-> FALSE] /\ ~Privileged(c)
      \/ res = [cred |-> done, ok |-> TRUE]
  BY DEF enter_user
<1>6. cred = DaemonCred => c.euid = Daemon /\ c.egid = Daemon /\ Privileged(c)
  <2> HIDE DEF c
  <2> QED BY <1>1 DEF DaemonCred, Privileged
<1> HIDE DEF c, gid, part, done
<1>7. CASE res = [cred |-> cred, ok |-> FALSE] /\ groups
  BY <1>7
<1>8. CASE res = [cred |-> c, ok |-> FALSE] /\ ~Privileged(c)
  BY <1>1, <1>6, <1>8
<1>9. CASE res = [cred |-> part, ok |-> FALSE] /\ ~Privileged(c)
  BY <1>3, <1>6, <1>9
<1>10. CASE res = [cred |-> done, ok |-> TRUE]
  BY <1>4, <1>6, <1>10
<1> QED BY <1>5, <1>7, <1>8, <1>9, <1>10

\* exit_user(): back to the daemon, if its ids were saved
LEMMA ExitUserIsRight ==
  ASSUME NEW cred \in CredSet, NEW saved \in People \cup {NoOne}
  PROVE  /\ exit_user(cred, saved) \in CredSet
         /\ cred.suid = Daemon /\ cred.sgid = Daemon /\ saved = Daemon => exit_user(cred, saved) = DaemonCred
<1> DEFINE x == [cred EXCEPT !.euid = cred.suid, !.egid = cred.sgid]
           y == [x EXCEPT !.groups = saved]
<1>1. x \in CredSet /\ x.euid = cred.suid /\ x.suid = cred.suid /\ x.egid = cred.sgid /\ x.sgid = cred.sgid
  BY DEF CredSet
<1>2. /\ y \in CredSet /\ y.euid = x.euid /\ y.suid = x.suid /\ y.egid = x.egid /\ y.sgid = x.sgid /\ y.groups = saved
      /\ exit_user(cred, saved) = y
  <2>1. exit_user(cred, saved) = y
    BY DEF exit_user, exit_groups
  <2> HIDE DEF x
  <2> QED BY <1>1, <2>1 DEF CredSet
<1> HIDE DEF x, y
<1> QED BY <1>1, <1>2 DEF CredSet, DaemonCred

\* an idle thread
LEMMA IdleFields ==
  ASSUME NEW cred \in CredSet
  PROVE  /\ IdleThread(cred) \in ThreadSet /\ IdleThread(cred).at = "idle" /\ IdleThread(cred).h = NoOne
         /\ IdleThread(cred).cred = cred
BY ZeroOffset DEF IdleThread, ThreadSet, Ats, PlainAts

\* a request begins, or does not for want of its caller's identity
LEMMA EnterStep ==
  ASSUME Typed, Identities, NEW t \in Threads, NEW kind \in Ats \ {"idle"}, NEW u \in Callers,
         NEW h \in Handles \cup {NoOne}, NEW groups \in BOOLEAN, NEW off \in Offsets,
         Enter(t, kind, u, h, groups, off), defects \subseteq defects'
  PROVE  /\ Idle(t) /\ ThreadMoves(t)
         /\ \/ thr'[t].at = kind /\ thr'[t].h = h /\ thr'[t].off = off
            \/ thr'[t].at = "idle" /\ thr'[t].h = NoOne /\ (~groups => "readlink" \in defects)
<1> DEFINE cred == thr[t].cred
<1>1. cred \in CredSet /\ thr[t] \in ThreadSet /\ u \in People
  BY DEF Typed, ThreadSet, Callers, People
<1>2. PICK res \in enter_user(cred, u, groups) :
        thr' = [thr EXCEPT ![t] = IF res.ok THEN [at |-> kind, cred |-> res.cred, user |-> u, h |-> h,
                                                  saved |-> cred.groups, off |-> off]
                                  ELSE IdleThread(res.cred)]
  BY DEF Enter
<1>3. Idle(t)
  BY DEF Enter
<1>4. "readlink" \notin defects => cred = DaemonCred
  BY <1>3 DEF Identities, Returns
<1>5. cred.groups \in People \cup {NoOne}
  BY <1>1 DEF CredSet
<1> HIDE DEF cred
<1>6. /\ res.cred \in CredSet /\ res.ok \in BOOLEAN
      /\ res.ok => res.cred.euid = u /\ res.cred.egid = u
      /\ cred = DaemonCred => IF res.ok THEN res.cred.suid = Daemon /\ res.cred.sgid = Daemon
                              ELSE groups /\ res.cred = DaemonCred
  BY <1>1, EnterUserIsRight
<1>7. CASE res.ok
  <2> DEFINE x == [at |-> kind, cred |-> res.cred, user |-> u, h |-> h, saved |-> cred.groups, off |-> off]
  <2>1. /\ x \in ThreadSet /\ x.at = kind /\ x.h = h /\ x.off = off /\ x.user = u /\ x.cred = res.cred
        /\ x.saved = cred.groups
    BY <1>1, <1>5, <1>6 DEF ThreadSet
  <2>2. thr' = [thr EXCEPT ![t] = x]
    BY <1>2, <1>7
  <2> HIDE DEF x
  <2>3. thr' \in [Threads -> ThreadSet] /\ (\A s \in Threads : s # t => thr'[s] = thr[s]) /\ thr'[t] = x
    BY <2>1, <2>2 DEF Typed
  <2>4. Caller(t)'
    BY <1>6, <1>7, <2>1, <2>3 DEF Caller
  <2>5. "readlink" \notin defects' => Returns(t)'
    BY <1>4, <1>6, <1>7, <2>1, <2>3 DEF Returns, Idle, DaemonCred
  <2> QED BY <1>3, <2>1, <2>3, <2>4, <2>5 DEF ThreadMoves
<1>8. CASE ~res.ok
  <2>1. thr' = [thr EXCEPT ![t] = IdleThread(res.cred)]
    BY <1>2, <1>8
  <2>2. /\ thr' \in [Threads -> ThreadSet] /\ (\A s \in Threads : s # t => thr'[s] = thr[s])
        /\ thr'[t].at = "idle" /\ thr'[t].h = NoOne /\ thr'[t].cred = res.cred
    BY <1>6, <2>1, IdleFields DEF Typed
  <2>3. "readlink" \notin defects => groups /\ res.cred = DaemonCred
    BY <1>4, <1>6, <1>8
  <2> QED BY <1>3, <2>2, <2>3 DEF ThreadMoves, Caller, Returns, Idle
<1> QED BY <1>6, <1>7, <1>8

\* a request returns
LEMMA ReturnStep ==
  ASSUME Typed, Identities, NEW t \in Threads, ~Idle(t), defects \subseteq defects',
         Return(t) \/ (ReturnAs(t) /\ "readlink" \in defects')
  PROVE  ThreadMoves(t) /\ thr'[t].at = "idle" /\ thr'[t].h = NoOne
<1> DEFINE back == exit_user(thr[t].cred, thr[t].saved)
<1>1. thr[t].cred \in CredSet /\ thr[t].saved \in People \cup {NoOne}
  BY DEF Typed, ThreadSet
<1>2. /\ back \in CredSet
      /\ thr[t].cred.suid = Daemon /\ thr[t].cred.sgid = Daemon /\ thr[t].saved = Daemon => back = DaemonCred
  BY <1>1, ExitUserIsRight
<1>3. CASE Return(t)
  <2>1. thr' = [thr EXCEPT ![t] = IdleThread(back)]
    BY <1>3 DEF Return
  <2> HIDE DEF back
  <2>2. /\ thr' \in [Threads -> ThreadSet] /\ (\A s \in Threads : s # t => thr'[s] = thr[s])
        /\ thr'[t].at = "idle" /\ thr'[t].h = NoOne /\ thr'[t].cred = back
    BY <1>2, <2>1, IdleFields DEF Typed
  <2>3. "readlink" \notin defects => back = DaemonCred
    BY <1>2 DEF Identities, Returns
  <2> QED BY <2>2, <2>3 DEF ThreadMoves, Caller, Returns, Idle
<1>4. CASE ReturnAs(t) /\ "readlink" \in defects'
  <2>1. thr' = [thr EXCEPT ![t] = IdleThread(thr[t].cred)]
    BY <1>4 DEF ReturnAs
  <2>2. /\ thr' \in [Threads -> ThreadSet] /\ (\A s \in Threads : s # t => thr'[s] = thr[s])
        /\ thr'[t].at = "idle" /\ thr'[t].h = NoOne
    BY <1>1, <2>1, IdleFields DEF Typed
  <2> QED BY <1>4, <2>2 DEF ThreadMoves, Caller, Returns, Idle
<1> QED BY <1>3, <1>4

\* a request goes on to its next call
LEMMA GotoStep ==
  ASSUME Typed, Identities, NEW t \in Threads, ~Idle(t), NEW kind \in Ats \ {"idle"}, NEW h \in Handles,
         Goto(t, kind, h), defects \subseteq defects'
  PROVE  ThreadMoves(t) /\ thr'[t].at = kind /\ thr'[t].h = h /\ thr'[t].off = thr[t].off
<1> DEFINE x == [thr[t] EXCEPT !.at = kind, !.h = h]
<1>1. thr[t] \in ThreadSet
  BY DEF Typed
<1>2. /\ x \in ThreadSet /\ x.at = kind /\ x.h = h /\ x.off = thr[t].off /\ x.user = thr[t].user
      /\ x.cred = thr[t].cred /\ x.saved = thr[t].saved
  BY <1>1 DEF ThreadSet
<1>3. thr' = [thr EXCEPT ![t] = x]
  BY DEF Goto, Typed
<1> HIDE DEF x
<1>4. thr' \in [Threads -> ThreadSet] /\ (\A s \in Threads : s # t => thr'[s] = thr[s]) /\ thr'[t] = x
  BY <1>2, <1>3 DEF Typed
<1>5. Caller(t)'
  BY <1>2, <1>4 DEF Identities, Caller, Idle
<1>6. "readlink" \notin defects' => Returns(t)'
  BY <1>2, <1>4 DEF Identities, Returns, Idle
<1> QED BY <1>2, <1>4, <1>5, <1>6 DEF ThreadMoves

-----------------------------------------------------------------------------
(* Steps on the files *)

\* the kinds of requests keep apart, and so do threads and the other holders
LEMMA KindsApart ==
  /\ \A t \in Threads : t \notin {"kernel", "client", "dropped", NoOne}
  /\ \A a \in OpenAts : a \notin OwnAts \cup WriteAts \cup PlainAts \cup {"fetch"}
  /\ \A a \in OwnAts : a \notin WriteAts \cup PlainAts \cup {"fetch"}
  /\ \A a \in WriteAts : a \notin PlainAts \cup {"fetch"}
  /\ "fetch" \notin PlainAts
BY HolderAssumption DEF NoOne, OpenAts, OwnAts, WriteAts, PlainAts, ListAts

\* The handle has one of the holders it may have.
Held(h) ==
  fh[h].live => \/ fh[h].holder \in {"kernel", "client"}
                \/ fh[h].holder \in Threads /\ thr[fh[h].holder].h = h
                \/ {"truncate", "readlink"} \cap defects # {}

\* types and descriptors, when one handle changes
LEMMA BooksStep ==
  ASSUME FilesInv, NEW h \in Handles, Changes(h) \/ UNCHANGED <<fh, fdown>>, defects \subseteq defects',
         thr' \in [Threads -> ThreadSet]
  PROVE  Typed' /\ Known' /\ Matched'
<1>1. CASE Changes(h)
  <2>1. /\ fh' \in [Handles -> HandleSet] /\ (\A k \in Handles : k # h => fh'[k] = fh[k])
        /\ (~fh'[h].live => fh'[h] = Free) /\ fh'[h].ds \in {"none", fh'[h].mode} /\ Moves(h)
    BY <1>1 DEF Changes
  <2>2. fdown' \in [Fds -> Handles \cup {NoOne}] /\ Known' /\ Matched'
    BY <2>1, DescriptorsStep DEF FilesInv
  <2>3. \A k \in Handles : (~fh'[k].live => fh'[k] = Free) /\ fh'[k].ds \in {"none", fh'[k].mode}
    BY <2>1 DEF FilesInv, Typed
  <2> QED BY <2>1, <2>2, <2>3 DEF Typed
<1>2. CASE UNCHANGED <<fh, fdown>>
  BY <1>2 DEF FilesInv, Typed, Known, Matched
<1> QED BY <1>1, <1>2

\* credentials, when one thread moves
LEMMA IdentitiesStep ==
  ASSUME Identities, NEW t \in Threads, ThreadMoves(t), defects \subseteq defects'
  PROVE  Identities'
<1>1. \A s \in Threads : Caller(s)'
  BY DEF ThreadMoves, Identities, Caller, Idle
<1>2. ASSUME "readlink" \notin defects' PROVE \A s \in Threads : Returns(s)'
  BY <1>2 DEF ThreadMoves, Identities, Returns, Idle
<1> QED BY <1>1, <1>2 DEF Identities

\* A thread takes a step on its handle, or on one it takes or gives up.  The others are not
\* about that handle, unless they read from it.
LEMMA FilesStep ==
  ASSUME FilesInv, NEW t \in Threads, ThreadMoves(t), NEW h \in Handles, Changes(h), defects \subseteq defects',
         thr[t].h \in {h, NoOne}, thr'[t].h \in {h, NoOne},
         \A s \in Threads : s # t /\ thr[s].h = h => thr[s].at = "fetch" /\ Kept(h),
         Place(t)', Held(h)'
  PROVE  FilesInv'
<1>1. Typed' /\ Known' /\ Matched'
  BY BooksStep DEF ThreadMoves
<1>2. Identities'
  BY IdentitiesStep DEF FilesInv
<1>3. /\ \A k \in Handles : k # h => fh'[k] = fh[k]
      /\ \A s \in Threads : s # t => thr'[s] = thr[s]
  BY DEF Changes, ThreadMoves
<1>4. ASSUME NEW s \in Threads PROVE Place(s)'
  <2>1. CASE s = t
    BY <2>1
  <2>2. CASE s # t /\ thr[s].h = h
    <3>1. thr'[s] = thr[s] /\ thr[s].at = "fetch" /\ Kept(h)
      BY <1>3, <2>2
    <3>2. KernelHas(h) /\ fh[h].mode = "read"
      BY <2>2, <3>1 DEF FilesInv, Places, Place
    <3>3. KernelHas(h)' /\ fh'[h].mode = "read"
      BY <3>1, <3>2 DEF Kept, KernelHas
    <3> QED BY <2>2, <3>1, <3>3, KindsApart DEF Place
  <2>3. CASE s # t /\ thr[s].h # h
    <3>1. thr'[s] = thr[s] /\ Place(s)
      BY <1>3, <2>3 DEF FilesInv, Places
    <3>2. thr[s].h \in Handles => fh'[thr[s].h] = fh[thr[s].h]
      BY <1>3, <2>3
    <3>3. thr[s].h \in Handles => (Alone(s, thr[s].h) => \A r \in Threads : thr'[r].h = thr[s].h => r = s)
      BY <1>3, <2>3, SizesOfHandles DEF Alone
    <3>4. thr[s].at \in Ats
      BY DEF FilesInv, Typed, ThreadSet
    <3>5. CASE thr[s].at \in OpenAts
      BY <3>1, <3>2, <3>3, <3>5, KindsApart DEF Place, IsNew, Alone, WriteAts
    <3>6. CASE thr[s].at \in OwnAts
      BY <3>1, <3>2, <3>3, <3>6, KindsApart DEF Place, IsNew, Alone, WriteAts
    <3>7. CASE thr[s].at \in WriteAts
      BY <3>1, <3>2, <3>3, <3>7, KindsApart DEF Place, KernelHas, Alone
    <3>8. CASE thr[s].at = "fetch"
      BY <3>1, <3>2, <3>8, KindsApart DEF Place, KernelHas, Alone, WriteAts
    <3>9. CASE thr[s].at \in PlainAts
      BY <3>1, <3>9, KindsApart DEF Place, Alone, WriteAts
    <3> QED BY <3>4, <3>5, <3>6, <3>7, <3>8, <3>9 DEF Ats
  <2> QED BY <2>1, <2>2, <2>3
<1>5. ASSUME NEW k \in Handles PROVE Held(k)'
  <2>1. CASE k = h
    BY <2>1
  <2>2. CASE k # h
    <3>1. fh'[k] = fh[k] /\ Held(k)
      BY <1>3, <2>2 DEF FilesInv, HandlesHaveHolders, Held
    <3>2. ASSUME fh[k].live, fh[k].holder \in Threads, thr[fh[k].holder].h = k
          PROVE  thr'[fh[k].holder].h = k
      BY <1>3, <2>2, <3>2, SizesOfHandles
    <3> QED BY <3>1, <3>2 DEF Held
  <2> QED BY <2>1, <2>2
<1> QED BY <1>1, <1>2, <1>4, <1>5 DEF FilesInv, Places, HandlesHaveHolders, Held

\* a thread takes a step that is about no file
LEMMA PlainStep ==
  ASSUME FilesInv, NEW t \in Threads, ThreadMoves(t), UNCHANGED <<fh, fdown>>, defects \subseteq defects',
         thr[t].h = NoOne, thr'[t].h = NoOne, thr'[t].at \in PlainAts
  PROVE  FilesInv'
<1>1. Typed' /\ Known' /\ Matched'
  BY DEF ThreadMoves, FilesInv, Typed, Known, Matched
<1>2. Identities'
  BY IdentitiesStep DEF FilesInv
<1>3. \A s \in Threads : s # t => thr'[s] = thr[s]
  BY DEF ThreadMoves
<1>4. ASSUME NEW s \in Threads PROVE Place(s)'
  <2>1. CASE s = t
    BY <2>1, KindsApart DEF Place, WriteAts
  <2>2. CASE s # t
    <3>1. thr'[s] = thr[s] /\ Place(s)
      BY <1>3, <2>2 DEF FilesInv, Places
    <3>2. thr[s].h \in Handles => (Alone(s, thr[s].h) => Alone(s, thr[s].h)')
      BY <1>3, <2>2, <3>1, SizesOfHandles DEF Alone
    <3> QED BY <3>1, <3>2 DEF Place, IsNew, KernelHas, Alone
  <2> QED BY <2>1, <2>2
<1>5. ASSUME NEW k \in Handles PROVE Held(k)'
  <2>1. Held(k)
    BY DEF FilesInv, HandlesHaveHolders, Held
  <2>2. ASSUME fh[k].holder \in Threads, thr[fh[k].holder].h = k
        PROVE  thr'[fh[k].holder].h = k
    BY <1>3, <2>2, SizesOfHandles
  <2> QED BY <2>1, <2>2 DEF Held
<1> QED BY <1>1, <1>2, <1>4, <1>5 DEF FilesInv, Places, HandlesHaveHolders, Held

\* the program takes a step on a handle that no thread is about
LEMMA ClientStep ==
  ASSUME FilesInv, UNCHANGED thr, NEW h \in Handles, Changes(h),
         ~Busy(h), fh'[h].live => fh'[h].holder = "client"
  PROVE  FilesInv'
<1>1. defects \subseteq defects' /\ ("readlink" \in defects' => "readlink" \in defects)
  BY DEF Changes
<1>2. Typed' /\ Known' /\ Matched'
  BY <1>1, BooksStep DEF FilesInv, Typed
<1>3. Identities'
  BY <1>1 DEF FilesInv, Identities, Caller, Returns, Idle
<1>4. \A k \in Handles : k # h => fh'[k] = fh[k]
  BY DEF Changes
<1>5. ASSUME NEW s \in Threads PROVE Place(s)'
  <2>1. Place(s) /\ thr[s].h # h
    BY DEF FilesInv, Places, Busy
  <2>2. thr[s].h \in Handles => fh'[thr[s].h] = fh[thr[s].h]
    BY <1>4, <2>1
  <2> QED BY <2>1, <2>2 DEF Place, IsNew, KernelHas, Alone, WriteAts
<1>6. ASSUME NEW k \in Handles PROVE Held(k)'
  <2>1. CASE k = h
    BY <2>1 DEF Held
  <2>2. CASE k # h
    BY <1>1, <1>4, <2>2 DEF FilesInv, HandlesHaveHolders, Held
  <2> QED BY <2>1, <2>2
<1> QED BY <1>2, <1>3, <1>5, <1>6 DEF FilesInv, Places, HandlesHaveHolders, Held

\* an idle thread, and one that becomes idle, is about nothing
LEMMA IdleIsNowhere ==
  ASSUME FilesInv, NEW t \in Threads
  PROVE  /\ Idle(t) => thr[t].h = NoOne
         /\ thr'[t].at = "idle" /\ thr'[t].h = NoOne => Place(t)'
BY KindsApart DEF FilesInv, Places, Place, Idle, PlainAts, WriteAts

\* requests about a path or a directory
LEMMA EnterPlain ==
  ASSUME FilesInv, NEW t \in Threads, NEW kind \in PlainAts \ {"idle"}, NEW u \in Callers, NEW groups \in BOOLEAN,
         Enter(t, kind, u, NoOne, groups, 0), UNCHANGED <<fh, fdown, defects>>
  PROVE  FilesInv' /\ Idle(t) /\ ThreadMoves(t) /\ (thr'[t].at = kind \/ thr'[t].at = "idle")
<1>1. kind \in Ats \ {"idle"} /\ NoOne \in Handles \cup {NoOne} /\ defects \subseteq defects'
  BY DEF Ats
<1>2. /\ Idle(t) /\ ThreadMoves(t)
      /\ \/ thr'[t].at = kind /\ thr'[t].h = NoOne
         \/ thr'[t].at = "idle" /\ thr'[t].h = NoOne
  BY <1>1, EnterStep, ZeroOffset DEF FilesInv
<1>3. FilesInv'
  BY <1>1, <1>2, PlainStep, IdleIsNowhere DEF PlainAts
<1> QED BY <1>2, <1>3

\* requests about a file: on a handle for an open, or on one the kernel has
LEMMA EnterFile ==
  ASSUME FilesInv, NEW t \in Threads, NEW kind \in OpenAts \cup {"fetch", "seek", "ftruncate"}, NEW u \in Callers,
         NEW h \in Handles, NEW groups \in BOOLEAN, NEW off \in Offsets,
         Enter(t, kind, u, h, groups, off), UNCHANGED <<fh, fdown, defects>>,
         kind \in OpenAts => Unused(h),
         kind = "fetch" => KernelHas(h) /\ fh[h].mode = "read",
         kind \in {"seek", "ftruncate"} => KernelHas(h) /\ fh[h].mode \in {"create", "edit"} /\ ~Writing(h)
  PROVE  FilesInv' /\ Idle(t) /\ ThreadMoves(t) /\ (thr'[t].at = kind \/ thr'[t].at = "idle")
<1>1. kind \in Ats \ {"idle"} /\ h \in Handles \cup {NoOne} /\ defects \subseteq defects'
  BY DEF Ats, OpenAts, WriteAts
<1>2. /\ Idle(t) /\ ThreadMoves(t)
      /\ \/ thr'[t].at = kind /\ thr'[t].h = h
         \/ thr'[t].at = "idle" /\ thr'[t].h = NoOne
  BY <1>1, EnterStep DEF FilesInv
<1>3. CASE thr'[t].at = "idle" /\ thr'[t].h = NoOne
  BY <1>1, <1>2, <1>3, PlainStep, IdleIsNowhere DEF PlainAts
<1>4. CASE thr'[t].at = kind /\ thr'[t].h = h
  <2>1. Changes(h) /\ fh' = fh /\ thr[t].h = NoOne /\ (fh[h].live => Kept(h))
    BY <1>2, SameChanges, SameStep, IdleIsNowhere DEF FilesInv
  <2>2. ASSUME NEW s \in Threads, s # t, thr[s].h = h PROVE thr[s].at = "fetch" /\ Kept(h) /\ kind = "fetch"
    <3>1. Place(s) /\ thr[s].at \in Ats
      BY DEF FilesInv, Places, Typed, ThreadSet
    <3>2. ~Unused(h)
      BY <2>2 DEF Unused, Busy
    <3>3. KernelHas(h)
      BY <3>2 DEF OpenAts
    <3>4. thr[s].at \in WriteAts \cup {"fetch"}
      BY <2>2, <3>1, <3>3, KindsApart, SizesOfHandles DEF Place, Ats, KernelHas, IsNew
    <3>5. CASE kind = "fetch"
      <4>1. thr[s].at \notin WriteAts
        BY <2>2, <3>1, <3>5 DEF Place
      <4> QED BY <2>1, <3>3, <3>4, <3>5, <4>1 DEF KernelHas
    <3>6. CASE kind \in {"seek", "ftruncate"}
      <4>1. thr[s].at \notin WriteAts
        BY <2>2, <3>6 DEF Writing, WriteAts
      <4>2. thr[s].at # "fetch"
        BY <2>2, <3>1, <3>6 DEF Place
      <4> QED BY <3>4, <4>1, <4>2
    <3> QED BY <3>2, <3>5, <3>6 DEF OpenAts
  <2>3. Place(t)'
    <3>1. CASE kind \in OpenAts
      <4>1. \A s \in Threads : thr'[s].h = h => s = t
        BY <1>2, <2>2, <3>1, KindsApart DEF ThreadMoves
      <4> QED BY <1>4, <2>1, <3>1, <4>1, KindsApart DEF Place, Alone, Unused, IsNew, WriteAts
    <3>2. CASE kind = "fetch"
      BY <1>4, <2>1, <3>2, KindsApart DEF Place, KernelHas, WriteAts
    <3>3. CASE kind \in {"seek", "ftruncate"}
      <4>1. \A s \in Threads : thr'[s].h = h => s = t
        BY <1>2, <2>2, <3>3 DEF ThreadMoves
      <4> QED BY <1>4, <2>1, <3>3, <4>1, KindsApart DEF Place, Alone, KernelHas, WriteAts
    <3> QED BY <3>1, <3>2, <3>3
  <2>4. Held(h)'
    <3>1. Held(h)
      BY DEF FilesInv, HandlesHaveHolders, Held
    <3>2. ASSUME fh[h].holder \in Threads, thr[fh[h].holder].h = h PROVE thr'[fh[h].holder].h = h
      BY <1>2, <1>4, <3>2 DEF ThreadMoves
    <3> QED BY <2>1, <3>1, <3>2 DEF Held
  <2>5. FilesInv'
    BY <1>1, <1>2, <1>4, <2>1, <2>2, <2>3, <2>4, FilesStep
  <2> QED BY <1>2, <1>4, <2>5
<1> QED BY <1>2, <1>3, <1>4

\* fuse_release(): the handle passes to the thread, or is dropped
LEMMA ReleaseRequest ==
  ASSUME FilesInv, NEW t \in Threads, NEW u \in Callers, NEW h \in Handles, fuse_release(t, u, h)
  PROVE  FilesInv' /\ Idle(t) /\ ThreadMoves(t) /\ (thr'[t].at = "close" \/ thr'[t].at = "idle")
<1>1. /\ KernelHas(h) /\ ~Busy(h) /\ Enter(t, "close", u, h, FALSE, 0)
      /\ fh' = [fh EXCEPT ![h].holder = IF Idle(t)' THEN "dropped" ELSE t]
      /\ UNCHANGED <<fdown, defects>>
  BY DEF fuse_release
<1>2. "close" \in Ats \ {"idle"} /\ h \in Handles \cup {NoOne} /\ defects \subseteq defects'
  BY <1>1 DEF Ats, OwnAts
<1>3. /\ Idle(t) /\ ThreadMoves(t)
      /\ \/ thr'[t].at = "close" /\ thr'[t].h = h
         \/ thr'[t].at = "idle" /\ thr'[t].h = NoOne /\ "readlink" \in defects
  BY <1>1, <1>2, EnterStep, ZeroOffset DEF FilesInv
<1> DEFINE w == IF Idle(t)' THEN "dropped" ELSE t
           r == [fh[h] EXCEPT !.holder = w]
<1>4. /\ r \in HandleSet /\ r.live = fh[h].live /\ r.meta = fh[h].meta /\ r.ds = fh[h].ds /\ r.mode = fh[h].mode /\ r.holder = w
      /\ fh[h].ds \in {"none", fh[h].mode}
  BY DEF FilesInv, Typed, HandleSet
<1>5. fh' = [fh EXCEPT ![h] = r] /\ fh'[h] = r
  BY <1>1 DEF FilesInv, Typed
<1>6. w = IF Idle(t)' THEN "dropped" ELSE t
  OBVIOUS
<1> HIDE DEF r, w
<1>7. Changes(h)
  <2>1. Moves(h) /\ (~r.live => r = Free)
    BY <1>1, <1>4, <1>5 DEF Moves, KernelHas
  <2> QED BY <1>1, <1>4, <1>5, <2>1, PutChanges DEF FilesInv
<1>8. thr[t].h = NoOne /\ \A s \in Threads : thr[s].h # h
  BY <1>1, <1>3, IdleIsNowhere DEF Busy
<1>9. CASE thr'[t].at = "close" /\ thr'[t].h = h
  <2>1. w = t /\ fh'[h].live /\ fh'[h].holder = t
    BY <1>1, <1>4, <1>5, <1>6, <1>9 DEF Idle, KernelHas
  <2>2. Place(t)' /\ Held(h)'
    BY <1>3, <1>8, <1>9, <2>1, KindsApart DEF Place, Alone, ThreadMoves, Held, OwnAts, WriteAts
  <2> QED BY <1>2, <1>3, <1>7, <1>8, <1>9, <2>2, FilesStep
<1>10. CASE thr'[t].at = "idle" /\ thr'[t].h = NoOne /\ "readlink" \in defects
  <2>1. Place(t)' /\ Held(h)'
    BY <1>1, <1>10, IdleIsNowhere DEF Held
  <2> QED BY <1>2, <1>3, <1>7, <1>8, <1>10, <2>1, FilesStep
<1> QED BY <1>3, <1>9, <1>10

\* a call on a file was the last of its request
LEMMA ReturnFile ==
  ASSUME FilesInv, NEW t \in Threads, ~Idle(t), NEW h \in Handles, thr[t].h = h, Return(t), Changes(h),
         defects \subseteq defects',
         Alone(t, h) \/ (thr[t].at = "fetch" /\ Kept(h)),
         fh'[h].live => fh'[h].holder \in {"kernel", "client"} \/ {"truncate", "readlink"} \cap defects' # {}
  PROVE  FilesInv' /\ ThreadMoves(t) /\ thr'[t].at = "idle"
<1>1. ThreadMoves(t) /\ thr'[t].at = "idle" /\ thr'[t].h = NoOne
  BY ReturnStep DEF FilesInv
<1>2. Place(t)' /\ Held(h)'
  BY <1>1, IdleIsNowhere DEF Held
<1>3. ASSUME NEW s \in Threads, s # t, thr[s].h = h PROVE thr[s].at = "fetch" /\ Kept(h)
  <2>1. thr[t].at = "fetch" /\ Kept(h) /\ Place(t) /\ Place(s) /\ thr[s].at \in Ats
    BY <1>3 DEF Alone, FilesInv, Places, Typed, ThreadSet
  <2> QED BY <1>3, <2>1, KindsApart, SizesOfHandles DEF Place, Ats, KernelHas, IsNew
<1> QED BY <1>1, <1>2, <1>3, FilesStep

\* it was not
LEMMA GotoFile ==
  ASSUME FilesInv, NEW t \in Threads, ~Idle(t), NEW h \in Handles, thr[t].h = h, NEW kind \in Ats \ {"idle"},
         Goto(t, kind, h), Changes(h), defects \subseteq defects', Alone(t, h),
         ThreadMoves(t) /\ thr'[t].at = kind /\ thr'[t].h = h /\ thr'[t].off = thr[t].off /\ Alone(t, h)' => Place(t)' /\ Held(h)'
  PROVE  FilesInv' /\ ThreadMoves(t) /\ thr'[t].at = kind
<1>1. ThreadMoves(t) /\ thr'[t].at = kind /\ thr'[t].h = h /\ thr'[t].off = thr[t].off
  BY GotoStep DEF FilesInv
<1>2. Alone(t, h)'
  BY <1>1 DEF Alone, ThreadMoves
<1>3. Place(t)' /\ Held(h)'
  BY <1>1, <1>2
<1> QED BY <1>1, <1>3, FilesStep DEF Alone

\* what a thread at work knows of its handle
LEMMA AtWork ==
  ASSUME FilesInv, NEW t \in Threads
  PROVE  /\ Typed /\ Known /\ Place(t) /\ Identities
         /\ thr[t].at \in OpenAts => ~Idle(t) /\ thr[t].h \in Handles /\ IsNew(thr[t].h) /\ Alone(t, thr[t].h)
         /\ thr[t].at \in OwnAts =>
              ~Idle(t) /\ thr[t].h \in Handles /\ fh[thr[t].h].live /\ fh[thr[t].h].holder = t /\ Alone(t, thr[t].h)
         /\ thr[t].at \in WriteAts =>
              /\ ~Idle(t) /\ thr[t].h \in Handles /\ KernelHas(thr[t].h)
              /\ fh[thr[t].h].mode \in {"create", "edit"} /\ Alone(t, thr[t].h)
         /\ thr[t].at = "fetch" =>
              ~Idle(t) /\ thr[t].h \in Handles /\ KernelHas(thr[t].h) /\ fh[thr[t].h].mode = "read"
BY DEF FilesInv, Places, Place, Idle, OpenAts, OwnAts, WriteAts

\* a change of a handle leaves what is past where it was
LEMMA ChangesDefects == \A h \in Handles : Changes(h) => defects \subseteq defects'
BY DEF Changes

\* fuse_create(), fuse_open(): the calls that open a handle for the kernel
LEMMA KernelOpens ==
  ASSUME FilesInv, NEW t \in Threads, Create(t) \/ Open(t)
  PROVE  FilesInv' /\ ThreadMoves(t) /\ thr'[t].at = "idle"
<1> DEFINE h == thr[t].h
<1>1. thr[t].at \in OpenAts /\ Return(t)
  BY DEF Create, Open, OpenAts
<1>2. ~Idle(t) /\ h \in Handles /\ IsNew(h) /\ Alone(t, h) /\ Typed /\ Known
  BY <1>1, AtWork
<1>3. "kernel" \in Holders
  BY DEF Holders
<1>4. Made(h, "kernel") \/ Freed(h)
  <2>1. CASE Create(t)
    <3>1. marfs_creat(h, "kernel")
      BY <2>1 DEF Create
    <3> HIDE DEF h
    <3> QED BY <1>2, <1>3, <3>1, CreatStep
  <2>2. CASE Open(t)
    <3>1. PICK ok \in BOOLEAN : marfs_open(h, "kernel", thr[t].at, ok)
      BY <2>2 DEF Open
    <3>2. thr[t].at \in {"read", "edit", "async"}
      BY <2>2 DEF Open
    <3> DEFINE type == thr[t].at
    <3> HIDE DEF h, type
    <3>3. type \in {"read", "edit", "async"} /\ marfs_open(h, "kernel", type, ok)
      BY <3>1, <3>2 DEF type
    <3> QED BY <1>2, <1>3, <3>3, OpenStep
  <2> QED BY <2>1, <2>2 DEF Create, Open
<1> HIDE DEF h
<1>5. Changes(h) /\ (fh'[h].live => fh'[h].holder = "kernel")
  BY <1>2, <1>4, HandleFields DEF Made, Freed
<1>6. defects \subseteq defects'
  BY <1>2, <1>5, ChangesDefects
<1>7. thr[t].h = h
  BY DEF h
<1> QED BY <1>1, <1>2, <1>5, <1>6, <1>7, ReturnFile

\* the opens of requests about a path: the thread has the handle, or there is none
LEMMA ThreadOpens ==
  ASSUME FilesInv, NEW t \in Threads, XattrOpen(t) \/ TruncateOpen(t)
  PROVE  FilesInv' /\ ThreadMoves(t) /\ thr'[t].at \in {"idle", "xattr", "truncate"}
<1>0. PICK h \in Handles : h = thr[t].h
  BY AtWork DEF XattrOpen, TruncateOpen, OpenAts
<1> DEFINE type == IF thr[t].at = "xopen" THEN "async" ELSE "edit"
           next == IF thr[t].at = "xopen" THEN "xattr" ELSE "truncate"
<1>1. PICK ok \in BOOLEAN : marfs_open(h, t, type, ok) /\ IF ok THEN Goto(t, next, h) ELSE Return(t)
  BY <1>0 DEF XattrOpen, TruncateOpen
<1>2. thr[t].at \in OpenAts
  BY DEF XattrOpen, TruncateOpen, OpenAts
<1>3. ~Idle(t) /\ h \in Handles /\ IsNew(h) /\ Alone(t, h) /\ Typed /\ Known
  BY <1>0, <1>2, AtWork
<1>4. t \in Holders /\ type \in {"read", "edit", "async"} /\ next \in {"xattr", "truncate"}
  BY DEF Holders
<1>5. thr[t].h = h
  BY <1>0
<1> HIDE DEF type, next
<1>6. IF ok THEN Made(h, t) ELSE Freed(h)
  BY <1>1, <1>3, <1>4, OpenStep
<1>7. Changes(h) /\ defects \subseteq defects'
  BY <1>3, <1>6, ChangesDefects DEF Made, Freed
<1>8. CASE ok
  <2>1. next \in Ats \ {"idle"} /\ next \in OwnAts
    BY <1>4 DEF Ats, OwnAts
  <2>2. fh'[h].live /\ fh'[h].holder = t
    BY <1>3, <1>6, <1>8 DEF Made
  <2>3. ASSUME thr'[t].at = next, thr'[t].h = h, Alone(t, h)' PROVE Place(t)' /\ Held(h)'
    BY <1>3, <2>1, <2>2, <2>3, KindsApart DEF Place, Held, WriteAts
  <2>4. FilesInv' /\ ThreadMoves(t) /\ thr'[t].at = next
    BY <1>1, <1>3, <1>5, <1>7, <1>8, <2>1, <2>3, GotoFile
  <2> QED BY <1>4, <2>4
<1>9. CASE ~ok
  <2>1. ~fh'[h].live
    BY <1>6, <1>9, HandleFields DEF Freed
  <2> QED BY <1>1, <1>3, <1>5, <1>7, <1>9, <2>1, ReturnFile
<1> QED BY <1>8, <1>9

\* the last calls of requests of the kernel on a handle it has
LEMMA KernelCalls ==
  ASSUME FilesInv, NEW t \in Threads, Read(t) \/ Write(t) \/ Ftruncate(t)
  PROVE  FilesInv' /\ ThreadMoves(t) /\ thr'[t].at = "idle"
<1> DEFINE h == thr[t].h
<1>1. /\ Return(t) /\ thr[t].at \in {"fetch", "write", "ftruncate"}
      /\ marfs_read_at_offset(h) \/ marfs_write(h) \/ \E ok \in BOOLEAN : marfs_ftruncate(h, ok)
  BY DEF Read, Write, Ftruncate
<1>2. ~Idle(t) /\ h \in Handles /\ KernelHas(h) /\ (thr[t].at = "fetch" \/ Alone(t, h)) /\ Typed
  BY <1>1, AtWork DEF WriteAts
<1>3. thr[t].h = h
  OBVIOUS
<1> HIDE DEF h
<1>4. Kept(h)
  BY <1>1, <1>2, CallStep
<1>5. Changes(h) /\ fh'[h].holder = "kernel" /\ defects \subseteq defects'
  BY <1>2, <1>4, ChangesDefects DEF Kept, KernelHas
<1> QED BY <1>1, <1>2, <1>3, <1>4, <1>5, ReturnFile

\* fuse_write() seeks: the stream is where the write is to go, or the request fails
LEMMA SeekRequest ==
  ASSUME FilesInv, NEW t \in Threads, Seek(t)
  PROVE  FilesInv' /\ ThreadMoves(t) /\ thr'[t].at \in {"idle", "write"}
<1>0. PICK h \in Handles : h = thr[t].h
  BY AtWork DEF Seek, WriteAts
<1> DEFINE to == thr[t].off
<1>1. PICK ok \in BOOLEAN : marfs_seek(h, to, ok) /\ IF ok THEN Goto(t, "write", h) ELSE Return(t)
  BY <1>0 DEF Seek
<1>2. thr[t].at \in WriteAts
  BY DEF Seek, WriteAts
<1>3. ~Idle(t) /\ h \in Handles /\ KernelHas(h) /\ fh[h].mode \in {"create", "edit"} /\ Alone(t, h) /\ Typed
  BY <1>0, <1>2, AtWork
<1>4. to \in Offsets /\ thr[t].h = h /\ thr[t].off = to
  BY <1>0, <1>3 DEF Typed, ThreadSet
<1> HIDE DEF to
<1>5. Kept(h) /\ (ok => fh'[h].off = to)
  BY <1>1, <1>3, <1>4, SeekStep
<1>6. Changes(h) /\ fh'[h].holder = "kernel" /\ fh'[h].live /\ fh'[h].mode = fh[h].mode /\ defects \subseteq defects'
  BY <1>3, <1>5, ChangesDefects DEF Kept, KernelHas
<1>7. CASE ok
  <2>1. "write" \in Ats \ {"idle"} /\ "write" \in WriteAts
    BY DEF Ats, WriteAts
  <2>2. ASSUME thr'[t].at = "write", thr'[t].h = h, thr'[t].off = thr[t].off, Alone(t, h)' PROVE Place(t)' /\ Held(h)'
    BY <1>3, <1>4, <1>5, <1>6, <1>7, <2>1, <2>2, KindsApart DEF Place, Held, KernelHas
  <2>3. FilesInv' /\ ThreadMoves(t) /\ thr'[t].at = "write"
    BY <1>1, <1>3, <1>4, <1>6, <1>7, <2>1, <2>2, GotoFile
  <2> QED BY <2>3
<1>8. CASE ~ok
  BY <1>1, <1>3, <1>4, <1>6, <1>8, ReturnFile
<1> QED BY <1>7, <1>8

\* the thread closes its handle
LEMMA ThreadCloses ==
  ASSUME FilesInv, NEW t \in Threads, Release(t) \/ XattrRelease(t) \/ TruncateClose(t)
  PROVE  FilesInv' /\ ThreadMoves(t) /\ thr'[t].at = "idle"
<1> DEFINE h == thr[t].h
<1>1. Return(t) /\ thr[t].at \in OwnAts /\ Gone(h)
  BY DEF Release, XattrRelease, TruncateClose, marfs_close, marfs_release, OwnAts
<1>2. ~Idle(t) /\ h \in Handles /\ Alone(t, h) /\ Typed
  BY <1>1, AtWork
<1>3. thr[t].h = h
  OBVIOUS
<1> HIDE DEF h
<1>4. Freed(h)
  BY <1>1, <1>2, GoneStep
<1>5. Changes(h) /\ ~fh'[h].live /\ defects \subseteq defects'
  BY <1>2, <1>4, ChangesDefects, HandleFields DEF Freed
<1> QED BY <1>1, <1>2, <1>3, <1>5, ReturnFile

\* the calls on a handle of the thread itself
LEMMA ThreadCalls ==
  ASSUME FilesInv, NEW t \in Threads, XattrCall(t) \/ Truncate(t)
  PROVE  FilesInv' /\ ThreadMoves(t) /\ thr'[t].at \in {"idle", "xrelease", "tclose"}
<1>0. PICK h \in Handles : h = thr[t].h
  BY AtWork DEF XattrCall, Truncate, OwnAts
<1> DEFINE next == IF thr[t].at = "xattr" THEN "xrelease" ELSE "tclose"
<1>1. thr[t].at \in OwnAts
  BY DEF XattrCall, Truncate, OwnAts
<1>2. ~Idle(t) /\ h \in Handles /\ fh[h].live /\ fh[h].holder = t /\ Alone(t, h) /\ Typed
  BY <1>0, <1>1, AtWork
<1>3. \/ UNCHANGED <<fh, fdown, defects>> /\ Goto(t, next, h)
      \/ /\ fh' = [fh EXCEPT ![h].holder = "dropped"] /\ Return(t)
         /\ defects' = defects \cup {"truncate"} /\ UNCHANGED fdown
  BY <1>0 DEF XattrCall, Truncate, marfs_ftruncate
<1>4. thr[t].h = h /\ next \in {"xrelease", "tclose"}
  BY <1>0
<1> HIDE DEF next
<1>5. CASE UNCHANGED <<fh, fdown, defects>> /\ Goto(t, next, h)
  <2>1. Changes(h) /\ fh' = fh /\ defects \subseteq defects'
    BY <1>2, <1>5, SameChanges
  <2>2. next \in Ats \ {"idle"} /\ next \in OwnAts
    BY <1>4 DEF Ats, OwnAts
  <2>3. ASSUME thr'[t].at = next, thr'[t].h = h, Alone(t, h)' PROVE Place(t)' /\ Held(h)'
    BY <1>2, <2>1, <2>2, <2>3, KindsApart DEF Place, Held, WriteAts
  <2>4. FilesInv' /\ ThreadMoves(t) /\ thr'[t].at = next
    BY <1>2, <1>4, <1>5, <2>1, <2>2, <2>3, GotoFile
  <2> QED BY <1>4, <2>4
<1>6. CASE /\ fh' = [fh EXCEPT ![h].holder = "dropped"] /\ Return(t)
           /\ defects' = defects \cup {"truncate"} /\ UNCHANGED fdown
  <2> DEFINE r == [fh[h] EXCEPT !.holder = "dropped"]
  <2>1. r \in HandleSet /\ r.live /\ r.meta = fh[h].meta /\ r.ds = fh[h].ds /\ r.mode = fh[h].mode /\ r.holder = "dropped"
    BY <1>2 DEF Typed, HandleSet
  <2>2. fh' = [fh EXCEPT ![h] = r] /\ fh'[h] = r /\ fh[h].ds \in {"none", fh[h].mode}
    BY <1>2, <1>6 DEF Typed
  <2> HIDE DEF r
  <2>3. ThreadMoves(t) /\ thr'[t].at = "idle" /\ thr'[t].h = NoOne
    BY <1>2, <1>6, ReturnStep DEF FilesInv
  <2>4. Typed' /\ Known' /\ Matched'
    <3>1. fh' \in [Handles -> HandleSet] /\ \A k \in Handles : fh'[k].meta = fh[k].meta
      BY <1>2, <2>1, <2>2 DEF Typed
    <3>2. \A k \in Handles : (~fh'[k].live => fh'[k] = Free) /\ fh'[k].ds \in {"none", fh'[k].mode}
      BY <1>2, <2>1, <2>2 DEF Typed
    <3> QED BY <1>2, <1>6, <2>3, <3>1, <3>2 DEF FilesInv, Typed, Known, Matched, ThreadMoves
  <2>5. Identities'
    BY <1>6, <2>3, IdentitiesStep DEF FilesInv
  <2>6. ASSUME NEW s \in Threads PROVE Place(s)'
    <3>1. CASE s = t
      BY <2>3, <3>1, IdleIsNowhere
    <3>2. CASE s # t
      <4>1. thr'[s] = thr[s] /\ Place(s) /\ thr[s].h # h
        BY <1>2, <2>3, <3>2 DEF ThreadMoves, FilesInv, Places, Alone
      <4>2. thr[s].h \in Handles => fh'[thr[s].h] = fh[thr[s].h]
        BY <2>2, <4>1 DEF FilesInv, Typed
      <4>3. thr[s].h \in Handles => (Alone(s, thr[s].h) => Alone(s, thr[s].h)')
        BY <2>3, <4>1, SizesOfHandles DEF Alone, ThreadMoves
      <4> QED BY <4>1, <4>2, <4>3 DEF Place, IsNew, KernelHas, Alone, WriteAts
    <3> QED BY <3>1, <3>2
  <2>7. HandlesHaveHolders'
    BY <1>6 DEF HandlesHaveHolders
  <2> QED BY <2>3, <2>4, <2>5, <2>6, <2>7 DEF FilesInv, Places
<1> QED BY <1>3, <1>5, <1>6

\* the calls of the program
LEMMA ClientCalls ==
  ASSUME FilesInv, NEW h \in Handles, ClientCall(h)
  PROVE  FilesInv'
<1>1. UNCHANGED thr /\ "client" \in Holders /\ Typed /\ Known
  BY DEF ClientCall, Holders, FilesInv
<1>2. CASE Unused(h) /\ (marfs_creat(h, "client")
                         \/ \E type \in {"read", "edit", "async"}, ok \in BOOLEAN : marfs_open(h, "client", type, ok))
  <2>1. Made(h, "client") \/ Freed(h)
    BY <1>1, <1>2, CreatStep, OpenStep DEF Unused
  <2>2. Changes(h) /\ (fh'[h].live => fh'[h].holder = "client") /\ ~Busy(h)
    BY <1>2, <2>1, HandleFields DEF Made, Freed, Unused
  <2> QED BY <1>1, <2>2, ClientStep
<1>3. CASE Own(h)
  <2>1. fh[h].live /\ fh[h].holder = "client" /\ ~IsNew(h)
    BY <1>3 DEF Own, IsNew
  <2>2. ~Busy(h)
    <3> SUFFICES ASSUME NEW s \in Threads, thr[s].h = h PROVE FALSE
      BY DEF Busy
    <3>1. Place(s) /\ thr[s].at \in Ats
      BY DEF FilesInv, Places, Typed, ThreadSet
    <3> QED BY <2>1, <3>1, KindsApart, SizesOfHandles DEF Place, Ats, KernelHas
  <2>3. Made(h, "client") \/ Kept(h) \/ Freed(h)
    <3>1. CASE marfs_creat(h, "client")
      BY <1>1, <2>1, <3>1, CreatStep
    <3>2. ASSUME NEW type \in {"read", "edit", "async"}, NEW ok \in BOOLEAN, marfs_open(h, "client", type, ok)
          PROVE  Made(h, "client")
      BY <1>1, <2>1, <3>2, OpenStep
    <3>3. CASE marfs_read(h)
      BY <1>1, <3>3, ReadStep
    <3>4. ASSUME NEW to \in Offsets, NEW ok \in BOOLEAN, marfs_seek(h, to, ok) PROVE Kept(h)
      BY <1>1, <3>4, SeekStep
    <3>5. CASE marfs_release(h)
      BY <1>1, <3>5, GoneStep DEF marfs_release
    <3>6. CASE \/ marfs_flush(h) \/ marfs_write(h) \/ marfs_extend(h)
               \/ marfs_chunkbounds(h) \/ marfs_setrecoverypath(h) \/ marfs_futimens(h)
      BY <1>1, <3>6, CallStep
    <3> QED BY <2>1, <3>1, <3>2, <3>3, <3>4, <3>5, <3>6 DEF ClientCall, Unused
  <2>4. Changes(h) /\ (fh'[h].live => fh'[h].holder = "client")
    BY <2>1, <2>3, HandleFields DEF Made, Freed, Kept
  <2> QED BY <1>1, <2>2, <2>4, ClientStep
<1> QED BY <1>2, <1>3 DEF ClientCall

-----------------------------------------------------------------------------
(* Directories *)

\* lengths, and where the offsets lie
LEMMA DirNumbers ==
  /\ HasSub \in BOOLEAN /\ AtRoot \in BOOLEAN /\ BufSize \in Nat \ {0}
  /\ Len(Subspaces) \in Nat /\ Len(Entries) \in Nat /\ Mask \in Nat /\ Len(Subspaces) < Mask
  /\ DOMAIN Subspaces = 1 .. Len(Subspaces) /\ DOMAIN Entries = 1 .. Len(Entries)
  /\ \A i \in 1 .. Len(Subspaces) : Subspaces[i] \in BOOLEAN
  /\ \A j \in 1 .. Len(Entries) : Entries[j] \in BOOLEAN
  /\ Shift \in Nat /\ (HasSub => Shift = Mask) /\ (~HasSub => Shift = 0)
BY ApiAssumption, MaskAssumption DEF HasSub, Mask, Shift

\* the offsets one by one
LEMMA OffsAre ==
  /\ \A o : o \in SubOffs <=> HasSub /\ o \in 1 .. Len(Subspaces) /\ Subspaces[o]
  /\ \A o : o \in EntOffs <=> o \in Nat /\ o - Shift \in 1 .. Len(Entries) /\ ~(AtRoot /\ Entries[o - Shift])
  /\ Offs \subseteq Nat
<1>1. \A o : o \in SubOffs <=> HasSub /\ o \in 1 .. Len(Subspaces) /\ Subspaces[o]
  BY DirNumbers DEF SubOffs
<1>2. Expected.ent = {j \in 1 .. Len(Entries) : ~(AtRoot /\ Entries[j])}
  BY DirNumbers DEF Expected
<1>3. ASSUME NEW o \in EntOffs PROVE o \in Nat /\ o - Shift \in 1 .. Len(Entries) /\ ~(AtRoot /\ Entries[o - Shift])
  <2>1. PICK j \in 1 .. Len(Entries) : o = Shift + j /\ ~(AtRoot /\ Entries[j])
    BY <1>2 DEF EntOffs
  <2>2. o - Shift = j /\ o \in Nat
    BY <2>1, DirNumbers
  <2> QED BY <2>1, <2>2
<1>4. ASSUME NEW o \in Nat, o - Shift \in 1 .. Len(Entries), ~(AtRoot /\ Entries[o - Shift]) PROVE o \in EntOffs
  <2>1. o - Shift \in Expected.ent /\ o = Shift + (o - Shift)
    BY <1>2, <1>4, DirNumbers
  <2> QED BY <2>1 DEF EntOffs
<1> QED BY <1>1, <1>3, <1>4, DirNumbers DEF Offs

\* a place in a directory
LEMMA PlaceFields ==
  ASSUME NEW d \in DirSet
  PROVE  /\ d.loc \in Nat /\ d.pos \in Nat
         /\ \A loc \in Nat : \A x : x = [d EXCEPT !.loc = loc] =>
              /\ x \in DirSet /\ x.loc = loc /\ x.pos = d.pos /\ x.open = d.open /\ x.got = d.got
              /\ x.answer = d.answer /\ x.ended = d.ended
         /\ \A pos \in Nat : \A x : x = [d EXCEPT !.pos = pos] =>
              /\ x \in DirSet /\ x.loc = d.loc /\ x.pos = pos /\ x.open = d.open /\ x.got = d.got
              /\ x.answer = d.answer /\ x.ended = d.ended
BY DEF DirSet

\* The next name after a place in the directory of the MDAL.
LEMMA ReadMdalGives ==
  ASSUME NEW d \in DirSet, HasSub => InMdal(d.loc)
  PROVE  LET r == ReadMdal(d)
             k == Shift + d.pos
         IN  /\ r.d \in DirSet /\ r.d.open = d.open /\ r.d.got = d.got /\ r.d.answer = d.answer /\ r.d.ended = d.ended
             /\ r.d.loc = d.loc
             /\ \/ r.name = NoName /\ \A o \in EntOffs : o <= k
                \/ /\ r.name # NoName
                   /\ \E o \in EntOffs : /\ o > k /\ (\A p \in EntOffs : p > k => o <= p)
                                         /\ r.name = <<"entry", o - Shift>> /\ r.d.pos = o - Shift
<1> DEFINE N == NextEntry(d)
           r == ReadMdal(d)
           k == Shift + d.pos
<1>1. d.pos \in Nat
  BY PlaceFields
<1>2. N = {j \in d.pos + 1 .. Len(Entries) : ~(AtRoot /\ Entries[j])} /\ N \in SUBSET Nat
  BY <1>1 DEF NextEntry
<1>3. CASE N = {}
  <2> DEFINE x == [d EXCEPT !.pos = Len(Entries)]
  <2>1. r = [d |-> x, name |-> NoName]
    BY <1>3 DEF ReadMdal
  <2>2. /\ x \in DirSet /\ x.loc = d.loc /\ x.open = d.open /\ x.got = d.got /\ x.answer = d.answer /\ x.ended = d.ended
    BY DirNumbers, PlaceFields
  <2>3. \A o \in EntOffs : o <= k
    <3> TAKE o \in EntOffs
    <3>1. o \in Nat /\ o - Shift \in 1 .. Len(Entries) /\ ~(AtRoot /\ Entries[o - Shift])
      BY OffsAre
    <3>2. ~(o - Shift >= d.pos + 1)
      BY <1>2, <1>3, <3>1, <1>1, DirNumbers
    <3> QED BY <1>1, <3>1, <3>2, DirNumbers
  <2> HIDE DEF x, r, k
  <2>4. r.d = x /\ r.name = NoName
    BY <2>1
  <2> QED BY <2>2, <2>3, <2>4 DEF r, k
<1>4. CASE N # {}
  <2> DEFINE m == Least(N)
             x == [d EXCEPT !.pos = m]
             o == Shift + m
  <2>1. m \in N /\ \A j \in N : m <= j
    BY <1>2, <1>4, LeastIsLeast
  <2>2. m \in Nat /\ m \in d.pos + 1 .. Len(Entries) /\ ~(AtRoot /\ Entries[m])
    BY <1>2, <2>1
  <2>3. r = [d |-> x, name |-> <<"entry", m>>]
    BY <1>4 DEF ReadMdal
  <2> HIDE DEF m, N
  <2>4. x \in DirSet /\ x.loc = d.loc /\ x.pos = m /\ x.open = d.open /\ x.got = d.got /\ x.answer = d.answer /\ x.ended = d.ended
    BY <2>2, PlaceFields
  <2>5. o \in EntOffs /\ o > k /\ o - Shift = m
    <3>1. o \in Nat /\ o > k /\ o - Shift = m
      BY <1>1, <2>2, DirNumbers
    <3>2. o - Shift \in 1 .. Len(Entries) /\ ~(AtRoot /\ Entries[o - Shift])
      BY <1>1, <2>2, <3>1, DirNumbers
    <3> HIDE DEF o, k
    <3> QED BY <3>1, <3>2, OffsAre
  <2>6. \A p \in EntOffs : p > k => o <= p
    <3> SUFFICES ASSUME NEW p \in EntOffs, p > k PROVE o <= p
      OBVIOUS
    <3>1. p \in Nat /\ p - Shift \in 1 .. Len(Entries) /\ ~(AtRoot /\ Entries[p - Shift])
      BY OffsAre
    <3>2. p - Shift \in d.pos + 1 .. Len(Entries)
      BY <1>1, <3>1, DirNumbers
    <3>3. m <= p - Shift
      BY <1>2, <2>1, <3>1, <3>2
    <3> QED BY <2>2, <3>1, <3>3, DirNumbers
  <2> HIDE DEF x, r, k, o
  <2>7. r.d = x /\ r.name = <<"entry", m>>
    BY <2>3
  <2>8. r.name # NoName
    BY <2>7 DEF NoName
  <2> QED BY <2>4, <2>5, <2>6, <2>7, <2>8 DEF r, k
<1> QED BY <1>3, <1>4

\* marfs_readdir(): the next name after the place it is at, which it moves to
LEMMA ReaddirGives ==
  ASSUME NEW d \in DirSet, AtStart(d)
  PROVE  LET r == marfs_readdir(d)
             k == marfs_telldir(d)
         IN  /\ r.d \in DirSet /\ r.d.open = d.open /\ r.d.got = d.got /\ r.d.answer = d.answer /\ r.d.ended = d.ended
             /\ AtStart(r.d)
             /\ \/ r.name = NoName /\ \A o \in Offs : o <= k
                \/ /\ r.name # NoName
                   /\ \E o \in Offs : /\ o > k /\ (\A p \in Offs : p > k => o <= p)
                                      /\ r.name = NameAt(o) /\ marfs_telldir(r.d) = o
<1> DEFINE r == marfs_readdir(d)
           k == marfs_telldir(d)
<1>1. d.loc \in Nat /\ d.pos \in Nat
  BY PlaceFields
<1>2. ASSUME NEW e \in DirSet, HasSub => InMdal(e.loc), r = ReadMdal(e), k <= Shift + e.pos,
             \A o \in Offs : o > k <=> o \in EntOffs /\ o > Shift + e.pos,
             e.open = d.open /\ e.got = d.got /\ e.answer = d.answer /\ e.ended = d.ended
      PROVE  /\ r.d \in DirSet /\ r.d.open = d.open /\ r.d.got = d.got /\ r.d.answer = d.answer /\ r.d.ended = d.ended
             /\ AtStart(r.d)
             /\ \/ r.name = NoName /\ \A o \in Offs : o <= k
                \/ /\ r.name # NoName
                   /\ \E o \in Offs : /\ o > k /\ (\A p \in Offs : p > k => o <= p)
                                      /\ r.name = NameAt(o) /\ marfs_telldir(r.d) = o
  <2> HIDE DEF r, k
  <2>1. /\ r.d \in DirSet /\ r.d.open = d.open /\ r.d.got = d.got /\ r.d.answer = d.answer /\ r.d.ended = d.ended
        /\ r.d.loc = e.loc
        /\ \/ r.name = NoName /\ \A o \in EntOffs : o <= Shift + e.pos
           \/ /\ r.name # NoName
              /\ \E o \in EntOffs : /\ o > Shift + e.pos /\ (\A p \in EntOffs : p > Shift + e.pos => o <= p)
                                    /\ r.name = <<"entry", o - Shift>> /\ r.d.pos = o - Shift
    BY <1>2, ReadMdalGives
  <2>2. AtStart(r.d)
    BY <1>2, <2>1 DEF AtStart
  <2>3. k \in Nat /\ e.pos \in Nat /\ e.loc \in Nat
    BY <1>1, <1>2, PlaceFields, DirNumbers DEF k, marfs_telldir, Mask
  <2>4. CASE r.name = NoName /\ \A o \in EntOffs : o <= Shift + e.pos
    <3>1. ASSUME NEW o \in Offs PROVE o <= k
      <4>1. o \in Nat /\ ~(o > k)
        BY <1>2, <2>3, <2>4, OffsAre, DirNumbers
      <4> QED BY <2>3, <4>1
    <3> QED BY <2>1, <2>2, <2>4, <3>1
  <2>5. ASSUME r.name # NoName, NEW o \in EntOffs, o > Shift + e.pos, \A p \in EntOffs : p > Shift + e.pos => o <= p,
               r.name = <<"entry", o - Shift>>, r.d.pos = o - Shift
        PROVE  o \in Offs /\ o > k /\ (\A p \in Offs : p > k => o <= p) /\ r.name = NameAt(o) /\ marfs_telldir(r.d) = o
    <3>1. o \in Offs /\ o \in Nat /\ o - Shift \in 1 .. Len(Entries)
      BY OffsAre DEF Offs
    <3>2. o > k /\ \A p \in Offs : p > k => o <= p
      BY <1>2, <2>5, <3>1
    <3>3. o \notin SubOffs
      BY <3>1, OffsAre, DirNumbers
    <3>4. marfs_telldir(r.d) = Shift + r.d.pos
      <4>1. r.d.pos \in Nat
        BY <2>1, PlaceFields
      <4> QED BY <1>2, <2>1, <4>1, DirNumbers DEF marfs_telldir
    <3>5. marfs_telldir(r.d) = o
      BY <2>5, <3>1, <3>4, DirNumbers
    <3> QED BY <2>5, <3>1, <3>2, <3>3, <3>5 DEF NameAt
  <2> QED BY <2>1, <2>2, <2>4, <2>5
<1>3. CASE ~HasSub \/ InMdal(d.loc)
  <2>1. r = ReadMdal(d) /\ k = Shift + d.pos
    BY <1>1, <1>3, DirNumbers DEF marfs_readdir, marfs_telldir
  <2>2. \A o \in Offs : o > k <=> o \in EntOffs /\ o > Shift + d.pos
    <3> TAKE o \in Offs
    <3>1. o \in SubOffs => ~(o > k)
      BY <1>1, <2>1, OffsAre, DirNumbers
    <3> QED BY <2>1, <3>1 DEF Offs
  <2>3. k <= Shift + d.pos
    BY <1>1, <2>1, DirNumbers
  <2> HIDE DEF r, k
  <2> QED BY <1>2, <1>3, <2>1, <2>2, <2>3 DEF r, k
<1>4. CASE HasSub /\ ~InMdal(d.loc)
  <2>1. k = d.loc /\ d.pos = 0 /\ d.loc < Mask
    BY <1>1, <1>4, DirNumbers DEF marfs_telldir, AtStart, InMdal
  <2> DEFINE N == NextSub(d)
  <2>2. N = {i \in d.loc + 1 .. Len(Subspaces) : Subspaces[i]} /\ N \in SUBSET Nat
    BY <1>1 DEF NextSub
  <2>3. CASE N = {}
    <3> DEFINE e == [d EXCEPT !.loc = Mask]
    <3>1. r = ReadMdal(e)
      BY <1>4, <2>3 DEF marfs_readdir
    <3>2. e \in DirSet /\ e.loc = Mask /\ e.pos = 0 /\ e.open = d.open /\ e.got = d.got /\ e.answer = d.answer /\ e.ended = d.ended
      BY <2>1, DirNumbers, PlaceFields
    <3> HIDE DEF e
    <3>3. InMdal(e.loc) /\ k <= Shift + e.pos
      BY <1>1, <1>4, <2>1, <3>2, DirNumbers DEF InMdal
    <3>4. \A o \in Offs : o > k <=> o \in EntOffs /\ o > Shift + e.pos
      <4> TAKE o \in Offs
      <4>1. ASSUME o \in SubOffs PROVE ~(o > k) /\ o \notin EntOffs
        BY <1>1, <1>4, <2>1, <2>2, <2>3, <4>1, OffsAre, DirNumbers
      <4>2. ASSUME o \in EntOffs PROVE o > k /\ o > Shift + e.pos
        BY <1>1, <1>4, <2>1, <3>2, <4>2, OffsAre, DirNumbers
      <4> QED BY <4>1, <4>2 DEF Offs
    <3> HIDE DEF r, k
    <3> QED BY <1>2, <3>1, <3>2, <3>3, <3>4 DEF r, k
  <2>4. CASE N # {}
    <3> DEFINE m == Least(N)
               x == [d EXCEPT !.loc = m]
    <3>1. m \in N /\ \A j \in N : m <= j
      BY <2>2, <2>4, LeastIsLeast
    <3>2. m \in Nat /\ m \in d.loc + 1 .. Len(Subspaces) /\ Subspaces[m]
      BY <2>2, <3>1
    <3>3. r = [d |-> x, name |-> <<"subspace", m>>]
      BY <1>4, <2>4 DEF marfs_readdir
    <3> HIDE DEF m, N
    <3>4. x \in DirSet /\ x.loc = m /\ x.pos = d.pos /\ x.open = d.open /\ x.got = d.got /\ x.answer = d.answer /\ x.ended = d.ended
      BY <3>2, PlaceFields
    <3>5. m \in SubOffs /\ m \in Offs /\ m > k /\ m < Mask
      BY <1>1, <1>4, <2>1, <3>2, OffsAre, DirNumbers DEF Offs
    <3>6. ASSUME NEW p \in Offs, p > k PROVE m <= p
      <4>1. CASE p \in SubOffs
        BY <1>1, <2>1, <2>2, <3>1, <3>6, <4>1, OffsAre, DirNumbers
      <4>2. CASE p \in EntOffs
        BY <1>4, <3>2, <3>5, <4>2, OffsAre, DirNumbers
      <4> QED BY <4>1, <4>2 DEF Offs
    <3> HIDE DEF x, r, k
    <3>7. r.d = x /\ r.name = <<"subspace", m>> /\ r.name = NameAt(m)
      BY <3>3, <3>5 DEF NameAt
    <3>8. r.name # NoName
      BY <3>7 DEF NoName
    <3>9. AtStart(r.d)
      BY <2>1, <3>4, <3>7 DEF AtStart
    <3>10. marfs_telldir(r.d) = m
      BY <1>4, <3>2, <3>4, <3>5, <3>7, DirNumbers DEF marfs_telldir, InMdal
    <3> QED BY <3>4, <3>5, <3>6, <3>7, <3>8, <3>9, <3>10 DEF r, k
  <2> QED BY <2>3, <2>4
<1> QED BY <1>3, <1>4

\* nothing was given, and nothing was left out
LEMMA NothingIsRight == Right(<<>>) /\ LastOff(<<>>) = 0
<1> DEFINE e == <<>>
<1>1. Len(e) = 0 /\ LastOff(e) = 0
  BY DEF LastOff
<1>2. \A o \in Offs : o > 0
  BY OffsAre, DirNumbers DEF Offs
<1>3. Right(e)
  BY <1>1, <1>2, OffsAre DEF Right, InOrder, OwnNames, NoneLeftOut
<1> QED BY <1>1, <1>3

\* a prefix of what was given
LEMMA PrefixIsRight ==
  ASSUME NEW got \in Seq(Given), Right(got), NEW n \in 0 .. Len(got)
  PROVE  SubSeq(got, 1, n) \in Seq(Given) /\ Right(SubSeq(got, 1, n))
<1> DEFINE g == SubSeq(got, 1, n)
<1>1. g \in Seq(Given) /\ Len(g) = n /\ \A i \in 1 .. n : g[i] = got[i]
  OBVIOUS
<1>2. n \in Nat /\ n <= Len(got) /\ Len(got) \in Nat
  OBVIOUS
<1>3. \A i \in 1 .. Len(got) : got[i].off \in Nat
  <2>1. \A i \in 1 .. Len(got) : got[i] \in Given
    OBVIOUS
  <2>2. \A x \in Given : x.off \in Nat
    BY DEF Given
  <2> QED BY <2>1, <2>2
<1> HIDE DEF g
<1>4. CASE n = 0
  <2>1. g = <<>>
    BY <1>1, <1>4
  <2> QED BY <1>1, <2>1, NothingIsRight DEF g
<1>5. CASE n # 0
  <2>1. LastOff(g) = got[n].off
    BY <1>1, <1>2, <1>5 DEF LastOff
  <2>2. LastOff(got) = got[Len(got)].off
    BY <1>2, <1>5 DEF LastOff
  <2>3. got[n].off <= got[Len(got)].off
    BY <1>2, <1>3, <1>5 DEF Right, InOrder
  <2>4. InOrder(g)
    BY <1>1, <1>2 DEF Right, InOrder
  <2>5. OwnNames(g)
    BY <1>1, <1>2 DEF Right, OwnNames
  <2>6. ASSUME NEW o \in Offs, o <= LastOff(g) PROVE \E i \in 1 .. Len(g) : g[i].off = o
    <3>1. o \in Nat /\ o <= LastOff(got)
      BY <1>2, <1>3, <1>5, <2>1, <2>2, <2>3, <2>6, OffsAre
    <3>2. PICK i \in 1 .. Len(got) : got[i].off = o
      BY <3>1 DEF Right, NoneLeftOut
    <3>3. ~(n < i)
      BY <1>2, <1>3, <1>5, <2>1, <2>6, <3>1, <3>2 DEF Right, InOrder
    <3> QED BY <1>1, <1>2, <3>2, <3>3
  <2> QED BY <1>1, <2>4, <2>5, <2>6 DEF Right, NoneLeftOut, g
<1> QED BY <1>4, <1>5

\* the next name is given
LEMMA NextIsRight ==
  ASSUME NEW got \in Seq(Given), Right(got), NEW o \in Offs, o > LastOff(got),
         \A p \in Offs : p > LastOff(got) => o <= p,
         NEW e \in Given, e.name = NameAt(o), e.off = o
  PROVE  Append(got, e) \in Seq(Given) /\ Right(Append(got, e)) /\ LastOff(Append(got, e)) = o
<1> DEFINE g == Append(got, e)
           n == Len(got)
<1>1. n \in Nat /\ g \in Seq(Given) /\ Len(g) = n + 1 /\ g[n + 1] = e /\ \A i \in 1 .. n : g[i] = got[i]
  OBVIOUS
<1>2. \A i \in 1 .. n : got[i].off \in Nat
  <2>1. \A i \in 1 .. n : got[i] \in Given
    OBVIOUS
  <2>2. \A x \in Given : x.off \in Nat
    BY DEF Given
  <2> QED BY <2>1, <2>2
<1> HIDE DEF g
<1>3. LastOff(g) = o
  <2>1. g # <<>>
    BY <1>1
  <2> QED BY <1>1, <2>1 DEF LastOff
<1>4. \A i \in 1 .. n : got[i].off < o
  <2> TAKE i \in 1 .. n
  <2>1. LastOff(got) = got[n].off /\ n \in 1 .. n
    BY <1>1 DEF LastOff
  <2>2. i < n => got[i].off < got[n].off
    BY <2>1 DEF Right, InOrder
  <2> QED BY <1>1, <1>2, <2>1, <2>2, OffsAre
<1>5. InOrder(g)
  <2> SUFFICES ASSUME NEW i \in 1 .. n + 1, NEW j \in 1 .. n + 1, i < j PROVE g[i].off < g[j].off
    BY <1>1 DEF InOrder
  <2>1. i \in 1 .. n
    BY <1>1
  <2>2. CASE j \in 1 .. n
    BY <1>1, <2>1, <2>2 DEF Right, InOrder
  <2>3. CASE j = n + 1
    BY <1>1, <1>4, <2>1, <2>3
  <2> QED BY <1>1, <2>2, <2>3
<1>6. OwnNames(g)
  <2> SUFFICES ASSUME NEW i \in 1 .. n + 1 PROVE g[i].off \in Offs /\ g[i].name = NameAt(g[i].off)
    BY <1>1 DEF OwnNames
  <2>1. CASE i \in 1 .. n
    BY <1>1, <2>1 DEF Right, OwnNames
  <2>2. CASE i = n + 1
    BY <1>1, <2>2
  <2> QED BY <1>1, <2>1, <2>2
<1>7. ASSUME NEW p \in Offs, p <= LastOff(g) PROVE \E i \in 1 .. Len(g) : g[i].off = p
  <2>1. CASE p > LastOff(got)
    <3>1. p = o
      BY <1>3, <1>7, <2>1, OffsAre
    <3> QED BY <1>1, <3>1
  <2>2. CASE ~(p > LastOff(got))
    <3>1. LastOff(got) \in Nat
      <4>1. CASE got = <<>>
        BY <4>1 DEF LastOff
      <4>2. CASE got # <<>>
        BY <1>1, <1>2, <4>2 DEF LastOff
      <4> QED BY <4>1, <4>2
    <3>2. p <= LastOff(got)
      BY <2>2, <3>1, OffsAre
    <3>3. PICK i \in 1 .. n : got[i].off = p
      BY <3>2 DEF Right, NoneLeftOut
    <3> QED BY <1>1, <3>3
  <2> QED BY <2>1, <2>2
<1> QED BY <1>1, <1>3, <1>5, <1>6, <1>7 DEF Right, NoneLeftOut, g

\* the directory stays as it is: a thread may come to it, if there is none
LEMMA ListKept ==
  ASSUME ListInv, NEW t \in Threads, ThreadMoves(t), UNCHANGED dh,
         \/ thr'[t].at \notin ListAts
         \/ ~Listing /\ thr'[t].at # "list"
  PROVE  ListInv'
<1>1. \A s \in Threads : s # t => thr'[s] = thr[s]
  BY DEF ThreadMoves
<1>2. OneLists'
  BY <1>1 DEF ListInv, OneLists, Listing, ListAts
<1>3. InPlace'
  BY <1>1 DEF ListInv, InPlace, Listing, ListAts
<1> QED BY <1>2, <1>3 DEF ListInv, AllGiven, AtStart

\* the directory changes and nobody lists it
LEMMA NobodyLists ==
  ASSUME ListInv, NEW t \in Threads, ThreadMoves(t), thr'[t].at = "idle", thr[t].at \in ListAts,
         (dh \in DirSet)', AtStart(dh)', Right(dh.got)', AllGiven'
  PROVE  ListInv'
<1>1. \A s \in Threads : s # t => thr'[s] = thr[s]
  BY DEF ThreadMoves
<1>2. \A s \in Threads : thr'[s].at \notin ListAts
  BY <1>1 DEF ListInv, OneLists, ListAts
<1> QED BY <1>2 DEF ListInv, OneLists, InPlace, ListAts

\* the names are names
LEMMA NamesAreGiven ==
  ASSUME NEW o \in Offs
  PROVE  \A x : x = [name |-> NameAt(o), off |-> o] => x \in Given /\ x.name = NameAt(o) /\ x.off = o
<1>1. o \in Nat /\ (o \notin SubOffs => o - Shift \in Nat)
  BY OffsAre, DirNumbers DEF Offs
<1>2. NameAt(o) \in {"subspace", "entry"} \X Nat
  BY <1>1 DEF NameAt
<1> QED BY <1>1, <1>2 DEF Given

\* the record of a directory
LEMMA DirFields ==
  ASSUME NEW d \in DirSet
  PROVE  /\ d.got \in Seq(Given) /\ d.answer \in 0 .. BufSize /\ d.ended \in BOOLEAN
         /\ \A x : x = [d EXCEPT !.answer = 0] =>
              x \in DirSet /\ x.loc = d.loc /\ x.pos = d.pos /\ x.got = d.got /\ x.ended = d.ended
         /\ \A e \in BOOLEAN : \A x : x = [d EXCEPT !.ended = e] =>
              x \in DirSet /\ x.loc = d.loc /\ x.pos = d.pos /\ x.got = d.got /\ x.ended = e
<1>1. 0 \in 0 .. BufSize
  BY DirNumbers
<1> QED BY <1>1 DEF DirSet

\* a directory that has just been opened, or is not open
LEMMA NoDirIsRight ==
  ASSUME NEW x, x = NoDir \/ \E ok \in BOOLEAN : x = [NoDir EXCEPT !.open = ok]
  PROVE  x \in DirSet /\ AtStart(x) /\ Right(x.got) /\ x.ended = FALSE
<1> DEFINE e == <<>>
<1>1. e \in Seq(Given) /\ 0 \in 0 .. BufSize
  BY DirNumbers
<1>2. NoDir = [open |-> FALSE, loc |-> 0, pos |-> 0, got |-> e, answer |-> 0, ended |-> FALSE]
  BY DEF NoDir
<1>3. Right(e)
  BY NothingIsRight
<1> HIDE DEF e
<1>4. NoDir \in DirSet /\ NoDir.pos = 0 /\ NoDir.got = e /\ NoDir.ended = FALSE
  BY <1>1, <1>2 DEF DirSet
<1>5. \A ok \in BOOLEAN : \A y : y = [NoDir EXCEPT !.open = ok] =>
        y \in DirSet /\ y.pos = NoDir.pos /\ y.got = NoDir.got /\ y.ended = NoDir.ended
  BY <1>4 DEF DirSet
<1>6. x \in DirSet /\ x.pos = 0 /\ x.got = e /\ x.ended = FALSE
  BY <1>4, <1>5
<1> QED BY <1>3, <1>6 DEF AtStart

\* fuse_opendir() and fuse_releasedir(), when they are done
LEMMA OpendirStep ==
  ASSUME ListInv, NEW t \in Threads, ThreadMoves(t), thr'[t].at = "idle", Opendir(t) \/ marfs_closedir(t)
  PROVE  ListInv'
<1>1. dh' = NoDir \/ \E ok \in BOOLEAN : dh' = [NoDir EXCEPT !.open = ok]
  BY DEF Opendir, marfs_closedir
<1>2. dh' \in DirSet /\ AtStart(dh') /\ Right(dh'.got) /\ dh'.ended = FALSE
  BY <1>1, NoDirIsRight
<1>3. thr[t].at \in ListAts
  BY DEF Opendir, marfs_closedir, ListAts
<1>4. AtStart(dh)' /\ Right(dh.got)' /\ AllGiven'
  BY <1>2 DEF AtStart, Right, InOrder, OwnNames, NoneLeftOut, LastOff, AllGiven
<1> QED BY <1>2, <1>3, <1>4, NobodyLists

\* the kernel goes back to a name it has
LEMMA KernelSeeksStep ==
  ASSUME ListInv, KernelSeeks
  PROVE  ListInv'
<1>1. PICK n \in 0 .. Len(dh.got) : dh' = [dh EXCEPT !.got = SubSeq(dh.got, 1, n), !.ended = FALSE]
  BY DEF KernelSeeks
<1> DEFINE g == SubSeq(dh.got, 1, n)
<1>2. dh \in DirSet /\ dh.got \in Seq(Given) /\ Right(dh.got)
  BY DirFields DEF ListInv
<1>3. g \in Seq(Given) /\ Right(g)
  BY <1>2, PrefixIsRight
<1>4. dh' = [dh EXCEPT !.got = g, !.ended = FALSE]
  BY <1>1
<1> HIDE DEF g
<1>5. dh' \in DirSet /\ dh'.got = g /\ dh'.ended = FALSE /\ dh'.loc = dh.loc /\ dh'.pos = dh.pos
  BY <1>2, <1>3, <1>4 DEF DirSet
<1>6. thr' = thr /\ ~Listing
  BY DEF KernelSeeks
<1>7. Right(dh'.got)
  BY <1>3, <1>5
<1>8. Right(dh.got)'
  BY <1>7 DEF Right, InOrder, OwnNames, NoneLeftOut, LastOff
<1>9. AtStart(dh)'
  BY <1>5 DEF AtStart, ListInv
<1> QED BY <1>5, <1>6, <1>8, <1>9 DEF ListInv, OneLists, InPlace, AllGiven, Listing, ListAts

\* fuse_readdir() begins: at the place the kernel asks for
LEMMA ReaddirRequest ==
  ASSUME ListInv, NEW t \in Threads, ThreadMoves(t), NEW u \in Callers, fuse_readdir(t, u),
         thr'[t].at = "list" \/ thr'[t].at = "idle"
  PROVE  ListInv'
<1>1. dh \in DirSet /\ ~Listing /\ dh.ended = FALSE /\ dh.got \in Seq(Given)
  BY DirFields DEF ListInv, fuse_readdir
<1>2. CASE thr'[t].at = "idle"
  <2>1. UNCHANGED dh
    BY <1>2 DEF fuse_readdir, Idle
  <2> QED BY <1>2, <2>1, ListKept DEF ListAts
<1>3. CASE thr'[t].at = "list"
  <2> DEFINE k == LastOff(dh.got)
             d == IF k = marfs_telldir(dh) THEN dh
                  ELSE IF k # 0 THEN marfs_seekdir(dh, k) ELSE marfs_rewinddir(dh)
  <2>1. dh' = [d EXCEPT !.answer = 0]
    BY <1>3 DEF fuse_readdir, Idle, Koff, LastOff
  <2>2. k \in Nat
    <3>1. CASE dh.got = <<>>
      BY <3>1 DEF LastOff
    <3>2. CASE dh.got # <<>>
      <4>1. k = dh.got[Len(dh.got)].off /\ dh.got[Len(dh.got)] \in Given
        BY <1>1, <3>2 DEF LastOff
      <4> QED BY <4>1 DEF Given
    <3> QED BY <3>1, <3>2
  <2>3. dh.loc \in Nat /\ dh.pos \in Nat /\ AtStart(dh)
    BY <1>1, PlaceFields DEF ListInv
  <2>4. d \in DirSet /\ d.got = dh.got /\ d.ended = dh.ended /\ AtStart(d) /\ marfs_telldir(d) = k
    <3>1. CASE k = marfs_telldir(dh)
      BY <1>1, <2>3, <3>1
    <3>2. CASE k # marfs_telldir(dh) /\ k # 0
      <4> HIDE DEF k
      <4>1. d = marfs_seekdir(dh, k)
        BY <3>2
      <4>2. CASE ~HasSub
        <5>1. d = [dh EXCEPT !.pos = k]
          BY <4>1, <4>2 DEF marfs_seekdir
        <5> HIDE DEF d
        <5>2. d \in DirSet /\ d.got = dh.got /\ d.ended = dh.ended /\ d.pos = k
          BY <1>1, <2>2, <5>1, PlaceFields
        <5> QED BY <4>2, <5>2 DEF AtStart, marfs_telldir
      <4>3. CASE HasSub /\ InMdal(k)
        <5>1. d = [dh EXCEPT !.loc = Mask, !.pos = k - Mask]
          BY <4>1, <4>3 DEF marfs_seekdir
        <5>2. k - Mask \in Nat /\ Mask \in Nat /\ InMdal(Mask) /\ Mask + (k - Mask) = k
          BY <2>2, <4>3, DirNumbers DEF InMdal
        <5> HIDE DEF d
        <5>3. d \in DirSet /\ d.got = dh.got /\ d.ended = dh.ended /\ d.loc = Mask /\ d.pos = k - Mask
          BY <1>1, <5>1, <5>2 DEF DirSet
        <5> QED BY <4>3, <5>2, <5>3 DEF AtStart, marfs_telldir
      <4>4. CASE HasSub /\ ~InMdal(k)
        <5> DEFINE p == IF InMdal(dh.loc) THEN 0 ELSE dh.pos
        <5>1. d = [dh EXCEPT !.loc = k, !.pos = p]
          BY <4>1, <4>4 DEF marfs_seekdir
        <5>2. p \in Nat /\ p = 0
          BY <2>3, <4>4 DEF AtStart
        <5> HIDE DEF d, p
        <5>3. d \in DirSet /\ d.got = dh.got /\ d.ended = dh.ended /\ d.loc = k /\ d.pos = p
          BY <1>1, <2>2, <5>1, <5>2 DEF DirSet
        <5> QED BY <4>4, <5>2, <5>3 DEF AtStart, marfs_telldir
      <4> QED BY <4>2, <4>3, <4>4
    <3>3. CASE k # marfs_telldir(dh) /\ k = 0
      <4> HIDE DEF k
      <4> DEFINE p == IF ~HasSub \/ InMdal(dh.loc) THEN 0 ELSE dh.pos
      <4>1. d = [dh EXCEPT !.loc = 0, !.pos = p]
        BY <3>3 DEF marfs_rewinddir
      <4>2. p \in Nat /\ p = 0
        BY <2>3 DEF AtStart
      <4> HIDE DEF d, p
      <4>3. d \in DirSet /\ d.got = dh.got /\ d.ended = dh.ended /\ d.loc = 0 /\ d.pos = p
        BY <1>1, <4>1, <4>2 DEF DirSet
      <4>4. ~InMdal(0)
        BY DEF InMdal, Mask
      <4> QED BY <3>3, <4>2, <4>3, <4>4 DEF AtStart, marfs_telldir
    <3> QED BY <3>1, <3>2, <3>3
  <2> HIDE DEF d
  <2>5. dh' \in DirSet /\ dh'.loc = d.loc /\ dh'.pos = d.pos /\ dh'.got = dh.got /\ dh'.ended = FALSE
    BY <1>1, <2>1, <2>4, DirFields
  <2>6. AtStart(dh)'
    BY <2>4, <2>5 DEF AtStart
  <2>7. InPlace'
    BY <2>4, <2>5 DEF InPlace, marfs_telldir, LastOff
  <2>8. Right(dh.got)'
    BY <2>5 DEF ListInv, Right, InOrder, OwnNames, NoneLeftOut, LastOff
  <2>9. OneLists'
    BY <1>1 DEF ThreadMoves, OneLists, Listing, ListAts
  <2> QED BY <2>5, <2>6, <2>7, <2>8, <2>9 DEF ListInv, AllGiven
<1> QED BY <1>2, <1>3

\* what becomes of the name marfs_readdir() gives
LEMMA ReaddirOutcomes ==
  ASSUME dh \in DirSet, NEW t \in Threads, ReaddirStep(t)
  PROVE  LET r == marfs_readdir(dh)
         IN  \/ r.name = NoName /\ dh' = [r.d EXCEPT !.ended = (dh.answer = 0)] /\ Return(t)
             \/ r.name # NoName /\ dh' = r.d /\ Return(t)
             \/ /\ r.name # NoName /\ dh.answer < BufSize
                /\ dh' = [r.d EXCEPT !.got = Append(@, [name |-> r.name, off |-> marfs_telldir(r.d)]), !.answer = @ + 1]
                /\ UNCHANGED thr
<1> DEFINE r == marfs_readdir(dh)
<1>1. dh.answer \in 0 .. BufSize /\ BufSize \in Nat
  BY DirFields, DirNumbers
<1>2. CASE r.name = NoName
  BY <1>2 DEF ReaddirStep
<1>3. CASE r.name # NoName /\ dh.answer = BufSize
  BY <1>3 DEF ReaddirStep
<1>4. CASE r.name # NoName /\ dh.answer < BufSize
  <2>1. dh.answer # BufSize
    BY <1>1, <1>4
  <2> QED BY <1>4, <2>1 DEF ReaddirStep
<1> HIDE DEF r
<1> QED BY <1>1, <1>2, <1>3, <1>4 DEF r

\* fuse_readdir() takes a name, or comes to the end of its answer or of the directory
LEMMA ReaddirStepIsRight ==
  ASSUME ListInv, NEW t \in Threads, ReaddirStep(t), Typed, thr' = thr \/ (ThreadMoves(t) /\ thr'[t].at = "idle"),
         Return(t) => thr'[t].at = "idle" /\ ThreadMoves(t)
  PROVE  ListInv'
<1> DEFINE r == marfs_readdir(dh)
           k == marfs_telldir(dh)
<1>1. dh \in DirSet /\ AtStart(dh) /\ k = LastOff(dh.got) /\ Right(dh.got) /\ AllGiven /\ thr[t].at \in ListAts
  BY DEF ListInv, ReaddirStep, InPlace, ListAts
<1>2. /\ r.d \in DirSet /\ r.d.got = dh.got /\ r.d.answer = dh.answer /\ r.d.ended = dh.ended
      /\ AtStart(r.d)
      /\ \/ r.name = NoName /\ \A o \in Offs : o <= k
         \/ /\ r.name # NoName
            /\ \E o \in Offs : /\ o > k /\ (\A p \in Offs : p > k => o <= p)
                               /\ r.name = NameAt(o) /\ marfs_telldir(r.d) = o
  BY <1>1, ReaddirGives
<1>3. \/ r.name = NoName /\ dh' = [r.d EXCEPT !.ended = (dh.answer = 0)] /\ Return(t)
      \/ r.name # NoName /\ dh' = r.d /\ Return(t)
      \/ /\ r.name # NoName /\ dh.answer < BufSize
         /\ dh' = [r.d EXCEPT !.got = Append(@, [name |-> r.name, off |-> marfs_telldir(r.d)]), !.answer = @ + 1]
         /\ UNCHANGED thr
  BY <1>1, ReaddirOutcomes
<1>4. PICK x : x = r.d
  OBVIOUS
<1>5. CASE r.name = NoName /\ dh' = [r.d EXCEPT !.ended = (dh.answer = 0)] /\ Return(t)
  <2>1. \A o \in Offs : o <= k
    BY <1>2, <1>5
  <2>2. dh' \in DirSet /\ dh'.loc = x.loc /\ dh'.pos = x.pos /\ dh'.got = dh.got
    <3> DEFINE end == dh.answer = 0
    <3>1. end \in BOOLEAN /\ dh' = [x EXCEPT !.ended = end] /\ x \in DirSet /\ x.got = dh.got
      BY <1>2, <1>4, <1>5
    <3> HIDE DEF end
    <3> QED BY <3>1, DirFields
  <2>3. AtStart(x)
    BY <1>2, <1>4
  <2>4. AtStart(dh)' /\ Right(dh.got)' /\ AllGiven'
    BY <1>1, <2>1, <2>2, <2>3 DEF AtStart, Right, InOrder, OwnNames, NoneLeftOut, LastOff, AllGiven
  <2> QED BY <1>1, <1>5, <2>2, <2>4, NobodyLists
<1>6. CASE r.name # NoName /\ dh' = r.d /\ Return(t)
  <2>1. dh' = x /\ x \in DirSet /\ x.got = dh.got /\ x.ended = dh.ended /\ AtStart(x)
    BY <1>2, <1>4, <1>6
  <2>2. AtStart(dh)' /\ Right(dh.got)' /\ AllGiven'
    BY <1>1, <2>1 DEF AtStart, Right, InOrder, OwnNames, NoneLeftOut, LastOff, AllGiven
  <2> QED BY <1>1, <1>6, <2>1, <2>2, NobodyLists
<1>7. CASE /\ r.name # NoName /\ dh.answer < BufSize
           /\ dh' = [r.d EXCEPT !.got = Append(@, [name |-> r.name, off |-> marfs_telldir(r.d)]), !.answer = @ + 1]
           /\ UNCHANGED thr
  <2>1. PICK o \in Offs : /\ o > k /\ (\A p \in Offs : p > k => o <= p)
                          /\ r.name = NameAt(o) /\ marfs_telldir(x) = o
    BY <1>2, <1>4, <1>7
  <2> DEFINE e == [name |-> NameAt(o), off |-> o]
             g == Append(dh.got, e)
  <2>2. e \in Given /\ e.name = NameAt(o) /\ e.off = o
    BY NamesAreGiven
  <2> HIDE DEF e
  <2>3. g \in Seq(Given) /\ Right(g) /\ LastOff(g) = o
    BY <1>1, <2>1, <2>2, NextIsRight, DirFields
  <2>4. dh' = [x EXCEPT !.got = g, !.answer = dh.answer + 1]
    BY <1>2, <1>4, <1>7, <2>1 DEF e
  <2>5. dh.answer + 1 \in 0 .. BufSize /\ x \in DirSet /\ x.ended = dh.ended /\ AtStart(x)
    BY <1>1, <1>2, <1>4, <1>7, DirFields, DirNumbers
  <2> HIDE DEF g
  <2>6. dh' \in DirSet /\ dh'.loc = x.loc /\ dh'.pos = x.pos /\ dh'.got = g /\ dh'.ended = dh.ended
    BY <2>3, <2>4, <2>5 DEF DirSet
  <2>7. dh.ended = FALSE
    <3>1. o \in Nat /\ k \in Nat
      BY <1>1, PlaceFields, DirNumbers, OffsAre DEF marfs_telldir
    <3>2. ~(o <= k)
      BY <2>1, <3>1
    <3> QED BY <1>1, <3>2, DirFields DEF AllGiven
  <2>8. AtStart(dh)'
    BY <2>5, <2>6 DEF AtStart
  <2>9. marfs_telldir(dh)' = LastOff(dh.got)'
    BY <2>1, <2>3, <2>6 DEF marfs_telldir, LastOff
  <2>10. Right(dh.got)'
    BY <2>3, <2>6 DEF Right, InOrder, OwnNames, NoneLeftOut, LastOff
  <2> QED BY <1>7, <2>6, <2>7, <2>8, <2>9, <2>10 DEF ListInv, OneLists, InPlace, AllGiven
<1> QED BY <1>3, <1>5, <1>6, <1>7

\* as many offsets as there are subspaces and entries
LEMMA OffsCount ==
  /\ IsFiniteSet(Offs) /\ SubOffs = Expected.sub
  /\ Cardinality(Offs) = Cardinality(Expected.sub) + Cardinality(Expected.ent)
<1> DEFINE sub == Expected.sub
           ent == Expected.ent
<1>1. sub = SubOffs /\ sub \subseteq 1 .. Len(Subspaces) /\ ent \subseteq 1 .. Len(Entries)
  BY DirNumbers DEF Expected, SubOffs
<1>2. IsFiniteSet(1 .. Len(Subspaces)) /\ IsFiniteSet(1 .. Len(Entries))
  BY DirNumbers, FS_Interval
<1>3. IsFiniteSet(sub) /\ IsFiniteSet(ent)
  BY <1>1, <1>2, FS_Subset
<1>4. EntOffs = {Shift + j : j \in ent}
  BY DEF EntOffs
<1> HIDE DEF sub, ent
<1>5. IsFiniteSet(EntOffs) /\ Cardinality(EntOffs) = Cardinality(ent)
  <2> DEFINE f == [j \in ent |-> Shift + j]
  <2>1. f \in Bijection(ent, EntOffs)
    <3>1. f \in [ent -> EntOffs]
      BY <1>4
    <3>2. \A i, j \in ent : f[i] = f[j] => i = j
      <4> SUFFICES ASSUME NEW i \in ent, NEW j \in ent, Shift + i = Shift + j PROVE i = j
        OBVIOUS
      <4>1. i \in Nat /\ j \in Nat
        BY <1>1, DirNumbers
      <4> QED BY <4>1, DirNumbers
    <3>3. \A o \in EntOffs : \E j \in ent : f[j] = o
      BY <1>4
    <3> HIDE DEF f
    <3> QED BY <3>1, <3>2, <3>3 DEF Bijection, Injection, Surjection, IsInjective
  <2>2. ExistsBijection(ent, EntOffs)
    BY <2>1 DEF ExistsBijection
  <2> QED BY <1>3, <2>2, FS_Bijection
<1>6. SubOffs \cap EntOffs = {}
  <2> SUFFICES ASSUME NEW o \in SubOffs, o \in EntOffs PROVE FALSE
    OBVIOUS
  <2> QED BY OffsAre, DirNumbers
<1>7. /\ IsFiniteSet(SubOffs \cup EntOffs)
      /\ Cardinality(SubOffs \cup EntOffs) = Cardinality(SubOffs) + Cardinality(EntOffs) - Cardinality(SubOffs \cap EntOffs)
  BY <1>1, <1>3, <1>5, FS_Union
<1>8. Cardinality(SubOffs \cap EntOffs) = 0 /\ Cardinality(SubOffs) \in Nat /\ Cardinality(EntOffs) \in Nat
  BY <1>1, <1>3, <1>5, <1>6, FS_EmptySet, FS_CardinalityType
<1> QED BY <1>1, <1>5, <1>7, <1>8 DEF Offs, sub, ent

\* what was given is all there is
LEMMA ListIsComplete == ListInv => ListingComplete
<1> SUFFICES ASSUME ListInv, dh.ended
             PROVE  LET names == [i \in DOMAIN dh.got |-> dh.got[i].name]
                    IN  /\ {names[i] : i \in DOMAIN names} =
                             {<<"subspace", i>> : i \in Expected.sub} \cup {<<"entry", j>> : j \in Expected.ent}
                        /\ Len(names) = Cardinality(Expected.sub) + Cardinality(Expected.ent)
  BY DEF ListingComplete
<1> DEFINE got == dh.got
           n == Len(got)
           names == [i \in DOMAIN got |-> got[i].name]
<1>1. got \in Seq(Given) /\ Right(got) /\ \A o \in Offs : \E i \in 1 .. n : got[i].off = o
  BY DirFields DEF ListInv, AllGiven, Right, NoneLeftOut
<1> HIDE DEF got
<1>2. n \in Nat /\ DOMAIN got = 1 .. n /\ (\A i \in 1 .. n : got[i] \in Given)
  BY <1>1
<1>3. \A i \in 1 .. n : got[i].off \in Offs /\ got[i].off \in Nat /\ got[i].name = NameAt(got[i].off)
  BY <1>1, OffsAre DEF Right, OwnNames
<1>4. {names[i] : i \in DOMAIN names} = {NameAt(o) : o \in Offs}
  <2>1. {names[i] : i \in DOMAIN names} = {got[i].name : i \in 1 .. n}
    BY <1>2
  <2>2. {got[i].name : i \in 1 .. n} = {NameAt(o) : o \in Offs}
    BY <1>1, <1>3
  <2> QED BY <2>1, <2>2
<1>5. {NameAt(o) : o \in Offs} = {<<"subspace", i>> : i \in Expected.sub} \cup {<<"entry", j>> : j \in Expected.ent}
  <2>1. ASSUME NEW o \in Offs
        PROVE  NameAt(o) \in {<<"subspace", i>> : i \in Expected.sub} \cup {<<"entry", j>> : j \in Expected.ent}
    <3>1. CASE o \in SubOffs
      BY <3>1, OffsCount DEF NameAt
    <3>2. CASE o \notin SubOffs
      <4>1. PICK j \in Expected.ent : o = Shift + j
        BY <3>2 DEF Offs, EntOffs
      <4>2. j \in Nat
        BY <4>1, DirNumbers DEF Expected
      <4>3. o - Shift = j
        BY <4>1, <4>2, DirNumbers
      <4> QED BY <3>2, <4>1, <4>3 DEF NameAt
    <3> QED BY <3>1, <3>2
  <2>2. ASSUME NEW i \in Expected.sub PROVE \E o \in Offs : NameAt(o) = <<"subspace", i>>
    BY OffsCount DEF NameAt, Offs
  <2>3. ASSUME NEW j \in Expected.ent PROVE \E o \in Offs : NameAt(o) = <<"entry", j>>
    <3> DEFINE o == Shift + j
    <3>1. j \in Nat
      BY DirNumbers DEF Expected
    <3>2. o \in EntOffs /\ o - Shift = j
      BY <3>1, DirNumbers DEF EntOffs
    <3> HIDE DEF o
    <3>3. o \notin SubOffs
      BY <3>2, OffsAre, DirNumbers
    <3> QED BY <3>2, <3>3 DEF NameAt, Offs
  <2> QED BY <2>1, <2>2, <2>3
<1>6. Len(names) = n
  <2>1. names \in [1 .. n -> {NameAt(o) : o \in Offs}]
    BY <1>2, <1>3
  <2> HIDE DEF names
  <2> QED BY <1>2, <2>1
<1>7. Cardinality(Offs) = n
  <2> DEFINE f == [i \in 1 .. n |-> got[i].off]
  <2>1. f \in [1 .. n -> Offs]
    BY <1>3
  <2>2. \A i, j \in 1 .. n : f[i] = f[j] => i = j
    <3> SUFFICES ASSUME NEW i \in 1 .. n, NEW j \in 1 .. n, got[i].off = got[j].off PROVE i = j
      OBVIOUS
    <3>1. ~(i < j) /\ ~(j < i)
      BY <1>1, <1>3 DEF Right, InOrder
    <3> QED BY <1>2, <3>1
  <2>3. \A o \in Offs : \E i \in 1 .. n : f[i] = o
    BY <1>1
  <2> HIDE DEF f
  <2>4. f \in Bijection(1 .. n, Offs)
    BY <2>1, <2>2, <2>3 DEF Bijection, Injection, Surjection, IsInjective
  <2>5. ExistsBijection(1 .. n, Offs)
    BY <2>4 DEF ExistsBijection
  <2>6. n \in Int /\ IsFiniteSet(1 .. n) /\ Cardinality(1 .. n) = n
    <3>1. n \in Int /\ 1 \in Int
      BY <1>2
    <3>2. IsFiniteSet(1 .. n) /\ Cardinality(1 .. n) = IF 1 > n THEN 0 ELSE n - 1 + 1
      BY <3>1, FS_Interval
    <3> HIDE DEF n
    <3>3. n \in Nat
      BY <1>2
    <3> QED BY <3>2, <3>3
  <2> QED BY <2>5, <2>6, FS_Bijection
<1> QED BY <1>4, <1>5, <1>6, <1>7, OffsCount DEF got

-----------------------------------------------------------------------------
(* The invariant of the specification *)

\* at the start there are no handles, and nothing has been listed
LEMMA ApiInitInv == Init => ApiInv
<1> SUFFICES ASSUME Init PROVE ApiInv
  OBVIOUS
<1>1. DaemonCred \in CredSet
  BY DEF DaemonCred, CredSet, People
<1>2. \A t \in Threads : thr[t] = IdleThread(DaemonCred) /\ thr[t].at = "idle" /\ thr[t].h = NoOne /\ thr[t].cred = DaemonCred
  BY <1>1, IdleFields DEF Init
<1>3. \A h \in Handles : fh[h] = Free
  BY DEF Init
<1>4. Typed
  BY <1>1, <1>3, IdleFields, HandleFields DEF Init, Typed
<1>5. Known /\ Matched
  BY <1>3, HandleFields, SizesOfHandles DEF Init, Known, Matched
<1>6. Places
  BY <1>2, KindsApart DEF Places, Place, PlainAts, WriteAts
<1>7. Identities
  BY <1>2 DEF Identities, Caller, Returns, Idle
<1>8. HandlesHaveHolders
  BY <1>3, HandleFields DEF HandlesHaveHolders
<1>9. dh \in DirSet /\ AtStart(dh) /\ Right(dh.got) /\ dh.ended = FALSE
  BY NoDirIsRight DEF Init
<1> QED BY <1>2, <1>4, <1>5, <1>6, <1>7, <1>8, <1>9 DEF ApiInv, FilesInv, ListInv, OneLists, InPlace, AllGiven, ListAts

\* a request begins
LEMMA RequestStep ==
  ASSUME ApiInv, NEW t \in Threads, NEW u \in Callers, Request(t, u)
  PROVE  ApiInv'
<1>1. FilesInv /\ ListInv /\ 0 \in Offsets
  BY ZeroOffset DEF ApiInv
<1>2. CASE FusePath(t, u) \/ fuse_readlink(t, u)
  <2>1. PICK kind \in {"path", "readlink"} : Enter(t, kind, u, NoOne, TRUE, 0) /\ UNCHANGED <<fh, fdown, scene, dh, defects>>
    BY <1>2 DEF FusePath, fuse_readlink
  <2>2. FilesInv' /\ ThreadMoves(t) /\ (thr'[t].at = kind \/ thr'[t].at = "idle")
    BY <1>1, <2>1, EnterPlain DEF PlainAts
  <2>3. ListInv'
    BY <1>1, <2>1, <2>2, ListKept DEF ListAts
  <2> QED BY <2>2, <2>3 DEF ApiInv
<1>3. ASSUME NEW h \in Handles, NEW kind \in OpenAts \cup {"fetch", "seek", "ftruncate"}, NEW groups \in BOOLEAN,
             NEW off \in Offsets, FuseEnter(t, kind, u, h, groups, off),
             kind \in OpenAts => Unused(h),
             kind = "fetch" => KernelHas(h) /\ fh[h].mode = "read",
             kind \in {"seek", "ftruncate"} => KernelHas(h) /\ fh[h].mode \in {"create", "edit"} /\ ~Writing(h)
      PROVE  ApiInv'
  <2>1. Enter(t, kind, u, h, groups, off) /\ UNCHANGED <<fh, fdown, scene, dh, defects>>
    BY <1>3 DEF FuseEnter
  <2>2. FilesInv' /\ ThreadMoves(t) /\ (thr'[t].at = kind \/ thr'[t].at = "idle")
    BY <1>1, <1>3, <2>1, EnterFile
  <2>3. ListInv'
    BY <1>1, <2>1, <2>2, ListKept DEF ListAts, OpenAts
  <2> QED BY <2>2, <2>3 DEF ApiInv
<1>4. ASSUME NEW h \in Handles,
             \/ fuse_create(t, u, h) \/ FuseXattr(t, u, h) \/ fuse_truncate(t, u, h)
             \/ \E type \in {"read", "edit"} : fuse_open(t, u, h, type)
      PROVE  ApiInv'
  <2>1. PICK kind \in OpenAts : Unused(h) /\ FuseEnter(t, kind, u, h, TRUE, 0)
    BY <1>4 DEF fuse_create, FuseXattr, fuse_truncate, fuse_open, OpenAts
  <2>2. kind \notin {"fetch", "seek", "ftruncate"}
    BY DEF OpenAts
  <2> QED BY <1>1, <1>3, <2>1, <2>2
<1>5. ASSUME NEW h \in Handles, fuse_read(t, u, h) PROVE ApiInv'
  <2>1. KernelHas(h) /\ fh[h].mode = "read" /\ FuseEnter(t, "fetch", u, h, FALSE, 0)
    BY <1>5 DEF fuse_read
  <2> QED BY <1>1, <1>3, <2>1 DEF OpenAts
<1>6. ASSUME NEW h \in Handles, NEW off \in Offsets, fuse_write(t, u, h, off) PROVE ApiInv'
  <2>1. KernelHas(h) /\ fh[h].mode \in {"create", "edit"} /\ ~Writing(h) /\ FuseEnter(t, "seek", u, h, FALSE, off)
    BY <1>6 DEF fuse_write
  <2> QED BY <1>1, <1>3, <2>1 DEF OpenAts
<1>7. ASSUME NEW h \in Handles, fuse_ftruncate(t, u, h) PROVE ApiInv'
  <2>1. KernelHas(h) /\ fh[h].mode \in {"create", "edit"} /\ ~Writing(h) /\ FuseEnter(t, "ftruncate", u, h, TRUE, 0)
    BY <1>7 DEF fuse_ftruncate
  <2> QED BY <1>1, <1>3, <2>1 DEF OpenAts
<1>8. ASSUME NEW h \in Handles, fuse_release(t, u, h) PROVE ApiInv'
  <2>1. FilesInv' /\ ThreadMoves(t) /\ (thr'[t].at = "close" \/ thr'[t].at = "idle") /\ UNCHANGED dh
    BY <1>1, <1>8, ReleaseRequest DEF fuse_release
  <2>2. ListInv'
    BY <1>1, <2>1, ListKept DEF ListAts
  <2> QED BY <2>1, <2>2 DEF ApiInv
<1>9. CASE fuse_opendir(t, u) \/ fuse_releasedir(t, u)
  <2>1. PICK kind \in {"opendir", "closedir"}, groups \in BOOLEAN :
          /\ ~Listing /\ Enter(t, kind, u, NoOne, groups, 0) /\ UNCHANGED <<fh, fdown, scene, dh, defects>>
    BY <1>9 DEF fuse_opendir, fuse_releasedir, FuseEnter
  <2>2. FilesInv' /\ ThreadMoves(t) /\ (thr'[t].at = kind \/ thr'[t].at = "idle")
    BY <1>1, <2>1, EnterPlain DEF PlainAts, ListAts
  <2>3. ListInv'
    BY <1>1, <2>1, <2>2, ListKept DEF ListAts
  <2> QED BY <2>2, <2>3 DEF ApiInv
<1>10. CASE fuse_readdir(t, u)
  <2>1. Enter(t, "list", u, NoOne, TRUE, 0) /\ UNCHANGED <<fh, fdown, scene, defects>>
    BY <1>10 DEF fuse_readdir
  <2>2. FilesInv' /\ ThreadMoves(t) /\ (thr'[t].at = "list" \/ thr'[t].at = "idle")
    BY <1>1, <2>1, EnterPlain DEF PlainAts, ListAts
  <2>3. ListInv'
    BY <1>1, <1>10, <2>2, ReaddirRequest
  <2> QED BY <2>2, <2>3 DEF ApiInv
<1> QED BY <1>2, <1>4, <1>5, <1>6, <1>7, <1>8, <1>9, <1>10 DEF Request

\* a thread goes on with its request
LEMMA ThreadStepIsRight ==
  ASSUME ApiInv, NEW t \in Threads, ThreadStep(t)
  PROVE  ApiInv'
<1>1. FilesInv /\ ListInv /\ Typed /\ Identities
  BY DEF ApiInv, FilesInv
<1>2. ASSUME Return(t) \/ (ReturnAs(t) /\ "readlink" \in defects'), defects \subseteq defects',
             UNCHANGED <<fh, fdown>>, thr[t].at \in PlainAts \ {"idle"}
      PROVE  FilesInv' /\ ThreadMoves(t) /\ thr'[t].at = "idle"
  <2>1. ~Idle(t) /\ thr[t].h = NoOne
    BY <1>1, <1>2 DEF Idle, FilesInv, Places, Place
  <2>2. ThreadMoves(t) /\ thr'[t].at = "idle" /\ thr'[t].h = NoOne
    BY <1>1, <1>2, <2>1, ReturnStep
  <2> QED BY <1>1, <1>2, <2>1, <2>2, PlainStep DEF PlainAts
<1>3. CASE FusePathDone(t) \/ Readlink(t)
  <2>1. /\ Return(t) \/ (ReturnAs(t) /\ "readlink" \in defects')
        /\ defects \subseteq defects' /\ UNCHANGED <<fh, fdown, dh>> /\ thr[t].at \in PlainAts \ {"idle"}
    BY <1>3 DEF FusePathDone, Readlink, PlainAts
  <2>2. FilesInv' /\ ThreadMoves(t) /\ thr'[t].at = "idle"
    BY <1>2, <2>1
  <2> QED BY <1>1, <2>1, <2>2, ListKept DEF ApiInv, ListAts
<1>4. ASSUME FilesInv', ThreadMoves(t), thr'[t].at \notin ListAts, UNCHANGED dh PROVE ApiInv'
  BY <1>1, <1>4, ListKept DEF ApiInv
<1>5. CASE Create(t) \/ Open(t)
  <2>1. UNCHANGED dh
    BY <1>5 DEF Create, Open
  <2> QED BY <1>1, <1>4, <1>5, <2>1, KernelOpens DEF ListAts
<1>6. CASE XattrOpen(t) \/ TruncateOpen(t)
  <2>1. UNCHANGED dh
    BY <1>6 DEF XattrOpen, TruncateOpen
  <2> QED BY <1>1, <1>4, <1>6, <2>1, ThreadOpens DEF ListAts
<1>7. CASE Read(t) \/ Write(t) \/ Ftruncate(t)
  <2>1. UNCHANGED dh
    BY <1>7 DEF Read, Write, Ftruncate
  <2> QED BY <1>1, <1>4, <1>7, <2>1, KernelCalls DEF ListAts
<1>8. CASE Seek(t)
  <2>1. UNCHANGED dh
    BY <1>8 DEF Seek
  <2> QED BY <1>1, <1>4, <1>8, <2>1, SeekRequest DEF ListAts
<1>9. CASE Release(t) \/ XattrRelease(t) \/ TruncateClose(t)
  <2>1. UNCHANGED dh
    BY <1>9 DEF Release, XattrRelease, TruncateClose
  <2> QED BY <1>1, <1>4, <1>9, <2>1, ThreadCloses DEF ListAts
<1>10. CASE XattrCall(t) \/ Truncate(t)
  <2>1. UNCHANGED dh
    BY <1>10 DEF XattrCall, Truncate
  <2> QED BY <1>1, <1>4, <1>10, <2>1, ThreadCalls DEF ListAts
<1>11. CASE Opendir(t) \/ marfs_closedir(t)
  <2>1. Return(t) /\ UNCHANGED <<fh, fdown, defects>> /\ thr[t].at \in PlainAts \ {"idle"}
    BY <1>11 DEF Opendir, marfs_closedir, PlainAts, ListAts
  <2>2. FilesInv' /\ ThreadMoves(t) /\ thr'[t].at = "idle"
    BY <1>2, <2>1
  <2>3. ListInv'
    BY <1>1, <1>11, <2>2, OpendirStep
  <2> QED BY <2>2, <2>3 DEF ApiInv
<1>12. CASE ReaddirStep(t)
  <2>1. /\ thr' = thr \/ Return(t)
        /\ UNCHANGED <<fh, fdown, defects>> /\ thr[t].at \in PlainAts \ {"idle"}
    <3>1. dh \in DirSet
      BY <1>1 DEF ListInv
    <3>2. thr' = thr \/ Return(t)
      BY <1>12, <3>1, ReaddirOutcomes
    <3> QED BY <1>12, <3>2 DEF ReaddirStep, PlainAts, ListAts
  <2>2. Return(t) => FilesInv' /\ ThreadMoves(t) /\ thr'[t].at = "idle"
    BY <1>2, <2>1
  <2>3. ListInv'
    BY <1>1, <1>12, <2>1, <2>2, ReaddirStepIsRight
  <2>4. thr' = thr => FilesInv'
    BY <1>1, <2>1 DEF FilesInv, Typed, Known, Matched, Places, Place, IsNew, KernelHas, Alone,
                      Identities, Caller, Returns, Idle, HandlesHaveHolders
  <2> QED BY <2>1, <2>2, <2>3, <2>4 DEF ApiInv
<1> QED BY <1>3, <1>5, <1>6, <1>7, <1>8, <1>9, <1>10, <1>11, <1>12 DEF ThreadStep

\* every step keeps it
LEMMA ApiStep == ApiInv /\ [Next]_vars => ApiInv'
<1> SUFFICES ASSUME ApiInv, [Next]_vars PROVE ApiInv'
  OBVIOUS
<1>1. FilesInv /\ ListInv
  BY DEF ApiInv
<1>2. ASSUME UNCHANGED <<thr, fh, fdown, defects>> PROVE FilesInv'
  BY <1>1, <1>2 DEF FilesInv, Typed, Known, Matched, Places, Place, IsNew, KernelHas, Alone,
                    Identities, Caller, Returns, Idle, HandlesHaveHolders
<1>3. ASSUME UNCHANGED <<thr, dh>> PROVE ListInv'
  BY <1>1, <1>3 DEF ListInv, OneLists, InPlace, AllGiven, AtStart
<1>4. CASE \E t \in Threads, u \in Callers : Request(t, u)
  BY <1>4, RequestStep
<1>5. CASE \E t \in Threads : ThreadStep(t)
  BY <1>5, ThreadStepIsRight
<1>6. ASSUME NEW h \in Handles, ClientCall(h) PROVE ApiInv'
  <2>1. UNCHANGED <<thr, dh>>
    BY <1>6 DEF ClientCall
  <2>2. FilesInv'
    BY <1>1, <1>6, ClientCalls
  <2> QED BY <1>3, <2>1, <2>2 DEF ApiInv
<1>7. CASE KernelSeeks
  BY <1>1, <1>2, <1>7, KernelSeeksStep DEF KernelSeeks, ApiInv
<1>8. CASE UNCHANGED vars
  BY <1>2, <1>3, <1>8 DEF vars, ApiInv
<1> QED BY <1>4, <1>5, <1>6, <1>7, <1>8 DEF Next

\* The invariant: descriptors and handles, what each thread is about, whose credentials it has,
\* and what has been listed, hold together in every step of the API and of FUSE.
THEOREM ApiInvariant == Spec => []ApiInv
BY ApiInitInv, ApiStep, PTL DEF Spec

\* Descriptors belong to the handles they were opened for, and none is left open without one,
\* unless marfs_read() has lost a stream; a live handle has the kernel, the program or a request
\* for a holder, unless a truncation or a return failed in the ways the code does not repair.
THEOREM HandlesSound == Spec => []HandlesAreSound
<1>1. ApiInv => HandlesAreSound
  <2>1. ApiInv => DescriptorsMatchHandles
    BY DEF ApiInv, FilesInv, Known, Matched, DescriptorsMatchHandles
  <2> QED BY <2>1 DEF ApiInv, FilesInv, HandlesAreSound
<1> QED BY <1>1, ApiInvariant, PTL

\* A request acts as its caller (enter_user()), and leaves the daemon behind (exit_user()); a
\* write goes where the kernel asked, although seek and write take the lock twice; and a listing
\* that has ended gave every name once, in order, wherever its answers were cut.
THEOREM RequestsRight == Spec => []RequestsAreRight
<1>1. ApiInv => ActsAsCaller /\ IdleIsDaemon
  BY DEF ApiInv, FilesInv, Identities, Caller, Returns, ActsAsCaller, IdleIsDaemon
<1>2. ApiInv => WritesLandRight
  BY DEF ApiInv, FilesInv, Places, Place, WritesLandRight
<1>3. ApiInv => RequestsAreRight
  BY <1>1, <1>2, ListIsComplete DEF ApiInv, RequestsAreRight
<1> QED BY <1>3, ApiInvariant, PTL
=============================================================================
